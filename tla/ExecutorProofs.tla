--------------------------- MODULE ExecutorProofs ---------------------------
(****************************************************************************)
(* The executor and its controller, for every set of plans, every limit and *)
(* every number of pauses, continuations, additional tasks and rollbacks.   *)
(* First the controller alone; then the executor's graphs; then what a call *)
(* leaves to the next one: its result, its client and its counters; and at  *)
(* last that a run implements TaskRun.                                      *)
(****************************************************************************)
EXTENDS Executor, TaskGraphProofs

----------------------------------------------------------------------------
(* The controller on its own.                                               *)

\* A new controller is well typed.
LEMMA LoopInitType == LoopInit => LoopTypeOK
<1>1. LoopInit =>
        /\ iterationCount \in Nat /\ fixIterationCount \in Nat
        /\ planningCycleCount \in Nat /\ maxIterations \in Nat
  BY LimitsAssumption DEF LoopInit
<1>2. LoopInit =>
        /\ state \in LoopState
        /\ terminationReason \in TerminationReason \cup {"none"}
  BY DEF LoopInit, LoopState
<1>3. LoopInit => needsUserContinue \in BOOLEAN /\ expired \in BOOLEAN
  BY DEF LoopInit
<1> QED
  BY <1>1, <1>2, <1>3 DEF LoopTypeOK

\* Whatever the executor does with its controller: it may also build another,
\* or start one that is not new.
LoopStep == LoopNext \/ start \/ NewController

\* No method leaves the states, or takes a counter below zero.
LEMMA LoopTypeInductive ==
    ASSUME LoopTypeOK, [LoopStep]_loopVars
    PROVE  LoopTypeOK'
<1> USE DEF LoopTypeOK
<1>1. CASE start
  BY <1>1 DEF start, LoopState
<1>2. CASE ClockExpires
  BY <1>2 DEF ClockExpires
<1>3. CASE begin_iteration_TimesOut
  BY <1>3 DEF begin_iteration_TimesOut, Terminate, TerminalStateOf, LoopState,
     TerminationReason
<1>4. CASE begin_iteration_Pauses
  BY <1>4 DEF begin_iteration_Pauses, LoopState
<1>5. CASE \E agent \in AgentType : begin_iteration(agent)
  BY <1>5 DEF begin_iteration, AgentType, StateOf, LoopState
<1>6. CASE reset_fix_counter
  BY <1>6 DEF reset_fix_counter
<1>7. CASE reset_for_new_task
  <2>1. /\ iterationCount' \in Nat /\ fixIterationCount' \in Nat
        /\ planningCycleCount' \in Nat /\ maxIterations' \in Nat
    BY <1>7 DEF reset_for_new_task
  <2>2. state' \in LoopState /\ terminationReason' \in TerminationReason \cup {"none"}
    BY <1>7 DEF reset_for_new_task, LoopState
  <2>3. needsUserContinue' \in BOOLEAN /\ expired' \in BOOLEAN
    BY <1>7 DEF reset_for_new_task
  <2> QED
    BY <2>1, <2>2, <2>3
<1>8. CASE maxIterations + Extension <= IterationCap /\ extend_iterations
  <2>1. maxIterations' \in Nat
    BY <1>8, LimitsAssumption DEF extend_iterations
  <2>2. state' \in LoopState /\ needsUserContinue' \in BOOLEAN
    BY <1>8 DEF extend_iterations, LoopState
  <2>3. UNCHANGED <<iterationCount, fixIterationCount, planningCycleCount,
                    terminationReason, expired>>
    BY <1>8 DEF extend_iterations
  <2> QED
    BY <2>1, <2>2, <2>3
<1>9. CASE decline_continue
  BY <1>9 DEF decline_continue, TerminalStateOf, LoopState, TerminationReason,
     FailureReason
<1>10. CASE Terminate("SUCCESS") \/ Terminate("USER_ABORT")
  BY <1>10 DEF Terminate, TerminalStateOf, LoopState, TerminationReason
<1>11. CASE \E reason \in FailureReason : Terminate(reason)
  BY <1>11 DEF Terminate, TerminalStateOf, LoopState, TerminationReason,
     FailureReason
<1>12. CASE UNCHANGED loopVars
  BY <1>12 DEF loopVars
<1>13. CASE NewController
  <2>1. /\ iterationCount' \in Nat /\ fixIterationCount' \in Nat
        /\ planningCycleCount' \in Nat /\ maxIterations' \in Nat
    BY <1>13, LimitsAssumption DEF NewController
  <2>2. state' \in LoopState /\ terminationReason' \in TerminationReason \cup {"none"}
    BY <1>13 DEF NewController, LoopState
  <2>3. needsUserContinue' \in BOOLEAN /\ expired' \in BOOLEAN
    BY <1>13 DEF NewController
  <2> QED
    BY <2>1, <2>2, <2>3
<1> QED
  BY <1>1, <1>2, <1>3, <1>4, <1>5, <1>6, <1>7, <1>8, <1>9, <1>10, <1>11, <1>12, <1>13
  DEF LoopNext, LoopStep

\* The state machine cannot leave its states, nor a counter the naturals.
THEOREM LoopTypeCorrect == LoopSpec => []LoopTypeOK
<1>1. LoopInit => LoopTypeOK
  BY LoopInitType
<1>2. LoopTypeOK /\ [LoopNext]_loopVars => LoopTypeOK'
  BY LoopTypeInductive DEF LoopStep
<1> QED
  BY <1>1, <1>2, PTL DEF LoopSpec

----------------------------------------------------------------------------
\* The two budget invariants are inductive together with the type invariant
\* and the fact that the limit in force is never below the configured one.
LoopInv ==
    /\ LoopTypeOK
    /\ IterationBudget
    /\ PauseMeansBudgetSpent
    /\ maxIterations >= MaxLoopIterations

\* It holds of a new controller.
LEMMA LoopInvInit == LoopInit => LoopInv
<1>1. LoopInit => IterationBudget /\ maxIterations >= MaxLoopIterations
  BY LimitsAssumption DEF LoopInit, IterationBudget
<1>2. LoopInit => PauseMeansBudgetSpent
  BY DEF LoopInit, PauseMeansBudgetSpent
<1> QED
  BY <1>1, <1>2, LoopInitType DEF LoopInv

\* The strengthened invariant survives every method of the controller.
LEMMA LoopInvInductive ==
    ASSUME LoopInv, [LoopStep]_loopVars
    PROVE  LoopInv'
<1>0. LoopTypeOK'
  BY LoopTypeInductive DEF LoopInv
<1> USE <1>0, LimitsAssumption DEF LoopInv, LoopTypeOK, IterationBudget, PauseMeansBudgetSpent
<1>1. CASE start
  BY <1>1 DEF start
<1>2. CASE ClockExpires
  BY <1>2 DEF ClockExpires
<1>3. CASE begin_iteration_TimesOut
  BY <1>3 DEF begin_iteration_TimesOut, Terminate
<1>4. CASE begin_iteration_Pauses
  BY <1>4 DEF begin_iteration_Pauses
<1>5. CASE \E agent \in AgentType : begin_iteration(agent)
  <2> PICK agent \in AgentType : begin_iteration(agent)
    BY <1>5
  <2>1. CASE agent = "planner"
    BY <2>1 DEF begin_iteration
  <2>2. CASE agent = "fixer"
    BY <2>2 DEF begin_iteration
  <2>3. CASE agent \notin {"planner", "fixer"}
    BY <2>3 DEF begin_iteration
  <2> QED
    BY <2>1, <2>2, <2>3
<1>6. CASE reset_fix_counter
  BY <1>6 DEF reset_fix_counter
<1>7. CASE reset_for_new_task
  BY <1>7 DEF reset_for_new_task
<1>8. CASE maxIterations + Extension <= IterationCap /\ extend_iterations
  BY <1>8 DEF extend_iterations
<1>9. CASE decline_continue
  BY <1>9 DEF decline_continue
<1>10. CASE Terminate("SUCCESS") \/ Terminate("USER_ABORT")
  BY <1>10 DEF Terminate
<1>11. CASE \E reason \in FailureReason : Terminate(reason)
  BY <1>11 DEF Terminate
<1>12. CASE UNCHANGED loopVars
  BY <1>12 DEF loopVars
<1>13. CASE NewController
  BY <1>13 DEF NewController
<1> QED
  BY <1>1, <1>2, <1>3, <1>4, <1>5, <1>6, <1>7, <1>8, <1>9, <1>10, <1>11, <1>12, <1>13
  DEF LoopNext, LoopStep

\* It holds of every execution of the controller.
LEMMA LoopInvCorrect == LoopSpec => []LoopInv
<1>1. LoopInit => LoopInv
  BY LoopInvInit
<1>2. LoopInv /\ [LoopNext]_loopVars => LoopInv'
  BY LoopInvInductive DEF LoopStep
<1> QED
  BY <1>1, <1>2, PTL DEF LoopSpec

\* No order of calls obtains an iteration beyond the limit in force.
THEOREM BudgetIsKept == LoopSpec => []IterationBudget
<1>1. LoopInv => IterationBudget
  BY DEF LoopInv
<1> QED
  BY <1>1, LoopInvCorrect, PTL

\* The user is never asked to continue before a full budget is spent.
THEOREM PauseIsEarned == LoopSpec => []PauseMeansBudgetSpent
<1>1. LoopInv => PauseMeansBudgetSpent
  BY DEF LoopInv
<1> QED
  BY <1>1, LoopInvCorrect, PTL

----------------------------------------------------------------------------
(* The graphs.                                                              *)

Started == {"RUNNING", "COMPLETED", "FAILED"}

\* A graph any call may have left behind: what was started has its dependencies
\* COMPLETED, and what is RUNNING comes next in an iteration whose emitted nodes
\* are all terminal.
GoodGraph(d, s) ==
    /\ d \in Plans \cup {<<>>}
    /\ s \in [DOMAIN d -> TaskStatus \ {"READY", "SKIPPED"}]
    /\ \A t \in DOMAIN d : s[t] \in Started =>
        \A x \in Before(d, t) : s[x] = "COMPLETED"
    /\ \A u \in DOMAIN d : s[u] = "RUNNING" =>
        \E V \in Prefixes(d) : NextIn(d, u, V) /\ \A v \in V : s[v] \in TerminalStatus

\* No PENDING node waits for a node that was given up, X excepted.
SettledBut(d, s, X) ==
    \A t \in DOMAIN d : s[t] = "PENDING" =>
        \A x \in Before(d, t) \ X : s[x] \notin {"FAILED", "BLOCKED"}

Stored(g) == GoodGraph(g.deps, g.status) /\ SettledBut(g.deps, g.status, {})

Iterates == pc = "next" \/ InTask \/ pc = "settle"

GraphsInv ==
    /\ GoodGraph(deps, status)
    /\ SettledBut(deps, status, IF pc = "settle" THEN {task} ELSE {})
    /\ Stored(kept)
    /\ \A cp \in checkpoints : Stored(cp)

IterationInv ==
    /\ call = "none" <=> pc = "idle"
    /\ pc \in Phases \cup {"idle"}
    /\ pc \in {"idle", "check", "plan", "plan_failed", "order"} => visited = {}
    /\ Iterates => /\ Acyclic
                   /\ visited \in Prefixes(deps)
                   /\ \A v \in visited : status[v] \in TerminalStatus
    /\ InTask \/ pc = "settle" => task \in Nodes /\ NextIn(deps, task, visited)
    /\ InTask => status[task] = "RUNNING"
    /\ pc = "settle" => status[task] \in {"COMPLETED", "FAILED"}

ExecInv == GraphsInv /\ IterationInv

----------------------------------------------------------------------------
\* The ids of every plan are numbers.
LEMMA DomainsAreIntegers ==
    ASSUME NEW d \in Plans \cup {<<>>}
    PROVE  DOMAIN d \subseteq Int
BY PlansAssumption

\* The order of the executor's iteration is the order of the prefixes.
LEMMA SameOrder ==
    /\ \A t \in Nodes : KnownDeps(t) = Before(deps, t)
    /\ \A V : Available(V) = FreeIn(deps, V)
    /\ \A t, V : ComesNext(t, V) <=> NextIn(deps, t, V)
BY DEF KnownDeps, Before, Available, FreeIn, ComesNext, NextIn, Nodes

\* A graph nothing was started in.
LEMMA EmptyGraphIsStored == Stored(NoGraph)
<1>1. NoGraph.deps = <<>> /\ NoGraph.status = <<>>
  BY DEF NoGraph
<1>2. GoodGraph(<<>>, <<>>) /\ SettledBut(<<>>, <<>>, {})
  BY DEF GoodGraph, SettledBut
<1> QED
  BY <1>1, <1>2 DEF Stored

\* The graph of a plan just accepted, all of it PENDING.
LEMMA NewGraphIsStored ==
    ASSUME NEW plan \in Plans
    PROVE  Stored([deps |-> plan, status |-> [t \in DOMAIN plan |-> "PENDING"]])
<1> DEFINE s == [t \in DOMAIN plan |-> "PENDING"]
<1>1. \A t \in DOMAIN plan : s[t] = "PENDING"
  OBVIOUS
<1>2. DOMAIN s = DOMAIN plan /\ s \in [DOMAIN plan -> TaskStatus \ {"READY", "SKIPPED"}]
  BY DEF TaskStatus
<1> HIDE DEF s
<1>3. GoodGraph(plan, s) /\ SettledBut(plan, s, {})
  BY <1>1, <1>2 DEF GoodGraph, SettledBut, Started, Before
<1> QED
  BY <1>3 DEF Stored, s

\* _task_graph, iterated or set aside.
LEMMA OwnGraphIsStored ==
    ASSUME GraphsInv, pc # "settle"
    PROVE  Stored(OwnGraph)
<1>1. CASE active = "own"
  <2>1. OwnGraph = [deps |-> deps, status |-> status]
    BY <1>1 DEF OwnGraph
  <2>2. GoodGraph(deps, status) /\ SettledBut(deps, status, {})
    BY DEF GraphsInv
  <2> QED
    BY <2>1, <2>2 DEF Stored
<1>2. CASE active # "own"
  BY <1>2 DEF OwnGraph, GraphsInv
<1> QED
  BY <1>1, <1>2

\* When an iteration meets a node that is not terminal, no other is RUNNING.
LEMMA NothingElseRuns ==
    ASSUME NEW d, NEW s, GoodGraph(d, s),
           NEW V \in Prefixes(d), \A v \in V : s[v] \in TerminalStatus,
           NEW t \in DOMAIN d, NextIn(d, t, V), s[t] \notin TerminalStatus,
           NEW u \in DOMAIN d, s[u] = "RUNNING"
    PROVE  u = t
<1>1. DOMAIN d \subseteq Int
  BY DomainsAreIntegers DEF GoodGraph
<1>2. PICK W \in Prefixes(d) : NextIn(d, u, W) /\ \A v \in W : s[v] \in TerminalStatus
  BY DEF GoodGraph
<1>3. CASE V = W
  BY <1>1, <1>2, <1>3, NextIsUnique
<1>4. CASE V \subseteq W /\ V # W
  <2>1. t \in W
    BY <1>1, <1>4, PrefixesExtend DEF Extends
  <2> QED
    BY <2>1, <1>2
<1>5. CASE u \in V
  BY <1>5 DEF TerminalStatus
<1> QED
  BY <1>1, <1>2, <1>3, <1>4, <1>5, PrefixesAreAChain

----------------------------------------------------------------------------
(* The pieces the actions are made of.                                      *)

\* The end of a call.
LEMMA ReturnKeeps ==
    ASSUME ExecInv, pc # "settle", NEW success, NEW needs, Return(success, needs)
    PROVE  ExecInv'
<1>1. /\ UNCHANGED <<deps, status, kept, checkpoints>>
      /\ call' = "none" /\ pc' = "idle" /\ visited' = {}
  BY DEF Return, graphVars, ownVars, sessionVars
<1>2. GraphsInv'
  BY <1>1 DEF ExecInv, GraphsInv
<1>3. IterationInv'
  BY <1>1 DEF IterationInv, Iterates, InTask
<1> QED
  BY <1>2, <1>3 DEF ExecInv

\* A step outside the iteration that changes no graph.
LEMMA GotoKeeps ==
    ASSUME ExecInv, pc \notin {"settle", "idle"},
           NEW at \in {"check", "plan", "plan_failed", "raised"}, Goto(at),
           UNCHANGED <<graphVars, visited>>,
           at # "raised" => pc \in {"check", "plan"}
    PROVE  ExecInv'
<1>1. /\ UNCHANGED <<deps, status, kept, checkpoints, call, visited>>
      /\ pc' = at
  BY DEF Goto, graphVars, ownVars, sessionVars
<1>2. GraphsInv'
  BY <1>1 DEF ExecInv, GraphsInv
<1>3. IterationInv'
  BY <1>1 DEF ExecInv, IterationInv, Iterates, InTask, Phases
<1> QED
  BY <1>2, <1>3 DEF ExecInv

\* A step of the cycle that neither starts nor ends a task.
LEMMA WorkKeeps ==
    ASSUME ExecInv, InTask, NEW at \in {"tools", "code", "review", "fix"}, Work(at)
    PROVE  ExecInv'
<1>1. /\ UNCHANGED <<deps, status, kept, checkpoints, call, visited, task>>
      /\ pc' = at /\ Nodes' = Nodes /\ InTask'
  BY DEF Work, Goto, graphVars, ownVars, sessionVars, Nodes, InTask
<1>2. GraphsInv'
  BY <1>1 DEF ExecInv, GraphsInv, InTask
<1>3. Acyclic'
  BY <1>1 DEF ExecInv, IterationInv, Iterates, Acyclic, KnownDeps
<1>4. IterationInv'
  BY <1>1, <1>3 DEF ExecInv, IterationInv, Iterates, InTask, Phases
<1> QED
  BY <1>2, <1>4 DEF ExecInv

\* The end of a task.
LEMMA EndKeeps ==
    ASSUME ExecInv, InTask, FailTask \/ CompleteTask
    PROVE  ExecInv'
<1>1. /\ UNCHANGED <<deps, kept, checkpoints, call, visited, task>>
      /\ pc' = "settle" /\ Nodes' = Nodes
  BY DEF FailTask, CompleteTask, mark_failed, mark_completed, Transition, Goto,
     ownVars, sessionVars, taskVars, Nodes
<1>2. PICK next \in {"COMPLETED", "FAILED"} : status' = [status EXCEPT ![task] = next]
  BY DEF FailTask, CompleteTask, mark_failed, mark_completed, Transition
<1>3. /\ task \in Nodes /\ status[task] = "RUNNING" /\ NextIn(deps, task, visited)
      /\ Acyclic /\ visited \in Prefixes(deps)
      /\ \A v \in visited : status[v] \in TerminalStatus
      /\ call # "none"
  BY DEF ExecInv, IterationInv, Iterates, InTask
<1>4. GoodGraph(deps, status) /\ SettledBut(deps, status, {})
  BY DEF ExecInv, GraphsInv, InTask
<1>5. \A t \in Nodes : status'[t] = IF t = task THEN next ELSE status[t]
  BY <1>2, <1>4 DEF GoodGraph, Nodes
<1>6. status' \in [Nodes -> TaskStatus \ {"READY", "SKIPPED"}]
  BY <1>2, <1>4 DEF GoodGraph, Nodes, TaskStatus
<1>7. GoodGraph(deps, status')
  <2>1. ASSUME NEW t \in Nodes, status'[t] \in Started, NEW x \in Before(deps, t)
        PROVE  status'[x] = "COMPLETED"
    <3>1. status[t] \in Started
      BY <1>3, <1>5, <2>1 DEF Started
    <3>2. x \in Nodes /\ status[x] = "COMPLETED"
      BY <3>1, <1>4 DEF GoodGraph, Before, Nodes
    <3> QED
      BY <3>2, <1>3, <1>5
  <2>2. ASSUME NEW u \in Nodes, status'[u] = "RUNNING"
        PROVE  \E V \in Prefixes(deps) :
                  NextIn(deps, u, V) /\ \A v \in V : status'[v] \in TerminalStatus
    <3>1. status[u] = "RUNNING"
      BY <1>5, <2>2
    <3>2. PICK V \in Prefixes(deps) :
            NextIn(deps, u, V) /\ \A v \in V : status[v] \in TerminalStatus
      BY <3>1, <1>4 DEF GoodGraph, Nodes
    <3>3. V \subseteq Nodes
      BY DEF Prefixes, Nodes
    <3> QED
      BY <3>2, <3>3, <1>5 DEF TerminalStatus
  <2> QED
    BY <2>1, <2>2, <1>4, <1>6 DEF GoodGraph, Nodes
<1>8. SettledBut(deps, status', {task})
  BY <1>4, <1>5 DEF SettledBut, Before, Nodes
<1>9. GraphsInv'
  BY <1>1, <1>7, <1>8 DEF ExecInv, GraphsInv
<1>10. task \notin visited
  BY <1>3 DEF NextIn, FreeIn
<1>11. Acyclic'
  BY <1>1, <1>3 DEF Acyclic, KnownDeps
<1>12. visited \subseteq Nodes
  BY <1>3 DEF Prefixes, Nodes
<1>13. \A v \in visited : status'[v] \in TerminalStatus
  BY <1>3, <1>5, <1>10, <1>12
<1>14. status'[task] \in {"COMPLETED", "FAILED"}
  BY <1>3, <1>5
<1>15. IterationInv'
  BY <1>1, <1>3, <1>11, <1>13, <1>14
  DEF ExecInv, IterationInv, Iterates, InTask, Phases
<1> QED
  BY <1>9, <1>15 DEF ExecInv

\* A plan becomes a graph, and _task_graph is set aside for a local one.
LEMMA AcceptPlanKeeps ==
    ASSUME ExecInv, pc = "plan", NEW plan \in Plans, AcceptPlan(plan)
    PROVE  ExecInv'
<1>1. /\ deps' = plan /\ status' = [t \in DOMAIN plan |-> "PENDING"]
      /\ pc' \in {"order", "raised"}
      /\ UNCHANGED <<call, visited, task>>
  BY DEF AcceptPlan, NewGraph, taskVars
<1>2. Stored([deps |-> deps', status |-> status'])
  BY <1>1, NewGraphIsStored
<1>3. Stored(OwnGraph)
  BY OwnGraphIsStored DEF ExecInv
<1>4. Stored(kept')
  BY <1>3, EmptyGraphIsStored DEF AcceptPlan
<1>5. Stored(OwnGraph')
  BY <1>2, <1>4 DEF OwnGraph
<1>6. \A cp \in checkpoints' : Stored(cp)
  BY <1>5 DEF AcceptPlan, Checkpoint, ExecInv, GraphsInv
<1>7. GoodGraph(deps', status') /\ SettledBut(deps', status', {})
  BY <1>2 DEF Stored
<1>8. GraphsInv'
  BY <1>1, <1>4, <1>6, <1>7 DEF GraphsInv
<1>9. visited = {} /\ call # "none"
  BY DEF ExecInv, IterationInv
<1>10. IterationInv'
  BY <1>1, <1>9 DEF IterationInv, Iterates, InTask, Phases
<1> QED
  BY <1>8, <1>10 DEF ExecInv

----------------------------------------------------------------------------
(* The iteration.                                                           *)

\* A node the iteration meets before it is terminal has its dependencies
\* COMPLETED, and nothing else is RUNNING.
LEMMA MetInOrder ==
    ASSUME ExecInv, pc = "next",
           NEW t \in Nodes, ComesNext(t, visited), status[t] = "PENDING"
    PROVE  /\ \A x \in KnownDeps(t) : status[x] = "COMPLETED"
           /\ \A u \in Nodes : status[u] # "RUNNING"
<1>1. /\ GoodGraph(deps, status) /\ SettledBut(deps, status, {})
      /\ visited \in Prefixes(deps)
      /\ \A v \in visited : status[v] \in TerminalStatus
  BY DEF ExecInv, GraphsInv, IterationInv, Iterates
<1>2. NextIn(deps, t, visited)
  BY SameOrder
<1>3. ASSUME NEW x \in KnownDeps(t)
      PROVE  status[x] = "COMPLETED"
  <2>1. x \in Before(deps, t) /\ x \in visited /\ x \in Nodes
    BY <1>2, <1>3, SameOrder DEF NextIn, FreeIn, KnownDeps
  <2>2. status[x] \in TerminalStatus \ {"FAILED", "BLOCKED"}
    BY <1>1, <2>1 DEF SettledBut, Nodes
  <2>3. status[x] # "SKIPPED"
    BY <1>1, <2>1 DEF GoodGraph, Nodes
  <2> QED
    BY <2>2, <2>3 DEF TerminalStatus
<1>4. ASSUME NEW u \in Nodes, status[u] = "RUNNING"
      PROVE  FALSE
  <2>1. u = t
    BY <1>1, <1>2, <1>4, NothingElseRuns DEF Nodes, TerminalStatus
  <2> QED
    BY <2>1, <1>4
<1> QED
  BY <1>3, <1>4

\* The start of a task, its checkpoint included.
LEMMA StartKeeps ==
    ASSUME ExecInv, StartTask
    PROVE  ExecInv'
<1>1. PICK t \in Nodes : ComesNext(t, visited) /\ mark_running(t) /\ task' = t
  BY DEF StartTask
<1>2. /\ pc = "next" /\ pc' \in {"tools", "raised"}
      /\ deps' = deps /\ Nodes' = Nodes
      /\ UNCHANGED <<call, visited, kept, active>>
  BY <1>1 DEF StartTask, mark_running, Transition, Nodes, ownVars
<1>3. /\ GoodGraph(deps, status) /\ SettledBut(deps, status, {}) /\ Stored(kept)
      /\ Acyclic /\ visited \in Prefixes(deps) /\ call # "none"
      /\ \A v \in visited : status[v] \in TerminalStatus
  BY <1>2 DEF ExecInv, GraphsInv, IterationInv, Iterates
<1>4. status[t] = "PENDING"
  BY <1>1, <1>3 DEF mark_running, Transition, CanTransition, AllowedTransitions,
     GoodGraph, TaskStatus, Nodes
<1>5. status' = [status EXCEPT ![t] = "RUNNING"]
  BY <1>1 DEF mark_running, Transition
<1>6. /\ \A u \in Nodes : status'[u] = IF u = t THEN "RUNNING" ELSE status[u]
      /\ status' \in [Nodes -> TaskStatus \ {"READY", "SKIPPED"}]
  BY <1>3, <1>5 DEF GoodGraph, Nodes, TaskStatus
<1>7. NextIn(deps, t, visited) /\ t \notin visited /\ visited \subseteq Nodes
  BY <1>1, <1>3, SameOrder DEF NextIn, FreeIn, Prefixes, Nodes
<1>8. /\ \A x \in Before(deps, t) : status[x] = "COMPLETED"
      /\ \A u \in Nodes : status[u] # "RUNNING"
  BY <1>1, <1>2, <1>4, MetInOrder, SameOrder
<1>9. \A v \in visited : status'[v] \in TerminalStatus
  BY <1>3, <1>6, <1>7
<1>10. GoodGraph(deps, status')
  <2>1. ASSUME NEW u \in Nodes, status'[u] \in Started, NEW x \in Before(deps, u)
        PROVE  status'[x] = "COMPLETED"
    <3>1. x \in Nodes
      BY <2>1 DEF Before, Nodes
    <3>2. status[x] = "COMPLETED"
      BY <2>1, <1>3, <1>6, <1>8 DEF GoodGraph, Nodes
    <3> QED
      BY <3>1, <3>2, <1>4, <1>6
  <2>2. ASSUME NEW u \in Nodes, status'[u] = "RUNNING"
        PROVE  u = t
    BY <2>2, <1>6, <1>8
  <2> QED
    BY <2>1, <2>2, <1>3, <1>6, <1>7, <1>9 DEF GoodGraph, Nodes
<1>11. SettledBut(deps, status', {})
  BY <1>3, <1>6 DEF SettledBut, Before, Nodes
<1>12. Stored([deps |-> deps', status |-> status'])
  BY <1>2, <1>10, <1>11 DEF Stored
<1>13. Stored(OwnGraph')
  BY <1>2, <1>3, <1>12 DEF OwnGraph
<1>14. \A cp \in checkpoints' : Stored(cp)
  BY <1>13 DEF StartTask, Checkpoint, ExecInv, GraphsInv
<1>15. GraphsInv'
  BY <1>2, <1>3, <1>10, <1>11, <1>14 DEF GraphsInv
<1>16. Acyclic'
  BY <1>2, <1>3 DEF Acyclic, KnownDeps
<1>17. IterationInv'
  BY <1>1, <1>2, <1>3, <1>6, <1>7, <1>9, <1>16
  DEF IterationInv, Iterates, InTask, Phases
<1> QED
  BY <1>15, <1>17 DEF ExecInv

\* propagate_failure settles the graph again.
LEMMA PropagationSettles ==
    ASSUME NEW f \in Nodes, GoodGraph(deps, status), SettledBut(deps, status, {f})
    PROVE  /\ GoodGraph(deps, PropagateFailure(f, status))
           /\ SettledBut(deps, PropagateFailure(f, status), {})
<1> DEFINE s == PropagateFailure(f, status)
           B == BlockedBy(f, status)
<1>1. B \subseteq Nodes /\ \A t \in B : status[t] = "PENDING"
  BY BlockedByWasPending
<1>2. \A t \in Nodes : s[t] = IF t \in B THEN "BLOCKED" ELSE status[t]
  BY DEF PropagateFailure
<1>3. s \in [Nodes -> TaskStatus \ {"READY", "SKIPPED"}]
  BY <1>2 DEF GoodGraph, PropagateFailure, TaskStatus, Nodes
<1>4. \A t \in B \cup {f} : \A d \in Dependents(t) : status[d] = "PENDING" => d \in B
  BY BlockedByIsClosed DEF ClosedUnderBlocking
<1> HIDE DEF s, B
<1>5. ASSUME NEW t \in Nodes, s[t] \in Started, NEW x \in Before(deps, t)
      PROVE  s[x] = "COMPLETED"
  <2>1. x \in Nodes /\ status[t] \in Started
    BY <1>2, <1>5 DEF Before, Nodes, Started
  <2>2. status[x] = "COMPLETED"
    BY <2>1, <1>5 DEF GoodGraph, Nodes
  <2> QED
    BY <2>1, <2>2, <1>1, <1>2
<1>6. ASSUME NEW u \in Nodes, s[u] = "RUNNING"
      PROVE  \E V \in Prefixes(deps) :
                NextIn(deps, u, V) /\ \A v \in V : s[v] \in TerminalStatus
  <2>1. status[u] = "RUNNING"
    BY <1>2, <1>6
  <2>2. PICK V \in Prefixes(deps) :
            NextIn(deps, u, V) /\ \A v \in V : status[v] \in TerminalStatus
    BY <2>1 DEF GoodGraph, Nodes
  <2>3. V \subseteq Nodes
    BY DEF Prefixes, Nodes
  <2> QED
    BY <2>2, <2>3, <1>2 DEF TerminalStatus
<1>7. GoodGraph(deps, s)
  BY <1>3, <1>5, <1>6 DEF GoodGraph, Nodes
<1>8. ASSUME NEW t \in Nodes, s[t] = "PENDING", NEW x \in Before(deps, t)
      PROVE  s[x] \notin {"FAILED", "BLOCKED"}
  <2>1. status[t] = "PENDING" /\ t \notin B
    BY <1>2, <1>8
  <2>2. x \in Nodes /\ t \in Dependents(x)
    BY <1>8 DEF Before, Dependents, Nodes
  <2>3. x \notin B /\ x # f
    BY <2>1, <2>2, <1>4
  <2>4. status[x] \notin {"FAILED", "BLOCKED"}
    BY <2>1, <2>3, <1>8 DEF SettledBut, Nodes
  <2> QED
    BY <2>2, <2>3, <2>4, <1>2
<1>9. SettledBut(deps, s, {})
  BY <1>8 DEF SettledBut, Nodes
<1> QED
  BY <1>7, <1>9 DEF s

\* A task that ended joins the prefix, its failure propagated.
LEMMA SettleKeeps ==
    ASSUME ExecInv, Settle
    PROVE  ExecInv'
<1>1. /\ pc = "settle" /\ pc' = "next" /\ deps' = deps /\ Nodes' = Nodes
      /\ visited' = visited \cup {task}
      /\ UNCHANGED <<call, kept, checkpoints>>
  BY DEF Settle, Goto, graphVars, ownVars, sessionVars, propagate_failure, Nodes
<1>2. /\ GoodGraph(deps, status) /\ SettledBut(deps, status, {task})
      /\ Acyclic /\ visited \in Prefixes(deps) /\ call # "none"
      /\ \A v \in visited : status[v] \in TerminalStatus
      /\ task \in Nodes /\ NextIn(deps, task, visited)
      /\ status[task] \in {"COMPLETED", "FAILED"}
  BY <1>1 DEF ExecInv, GraphsInv, IterationInv, Iterates
<1>3. /\ GoodGraph(deps, status') /\ SettledBut(deps, status', {})
      /\ \A v \in Nodes : status[v] \in TerminalStatus => status'[v] \in TerminalStatus
  <2>1. CASE status[task] = "FAILED"
    <3>1. status' = PropagateFailure(task, status)
      BY <2>1 DEF Settle, propagate_failure
    <3>2. GoodGraph(deps, status') /\ SettledBut(deps, status', {})
      BY <3>1, <1>2, PropagationSettles
    <3>3. \A v \in Nodes : status[v] \in TerminalStatus => status'[v] \in TerminalStatus
      BY <3>1 DEF PropagateFailure, TerminalStatus
    <3> QED
      BY <3>2, <3>3
  <2>2. CASE status[task] # "FAILED"
    <3>1. status' = status /\ status[task] = "COMPLETED"
      BY <2>2, <1>2 DEF Settle, graphVars
    <3>2. SettledBut(deps, status, {})
      BY <3>1, <1>2 DEF SettledBut, Before, Nodes
    <3> QED
      BY <3>1, <3>2, <1>2
  <2> QED
    BY <2>1, <2>2
<1>4. GraphsInv'
  BY <1>1, <1>3 DEF ExecInv, GraphsInv
<1>5. visited' \in Prefixes(deps')
  BY <1>1, <1>2, PrefixesGrow DEF Grows, Nodes
<1>6. \A v \in visited' : status'[v] \in TerminalStatus
  <2>1. visited \subseteq Nodes
    BY <1>2 DEF Prefixes, Nodes
  <2> QED
    BY <2>1, <1>1, <1>2, <1>3 DEF TerminalStatus
<1>7. Acyclic'
  BY <1>1, <1>2 DEF Acyclic, KnownDeps
<1>8. IterationInv'
  BY <1>1, <1>2, <1>5, <1>6, <1>7 DEF IterationInv, Iterates, InTask, Phases
<1> QED
  BY <1>4, <1>8 DEF ExecInv

\* A finished task a continuation passes over joins the prefix.
LEMMA SkipKeeps ==
    ASSUME ExecInv, SkipFinished
    PROVE  ExecInv'
<1>1. PICK t \in Nodes : /\ ComesNext(t, visited) /\ status[t] \in TerminalStatus
                         /\ visited' = visited \cup {t}
  BY DEF SkipFinished
<1>2. /\ pc = "next" /\ pc' = "next"
      /\ UNCHANGED <<deps, status, call, kept, checkpoints>>
      /\ Nodes' = Nodes
  BY DEF SkipFinished, Goto, graphVars, ownVars, sessionVars, Nodes
<1>3. /\ Acyclic /\ visited \in Prefixes(deps) /\ call # "none"
      /\ \A v \in visited : status[v] \in TerminalStatus
  BY <1>2 DEF ExecInv, IterationInv, Iterates
<1>4. GraphsInv'
  BY <1>2 DEF ExecInv, GraphsInv
<1>5. visited' \in Prefixes(deps')
  BY <1>1, <1>2, <1>3, SameOrder, PrefixesGrow DEF Grows, Nodes
<1>6. Acyclic'
  BY <1>2, <1>3 DEF Acyclic, KnownDeps
<1>7. IterationInv'
  BY <1>1, <1>2, <1>3, <1>5, <1>6 DEF IterationInv, Iterates, InTask, Phases
<1> QED
  BY <1>4, <1>7 DEF ExecInv

\* An iteration begins only on an acyclic graph, with nothing emitted.
LEMMA OrderKeeps ==
    ASSUME ExecInv, Order
    PROVE  ExecInv'
<1>1. /\ pc = "order" /\ pc' = IF Acyclic THEN "next" ELSE "raised"
      /\ UNCHANGED <<deps, status, call, kept, checkpoints, visited>>
      /\ Nodes' = Nodes
  BY DEF Order, Goto, graphVars, ownVars, sessionVars, Nodes
<1>2. visited = {} /\ call # "none"
  BY <1>1 DEF ExecInv, IterationInv
<1>3. GraphsInv'
  BY <1>1 DEF ExecInv, GraphsInv
<1>4. visited' \in Prefixes(deps')
  BY <1>1, <1>2, PrefixesGrow DEF Grows
<1>5. Acyclic => Acyclic'
  BY <1>1 DEF Acyclic, KnownDeps
<1>6. IterationInv'
  BY <1>1, <1>2, <1>4, <1>5 DEF IterationInv, Iterates, InTask, Phases
<1> QED
  BY <1>3, <1>6 DEF ExecInv

----------------------------------------------------------------------------
(* The caller.                                                              *)

\* The caller's choices between two calls.
LEMMA CallerKeeps ==
    ASSUME ExecInv, Caller
    PROVE  ExecInv'
<1>1. call = "none" /\ pc = "idle" /\ visited = {}
  BY DEF Caller, ExecInv, IterationInv, execute, continue_execution,
     continue_execution_Asserts, execute_additional_task, rollback_to_checkpoint, Enter
<1>2. /\ GoodGraph(deps, status) /\ SettledBut(deps, status, {}) /\ Stored(kept)
      /\ \A cp \in checkpoints : Stored(cp)
  BY <1>1 DEF ExecInv, GraphsInv
<1>3. CASE execute \/ execute_additional_task \/ continue_execution_Asserts
  <2>1. /\ UNCHANGED <<deps, status, kept, checkpoints, visited>>
        /\ \/ pc' = "check" /\ call' \in {"execute", "additional"}
           \/ pc' = "idle" /\ call' = "none"
    BY <1>1, <1>3 DEF execute, execute_additional_task, continue_execution_Asserts,
       Enter, graphVars, ownVars, sessionVars
  <2>2. GraphsInv'
    BY <2>1, <1>2 DEF GraphsInv
  <2>3. IterationInv'
    BY <2>1, <1>1 DEF IterationInv, Iterates, InTask, Phases
  <2> QED
    BY <2>2, <2>3 DEF ExecInv
<1>4. CASE continue_execution
  <2>1. /\ deps' = OwnGraph.deps /\ status' = OwnGraph.status /\ kept' = NoGraph
        /\ pc' = "order" /\ call' = "continue"
        /\ UNCHANGED <<visited, checkpoints>>
    BY <1>4 DEF continue_execution, Enter, sessionVars
  <2>2. Stored(OwnGraph)
    BY <1>1, OwnGraphIsStored DEF ExecInv
  <2>3. GraphsInv'
    BY <2>1, <2>2, <1>2, EmptyGraphIsStored DEF GraphsInv, Stored
  <2>4. IterationInv'
    BY <2>1, <1>1 DEF IterationInv, Iterates, InTask, Phases
  <2> QED
    BY <2>3, <2>4 DEF ExecInv
<1>5. CASE rollback_to_checkpoint
  <2>1. /\ UNCHANGED <<call, pc, visited, checkpoints>>
        /\ \E cp \in checkpoints :
            \/ deps' = cp.deps /\ status' = cp.status /\ kept' = kept
            \/ kept' = cp /\ deps' = deps /\ status' = status
    BY <1>5 DEF rollback_to_checkpoint, callVars, graphVars
  <2>2. GraphsInv'
    BY <2>1, <1>1, <1>2 DEF GraphsInv, Stored
  <2>3. IterationInv'
    BY <2>1, <1>1 DEF IterationInv, Iterates, InTask, Phases
  <2> QED
    BY <2>2, <2>3 DEF ExecInv
<1> QED
  BY <1>3, <1>4, <1>5 DEF Caller

----------------------------------------------------------------------------
\* Every step of a call.
LEMMA StepKeeps ==
    ASSUME ExecInv, Step
    PROVE  ExecInv'
<1> USE DEF Step
<1>1. CASE Check
  <2>1. PICK at \in {"plan", "raised"} : Goto(at) /\ UNCHANGED <<graphVars, visited>>
    BY <1>1 DEF Check
  <2>2. pc = "check"
    BY <1>1 DEF Check
  <2> QED
    BY <2>1, <2>2, GotoKeeps
<1>2. CASE Raised
  BY <1>2, ReturnKeeps DEF Raised
<1>3. CASE TimesOut
  BY <1>3, GotoKeeps DEF TimesOut, AboutToAsk
<1>4. CASE Pauses
  BY <1>4, ReturnKeeps DEF Pauses, AboutToAsk
<1>5. CASE Planning
  <2> USE ExecutorAssumption DEF AskPlanner
  <2>1. CASE PlanByCap
    BY <2>1, AcceptPlanKeeps DEF PlanByCap
  <2>2. CASE PlannerPlans
    BY <2>2, AcceptPlanKeeps DEF PlannerPlans
  <2>3. CASE PlannerRepeatsId
    BY <2>3, GotoKeeps DEF PlannerRepeatsId
  <2>4. CASE PlannerAsksForTools
    BY <2>4, GotoKeeps, AcceptPlanKeeps DEF PlannerAsksForTools
  <2>5. CASE PlannerMalformed
    BY <2>5, AcceptPlanKeeps DEF PlannerMalformed
  <2>6. CASE PlannerFails
    BY <2>6, GotoKeeps DEF PlannerFails
  <2>7. CASE PlanFailed
    BY <2>7, ReturnKeeps DEF PlanFailed
  <2>8. CASE PlannerInputRejected
    BY <2>8, GotoKeeps DEF PlannerInputRejected
  <2> QED
    BY <1>5, <2>1, <2>2, <2>3, <2>4, <2>5, <2>6, <2>7, <2>8 DEF Planning
<1>6. CASE Iterating
  <2>1. CASE StartRefused
    BY <2>1, GotoKeeps DEF StartRefused
  <2>2. CASE FinishExecute \/ FinishContinue \/ FinishAdditional
    BY <2>2, ReturnKeeps DEF FinishExecute, FinishContinue, FinishAdditional
  <2> QED
    BY <1>6, <2>1, <2>2, OrderKeeps, SkipKeeps, StartKeeps, SettleKeeps DEF Iterating
<1>7. CASE Working
  <2>1. CASE \/ ToolPlanRuns \/ CoderAsksForTools \/ CoderProposes \/ FixerFixes
    BY <2>1, WorkKeeps DEF ToolPlanRuns, CoderAsksForTools, CoderProposes, FixerFixes,
       AskCoder, AskFixer, InTask
  <2>2. CASE \/ ToolPlanFails \/ CoderNeedsNoChange \/ CoderFails \/ ReviewerApproves
             \/ ReviewerFails \/ FixerFails
    BY <2>2, EndKeeps DEF ToolPlanFails, CoderNeedsNoChange, CoderFails,
       ReviewerApproves, ReviewerFails, FixerFails, AskCoder, AskReviewer, AskFixer, InTask
  <2>3. CASE ReviewerRequestsChanges
    <3>1. FailTask \/ Work("fix") \/ Work("tools")
      BY <2>3 DEF ReviewerRequestsChanges
    <3>2. InTask
      BY <2>3 DEF ReviewerRequestsChanges, AskReviewer, InTask
    <3> QED
      BY <3>1, <3>2, EndKeeps, WorkKeeps
  <2> QED
    BY <1>7, <2>1, <2>2, <2>3 DEF Working
<1> QED
  BY <1>1, <1>2, <1>3, <1>4, <1>5, <1>6, <1>7

\* A step that leaves the graphs and the place in the code alone.
LEMMA StutterKeeps ==
    ASSUME ExecInv,
           UNCHANGED <<graphVars, callVars, ownVars, taskVars, client, visited, sessionVars>>
    PROVE  ExecInv'
<1>1. /\ UNCHANGED <<deps, status, call, pc, kept, task, visited, checkpoints>>
      /\ Nodes' = Nodes /\ InTask' = InTask
  BY DEF graphVars, callVars, ownVars, taskVars, sessionVars, Nodes, InTask
<1>2. GraphsInv'
  BY <1>1 DEF ExecInv, GraphsInv
<1>3. Acyclic => Acyclic'
  BY <1>1 DEF Acyclic, KnownDeps
<1>4. IterationInv'
  BY <1>1, <1>3 DEF ExecInv, IterationInv, Iterates, InTask
<1> QED
  BY <1>2, <1>4 DEF ExecInv

\* A tool that waits changes nothing else: every step is one of the caller, of
\* the call or of the clock, or a wait.
LEMMA SpecActs == Spec => Init /\ [][Act]_execVars
<1>1. [Next]_vars => [Act]_execVars
  <2>1. ToolRound => Step
    BY DEF ToolRound, Step, Planning, Working
  <2> QED
    BY <2>1 DEF Next, Proceeds, ToolWaits, Answered, Act, vars
<1> QED
  BY <1>1, PTL DEF Spec

\* The inductive invariant holds of every execution.
LEMMA ExecInvCorrect == Spec => []ExecInv
<1>1. Init => ExecInv
  <2> SUFFICES ASSUME Init PROVE ExecInv
    OBVIOUS
  <2>1. Stored(NoGraph) /\ GoodGraph(<<>>, <<>>) /\ SettledBut(<<>>, <<>>, {})
    BY EmptyGraphIsStored DEF Stored, NoGraph
  <2>2. GraphsInv
    BY <2>1 DEF Init, GraphsInv
  <2>3. IterationInv
    BY DEF Init, IterationInv, Iterates, InTask
  <2> QED
    BY <2>2, <2>3 DEF ExecInv
<1>2. ExecInv /\ [Act]_execVars => ExecInv'
  <2> SUFFICES ASSUME ExecInv, [Act]_execVars PROVE ExecInv'
    OBVIOUS
  <2>1. CASE Caller
    BY <2>1, CallerKeeps
  <2>2. CASE Step
    BY <2>2, StepKeeps
  <2>3. CASE Tick \/ UNCHANGED execVars
    BY <2>3, StutterKeeps DEF Tick, execVars
  <2> QED
    BY <2>1, <2>2, <2>3 DEF Act
<1> QED
  BY <1>1, <1>2, SpecActs, PTL

----------------------------------------------------------------------------
\* For every set of plans and every limit, no task is worked on before what it
\* depends on is COMPLETED: execute and its sisters ask no readiness test, and
\* need none.
THEOREM TasksRunInOrder == Spec => []DependenciesComplete
<1>1. ExecInv => DependenciesComplete
  BY DEF ExecInv, GraphsInv, GoodGraph, DependenciesComplete, Started, Before,
     KnownDeps, Nodes
<1> QED
  BY <1>1, ExecInvCorrect, PTL

\* No two tasks are ever RUNNING, although a pause or an exception leaves one
\* so and later calls iterate the same graph.
THEOREM OneTaskAtATime == Spec => []OneTaskRunning
<1>1. ExecInv => OneTaskRunning
  <2> SUFFICES ASSUME ExecInv PROVE OneTaskRunning
    OBVIOUS
  <2>1. GoodGraph(deps, status) /\ (InTask => status[task] = "RUNNING")
    BY DEF ExecInv, GraphsInv, IterationInv
  <2>2. ASSUME NEW t \in Nodes, NEW u \in Nodes,
               status[t] = "RUNNING", status[u] = "RUNNING"
        PROVE  t = u
    <3>1. PICK V \in Prefixes(deps) :
            NextIn(deps, t, V) /\ \A v \in V : status[v] \in TerminalStatus
      BY <2>1, <2>2 DEF GoodGraph, Nodes
    <3> QED
      BY <3>1, <2>1, <2>2, NothingElseRuns DEF Nodes, TerminalStatus
  <2> QED
    BY <2>1, <2>2 DEF OneTaskRunning
<1> QED
  BY <1>1, ExecInvCorrect, PTL

\* An iteration that finds nothing more has met every node.
LEMMA NothingIsLeft ==
    ASSUME ExecInv, pc = "next", Available(visited) = {}, NothingFailed
    PROVE  \A t \in Nodes : status[t] = "COMPLETED"
<1>1. /\ Acyclic /\ GoodGraph(deps, status)
      /\ \A v \in visited : status[v] \in TerminalStatus
  BY DEF ExecInv, GraphsInv, IterationInv, Iterates
<1>2. Nodes \subseteq visited
  <2> SUFFICES ASSUME Nodes \ visited # {} PROVE FALSE
    OBVIOUS
  <2>1. PICK t \in Nodes \ visited : KnownDeps(t) \cap (Nodes \ visited) = {}
    BY <1>1 DEF Acyclic
  <2> QED
    BY <2>1 DEF Available, KnownDeps
<1> QED
  BY <1>1, <1>2 DEF NothingFailed, NoneIn, GoodGraph, TerminalStatus, Nodes

\* A call that reports success has every subtask COMPLETED.
THEOREM SuccessIsTrue == Spec => SuccessIsComplete
<1>1. ASSUME ExecInv, [Act]_execVars
      PROVE  [call # "none" /\ call' = "none" /\ result'.success =>
                \A t \in Nodes : status[t] = "COMPLETED"]_execVars
  <2> SUFFICES ASSUME Act, call # "none", call' = "none", result'.success
               PROVE  \A t \in Nodes : status[t] = "COMPLETED"
    BY <1>1 DEF execVars, callVars
  <2>1. FinishExecute \/ FinishContinue \/ FinishAdditional
    <3>1. ~Caller
      BY DEF Caller, execute, continue_execution, continue_execution_Asserts,
         execute_additional_task, rollback_to_checkpoint, Enter, callVars
    <3>2. ~Tick
      BY DEF Tick, callVars
    <3>3. ~(Check \/ TimesOut \/ Raised \/ Pauses)
      BY DEF Check, TimesOut, Goto, Raised, Pauses, Return
    <3>4. ~Planning
      BY DEF Planning, PlanByCap, PlannerInputRejected, PlannerPlans, PlannerRepeatsId, PlannerAsksForTools,
         PlannerMalformed, PlannerFails, PlanFailed, AcceptPlan, Goto, Return
    <3>5. ~(Order \/ SkipFinished \/ StartTask \/ StartRefused \/ Settle)
      BY DEF Order, SkipFinished, StartTask, StartRefused, Settle, Goto
    <3>6. ~Working
      BY DEF Working, ToolPlanFails, ToolPlanRuns, CoderAsksForTools, CoderProposes,
         CoderNeedsNoChange, CoderFails, ReviewerApproves, ReviewerFails,
         ReviewerRequestsChanges, FixerFails, FixerFixes, FailTask, CompleteTask, Work, Goto
    <3> QED
      BY <3>1, <3>2, <3>3, <3>4, <3>5, <3>6 DEF Act, Step, Iterating
  <2>2. pc = "next" /\ Available(visited) = {} /\ NothingFailed
    <3>1. PICK complete : /\ result' = [success |-> complete, needs |-> FALSE]
                          /\ complete => NothingFailed
      <4>1. CASE FinishExecute \/ FinishAdditional
        <5>1. result' = [success |-> NothingFailed, needs |-> FALSE]
          BY <4>1, Zenon DEF FinishExecute, FinishAdditional, Return
        <5> QED
          BY <5>1, Zenon
      <4>2. CASE FinishContinue
        <5> DEFINE all == NothingFailed /\ NoneIn(TaskStatus \ {"COMPLETED"})
        <5>1. result' = [success |-> all, needs |-> FALSE]
          BY <4>2, Zenon DEF FinishContinue, Return
        <5> QED
          BY <5>1, Zenon
      <4> QED
        BY <2>1, <4>1, <4>2
    <3>2. result'.success = complete
      BY <3>1
    <3>3. NothingFailed
      BY <3>1, <3>2, Zenon
    <3> QED
      BY <3>3, <2>1, Zenon DEF FinishExecute, FinishContinue, FinishAdditional
  <2> QED
    BY <2>2, <1>1, NothingIsLeft
<1> QED
  BY <1>1, ExecInvCorrect, SpecActs, PTL DEF SuccessIsComplete

----------------------------------------------------------------------------
(* The controller in the hands of the executor.                             *)

\* Every step uses the controller by its methods; execute also builds it, and
\* Check starts it.
LEMMA StepsAreMethodsButTwo ==
    ASSUME [Act]_execVars, ~execute, ~Check
    PROVE  [LoopNext]_loopVars
<1> USE DEF LoopNext
<1>1. CASE Caller
  BY <1>1 DEF Caller, continue_execution, continue_execution_Asserts,
     execute_additional_task, rollback_to_checkpoint
<1>2. CASE Step
  <2>1. CASE Raised \/ TimesOut \/ Pauses
    BY <2>1 DEF Raised, TimesOut, Pauses, FailureReason
  <2>2. CASE Planning
    BY <2>2 DEF Planning, PlanByCap, PlannerInputRejected, PlannerPlans, PlannerRepeatsId,
       PlannerAsksForTools, PlannerMalformed, PlannerFails, PlanFailed, AskPlanner,
       AgentType, FailureReason
  <2>3. CASE Iterating
    BY <2>3 DEF Iterating, Order, SkipFinished, StartTask, StartRefused, Settle,
       FinishExecute, FinishContinue, FinishAdditional, FailureReason
  <2>4. CASE Working
    BY <2>4 DEF Working, ToolPlanFails, ToolPlanRuns, CoderAsksForTools, CoderProposes,
       CoderNeedsNoChange, CoderFails, ReviewerApproves, ReviewerFails,
       ReviewerRequestsChanges, FixerFails, FixerFixes, AskCoder, AskReviewer, AskFixer,
       AgentType
  <2> QED
    BY <1>2, <2>1, <2>2, <2>3, <2>4 DEF Step
<1>3. CASE Tick \/ UNCHANGED execVars
  BY <1>3 DEF Tick, execVars
<1> QED
  BY <1>1, <1>2, <1>3 DEF Act

LEMMA StepsAreMethods ==
    ASSUME [Act]_execVars
    PROVE  [LoopStep]_loopVars
<1>1. CASE execute
  BY <1>1 DEF execute, LoopStep
<1>2. CASE Check
  BY <1>2 DEF Check, LoopStep
<1> QED
  BY <1>1, <1>2, StepsAreMethodsButTwo DEF LoopStep

\* What the executor's steps keep of its controller.
LEMMA LoopInvOfSession == Spec => []LoopInv
<1>1. Init => LoopInv
  BY LoopInvInit DEF Init
<1>2. LoopInv /\ [Act]_execVars => LoopInv'
  BY StepsAreMethods, LoopInvInductive
<1> QED
  BY <1>1, <1>2, SpecActs, PTL

----------------------------------------------------------------------------
(* Calls, their results and their client.                                   *)

IsGraph(g) == g = [deps |-> g.deps, status |-> g.status]

HasRunning(g) == \E u \in DOMAIN g.deps : g.status[u] = "RUNNING"

\* A graph is being iterated.
Planned == pc = "order" \/ Iterates

\* What a call may rely on when it begins, and its caller when it ends.
CallInv ==
    /\ call \in {"none", "execute", "continue", "additional"}
    /\ client \in {"none", "open", "closed"}
    /\ active \in {"own", "local"}
    /\ result \in [success : BOOLEAN, needs : BOOLEAN]
    /\ extraTasks \in Nat /\ rollbacks \in Nat
    /\ IsGraph(kept) /\ \A cp \in checkpoints : IsGraph(cp)
    /\ client = "none" =>
        /\ call = "none" /\ active = "own" /\ OwnGraph = NoGraph
        /\ ~result.needs /\ ~result.success
    /\ result.needs => call = "none" /\ ~result.success
    /\ call = "continue" => pc \notin {"check", "plan", "plan_failed"}
    /\ call \in {"execute", "continue"} => active = "own"
    /\ call = "execute" /\ pc \in {"check", "plan"} => OwnGraph = NoGraph
    /\ call = "additional" /\ Planned => active = "local"
    /\ Planned => deps \in Plans
    /\ extraTasks = 0 => call # "additional" /\ active = "own"

\* _task_graph is a graph.
LEMMA OwnGraphIsGraph ==
    ASSUME CallInv
    PROVE  IsGraph(OwnGraph)
BY DEF CallInv, OwnGraph, IsGraph

\* A graph that is not the initial one is a plan's.
LEMMA GraphHasPlan ==
    ASSUME NEW g, IsGraph(g), Stored(g), g # NoGraph
    PROVE  g.deps \in Plans
<1>1. g.deps \in Plans \cup {<<>>} /\ g.status \in [DOMAIN g.deps -> TaskStatus \ {"READY", "SKIPPED"}]
  BY DEF Stored, GoodGraph
<1>2. ASSUME g.deps = <<>> PROVE FALSE
  <2>1. g.status = <<>>
    BY <1>1, <1>2
  <2> QED
    BY <2>1, <1>2 DEF IsGraph, NoGraph
<1> QED
  BY <1>1, <1>2

\* The end of a call.
LEMMA ReturnKeepsCall ==
    ASSUME CallInv, call # "none",
           NEW success \in BOOLEAN, NEW needs \in BOOLEAN, ~(success /\ needs),
           Return(success, needs)
    PROVE  CallInv'
<1>1. /\ UNCHANGED <<deps, status, active, kept, checkpoints, extraTasks, rollbacks>>
      /\ call' = "none" /\ pc' = "idle"
      /\ result' = [success |-> success, needs |-> needs]
      /\ client' \in {client, "closed"}
      /\ OwnGraph' = OwnGraph
  BY DEF Return, graphVars, ownVars, sessionVars, OwnGraph
<1>2. ~Planned'
  BY <1>1 DEF Planned, Iterates, InTask
<1>3. client' # "none"
  BY <1>1 DEF CallInv
<1> QED
  BY <1>1, <1>2, <1>3 DEF CallInv

\* A step within a call that adopts no plan.
LEMMA InCallKeepsCall ==
    ASSUME CallInv, call # "none",
           UNCHANGED <<deps, call, active, kept, client, result, extraTasks, rollbacks>>,
           \A cp \in checkpoints' : cp \in checkpoints \/ cp = OwnGraph',
           \/ pc' \in {"plan", "plan_failed"} /\ pc \in {"check", "plan"} /\ status' = status
           \/ pc' = "raised"
           \/ pc' \in Phases \ {"check", "plan", "plan_failed"} /\ Planned
    PROVE  CallInv'
<1>1. Planned' => Planned
  BY DEF Planned, Iterates, InTask
<1>2. IsGraph(OwnGraph')
  BY DEF CallInv, OwnGraph, IsGraph
<1>3. IsGraph(kept)' /\ \A cp \in checkpoints' : IsGraph(cp)
  BY <1>2 DEF CallInv, IsGraph
<1>4. pc' \in {"check", "plan"} => pc \in {"check", "plan"} /\ OwnGraph' = OwnGraph
  BY DEF OwnGraph
<1> QED
  BY <1>1, <1>3, <1>4 DEF CallInv

\* A plan is adopted.
LEMMA AcceptPlanKeepsCall ==
    ASSUME CallInv, call # "none", pc = "plan", NEW plan \in Plans, AcceptPlan(plan)
    PROVE  CallInv'
<1>1. /\ deps' = plan
      /\ pc' \in {"order", "raised"}
      /\ UNCHANGED <<call, result, client, extraTasks, rollbacks>>
      /\ active' = IF call = "additional" THEN "local" ELSE "own"
      /\ checkpoints' = checkpoints \cup ({OwnGraph'} \ {NoGraph})
  BY DEF AcceptPlan, NewGraph, Checkpoint
<1>2. IsGraph(kept')
  BY OwnGraphIsGraph DEF AcceptPlan, IsGraph, NoGraph
<1>3. IsGraph(OwnGraph')
  BY <1>2 DEF OwnGraph, IsGraph
<1>4. call \in {"execute", "additional"}
  BY DEF CallInv
<1> QED
  BY <1>1, <1>2, <1>3, <1>4 DEF CallInv, IsGraph

\* The caller's choices.
LEMMA CallerKeepsCall ==
    ASSUME ExecInv, CallInv, Caller
    PROVE  CallInv'
<1>1. call = "none" /\ pc = "idle"
  BY DEF Caller, ExecInv, IterationInv, execute, continue_execution,
     continue_execution_Asserts, execute_additional_task, rollback_to_checkpoint, Enter
<1>2. CASE execute
  <2>1. /\ UNCHANGED <<deps, status, active, kept, checkpoints, extraTasks, rollbacks>>
        /\ client = "none" /\ client' = "open" /\ call' = "execute" /\ pc' = "check"
        /\ result' = [success |-> FALSE, needs |-> FALSE]
        /\ OwnGraph' = OwnGraph
    BY <1>2 DEF execute, Enter, graphVars, ownVars, sessionVars, OwnGraph
  <2>2. ~Planned'
    BY <2>1 DEF Planned, Iterates, InTask
  <2> QED
    BY <2>1, <2>2 DEF CallInv
<1>3. CASE execute_additional_task
  <2>1. /\ UNCHANGED <<deps, status, active, kept, checkpoints, client, rollbacks>>
        /\ client # "none" /\ call' = "additional" /\ pc' = "check"
        /\ extraTasks' = extraTasks + 1
        /\ result' = [success |-> FALSE, needs |-> FALSE]
    BY <1>3 DEF execute_additional_task, Enter, graphVars, ownVars
  <2>2. ~Planned'
    BY <2>1 DEF Planned, Iterates, InTask
  <2> QED
    BY <2>1, <2>2 DEF CallInv
<1>4. CASE continue_execution_Asserts
  <2>1. /\ UNCHANGED <<deps, status, active, kept, checkpoints, client, extraTasks, rollbacks>>
        /\ call' = "none" /\ pc' = "idle" /\ result.needs
        /\ result' = [success |-> FALSE, needs |-> FALSE]
    BY <1>1, <1>4 DEF continue_execution_Asserts, graphVars, ownVars, sessionVars
  <2>2. ~Planned'
    BY <2>1 DEF Planned, Iterates, InTask
  <2> QED
    BY <2>1, <2>2 DEF CallInv
<1>5. CASE continue_execution
  <2>1. /\ OwnGraph # NoGraph /\ result.needs
        /\ deps' = OwnGraph.deps /\ active' = "own" /\ kept' = NoGraph
        /\ call' = "continue" /\ pc' = "order"
        /\ result' = [success |-> FALSE, needs |-> FALSE]
        /\ UNCHANGED <<checkpoints, client, extraTasks, rollbacks>>
    BY <1>5 DEF continue_execution, Enter, sessionVars
  <2>2. deps' \in Plans
    BY <2>1, <1>1, OwnGraphIsGraph, OwnGraphIsStored, GraphHasPlan DEF ExecInv
  <2>3. IsGraph(kept')
    BY <2>1 DEF IsGraph, NoGraph
  <2> QED
    BY <2>1, <2>2, <2>3 DEF CallInv
<1>6. CASE rollback_to_checkpoint
  <2>1. /\ UNCHANGED <<call, pc, result, active, client, checkpoints, extraTasks>>
        /\ rollbacks' = rollbacks + 1 /\ OwnGraph # NoGraph
        /\ kept' = kept \/ kept' \in checkpoints
    BY <1>6 DEF rollback_to_checkpoint, callVars
  <2>2. ~Planned'
    BY <2>1, <1>1 DEF Planned, Iterates, InTask
  <2>3. IsGraph(kept')
    BY <2>1 DEF CallInv
  <2> QED
    BY <1>1, <2>1, <2>2, <2>3 DEF CallInv
<1> QED
  BY <1>2, <1>3, <1>4, <1>5, <1>6 DEF Caller

\* A step of a call is taken in a call.
LEMMA StepsAreInCalls ==
    ASSUME ExecInv, Step
    PROVE  call # "none" /\ pc # "idle"
BY DEF ExecInv, IterationInv, Step, Check, Raised, TimesOut, Pauses, AboutToAsk,
   Planning, PlanByCap, PlannerInputRejected, PlannerPlans, PlannerRepeatsId, AskPlanner,
   PlannerAsksForTools, PlannerMalformed, PlannerFails, PlanFailed,
   Iterating, Order, SkipFinished, StartTask, StartRefused, Settle, FinishExecute,
   FinishContinue, FinishAdditional, Working, ToolPlanFails, ToolPlanRuns,
   CoderAsksForTools, CoderProposes, CoderNeedsNoChange, CoderFails, ReviewerApproves,
   ReviewerFails, ReviewerRequestsChanges, FixerFails, FixerFixes, AskCoder,
   AskReviewer, AskFixer

\* Every step of a call.
LEMMA StepKeepsCall ==
    ASSUME ExecInv, CallInv, Step
    PROVE  CallInv'
<1>1. call # "none"
  BY StepsAreInCalls
<1> USE <1>1, ExecutorAssumption
<1> USE DEF Goto, ownVars, sessionVars, graphVars
<1>2. CASE Check \/ TimesOut \/ StartRefused \/ PlannerInputRejected \/ PlannerRepeatsId
           \/ PlannerFails
  <2>1. \/ pc' = "raised"
        \/ pc' \in {"plan", "plan_failed"} /\ pc \in {"check", "plan"}
    <3>1. CASE Check
      BY <3>1 DEF Check
    <3>2. CASE TimesOut \/ StartRefused \/ PlannerInputRejected \/ PlannerRepeatsId
      BY <3>2 DEF TimesOut, StartRefused, PlannerInputRejected, PlannerRepeatsId
    <3>3. CASE PlannerFails
      BY <3>3 DEF PlannerFails, AskPlanner
    <3> QED
      BY <1>2, <3>1, <3>2, <3>3
  <2>2. UNCHANGED <<deps, status, call, active, kept, client, result, checkpoints,
                    extraTasks, rollbacks>>
    BY <1>2 DEF Check, TimesOut, StartRefused, PlannerInputRejected, PlannerRepeatsId,
       PlannerFails
  <2> QED
    BY <2>1, <2>2, InCallKeepsCall
<1>3. CASE Raised \/ Pauses \/ PlanFailed \/ FinishExecute \/ FinishAdditional
  <2>1. NothingFailed \in BOOLEAN
    BY DEF NothingFailed, NoneIn
  <2> QED
    BY <1>3, <2>1, ReturnKeepsCall DEF Raised, Pauses, PlanFailed, FinishExecute,
       FinishAdditional
<1>4. CASE FinishContinue
  <2> DEFINE complete == NothingFailed /\ NoneIn(TaskStatus \ {"COMPLETED"})
  <2>1. complete \in BOOLEAN
    BY DEF NothingFailed, NoneIn
  <2>2. Return(complete, FALSE)
    BY <1>4 DEF FinishContinue
  <2> HIDE DEF complete
  <2> QED
    BY <2>1, <2>2, ReturnKeepsCall
<1>5. CASE PlanByCap \/ PlannerPlans \/ PlannerMalformed
  BY <1>5, AcceptPlanKeepsCall DEF PlanByCap, PlannerPlans, PlannerMalformed, AskPlanner
<1>6. CASE PlannerAsksForTools
  <2>1. CASE AcceptPlan(FallbackPlan)
    BY <1>6, <2>1, AcceptPlanKeepsCall DEF PlannerAsksForTools, AskPlanner
  <2>2. CASE Goto("plan") /\ UNCHANGED graphVars
    BY <1>6, <2>2, InCallKeepsCall DEF PlannerAsksForTools, AskPlanner
  <2> QED
    BY <1>6, <2>1, <2>2 DEF PlannerAsksForTools
<1>7. CASE Order \/ SkipFinished \/ Settle
  <2>1. Planned /\ pc' \in Phases \ {"check", "plan", "plan_failed"}
    BY <1>7 DEF Order, SkipFinished, Settle, Planned, Iterates, Phases
  <2>2. UNCHANGED <<deps, call, active, kept, client, result, checkpoints,
                    extraTasks, rollbacks>>
    BY <1>7 DEF Order, SkipFinished, Settle, propagate_failure
  <2> QED
    BY <2>1, <2>2, InCallKeepsCall
<1>8. CASE StartTask
  <2>1. Planned /\ pc' \in Phases \ {"check", "plan", "plan_failed"}
    BY <1>8 DEF StartTask, Planned, Iterates, Phases
  <2>2. UNCHANGED <<deps, call, active, kept, client, result, extraTasks, rollbacks>>
    BY <1>8 DEF StartTask, mark_running, Transition, Checkpoint
  <2>3. \A cp \in checkpoints' : cp \in checkpoints \/ cp = OwnGraph'
    BY <1>8 DEF StartTask, Checkpoint
  <2> QED
    BY <2>1, <2>2, <2>3, InCallKeepsCall
<1>9. CASE Working
  <2>1. Planned
    BY <1>9 DEF Planned, Iterates, InTask, Working, ToolPlanFails, ToolPlanRuns,
       CoderAsksForTools, CoderProposes, CoderNeedsNoChange, CoderFails, ReviewerApproves,
       ReviewerFails, ReviewerRequestsChanges, FixerFails, FixerFixes, AskCoder,
       AskReviewer, AskFixer
  <2>2. \E at \in {"tools", "code", "review", "fix"} : Work(at) \/ FailTask \/ CompleteTask
    BY <1>9 DEF Working, ToolPlanFails, ToolPlanRuns, CoderAsksForTools, CoderProposes,
       CoderNeedsNoChange, CoderFails, ReviewerApproves, ReviewerFails,
       ReviewerRequestsChanges, FixerFails, FixerFixes
  <2>3. /\ pc' \in Phases \ {"check", "plan", "plan_failed"}
        /\ UNCHANGED <<deps, call, active, kept, client, result, checkpoints, extraTasks,
                       rollbacks>>
    BY <2>2 DEF Work, FailTask, CompleteTask, mark_failed, mark_completed, Transition, Phases
  <2> QED
    BY <2>1, <2>3, InCallKeepsCall
<1> QED
  BY <1>2, <1>3, <1>4, <1>5, <1>6, <1>7, <1>8, <1>9 DEF Step, Planning, Iterating

\* It holds of every session.
LEMMA CallInvCorrect == Spec => []CallInv
<1>1. Init => CallInv
  <2> SUFFICES ASSUME Init PROVE CallInv
    OBVIOUS
  <2>1. OwnGraph = NoGraph /\ IsGraph(NoGraph)
    BY DEF Init, OwnGraph, NoGraph, IsGraph
  <2>2. ~Planned
    BY DEF Init, Planned, Iterates, InTask
  <2> QED
    BY <2>1, <2>2 DEF Init, CallInv
<1>2. ExecInv /\ CallInv /\ [Act]_execVars => CallInv'
  <2> SUFFICES ASSUME ExecInv, CallInv, [Act]_execVars PROVE CallInv'
    OBVIOUS
  <2>1. CASE Tick \/ UNCHANGED execVars
    <3>1. UNCHANGED <<deps, status, call, pc, active, kept, client, result, checkpoints,
                      extraTasks, rollbacks>>
      BY <2>1 DEF Tick, execVars, graphVars, callVars, ownVars, sessionVars
    <3>2. OwnGraph' = OwnGraph /\ Planned' = Planned
      BY <3>1 DEF OwnGraph, Planned, Iterates, InTask
    <3> QED
      BY <3>1, <3>2 DEF CallInv
  <2> QED
    BY <2>1, CallerKeepsCall, StepKeepsCall DEF Act
<1> QED
  BY <1>1, <1>2, ExecInvCorrect, SpecActs, PTL

\* The step of a call either ends it, pauses it, or leaves the result alone.
LEMMA StepsEndOrPause ==
    ASSUME ExecInv, Step
    PROVE  \/ UNCHANGED <<call, result, client>> /\ pc' # "idle"
           \/ pc' = "idle" /\ \E success : Return(success, FALSE)
           \/ pc' = "idle" /\ Pauses
<1>1. CASE Check \/ TimesOut
  BY <1>1 DEF Check, TimesOut, Goto
<1>2. CASE Raised \/ Pauses
  BY <1>2 DEF Raised, Pauses, Return
<1>3. CASE Planning
  BY <1>3 DEF Planning, PlanByCap, PlannerInputRejected, PlannerPlans, PlannerRepeatsId,
     PlannerAsksForTools, PlannerMalformed, PlannerFails, PlanFailed, AcceptPlan, Goto, Return
<1>4. CASE Order \/ SkipFinished \/ StartTask \/ StartRefused \/ Settle
  BY <1>4 DEF Order, SkipFinished, StartTask, StartRefused, Settle, Goto
<1>5. CASE FinishExecute \/ FinishContinue \/ FinishAdditional
  <2>1. CASE FinishExecute \/ FinishAdditional
    <3>1. Return(NothingFailed, FALSE)
      BY <2>1, Zenon DEF FinishExecute, FinishAdditional
    <3>2. pc' = "idle"
      BY <3>1, Zenon DEF Return
    <3> QED
      BY <3>1, <3>2, Zenon
  <2>2. CASE FinishContinue
    <3> DEFINE all == NothingFailed /\ NoneIn(TaskStatus \ {"COMPLETED"})
    <3>1. Return(all, FALSE)
      BY <2>2, Zenon DEF FinishContinue
    <3>2. pc' = "idle"
      BY <3>1, Zenon DEF Return
    <3> QED
      BY <3>1, <3>2, Zenon
  <2> QED
    BY <1>5, <2>1, <2>2
<1>6. CASE Working
  BY <1>6 DEF Working, ToolPlanFails, ToolPlanRuns, CoderAsksForTools, CoderProposes,
     CoderNeedsNoChange, CoderFails, ReviewerApproves, ReviewerFails,
     ReviewerRequestsChanges, FixerFails, FixerFixes, FailTask, CompleteTask, Work, Goto
<1> QED
  BY <1>1, <1>2, <1>3, <1>4, <1>5, <1>6 DEF Step, Iterating

\* The user is asked to continue exactly when the controller has paused with the
\* budget spent: no step between the pause and the answer undoes either.
THEOREM NeedsIsEarned == Spec => []NeedsMeansPaused
<1>1. Init => NeedsMeansPaused
  BY DEF Init, NeedsMeansPaused
<1>2. ExecInv /\ CallInv /\ NeedsMeansPaused /\ [Act]_execVars => NeedsMeansPaused'
  <2> SUFFICES ASSUME ExecInv, CallInv, NeedsMeansPaused, [Act]_execVars, result'.needs
               PROVE  (IsPaused /\ needsUserContinue /\ iterationCount >= maxIterations)'
    BY DEF NeedsMeansPaused
  <2>1. CASE Caller
    <3>1. rollback_to_checkpoint
      BY <2>1 DEF Caller, execute, continue_execution, continue_execution_Asserts,
         execute_additional_task, Enter
    <3> QED
      BY <3>1 DEF rollback_to_checkpoint, callVars, loopVars, NeedsMeansPaused, IsPaused
  <2>2. CASE Step
    <3>1. CASE UNCHANGED <<call, result, client>>
      BY <2>2, <3>1, StepsAreInCalls DEF CallInv
    <3>2. CASE \E success : Return(success, FALSE)
      BY <3>2 DEF Return
    <3>3. CASE Pauses
      BY <3>3 DEF Pauses, begin_iteration_Pauses, IsPaused
    <3> QED
      BY <2>2, <3>1, <3>2, <3>3, StepsEndOrPause
  <2>3. CASE Tick \/ UNCHANGED execVars
    BY <2>3 DEF Tick, ClockExpires, execVars, callVars, loopVars, NeedsMeansPaused, IsPaused
  <2> QED
    BY <2>1, <2>2, <2>3 DEF Act
<1> QED
  BY <1>1, <1>2, ExecInvCorrect, CallInvCorrect, SpecActs, PTL

\* Whatever a session does, no iteration goes beyond the limit in force, and a
\* pause comes only when a full budget is spent.
THEOREM SessionKeepsBudget == Spec => [](IterationBudget /\ PauseMeansBudgetSpent)
<1>1. LoopInv => IterationBudget /\ PauseMeansBudgetSpent
  BY DEF LoopInv
<1> QED
  BY <1>1, LoopInvOfSession, PTL

\* The controller runs in every statement that asks it for an iteration, and
\* has been set to run before the planning begins.
Busy == InTask \/ pc \in {"plan", "order", "next", "settle"}

RunningInv == Busy \/ (call = "additional" /\ pc = "check") => IsRunning

\* The statements of a call run only while the controller does: the checks for
\* a loop that stopped by itself never find one.
THEOREM CallsRunTheLoop == Spec => []RunsOnlyWhileRunning
<1>1. Init => RunningInv
  BY DEF Init, RunningInv, Busy, InTask
<1>2. ExecInv /\ CallInv /\ RunningInv /\ [Act]_execVars => RunningInv'
  <2> SUFFICES ASSUME ExecInv, CallInv, RunningInv, [Act]_execVars,
                      Busy' \/ (call = "additional" /\ pc = "check")'
               PROVE  IsRunning'
    BY DEF RunningInv
  <2> USE DEF RunningInv, Busy, InTask, IsRunning
  <2>1. CASE Caller
    <3>1. ~rollback_to_checkpoint
      BY DEF rollback_to_checkpoint, callVars, ExecInv, IterationInv
    <3>2. ~continue_execution_Asserts
      BY DEF continue_execution_Asserts, ExecInv, IterationInv
    <3> QED
      BY <2>1, <3>1, <3>2 DEF Caller, execute, continue_execution, execute_additional_task,
         Enter, extend_iterations, reset_for_new_task
  <2>2. CASE Check
    BY <2>2 DEF Check, Goto, start, loopVars, ExecInv, IterationInv, CallInv
  <2>3. CASE Raised \/ Pauses \/ TimesOut
    BY <2>3 DEF Raised, Pauses, TimesOut, Goto, Return
  <2>4. CASE Planning
    BY <2>4 DEF Planning, PlanByCap, PlannerInputRejected, PlannerPlans, PlannerRepeatsId,
       PlannerAsksForTools, PlannerMalformed, PlannerFails, PlanFailed, AskPlanner,
       AcceptPlan, Goto, Return, begin_iteration, StateOf, loopVars
  <2>5. CASE Iterating
    BY <2>5 DEF Iterating, Order, SkipFinished, StartTask, StartRefused, Settle,
       FinishExecute, FinishContinue, FinishAdditional, Goto, Return, reset_fix_counter,
       loopVars
  <2>6. CASE Working
    BY <2>6 DEF Working, ToolPlanFails, ToolPlanRuns, CoderAsksForTools, CoderProposes,
       CoderNeedsNoChange, CoderFails, ReviewerApproves, ReviewerFails,
       ReviewerRequestsChanges, FixerFails, FixerFixes, AskCoder, AskReviewer, AskFixer,
       FailTask, CompleteTask, Work, Goto, begin_iteration, StateOf, loopVars
  <2>7. CASE Tick \/ UNCHANGED execVars
    BY <2>7 DEF Tick, ClockExpires, execVars, callVars, loopVars
  <2> QED
    BY <2>1, <2>2, <2>3, <2>4, <2>5, <2>6, <2>7 DEF Act, Step
<1>3. RunningInv => RunsOnlyWhileRunning
  BY DEF RunningInv, RunsOnlyWhileRunning, Busy
<1> QED
  BY <1>1, <1>2, <1>3, ExecInvCorrect, CallInvCorrect, SpecActs, PTL

----------------------------------------------------------------------------
(* Why every call ends.                                                     *)

\* A step that spends an iteration leaves one less.
LEMMA IterationIsSpent ==
    ASSUME LoopTypeOK, NEW agent, begin_iteration(agent)
    PROVE  IterationsLeft' < IterationsLeft
BY DEF LoopTypeOK, begin_iteration, IterationsLeft

\* A statement of a task that changes neither budget nor graph goes on to a later one.
LEMMA LaterIsNearer ==
    ASSUME UNCHANGED <<loopVars, call, deps, visited>>, PlanningStage' = PlanningStage,
           StepsAhead[pc'] < StepsAhead[pc]
    PROVE  NearerToItsEnd
BY DEF NearerToItsEnd, loopVars, IterationsLeft, Nodes

\* One more task is finished or passed over.
LEMMA FinishedIsNearer ==
    ASSUME UNCHANGED <<iterationCount, maxIterations, call, deps>>,
           PlanningStage' = PlanningStage,
           NEW t \in Nodes \ visited, visited' = visited \cup {t}
    PROVE  NearerToItsEnd
<1>1. IterationsLeft' = IterationsLeft /\ Nodes' = Nodes
  BY DEF IterationsLeft, Nodes
<1>2. (Nodes \ visited)' = (Nodes \ visited) \ {t}
  BY <1>1
<1> QED
  BY <1>1, <1>2 DEF NearerToItsEnd

\* Every step of a call brings it nearer to its end: the budget only shrinks,
\* and on one budget the stage, the tasks left and the statements left do.
LEMMA StepIsNearer ==
    ASSUME LoopTypeOK, ExecInv, Step
    PROVE  NearerToItsEnd
<1> USE DEF Goto, Work
<1>1. CASE Raised \/ Pauses \/ PlanFailed \/ FinishExecute \/ FinishContinue \/ FinishAdditional
  <2>1. call' = "none"
    BY <1>1 DEF Raised, Pauses, PlanFailed, FinishExecute, FinishContinue,
       FinishAdditional, Return
  <2> QED
    BY <2>1 DEF NearerToItsEnd
<1>2. ASSUME NEW agent, begin_iteration(agent), call' = call
      PROVE  NearerToItsEnd
  BY <1>2, IterationIsSpent DEF NearerToItsEnd
<1>3. CASE Check
  <2>1. UNCHANGED <<iterationCount, maxIterations, call, deps, visited>>
    BY <1>3 DEF Check, start, loopVars, graphVars
  <2>2. IterationsLeft' = IterationsLeft /\ Nodes' = Nodes
    BY <2>1 DEF IterationsLeft, Nodes
  <2>3. pc = "check" /\ pc' \in {"plan", "raised"}
    BY <1>3 DEF Check
  <2> QED
    BY <2>1, <2>2, <2>3 DEF NearerToItsEnd, PlanningStage, StepsAhead
<1>4. CASE TimesOut
  <2>1. UNCHANGED <<iterationCount, maxIterations, call, deps, visited>>
    BY <1>4 DEF TimesOut, begin_iteration_TimesOut, Terminate, graphVars
  <2>2. IterationsLeft' = IterationsLeft /\ Nodes' = Nodes
    BY <2>1 DEF IterationsLeft, Nodes
  <2>3. pc \in {"code", "review", "fix", "plan"} /\ pc' = "raised"
    BY <1>4 DEF TimesOut, AboutToAsk
  <2> QED
    BY <2>1, <2>2, <2>3 DEF NearerToItsEnd, PlanningStage, StepsAhead
<1>5. CASE PlanByCap \/ PlannerInputRejected
  <2>1. UNCHANGED <<iterationCount, maxIterations, call>>
    BY <1>5 DEF PlanByCap, PlannerInputRejected, AcceptPlan, loopVars
  <2>2. pc = "plan" /\ pc' \in {"order", "raised"}
    BY <1>5 DEF PlanByCap, PlannerInputRejected, AcceptPlan
  <2> QED
    BY <2>1, <2>2 DEF NearerToItsEnd, PlanningStage, IterationsLeft
<1>6. CASE PlannerPlans \/ PlannerRepeatsId \/ PlannerAsksForTools \/ PlannerMalformed
           \/ PlannerFails
  <2>1. begin_iteration("planner") /\ call' = call
    BY <1>6 DEF PlannerPlans, PlannerRepeatsId, PlannerAsksForTools, PlannerMalformed,
       PlannerFails, AskPlanner, AcceptPlan
  <2> QED
    BY <2>1, <1>2
<1>7. CASE Order \/ StartRefused
  <2>1. UNCHANGED <<loopVars, call, deps, visited>>
    BY <1>7 DEF Order, StartRefused, graphVars
  <2>2. \/ pc = "order" /\ pc' \in {"next", "raised"}
        \/ pc = "next" /\ pc' = "raised"
    BY <1>7 DEF Order, StartRefused
  <2> QED
    BY <2>1, <2>2, LaterIsNearer DEF PlanningStage, StepsAhead
<1>8. CASE StartTask
  <2>1. UNCHANGED <<loopVars, call, deps, visited>>
    BY <1>8 DEF StartTask, mark_running, Transition
  <2>2. pc = "next" /\ pc' \in {"tools", "raised"}
    BY <1>8 DEF StartTask
  <2> QED
    BY <2>1, <2>2, LaterIsNearer DEF PlanningStage, StepsAhead
<1>9. CASE SkipFinished
  <2>1. PICK t \in Nodes : t \notin visited /\ visited' = visited \cup {t}
    BY <1>9 DEF SkipFinished, ComesNext, Available
  <2>2. UNCHANGED <<iterationCount, maxIterations, call, deps, pc>>
    BY <1>9 DEF SkipFinished, loopVars, graphVars
  <2> QED
    BY <2>1, <2>2, FinishedIsNearer DEF PlanningStage
<1>10. CASE Settle
  <2>1. task \in Nodes \ visited /\ visited' = visited \cup {task}
    BY <1>10 DEF Settle, ExecInv, IterationInv, NextIn, FreeIn, Nodes
  <2>2. UNCHANGED <<iterationCount, maxIterations, call, deps>>
    BY <1>10 DEF Settle, reset_fix_counter, propagate_failure, graphVars
  <2>3. pc = "settle" /\ pc' = "next"
    BY <1>10 DEF Settle
  <2> QED
    BY <2>1, <2>2, <2>3, FinishedIsNearer DEF PlanningStage
<1>11. CASE ToolPlanFails \/ ToolPlanRuns
  <2>1. UNCHANGED <<loopVars, call, deps, visited>>
    BY <1>11 DEF ToolPlanFails, ToolPlanRuns, FailTask, mark_failed, Transition, graphVars
  <2>2. pc = "tools" /\ pc' \in {"code", "settle"}
    BY <1>11 DEF ToolPlanFails, ToolPlanRuns, FailTask
  <2> QED
    BY <2>1, <2>2, LaterIsNearer DEF PlanningStage, StepsAhead
<1>12. CASE CoderAsksForTools \/ CoderProposes \/ CoderNeedsNoChange \/ CoderFails
            \/ ReviewerApproves \/ ReviewerFails \/ ReviewerRequestsChanges
            \/ FixerFails \/ FixerFixes
  <2>1. \E agent : begin_iteration(agent)
    BY <1>12 DEF CoderAsksForTools, CoderProposes, CoderNeedsNoChange, CoderFails,
       ReviewerApproves, ReviewerFails, ReviewerRequestsChanges, FixerFails, FixerFixes,
       AskCoder, AskReviewer, AskFixer
  <2>2. call' = call
    BY <1>12 DEF CoderAsksForTools, CoderProposes, CoderNeedsNoChange, CoderFails,
       ReviewerApproves, ReviewerFails, ReviewerRequestsChanges, FixerFails, FixerFixes,
       FailTask, CompleteTask
  <2> QED
    BY <2>1, <2>2, <1>2
<1> QED
  BY <1>1, <1>3, <1>4, <1>5, <1>6, <1>7, <1>8, <1>9, <1>10, <1>11, <1>12
  DEF Step, Planning, Iterating, Working

\* No loop of a call comes back to where it was on the same budget, and the
\* budget is never overdrawn: a call has only so many steps, whatever the
\* agents answer and however large the plan is.
THEOREM EveryStepCounts ==
    Spec => EveryStepNearsTheEnd /\ [](IterationsLeft \in Nat)
<1>1. LoopInv /\ ExecInv => [Step => NearerToItsEnd]_execVars
  BY StepIsNearer DEF LoopInv
<1>2. LoopInv => IterationsLeft \in Nat
  BY DEF LoopInv, LoopTypeOK, IterationBudget, IterationsLeft
<1> QED
  BY <1>1, <1>2, LoopInvOfSession, ExecInvCorrect, PTL DEF EveryStepNearsTheEnd

----------------------------------------------------------------------------
(* The executor keeps to the rules of its controller.                       *)

\* A controller that has not been started is as it was built.
ControllerInv ==
    /\ client = "none" => LoopInit
    /\ call = "execute" /\ pc = "check" => state = "IDLE"

\* No step of a call goes back to its beginning.
LEMMA StepsLeaveCheck ==
    ASSUME Step
    PROVE  pc' # "check"
<1>1. CASE Check \/ Raised \/ TimesOut \/ Pauses
  BY <1>1 DEF Check, Raised, TimesOut, Pauses, Goto, Return
<1>2. CASE Planning
  BY <1>2 DEF Planning, PlanByCap, PlannerInputRejected, PlannerPlans, PlannerRepeatsId,
     PlannerAsksForTools, PlannerMalformed, PlannerFails, PlanFailed, AcceptPlan, Goto, Return
<1>3. CASE Iterating
  BY <1>3 DEF Iterating, Order, SkipFinished, StartTask, StartRefused, Settle,
     FinishExecute, FinishContinue, FinishAdditional, Goto, Return
<1>4. CASE Working
  BY <1>4 DEF Working, ToolPlanFails, ToolPlanRuns, CoderAsksForTools, CoderProposes,
     CoderNeedsNoChange, CoderFails, ReviewerApproves, ReviewerFails,
     ReviewerRequestsChanges, FixerFails, FixerFixes, FailTask, CompleteTask, Work, Goto
<1> QED
  BY <1>1, <1>2, <1>3, <1>4 DEF Step

\* The one controller of a session is built once, started once, and otherwise
\* handled by its methods only.
THEOREM ControllerIsObeyed == Spec => ObeysController
<1>1. Init => ControllerInv /\ LoopInit
  BY DEF Init, ControllerInv
<1>2. ExecInv /\ CallInv /\ ControllerInv /\ [Act]_execVars => ControllerInv'
  <2> SUFFICES ASSUME ExecInv, CallInv, ControllerInv, [Act]_execVars
               PROVE  ControllerInv'
    OBVIOUS
  <2> USE DEF ControllerInv
  <2>1. CASE execute
    BY <2>1 DEF execute, Enter, NewController
  <2>2. CASE Step
    <3>1. call # "none" /\ client # "none"
      BY <2>2, StepsAreInCalls DEF CallInv
    <3>2. client' # "none"
      BY <2>2, <3>1, StepsEndOrPause DEF Return, Pauses
    <3>3. pc' # "check"
      BY <2>2, StepsLeaveCheck
    <3> QED
      BY <3>2, <3>3
  <2>3. CASE continue_execution \/ continue_execution_Asserts \/ execute_additional_task
    <3>1. client # "none" /\ client' = client
      BY <2>3 DEF continue_execution, continue_execution_Asserts, execute_additional_task,
         CallInv
    <3>2. call' # "execute"
      BY <2>3 DEF continue_execution, continue_execution_Asserts, execute_additional_task,
         Enter
    <3> QED
      BY <3>1, <3>2
  <2>4. CASE rollback_to_checkpoint
    <3>1. UNCHANGED <<loopVars, call, client>> /\ call = "none"
      BY <2>4 DEF rollback_to_checkpoint, callVars
    <3> QED
      BY <3>1 DEF loopVars, LoopInit
  <2>5. CASE Tick
    <3>1. UNCHANGED <<call, pc, client>> /\ ClockExpires
      BY <2>5 DEF Tick, callVars
    <3> QED
      BY <3>1 DEF ClockExpires, LoopInit
  <2>6. CASE UNCHANGED execVars
    BY <2>6 DEF execVars, callVars, loopVars, LoopInit
  <2> QED
    BY <2>1, <2>2, <2>3, <2>4, <2>5, <2>6 DEF Act, Caller
<1>3. ControllerInv /\ [Act]_execVars => [LoopNext]_loopVars
  <2> SUFFICES ASSUME ControllerInv, [Act]_execVars, ~UNCHANGED loopVars
               PROVE  LoopNext
    OBVIOUS
  <2>1. CASE execute
    BY <2>1 DEF execute, NewController, ControllerInv, LoopInit, loopVars
  <2>2. CASE Check
    BY <2>2 DEF Check, ControllerInv, LoopNext
  <2>3. CASE ~execute /\ ~Check
    BY <2>3, StepsAreMethodsButTwo
  <2> QED
    BY <2>1, <2>2, <2>3
<1> QED
  BY <1>1, <1>2, <1>3, ExecInvCorrect, CallInvCorrect, SpecActs, PTL DEF ObeysController, LoopSpec

----------------------------------------------------------------------------
(* The types of the whole state.                                            *)

\* Where no task can be in hand.
BetweenTasks == pc \in {"idle", "check", "plan", "plan_failed", "order", "next"}

\* What a call remembers of its task, and what the session has counted.
WorkInv ==
    /\ visited \subseteq Nodes
    /\ task \in Nodes \cup {NoTask}
    /\ BetweenTasks => task = NoTask
    /\ changes \in Change \cup {None}
    /\ pc = "fix" => changes \in Change
    /\ pc = "review" => changes \in Change
    /\ previous \in (Change \X Issue) \cup {None}
    /\ shifted \in BOOLEAN
    /\ NoGraph \notin checkpoints
    /\ extraTasks \in 0..MaxExtraTasks /\ rollbacks \in 0..MaxRollbacks

WorkVars == <<visited, task, changes, previous, shifted, checkpoints, extraTasks, rollbacks>>

\* A step that changes neither the graph's ids nor the work.
LEMMA SameWork ==
    ASSUME WorkInv, UNCHANGED <<deps, WorkVars>>, BetweenTasks' => BetweenTasks,
           pc' \notin {"review", "fix"} \/ pc' = pc
    PROVE  WorkInv'
BY DEF WorkInv, WorkVars, Nodes

\* The task in hand is dropped; at most it is now visited.
LEMMA DropKeepsWork ==
    ASSUME WorkInv, UNCHANGED <<deps, checkpoints, extraTasks, rollbacks>>,
           visited' \subseteq visited \cup {task}, NoTask \notin visited',
           task' = NoTask, changes' = None, previous' = None, shifted' = FALSE,
           pc' \notin {"review", "fix"}
    PROVE  WorkInv'
<1>1. visited' \subseteq Nodes'
  BY DEF WorkInv, Nodes
<1> QED
  BY <1>1 DEF WorkInv

\* Ids of nodes are ids.
LEMMA NoTaskIsNoNode ==
    ASSUME ExecInv
    PROVE  NoTask \notin Nodes
<1>1. deps \in Plans \cup {<<>>}
  BY DEF ExecInv, GraphsInv, GoodGraph
<1>2. CASE deps \in Plans
  BY <1>2, PlansAssumption, ExecutorAssumption DEF Nodes
<1>3. CASE deps = <<>>
  BY <1>3 DEF Nodes
<1> QED
  BY <1>1, <1>2, <1>3

\* The caller keeps its session within its bounds, and works on nothing itself.
LEMMA CallerKeepsWork ==
    ASSUME ExecInv, WorkInv, Caller
    PROVE  WorkInv'
<1>1. call = "none" /\ visited = {} /\ task = NoTask
  BY DEF Caller, ExecInv, IterationInv, execute, continue_execution,
     continue_execution_Asserts, execute_additional_task, rollback_to_checkpoint, Enter,
     WorkInv, BetweenTasks
<1>2. UNCHANGED <<visited, task, changes, previous, shifted, checkpoints>>
  BY DEF Caller, execute, continue_execution, continue_execution_Asserts,
     execute_additional_task, rollback_to_checkpoint, taskVars, sessionVars
<1>3. extraTasks' \in 0..MaxExtraTasks /\ rollbacks' \in 0..MaxRollbacks
  BY ExecutorAssumption
  DEF Caller, execute, continue_execution, continue_execution_Asserts,
      execute_additional_task, rollback_to_checkpoint, sessionVars, WorkInv
<1>4. pc' \notin {"review", "fix"}
  <2>1. pc = "idle"
    BY <1>1 DEF ExecInv, IterationInv
  <2> QED
    BY <2>1 DEF Caller, execute, continue_execution, continue_execution_Asserts,
       execute_additional_task, rollback_to_checkpoint, Enter, callVars
<1> QED
  BY <1>1, <1>2, <1>3, <1>4 DEF WorkInv

\* Every step of a call.
LEMMA StepKeepsWork ==
    ASSUME ExecInv, WorkInv, Step
    PROVE  WorkInv'
<1> USE DEF Goto, graphVars, taskVars, sessionVars
<1>1. CASE Check \/ TimesOut \/ StartRefused \/ PlannerInputRejected \/ PlannerRepeatsId
           \/ PlannerFails \/ Order
  <2>1. UNCHANGED <<deps, WorkVars>>
    BY <1>1 DEF Check, TimesOut, StartRefused, PlannerInputRejected, PlannerRepeatsId,
       PlannerFails, Order, WorkVars
  <2>2. /\ pc' \in {"raised", "plan", "plan_failed", "next"}
        /\ pc' = "raised" \/ BetweenTasks
    BY <1>1 DEF Check, TimesOut, StartRefused, PlannerInputRejected, PlannerRepeatsId,
       PlannerFails, AskPlanner, Order, BetweenTasks
  <2> QED
    BY <2>1, <2>2, SameWork DEF BetweenTasks
<1>2. CASE Raised \/ Pauses \/ PlanFailed \/ FinishExecute \/ FinishContinue \/ FinishAdditional
  <2>1. PICK success, needs : Return(success, needs)
    BY <1>2, Zenon DEF Raised, Pauses, PlanFailed, FinishExecute, FinishContinue,
       FinishAdditional
  <2> QED
    BY <2>1, DropKeepsWork DEF Return
<1>3. ASSUME NEW plan, AcceptPlan(plan), pc = "plan"
      PROVE  WorkInv'
  <2>1. visited = {} /\ task = NoTask
    BY <1>3 DEF ExecInv, IterationInv, WorkInv, BetweenTasks
  <2>2. /\ UNCHANGED <<visited, task, changes, previous, shifted, extraTasks, rollbacks>>
        /\ pc' \in {"order", "raised"}
        /\ NoGraph \notin checkpoints'
    BY <1>3 DEF AcceptPlan, Checkpoint, WorkInv
  <2> QED
    BY <2>1, <2>2 DEF WorkInv
<1>4. CASE PlanByCap \/ PlannerPlans \/ PlannerMalformed
  BY <1>3, <1>4 DEF PlanByCap, PlannerPlans, PlannerMalformed, AskPlanner
<1>5. CASE PlannerAsksForTools
  <2>1. CASE pc' = "plan" /\ UNCHANGED <<deps, WorkVars>>
    BY <1>5, <2>1, SameWork DEF PlannerAsksForTools, AskPlanner, BetweenTasks
  <2> QED
    BY <1>3, <1>5, <2>1 DEF PlannerAsksForTools, AskPlanner, WorkVars
<1>6. CASE SkipFinished
  <2>1. /\ visited' \subseteq Nodes'
        /\ UNCHANGED <<deps, pc, task, changes, previous, shifted, checkpoints, extraTasks,
                       rollbacks>>
    BY <1>6 DEF SkipFinished, WorkInv, Nodes
  <2> QED
    BY <2>1 DEF WorkInv, BetweenTasks, Nodes
<1>7. CASE StartTask
  <2>1. /\ task' \in Nodes'
        /\ UNCHANGED <<deps, visited, changes, previous, shifted, extraTasks, rollbacks>>
        /\ pc' \in {"tools", "raised"}
        /\ NoGraph \notin checkpoints'
    BY <1>7 DEF StartTask, mark_running, Transition, Checkpoint, WorkInv, Nodes
  <2> QED
    BY <2>1 DEF WorkInv, BetweenTasks, Nodes
<1>8. CASE Settle
  <2>1. /\ UNCHANGED <<deps, checkpoints, extraTasks, rollbacks>>
        /\ visited' = visited \cup {task} /\ pc' = "next"
        /\ task' = NoTask /\ changes' = None /\ previous' = None /\ shifted' = FALSE
    BY <1>8 DEF Settle, propagate_failure
  <2>2. task \in Nodes
    BY <1>8 DEF Settle, ExecInv, IterationInv
  <2>3. NoTask \notin visited'
    BY <2>1, <2>2, NoTaskIsNoNode DEF WorkInv
  <2> QED
    BY <2>1, <2>3, DropKeepsWork
<1>9. CASE Working
  <2>1. /\ UNCHANGED <<deps, visited, task, checkpoints, extraTasks, rollbacks>>
        /\ pc' \in {"code", "tools", "review", "fix", "settle"}
    BY <1>9 DEF Working, ToolPlanFails, ToolPlanRuns, CoderAsksForTools, CoderProposes,
       CoderNeedsNoChange, CoderFails, ReviewerApproves, ReviewerFails,
       ReviewerRequestsChanges, FixerFails, FixerFixes, FailTask, CompleteTask, Work,
       mark_failed, mark_completed, Transition
  <2>2. CASE UNCHANGED <<changes, previous, shifted>> /\ pc' \notin {"review", "fix"}
    BY <2>1, <2>2 DEF WorkInv, BetweenTasks, Nodes
  <2>3. CASE CoderProposes
    BY <2>1, <2>3 DEF CoderProposes, WorkInv, BetweenTasks, Nodes
  <2>4. CASE ReviewerRequestsChanges
    <3>1. pc = "review" /\ changes' = changes
      BY <2>4 DEF ReviewerRequestsChanges, AskReviewer, FailTask
    <3>2. /\ previous' = previous \/ \E issue \in Issue : previous' = <<changes, issue>>
          /\ shifted' \in BOOLEAN
      BY <2>4 DEF ReviewerRequestsChanges, FailTask, WorkInv
    <3>3. changes \in Change
      BY <3>1 DEF WorkInv
    <3>4. previous' \in (Change \X Issue) \cup {None}
      BY <3>2, <3>3 DEF WorkInv
    <3> QED
      BY <2>1, <3>1, <3>2, <3>3, <3>4 DEF WorkInv, BetweenTasks, Nodes
  <2>5. CASE FixerFixes
    BY <2>1, <2>5 DEF FixerFixes, WorkInv, BetweenTasks, Nodes
  <2> QED
    BY <1>9, <2>2, <2>3, <2>4, <2>5
    DEF Working, ToolPlanFails, ToolPlanRuns, CoderAsksForTools, CoderNeedsNoChange,
        CoderFails, ReviewerApproves, ReviewerFails, FixerFails, FailTask, CompleteTask, Work
<1> QED
  BY <1>1, <1>2, <1>4, <1>5, <1>6, <1>7, <1>8, <1>9 DEF Step, Planning, Iterating

\* It holds of every session.
LEMMA WorkInvCorrect == Spec => []WorkInv
<1>1. Init => WorkInv
  <2> SUFFICES ASSUME Init PROVE WorkInv
    OBVIOUS
  <2>1. visited = {} /\ checkpoints = {} /\ task = NoTask /\ pc = "idle"
    BY DEF Init
  <2>2. extraTasks \in 0..MaxExtraTasks /\ rollbacks \in 0..MaxRollbacks
    BY ExecutorAssumption DEF Init
  <2> QED
    BY <2>1, <2>2 DEF Init, WorkInv
<1>2. ExecInv /\ WorkInv /\ [Act]_execVars => WorkInv'
  <2> SUFFICES ASSUME ExecInv, WorkInv, [Act]_execVars PROVE WorkInv'
    OBVIOUS
  <2>1. CASE Tick \/ UNCHANGED execVars
    <3>1. UNCHANGED <<deps, pc, WorkVars>>
      BY <2>1 DEF Tick, execVars, graphVars, callVars, taskVars, sessionVars, WorkVars
    <3> QED
      BY <3>1, SameWork DEF BetweenTasks
  <2> QED
    BY <2>1, CallerKeepsWork, StepKeepsWork DEF Act
<1> QED
  BY <1>1, <1>2, ExecInvCorrect, SpecActs, PTL

\* Every variable of the executor has a value the code could give it, in every
\* session: the graphs it holds and remembers are plans with their statuses.
THEOREM ExecutorTypeCorrect == Spec => []ExecTypeOK
<1>1. /\ ExecInv /\ CallInv /\ WorkInv /\ LoopInv
      /\ wait \in {"none", "waiting", "answered"}
      => ExecTypeOK
  <2> SUFFICES ASSUME ExecInv, CallInv, WorkInv, LoopInv,
                      wait \in {"none", "waiting", "answered"}
               PROVE  ExecTypeOK
    OBVIOUS
  <2>1. /\ deps \in Plans \cup {<<>>} /\ status \in [Nodes -> TaskStatus]
        /\ kept.deps \in Plans \cup {<<>>}
        /\ kept.status \in [DOMAIN kept.deps -> TaskStatus]
    BY DEF ExecInv, GraphsInv, Stored, GoodGraph, Nodes
  <2>2. ASSUME NEW cp \in checkpoints
        PROVE  cp.deps \in Plans /\ cp.status \in [DOMAIN cp.deps -> TaskStatus]
    <3>1. IsGraph(cp) /\ Stored(cp) /\ cp # NoGraph
      BY DEF CallInv, ExecInv, GraphsInv, WorkInv
    <3> QED
      BY <3>1, GraphHasPlan DEF Stored, GoodGraph
  <2>3. pc \in Phases \cup {"idle"}
    BY DEF ExecInv, IterationInv
  <2>4. LoopTypeOK
    BY DEF LoopInv
  <2> QED
    BY <2>1, <2>2, <2>3, <2>4 DEF ExecTypeOK, CallInv, WorkInv
<1>2. Spec => [](wait \in {"none", "waiting", "answered"})
  <2>1. Init => wait \in {"none", "waiting", "answered"}
    BY DEF Init
  <2>2. wait \in {"none", "waiting", "answered"} /\ [Next]_vars
          => (wait \in {"none", "waiting", "answered"})'
    BY DEF Next, Proceeds, ToolWaits, Answered, vars
  <2> QED
    BY <2>1, <2>2, PTL DEF Spec
<1> QED
  BY <1>1, <1>2, ExecInvCorrect, CallInvCorrect, WorkInvCorrect, LoopInvOfSession, PTL

----------------------------------------------------------------------------
(* The fixes of a task.                                                     *)

TaskRuns == \E u \in Nodes : status[u] = "RUNNING"

\* A pause or an exception in a task leaves its fixes in the counter, but with
\* them a task that is RUNNING, which no continuation gets past; a closed client
\* leaves none.
FixInv ==
    /\ FixAndPlanningBudget
    /\ pc = "fix" => CanFixAgain /\ client = "open"
    /\ pc \in {"check", "plan"} => fixIterationCount = 0
    /\ client = "closed" /\ (call # "none" \/ result.needs) => fixIterationCount = 0
    /\ pc \in {"order", "next"} /\ fixIterationCount # 0 => rollbacks # 0 \/ TaskRuns
    /\ pc = "tools" /\ ~shifted => fixIterationCount = 0 \/ rollbacks # 0
    /\ call \in {"none", "additional"} /\ client = "open" =>
        OwnGraph = NoGraph \/ rollbacks # 0 \/ HasRunning(OwnGraph)

\* A step within a call.
LEMMA InCallKeepsFixes ==
    ASSUME CallInv, FixInv, call # "none", UNCHANGED <<call, client, rollbacks>>,
           FixAndPlanningBudget',
           pc' = "fix" => CanFixAgain' /\ client = "open",
           pc' \in {"check", "plan"} => fixIterationCount' = 0,
           fixIterationCount' # 0 => fixIterationCount # 0 \/ client = "open",
           pc' \in {"order", "next"} /\ fixIterationCount' # 0 => rollbacks # 0 \/ TaskRuns',
           pc' = "tools" /\ ~shifted' => fixIterationCount' = 0 \/ rollbacks # 0,
           call = "additional" => OwnGraph' = OwnGraph
    PROVE  FixInv'
<1>1. client \in {"open", "closed"}
  BY DEF CallInv
<1>2. client = "closed" => fixIterationCount' = 0
  BY DEF FixInv
<1>3. call = "additional" /\ client = "open" =>
        OwnGraph' = NoGraph \/ rollbacks # 0 \/ HasRunning(OwnGraph')
  BY DEF FixInv
<1> QED
  BY <1>1, <1>2, <1>3 DEF FixInv

\* The end of a call.
LEMMA ReturnKeepsFixes ==
    ASSUME ExecInv, CallInv, FixInv, call # "none", NEW success, NEW needs \in BOOLEAN,
           Return(success, needs), UNCHANGED <<fixIterationCount, planningCycleCount>>,
           needs => InTask \/ pc = "plan"
    PROVE  FixInv'
<1>1. /\ UNCHANGED <<deps, status, active, kept, rollbacks>>
      /\ call' = "none" /\ pc' = "idle" /\ result'.needs = needs
      /\ client' = IF call = "additional" \/ needs THEN client ELSE "closed"
      /\ OwnGraph' = OwnGraph
  BY DEF Return, graphVars, ownVars, sessionVars, OwnGraph
<1>2. FixAndPlanningBudget'
  BY DEF FixInv, FixAndPlanningBudget
<1>3. client' = "closed" /\ result'.needs => fixIterationCount' = 0
  BY <1>1 DEF FixInv, CallInv
<1>4. ASSUME client' = "open"
      PROVE  OwnGraph = NoGraph \/ rollbacks # 0 \/ HasRunning(OwnGraph)
  <2>1. CASE call = "additional"
    BY <1>1, <1>4, <2>1 DEF FixInv
  <2>2. CASE call # "additional" /\ pc = "plan"
    BY <2>2 DEF CallInv
  <2>3. CASE call # "additional" /\ InTask
    <3>1. OwnGraph = [deps |-> deps, status |-> status]
      BY <2>3 DEF CallInv, OwnGraph
    <3>2. task \in DOMAIN deps /\ status[task] = "RUNNING"
      BY <2>3 DEF ExecInv, IterationInv, Nodes
    <3> QED
      BY <3>1, <3>2 DEF HasRunning
  <2> QED
    BY <1>1, <1>4, <2>1, <2>2, <2>3
<1> QED
  BY <1>1, <1>2, <1>3, <1>4 DEF FixInv

\* The caller's choices.
LEMMA CallerKeepsFixes ==
    ASSUME ExecInv, CallInv, FixInv, Caller
    PROVE  FixInv'
<1> USE LimitsAssumption DEF FixAndPlanningBudget
<1>1. call = "none" /\ pc = "idle"
  BY DEF Caller, ExecInv, IterationInv, execute, continue_execution,
     continue_execution_Asserts, execute_additional_task, rollback_to_checkpoint, Enter
<1>2. CASE execute
  BY <1>2 DEF execute, Enter, NewController, FixInv
<1>3. CASE execute_additional_task
  <2>1. OwnGraph' = OwnGraph /\ UNCHANGED <<client, rollbacks>>
    BY <1>3 DEF execute_additional_task, graphVars, ownVars, OwnGraph
  <2>2. fixIterationCount' = 0 /\ planningCycleCount' = 0 /\ pc' = "check"
    BY <1>3 DEF execute_additional_task, Enter, reset_for_new_task
  <2>3. client = "open" => OwnGraph = NoGraph \/ rollbacks # 0 \/ HasRunning(OwnGraph)
    BY <1>1 DEF FixInv
  <2> QED
    BY <2>1, <2>2, <2>3 DEF FixInv
<1>4. CASE continue_execution_Asserts
  <2>1. /\ UNCHANGED <<client, rollbacks, pc, fixIterationCount, planningCycleCount>>
        /\ OwnGraph = NoGraph /\ OwnGraph' = OwnGraph
        /\ ~result'.needs /\ call' = "none"
    BY <1>1, <1>4 DEF continue_execution_Asserts, graphVars, ownVars, sessionVars, loopVars,
       OwnGraph
  <2> QED
    BY <1>1, <2>1 DEF FixInv
<1>5. CASE continue_execution
  <2>1. /\ result.needs /\ OwnGraph # NoGraph
        /\ call' = "continue" /\ pc' = "order"
        /\ deps' = OwnGraph.deps /\ status' = OwnGraph.status
        /\ UNCHANGED <<client, rollbacks, fixIterationCount, planningCycleCount>>
    BY <1>5 DEF continue_execution, Enter, sessionVars, extend_iterations
  <2>2. client \in {"open", "closed"}
    BY <2>1 DEF CallInv
  <2>3. client = "closed" => fixIterationCount = 0
    BY <2>1 DEF FixInv
  <2>4. client = "open" => rollbacks # 0 \/ HasRunning(OwnGraph)
    BY <1>1, <2>1 DEF FixInv
  <2>5. HasRunning(OwnGraph) => TaskRuns'
    BY <2>1 DEF HasRunning, TaskRuns, Nodes
  <2> QED
    BY <1>1, <2>1, <2>2, <2>3, <2>4, <2>5 DEF FixInv
<1>6. CASE rollback_to_checkpoint
  <2>1. /\ UNCHANGED <<call, pc, result, client, fixIterationCount, planningCycleCount>>
        /\ rollbacks' # 0
    BY <1>6 DEF rollback_to_checkpoint, callVars, loopVars, CallInv
  <2> QED
    BY <1>1, <2>1 DEF FixInv
<1> QED
  BY <1>2, <1>3, <1>4, <1>5, <1>6 DEF Caller

\* A task is started only when nothing is RUNNING.
LEMMA StartsAlone ==
    ASSUME ExecInv, StartTask
    PROVE  ~TaskRuns
<1>1. PICK t \in Nodes : ComesNext(t, visited) /\ mark_running(t)
  BY DEF StartTask
<1>2. status[t] = "PENDING"
  BY <1>1 DEF mark_running, Transition, CanTransition, AllowedTransitions, ExecInv, GraphsInv,
     GoodGraph, TaskStatus, Nodes
<1>3. pc = "next"
  BY DEF StartTask
<1> QED
  BY <1>1, <1>2, <1>3, MetInOrder DEF TaskRuns

\* Planning and iterating.
LEMMA PlanKeepsFixes ==
    ASSUME ExecInv, CallInv, FixInv, LoopTypeOK, Planning
    PROVE  FixInv'
<1> USE LimitsAssumption DEF LoopTypeOK, FixAndPlanningBudget
<1>1. call # "none"
  BY StepsAreInCalls DEF Step
<1>2. CASE PlanFailed
  <2>1. Return(FALSE, FALSE) /\ UNCHANGED <<fixIterationCount, planningCycleCount>>
    BY <1>2 DEF PlanFailed, Terminate, loopVars
  <2> QED
    BY <1>1, <2>1, ReturnKeepsFixes
<1>3. CASE ~PlanFailed
  <2>1. pc = "plan" /\ fixIterationCount = 0 /\ FixAndPlanningBudget
    BY <1>3 DEF Planning, PlanByCap, PlannerInputRejected, PlannerPlans, PlannerRepeatsId,
       PlannerAsksForTools, PlannerMalformed, PlannerFails, AskPlanner, FixInv
  <2>2. fixIterationCount' = 0 /\ planningCycleCount' <= MaxPlanningCycles
    <3>1. CASE UNCHANGED loopVars
      BY <2>1, <3>1 DEF loopVars
    <3>2. CASE AskPlanner
      BY <2>1, <3>2 DEF AskPlanner, begin_iteration, CanReplan
    <3> QED
      BY <1>3, <3>1, <3>2 DEF Planning, PlanByCap, PlannerInputRejected, PlannerPlans,
         PlannerRepeatsId, PlannerAsksForTools, PlannerMalformed, PlannerFails
  <2>3. /\ UNCHANGED <<call, client, rollbacks>> /\ pc' # "fix"
        /\ call = "additional" => OwnGraph' = OwnGraph
    <3>1. CASE \E plan \in Plans : AcceptPlan(plan)
      BY <3>1 DEF AcceptPlan, Checkpoint, OwnGraph
    <3>2. CASE UNCHANGED graphVars /\ \E at \in {"plan", "plan_failed", "raised"} : Goto(at)
      BY <3>2 DEF Goto, graphVars, ownVars, sessionVars, OwnGraph
    <3> QED
      BY <1>3, <3>1, <3>2, ExecutorAssumption DEF Planning, PlanByCap, PlannerInputRejected,
         PlannerPlans, PlannerRepeatsId, PlannerAsksForTools, PlannerMalformed, PlannerFails
  <2> QED
    BY <1>1, <2>1, <2>2, <2>3, InCallKeepsFixes
<1> QED
  BY <1>2, <1>3

\* The iteration over the graph.
LEMMA IterationKeepsFixes ==
    ASSUME ExecInv, CallInv, FixInv, LoopTypeOK, Iterating
    PROVE  FixInv'
<1> USE LimitsAssumption DEF LoopTypeOK, FixAndPlanningBudget
<1>1. call # "none"
  BY StepsAreInCalls DEF Step
<1>2. CASE FinishExecute \/ FinishContinue \/ FinishAdditional
  <2>1. UNCHANGED <<fixIterationCount, planningCycleCount>>
    BY <1>2 DEF FinishExecute, FinishContinue, FinishAdditional, Terminate, loopVars
  <2>2. PICK success : Return(success, FALSE)
    BY <1>2, Zenon DEF FinishExecute, FinishContinue, FinishAdditional
  <2> QED
    BY <1>1, <2>1, <2>2, ReturnKeepsFixes
<1>3. CASE Order \/ SkipFinished
  <2>1. /\ UNCHANGED <<call, client, rollbacks, fixIterationCount, planningCycleCount>>
        /\ pc \in {"order", "next"} /\ pc' \in {"next", "raised"}
        /\ OwnGraph' = OwnGraph
    BY <1>3 DEF Order, SkipFinished, Goto, loopVars, graphVars, ownVars, sessionVars, OwnGraph
  <2>2. TaskRuns => TaskRuns'
    BY <1>3 DEF Order, SkipFinished, graphVars, TaskRuns, Nodes
  <2> QED
    BY <1>1, <2>1, <2>2, InCallKeepsFixes DEF FixInv
<1>4. CASE StartRefused
  <2>1. /\ UNCHANGED <<call, client, rollbacks, fixIterationCount, planningCycleCount>>
        /\ pc' = "raised" /\ OwnGraph' = OwnGraph
    BY <1>4 DEF StartRefused, Goto, loopVars, graphVars, ownVars, sessionVars, OwnGraph
  <2> QED
    BY <1>1, <2>1, InCallKeepsFixes DEF FixInv
<1>5. CASE StartTask
  <2>1. /\ UNCHANGED <<call, client, rollbacks, fixIterationCount, planningCycleCount, active,
                       kept>>
        /\ pc = "next" /\ pc' \in {"tools", "raised"}
    BY <1>5 DEF StartTask, Checkpoint, loopVars, ownVars
  <2>2. fixIterationCount = 0 \/ rollbacks # 0
    BY <1>5, <2>1, StartsAlone DEF FixInv
  <2>3. call = "additional" => OwnGraph' = OwnGraph
    BY <2>1 DEF CallInv, Planned, Iterates, OwnGraph
  <2> QED
    BY <1>1, <2>1, <2>2, <2>3, InCallKeepsFixes DEF FixInv
<1>6. CASE Settle
  <2>1. /\ UNCHANGED <<call, client, rollbacks, planningCycleCount, active, kept>>
        /\ fixIterationCount' = 0 /\ pc = "settle" /\ pc' = "next"
    BY <1>6 DEF Settle, Goto, reset_fix_counter, ownVars, sessionVars
  <2>2. call = "additional" => OwnGraph' = OwnGraph
    BY <2>1 DEF CallInv, Planned, Iterates, OwnGraph
  <2> QED
    BY <1>1, <2>1, <2>2, InCallKeepsFixes DEF FixInv
<1> QED
  BY <1>2, <1>3, <1>4, <1>5, <1>6 DEF Iterating

\* The cycle of one task.
LEMMA WorkKeepsFixes ==
    ASSUME ExecInv, CallInv, FixInv, LoopTypeOK, Working
    PROVE  FixInv'
<1> USE LimitsAssumption DEF LoopTypeOK, FixAndPlanningBudget
<1>1. call # "none" /\ InTask
  BY StepsAreInCalls DEF Step, InTask, Working, ToolPlanFails, ToolPlanRuns,
     CoderAsksForTools, CoderProposes, CoderNeedsNoChange, CoderFails, ReviewerApproves,
     ReviewerFails, ReviewerRequestsChanges, FixerFails, FixerFixes, AskCoder,
     AskReviewer, AskFixer
<1>2. /\ UNCHANGED <<call, client, rollbacks, active, kept>>
      /\ pc' \in {"tools", "code", "review", "fix", "settle"}
  BY DEF Working, ToolPlanFails, ToolPlanRuns, CoderAsksForTools, CoderProposes,
     CoderNeedsNoChange, CoderFails, ReviewerApproves, ReviewerFails,
     ReviewerRequestsChanges, FixerFails, FixerFixes, FailTask, CompleteTask, Work, Goto,
     ownVars, sessionVars
<1>3. call = "additional" => OwnGraph' = OwnGraph
  BY <1>1, <1>2 DEF CallInv, Planned, Iterates, OwnGraph
<1>4. CASE FixerFails \/ FixerFixes
  <2>1. /\ pc = "fix" /\ fixIterationCount' = fixIterationCount + 1
        /\ planningCycleCount' = planningCycleCount
        /\ pc' \in {"settle", "review"}
    BY <1>4 DEF FixerFails, FixerFixes, AskFixer, begin_iteration, FailTask, Work, Goto
  <2> QED
    BY <1>1, <1>2, <1>3, <2>1, InCallKeepsFixes DEF FixInv, CanFixAgain
<1>5. CASE ReviewerRequestsChanges
  <2>1. /\ UNCHANGED <<fixIterationCount, planningCycleCount>> /\ client = "open"
        /\ pc' = "fix" => CanFixAgain'
        /\ pc' = "tools" => shifted'
    BY <1>5 DEF ReviewerRequestsChanges, AskReviewer, begin_iteration, CanFixAgain, FailTask,
       Work, Goto
  <2> QED
    BY <1>1, <1>2, <1>3, <2>1, InCallKeepsFixes DEF FixInv
<1>6. CASE ~(FixerFails \/ FixerFixes \/ ReviewerRequestsChanges)
  <2>1. /\ UNCHANGED <<fixIterationCount, planningCycleCount>>
        /\ pc' \in {"code", "review", "settle"}
    BY <1>6 DEF Working, ToolPlanFails, ToolPlanRuns, CoderAsksForTools, CoderProposes,
       CoderNeedsNoChange, CoderFails, ReviewerApproves, ReviewerFails, AskCoder, AskReviewer,
       begin_iteration, FailTask, CompleteTask, Work, Goto, loopVars
  <2> QED
    BY <1>1, <1>2, <1>3, <2>1, InCallKeepsFixes DEF FixInv
<1> QED
  BY <1>4, <1>5, <1>6

\* It holds of every session.
LEMMA FixInvCorrect == Spec => []FixInv
<1> USE LimitsAssumption DEF FixAndPlanningBudget
<1>1. Init => FixInv
  BY DEF Init, LoopInit, FixInv, OwnGraph, NoGraph
<1>2. ExecInv /\ CallInv /\ FixInv /\ LoopInv /\ [Act]_execVars => FixInv'
  <2> SUFFICES ASSUME ExecInv, CallInv, FixInv, LoopInv, [Act]_execVars PROVE FixInv'
    OBVIOUS
  <2>1. LoopTypeOK
    BY DEF LoopInv
  <2>2. CASE Check
    <3>1. /\ UNCHANGED <<fixIterationCount, planningCycleCount, call, client, rollbacks>>
          /\ pc = "check" /\ pc' \in {"plan", "raised"} /\ OwnGraph' = OwnGraph
      BY <2>2 DEF Check, Goto, start, loopVars, graphVars, ownVars, sessionVars, OwnGraph
    <3> QED
      BY <2>2, <3>1, StepsAreInCalls, InCallKeepsFixes DEF Step, FixInv
  <2>3. CASE TimesOut
    <3>1. /\ UNCHANGED <<fixIterationCount, planningCycleCount, call, client, rollbacks>>
          /\ pc' = "raised" /\ OwnGraph' = OwnGraph
      BY <2>3 DEF TimesOut, begin_iteration_TimesOut, Terminate, Goto, graphVars, ownVars,
         sessionVars, OwnGraph
    <3> QED
      BY <2>3, <3>1, StepsAreInCalls, InCallKeepsFixes DEF Step, FixInv
  <2>4. CASE Raised
    <3>1. Return(FALSE, FALSE) /\ UNCHANGED <<fixIterationCount, planningCycleCount>>
      BY <2>4 DEF Raised, Terminate, loopVars
    <3> QED
      BY <2>4, <3>1, StepsAreInCalls, ReturnKeepsFixes DEF Step
  <2>5. CASE Pauses
    <3>1. /\ Return(FALSE, TRUE) /\ UNCHANGED <<fixIterationCount, planningCycleCount>>
          /\ InTask \/ pc = "plan"
      BY <2>5 DEF Pauses, begin_iteration_Pauses, AboutToAsk, InTask
    <3> QED
      BY <2>5, <3>1, StepsAreInCalls, ReturnKeepsFixes DEF Step
  <2>6. CASE Tick \/ UNCHANGED execVars
    <3>1. /\ UNCHANGED <<deps, status, call, pc, result, active, kept, client, shifted,
                         rollbacks, fixIterationCount, planningCycleCount>>
      BY <2>6 DEF Tick, ClockExpires, execVars, loopVars, graphVars, callVars, ownVars, taskVars,
         sessionVars
    <3>2. OwnGraph' = OwnGraph /\ TaskRuns' = TaskRuns /\ CanFixAgain' = CanFixAgain
      BY <3>1 DEF OwnGraph, TaskRuns, Nodes, CanFixAgain
    <3> QED
      BY <3>1, <3>2 DEF FixInv
  <2> QED
    BY <2>1, <2>2, <2>3, <2>4, <2>5, <2>6, CallerKeepsFixes, PlanKeepsFixes,
       IterationKeepsFixes, WorkKeepsFixes DEF Act, Step
<1> QED
  BY <1>1, <1>2, ExecInvCorrect, CallInvCorrect, LoopInvOfSession, SpecActs, PTL

\* No session fixes a task or plans a run more often than it may, and until the
\* user rolls back the fixes of a task that was interrupted are never charged to
\* another one: every task starts with the full number.
THEOREM FixesStayInBudget == Spec => []FixesInBudget
<1>1. FixInv => FixesInBudget
  BY DEF FixInv, FixesInBudget, FreshFixBudget
<1> QED
  BY <1>1, FixInvCorrect, PTL

----------------------------------------------------------------------------
(* The executor implements TaskRun.                                         *)

\* A node is blocked because of one it depends on: the failed one, or one that
\* is blocked with it.
LEMMA BlockedForAReason ==
    ASSUME NEW f \in Nodes, NEW st, NEW t \in BlockedBy(f, st)
    PROVE  \E d \in KnownDeps(t) : d = f \/ d \in BlockedBy(f, st)
<1> DEFINE B == BlockedBy(f, st)
<1> SUFFICES ASSUME \A d \in KnownDeps(t) : d # f /\ d \notin B
             PROVE  FALSE
  OBVIOUS
<1>1. B \subseteq Nodes
  BY BlockedByWasPending
<1>2. ClosedUnderBlocking(B \ {t}, f, st)
  <2> SUFFICES ASSUME NEW u \in (B \ {t}) \cup {f}, NEW d \in Dependents(u), st[d] = "PENDING"
               PROVE  d \in B \ {t}
    BY DEF ClosedUnderBlocking
  <2>1. d \in B
    BY BlockedByIsClosed DEF ClosedUnderBlocking
  <2>2. d # t
    BY <1>1 DEF Dependents, KnownDeps
  <2> QED
    BY <2>1, <2>2
<1>3. B \ {t} \in SUBSET Nodes
  BY <1>1
<1>4. t \in B \ {t}
  BY <1>2, <1>3 DEF BlockedBy
<1> QED
  BY <1>4

\* A session of one run: no additional task, no rollback.
OneRun == extraTasks = 0 /\ rollbacks = 0

\* The caller begins, resumes or gives up a run.
LEMMA CallerImplements ==
    ASSUME ExecInv, CallInv, Caller, OneRun'
    PROVE  [Run!RunNext]_Run!runVars
<1> USE DEF Run!runVars, Run!graphVars, Run!RunNext, Verdict, graphVars
<1>1. call = "none"
  BY DEF Caller, execute, continue_execution, continue_execution_Asserts,
     execute_additional_task, rollback_to_checkpoint, Enter
<1>2. CASE execute
  <2>1. Run!Begin
    BY <1>2 DEF execute, Enter, Run!Begin
  <2> QED
    BY <2>1
<1>3. CASE execute_additional_task
  BY <1>3 DEF execute_additional_task, OneRun, CallInv
<1>4. CASE continue_execution_Asserts
  <2>1. /\ UNCHANGED <<deps, status, call, client>>
        /\ result' = [success |-> FALSE, needs |-> FALSE]
        /\ result.needs
    BY <1>4 DEF continue_execution_Asserts
  <2>2. Verdict = "paused" /\ Verdict' = "failure"
    BY <1>1, <2>1 DEF CallInv
  <2>3. Run!Conclude
    BY <2>1, <2>2 DEF Run!Conclude
  <2> QED
    BY <2>3
<1>5. CASE continue_execution
  <2>1. /\ result.needs /\ call' = "continue" /\ extraTasks' = extraTasks
        /\ deps' = OwnGraph.deps /\ status' = OwnGraph.status
    BY <1>5 DEF continue_execution, Enter, sessionVars
  <2>2. OwnGraph = [deps |-> deps, status |-> status]
    BY <2>1 DEF OneRun, CallInv, OwnGraph
  <2>3. Verdict = "paused" /\ Verdict' = "running"
    BY <1>1, <2>1 DEF CallInv
  <2>4. Run!Resume
    BY <2>1, <2>2, <2>3 DEF Run!Resume
  <2> QED
    BY <2>4
<1>6. CASE rollback_to_checkpoint
  BY <1>6 DEF rollback_to_checkpoint, OneRun, CallInv
<1> QED
  BY <1>2, <1>3, <1>4, <1>5, <1>6 DEF Caller

\* The end of a call is the verdict it returns.
LEMMA ReturnImplements ==
    ASSUME CallInv, call # "none", NEW success \in BOOLEAN, NEW needs \in BOOLEAN,
           ~(success /\ needs), Return(success, needs),
           success => Nodes # {} /\ \A t \in Nodes : status[t] = "COMPLETED"
    PROVE  Run!RunNext
<1>1. /\ UNCHANGED <<deps, status>> /\ call' = "none"
      /\ result' = [success |-> success, needs |-> needs]
      /\ client' \in {client, "closed"}
  BY DEF Return, graphVars
<1>2. client' # "none"
  BY <1>1 DEF CallInv
<1>3. /\ Verdict = "running"
      /\ Verdict' = IF success THEN "success" ELSE IF needs THEN "paused" ELSE "failure"
  BY <1>1, <1>2 DEF Verdict
<1>4. Run!Conclude
  BY <1>1, <1>3 DEF Run!Conclude, Run!Nodes, Run!graphVars, Nodes
<1> QED
  BY <1>4 DEF Run!RunNext

\* What a call returns as success is one.
LEMMA SuccessImplements ==
    ASSUME ExecInv, CallInv, pc = "next", Available(visited) = {}, NothingFailed
    PROVE  Nodes # {} /\ \A t \in Nodes : status[t] = "COMPLETED"
<1>1. Nodes # {}
  BY ExecutorAssumption DEF CallInv, Planned, Iterates, Nodes
<1> QED
  BY <1>1, NothingIsLeft

\* A step that adopts a plan.
LEMMA AcceptPlanImplements ==
    ASSUME CallInv, call = "execute", pc = "plan", NEW plan \in Plans, AcceptPlan(plan)
    PROVE  Run!RunNext
<1>1. OwnGraph = NoGraph /\ active = "own"
  BY DEF CallInv
<1>2. deps = <<>>
  BY <1>1 DEF OwnGraph, NoGraph
<1>3. Run!NewGraph(plan) /\ call' = call
  BY DEF AcceptPlan, NewGraph, Run!NewGraph
<1>4. Run!AdoptPlan
  BY <1>2, <1>3 DEF Run!AdoptPlan, Run!Nodes, Verdict
<1> QED
  BY <1>4 DEF Run!RunNext

\* A task starts, with its dependencies COMPLETED and nothing else RUNNING.
LEMMA StartImplements ==
    ASSUME ExecInv, CallInv, StartTask
    PROVE  Run!RunNext
<1>1. PICK t \in Nodes : ComesNext(t, visited) /\ mark_running(t)
  BY DEF StartTask
<1>2. pc = "next" /\ call' = call /\ call # "none"
  BY DEF StartTask, ExecInv, IterationInv
<1>3. status[t] = "PENDING"
  BY <1>1 DEF mark_running, Transition, CanTransition, AllowedTransitions, ExecInv, GraphsInv,
     GoodGraph, TaskStatus, Nodes
<1>4. /\ \A x \in KnownDeps(t) : status[x] = "COMPLETED"
      /\ \A u \in Nodes : status[u] # "RUNNING"
  BY <1>1, <1>2, <1>3, MetInOrder
<1>5. Run!mark_running(t)
  BY <1>1 DEF mark_running, Transition, CanTransition, AllowedTransitions,
     Run!mark_running, Run!Transition, Run!CanTransition, Run!AllowedTransitions
<1>6. Run!StartTask(t)
  BY <1>2, <1>3, <1>4, <1>5 DEF Run!StartTask, Run!Nodes, Run!KnownDeps, Nodes, KnownDeps, Verdict
<1> QED
  BY <1>1, <1>6 DEF Run!RunNext, Run!Nodes, Nodes

\* A task ends.
LEMMA EndImplements ==
    ASSUME ExecInv, InTask, FailTask \/ CompleteTask
    PROVE  Run!RunNext
<1>1. task \in Nodes /\ call' = call /\ call # "none"
  BY DEF FailTask, CompleteTask, Goto, InTask, ExecInv, IterationInv
<1>2. Run!mark_failed(task) \/ Run!mark_completed(task)
  BY DEF FailTask, CompleteTask, mark_failed, mark_completed, Transition, CanTransition,
     AllowedTransitions, Run!mark_failed, Run!mark_completed, Run!Transition,
     Run!CanTransition, Run!AllowedTransitions
<1>3. Run!EndTask(task)
  BY <1>1, <1>2 DEF Run!EndTask, Verdict
<1> QED
  BY <1>1, <1>3 DEF Run!RunNext, Run!Nodes, Nodes

\* The dependents of a failed task are given up, each for a reason.
LEMMA SettleImplements ==
    ASSUME ExecInv, Settle
    PROVE  [Run!RunNext]_Run!runVars
<1>1. /\ pc = "settle" /\ call' = call /\ call # "none" /\ deps' = deps /\ task \in Nodes
  BY DEF Settle, Goto, graphVars, propagate_failure, ExecInv, IterationInv
<1>2. CASE status[task] = "FAILED"
  <2> DEFINE S == BlockedBy(task, status)
  <2>1. /\ S \in SUBSET {t \in Nodes : status[t] = "PENDING"}
        /\ status' = [t \in Nodes |-> IF t \in S THEN "BLOCKED" ELSE status[t]]
    BY <1>2, BlockedByWasPending DEF Settle, propagate_failure, PropagateFailure
  <2>2. \A t \in S : \E d \in KnownDeps(t) : status[d] \in {"FAILED", "BLOCKED"} \/ d \in S
    BY <1>1, <1>2, BlockedForAReason
  <2> HIDE DEF S
  <2>3. Run!BlockTasks
    BY <1>1, <2>1, <2>2 DEF Run!BlockTasks, Run!Nodes, Run!KnownDeps, Nodes, KnownDeps, Verdict
  <2> QED
    BY <2>3 DEF Run!RunNext
<1>3. CASE status[task] # "FAILED"
  BY <1>1, <1>3 DEF Settle, Run!runVars, Run!graphVars, graphVars, Verdict
<1> QED
  BY <1>2, <1>3

\* The steps of a call.
LEMMA StepImplements ==
    ASSUME ExecInv, CallInv, Step, OneRun
    PROVE  [Run!RunNext]_Run!runVars
<1> USE ExecutorAssumption
<1>1. call # "none" /\ call # "additional"
  BY StepsAreInCalls DEF CallInv, OneRun
<1>2. ASSUME NEW at, Goto(at), UNCHANGED graphVars
      PROVE  [Run!RunNext]_Run!runVars
  BY <1>1, <1>2 DEF Goto, graphVars, Run!runVars, Run!graphVars, Verdict
<1>3. pc = "plan" => call = "execute"
  BY <1>1 DEF CallInv
<1>4. CASE Check \/ TimesOut
  BY <1>2, <1>4 DEF Check, TimesOut
<1>5. CASE Raised \/ Pauses \/ PlanFailed
  BY <1>1, <1>5, ReturnImplements DEF Raised, Pauses, PlanFailed
<1>6. CASE PlanByCap \/ PlannerPlans \/ PlannerMalformed
  BY <1>3, <1>6, AcceptPlanImplements DEF PlanByCap, PlannerPlans, PlannerMalformed, AskPlanner
<1>7. CASE PlannerAsksForTools
  BY <1>2, <1>3, <1>7, AcceptPlanImplements DEF PlannerAsksForTools, AskPlanner
<1>8. CASE PlannerInputRejected \/ PlannerRepeatsId \/ PlannerFails
  BY <1>2, <1>8 DEF PlannerInputRejected, PlannerRepeatsId, PlannerFails
<1>9. CASE Order \/ SkipFinished \/ StartRefused
  BY <1>2, <1>9 DEF Order, SkipFinished, StartRefused
<1>10. CASE FinishExecute \/ FinishAdditional
  <2>1. NothingFailed \in BOOLEAN
    BY DEF NothingFailed, NoneIn
  <2>2. Return(NothingFailed, FALSE) /\ pc = "next" /\ Available(visited) = {}
    BY <1>10 DEF FinishExecute, FinishAdditional
  <2> QED
    BY <1>1, <2>1, <2>2, SuccessImplements, ReturnImplements
<1>11. CASE FinishContinue
  <2> DEFINE complete == NothingFailed /\ NoneIn(TaskStatus \ {"COMPLETED"})
  <2>1. complete \in BOOLEAN
    BY DEF NothingFailed, NoneIn
  <2>2. Return(complete, FALSE) /\ pc = "next" /\ Available(visited) = {}
    BY <1>11 DEF FinishContinue
  <2>3. complete => NothingFailed
    OBVIOUS
  <2> HIDE DEF complete
  <2> QED
    BY <1>1, <2>1, <2>2, <2>3, SuccessImplements, ReturnImplements
<1>12. CASE Working
  <2>1. InTask
    BY <1>12 DEF InTask, Working, ToolPlanFails, ToolPlanRuns,
       CoderAsksForTools, CoderProposes, CoderNeedsNoChange, CoderFails, ReviewerApproves,
       ReviewerFails, ReviewerRequestsChanges, FixerFails, FixerFixes, AskCoder,
       AskReviewer, AskFixer
  <2>2. FailTask \/ CompleteTask \/ \E at : Work(at)
    BY <1>12 DEF Working, ToolPlanFails, ToolPlanRuns, CoderAsksForTools, CoderProposes,
       CoderNeedsNoChange, CoderFails, ReviewerApproves, ReviewerFails,
       ReviewerRequestsChanges, FixerFails, FixerFixes
  <2> QED
    BY <1>2, <2>1, <2>2, EndImplements DEF Work
<1> QED
  BY <1>4, <1>5, <1>6, <1>7, <1>8, <1>9, <1>10, <1>11, <1>12, StartImplements,
     SettleImplements DEF Step, Planning, Iterating

\* One run, with all its pauses and continuations, implements TaskRun: every
\* step of the executor is a step of that specification or changes nothing in
\* it, for every set of plans and every limit.
THEOREM ExecutorImplementsTaskRun == Spec /\ []OneRun => ImplementsTaskRun
<1>1. Init => Run!RunInit
  BY DEF Init, Run!RunInit, Verdict
<1>2. ExecInv /\ CallInv /\ OneRun /\ OneRun' /\ [Act]_execVars => [Run!RunNext]_Run!runVars
  <2> SUFFICES ASSUME ExecInv, CallInv, OneRun, OneRun', [Act]_execVars
               PROVE  [Run!RunNext]_Run!runVars
    OBVIOUS
  <2>1. CASE Tick \/ UNCHANGED execVars
    BY <2>1 DEF Tick, execVars, graphVars, callVars, Run!runVars, Run!graphVars, Verdict
  <2> QED
    BY <2>1, CallerImplements, StepImplements DEF Act
<1> QED
  BY <1>1, <1>2, ExecInvCorrect, CallInvCorrect, SpecActs, PTL DEF ImplementsTaskRun, Run!RunSpec
=============================================================================
