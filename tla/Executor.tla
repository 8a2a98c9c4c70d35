------------------------------ MODULE Executor ------------------------------
(****************************************************************************)
(* The executor (src/orchestration/executor.py) with its loop controller    *)
(* and its task graph: the three calls that work through a graph, execute,  *)
(* continue_execution and execute_additional_task, the planning loop, the   *)
(* code-review-fix cycle of one task, and the caller that decides which     *)
(* call comes next (src/cli/app.py).                                        *)
(*                                                                          *)
(* The code runs in one thread; `pc` names the statement it is at, and only *)
(* the clock moves in between.  What the language model answers, what the   *)
(* tools and the file system return, is chosen freely.  A tool may wait for *)
(* its user or for a tool server, with no limit of time, and the call with  *)
(* it.  The graph in `deps` and `status` is the one the current or the last *)
(* call iterates.                                                           *)
(****************************************************************************)
EXTENDS TaskGraph, LoopController

CONSTANTS
    Change,         \* fingerprints of a set of proposed changes
    Issue,          \* fingerprints of a set of review issues
    NoTask,         \* no task in hand
    None,           \* no fingerprint yet
    MaxExtraTasks,  \* bound of the model: additional tasks in a session
    MaxRollbacks    \* bound of the model: rollbacks in a session

\* The one-step plan of _build_fallback_plan.
FallbackPlan == [t \in {1} |-> {}]

ASSUME ExecutorAssumption ==
    /\ FallbackPlan \in Plans
    /\ \A plan \in Plans : DOMAIN plan # {}
    /\ NoTask \notin TaskId
    /\ None \notin Change /\ None \notin (Change \X Issue)
    /\ MaxExtraTasks \in Nat /\ MaxRollbacks \in Nat

VARIABLES
    call,       \* the call in progress: "execute", "continue", "additional"
    pc,
    active,     \* whose graph is iterated: "own" (_task_graph) or "local"
    kept,       \* _task_graph while a local graph is iterated
    client,     \* _llm_client: "none", "open", "closed"
    visited,    \* ids the iteration over the graph is done with
    task,       \* the task in hand
    changes,    \* current_changes
    previous,   \* previous_change_fp with previous_issue_fp
    shifted,    \* strategy_shift_attempted
    result,     \* success and needs_continuation of the ExecutionResult
    checkpoints, \* the states of _task_graph in the RollbackManager
    extraTasks, \* additional tasks asked for so far
    rollbacks,  \* rollbacks asked for so far
    wait        \* a tool of the call in progress: "none", "waiting", "answered"

callVars == <<call, pc, result>>
ownVars  == <<active, kept>>
taskVars == <<task, changes, previous, shifted>>
sessionVars == <<checkpoints, extraTasks, rollbacks>>
execVars ==
    <<loopVars, graphVars, callVars, ownVars, taskVars, client, visited, sessionVars>>
vars == <<execVars, wait>>

NoGraph == [deps |-> <<>>, status |-> <<>>]

\* self._task_graph.
OwnGraph ==
    IF active = "own" THEN [deps |-> deps, status |-> status] ELSE kept

Phases ==
    {"check", "plan", "plan_failed", "order", "next", "tools", "code",
     "review", "fix", "settle", "raised"}

----------------------------------------------------------------------------
Init ==
    /\ LoopInit
    /\ deps = <<>> /\ status = <<>>
    /\ call = "none" /\ pc = "idle"
    /\ active = "own" /\ kept = NoGraph
    /\ client = "none"
    /\ visited = {}
    /\ task = NoTask /\ changes = None /\ previous = None /\ shifted = FALSE
    /\ result = [success |-> FALSE, needs |-> FALSE]
    /\ checkpoints = {} /\ extraTasks = 0 /\ rollbacks = 0
    /\ wait = "none"

Enter(name, at) ==
    /\ call = "none" /\ call' = name
    /\ pc' = at
    /\ result' = [success |-> FALSE, needs |-> FALSE]

\* Leave a call: the task in hand is dropped, and execute and
\* continue_execution close the client unless they ask to be continued.
Return(success, needs) ==
    /\ call' = "none" /\ pc' = "idle"
    /\ result' = [success |-> success, needs |-> needs]
    /\ client' = IF call = "additional" \/ needs THEN client ELSE "closed"
    /\ visited' = {}
    /\ task' = NoTask /\ changes' = None /\ previous' = None /\ shifted' = FALSE
    /\ UNCHANGED <<graphVars, ownVars, sessionVars>>

\* Go on in the same call; the graphs, the client and the session stay.
Goto(at) == pc' = at /\ UNCHANGED <<call, result, ownVars, client, sessionVars>>

\* _checkpoint: the RollbackManager remembers _task_graph, never a local graph,
\* before it writes to disk and may fail.
Checkpoint ==
    /\ checkpoints' = checkpoints \cup ({OwnGraph'} \ {NoGraph})
    /\ UNCHANGED <<extraTasks, rollbacks>>

----------------------------------------------------------------------------
(* The calls.                                                               *)

\* execute on a new executor: _initialize_run.
execute ==
    /\ client = "none"
    /\ Enter("execute", "check")
    /\ NewController
    /\ client' = "open"
    /\ UNCHANGED <<graphVars, ownVars, taskVars, visited, sessionVars>>

\* continue_execution without a graph is an AssertionError: the caller gets no
\* result and asks no more.
continue_execution_Asserts ==
    /\ call = "none" /\ result.needs
    /\ OwnGraph = NoGraph
    /\ result' = [success |-> FALSE, needs |-> FALSE]
    /\ UNCHANGED <<loopVars, graphVars, call, pc, ownVars, taskVars, client,
                   visited, sessionVars>>

\* continue_execution, when the user agrees to go on: it iterates _task_graph,
\* whichever graph the paused call was iterating.
continue_execution ==
    /\ result.needs
    /\ OwnGraph # NoGraph
    /\ maxIterations + Extension <= IterationCap
    /\ Enter("continue", "order")
    /\ extend_iterations
    /\ deps' = OwnGraph.deps /\ status' = OwnGraph.status
    /\ active' = "own" /\ kept' = NoGraph
    /\ UNCHANGED <<taskVars, client, visited, sessionVars>>

\* execute_additional_task, in project mode.
execute_additional_task ==
    /\ client # "none" /\ extraTasks < MaxExtraTasks
    /\ Enter("additional", "check")
    /\ reset_for_new_task
    /\ extraTasks' = extraTasks + 1
    /\ UNCHANGED <<graphVars, ownVars, taskVars, client, visited, checkpoints, rollbacks>>

\* rollback_to_checkpoint, between two calls: the graph of the checkpoint
\* replaces _task_graph, and nothing tells the controller.
rollback_to_checkpoint ==
    /\ call = "none" /\ rollbacks < MaxRollbacks
    /\ OwnGraph # NoGraph
    /\ \E checkpoint \in checkpoints :
        IF active = "own"
        THEN /\ deps' = checkpoint.deps /\ status' = checkpoint.status
             /\ UNCHANGED kept
        ELSE kept' = checkpoint /\ UNCHANGED graphVars
    /\ rollbacks' = rollbacks + 1
    /\ UNCHANGED <<loopVars, callVars, active, taskVars, client, visited,
                   checkpoints, extraTasks>>

\* Health check, validation and routing, before the planning.
Check ==
    /\ pc = "check"
    /\ \/ Goto("raised") /\ UNCHANGED loopVars
       \/ /\ Goto("plan")
          /\ IF call = "execute" THEN start ELSE UNCHANGED loopVars
    /\ UNCHANGED <<graphVars, taskVars, visited>>

\* The except and finally clauses.
Raised ==
    /\ pc = "raised"
    /\ IF call = "additional" THEN UNCHANGED loopVars ELSE Terminate("FATAL_ERROR")
    /\ Return(FALSE, FALSE)

\* Where begin_iteration is called.
AboutToAsk == pc \in {"code", "review", "fix"} \/ (pc = "plan" /\ CanReplan)

\* Faulty variant: the user is asked to continue a run that is out of time.
TimesOut_AsPause ==
    /\ AboutToAsk
    /\ begin_iteration_TimesOut
    /\ Return(FALSE, TRUE)

\* begin_iteration raised LoopTimeoutError, or returned None.
TimesOut ==
    /\ AboutToAsk
    /\ begin_iteration_TimesOut
    /\ Goto("raised")
    /\ UNCHANGED <<graphVars, taskVars, visited>>

Pauses ==
    /\ AboutToAsk
    /\ begin_iteration_Pauses
    /\ Return(FALSE, TRUE)

----------------------------------------------------------------------------
(* _execute_planning.                                                       *)

\* from_subtasks; then the checkpoint, which may fail.
AcceptPlan(plan) ==
    /\ NewGraph(plan)
    /\ active' = IF call = "additional" THEN "local" ELSE "own"
    /\ kept' = IF call = "additional" THEN OwnGraph ELSE NoGraph
    /\ pc' \in {"order", "raised"}
    /\ UNCHANGED <<call, result, client, taskVars, visited>>
    /\ Checkpoint

PlanByCap ==
    /\ pc = "plan" /\ ~CanReplan
    /\ AcceptPlan(FallbackPlan)
    /\ UNCHANGED loopVars

\* The task description breaks the planner's contract: PlannerInput raises.
PlannerInputRejected ==
    /\ pc = "plan" /\ CanReplan
    /\ Goto("raised")
    /\ UNCHANGED <<loopVars, graphVars, taskVars, visited>>

AskPlanner ==
    /\ pc = "plan" /\ CanReplan
    /\ begin_iteration("planner")

PlannerPlans ==
    /\ AskPlanner /\ client = "open"
    /\ \E plan \in Plans : AcceptPlan(plan)

\* Ids given twice: TaskGraph.add_tasks raises.
PlannerRepeatsId ==
    /\ AskPlanner /\ client = "open"
    /\ Goto("raised")
    /\ UNCHANGED <<graphVars, taskVars, visited>>

\* A round of tools only.  The plan is the fallback when the rounds, all of
\* which are planning cycles, reach the cap or repeat themselves.
PlannerAsksForTools ==
    /\ AskPlanner /\ client = "open"
    /\ \/ /\ planningCycleCount + 1 < MaxPlanningCycles
          /\ Goto("plan")
          /\ UNCHANGED <<graphVars, taskVars, visited>>
       \/ /\ planningCycleCount + 1 >= MaxPlanningCycles \/ planningCycleCount > 0
          /\ AcceptPlan(FallbackPlan)

\* Malformed output: the fallback plan.
PlannerMalformed ==
    /\ AskPlanner /\ client = "open"
    /\ AcceptPlan(FallbackPlan)

\* Any other failure, or no subtasks.
PlannerFails ==
    /\ AskPlanner
    /\ Goto("plan_failed")
    /\ UNCHANGED <<graphVars, taskVars, visited>>

PlanFailed ==
    /\ pc = "plan_failed"
    /\ IF call = "additional" THEN UNCHANGED loopVars ELSE Terminate("FATAL_ERROR")
    /\ Return(FALSE, FALSE)

----------------------------------------------------------------------------
(* The loop over iter_execution_order.                                      *)

\* Faulty variant: no search for cycles.
Order_Unchecked ==
    /\ pc = "order"
    /\ Goto("next")
    /\ UNCHANGED <<loopVars, graphVars, taskVars, visited>>

Order ==
    /\ pc = "order"
    /\ Goto(IF Acyclic THEN "next" ELSE "raised")
    /\ UNCHANGED <<loopVars, graphVars, taskVars, visited>>

\* Faulty variant: the task an earlier call left RUNNING is passed over too.
SkipFinished_SkipsRunning ==
    /\ pc = "next" /\ call = "continue"
    /\ \E t \in Nodes :
        /\ ComesNext(t, visited) /\ status[t] \in TerminalStatus \cup {"RUNNING"}
        /\ visited' = visited \cup {t}
    /\ Goto("next")
    /\ UNCHANGED <<loopVars, graphVars, taskVars>>

\* continue_execution passes over what is finished.
SkipFinished ==
    /\ pc = "next" /\ call = "continue"
    /\ \E t \in Nodes :
        /\ ComesNext(t, visited) /\ status[t] \in TerminalStatus
        /\ visited' = visited \cup {t}
    /\ Goto("next")
    /\ UNCHANGED <<loopVars, graphVars, taskVars>>

\* The start of _execute_task; its checkpoint may fail.
StartTask ==
    /\ pc = "next"
    /\ \E t \in Nodes :
        /\ ComesNext(t, visited)
        /\ call = "continue" => status[t] \notin TerminalStatus
        /\ mark_running(t)
        /\ task' = t
    /\ pc' \in {"tools", "raised"}
    /\ UNCHANGED <<loopVars, call, result, ownVars, client, changes, previous, shifted,
                   visited>>
    /\ Checkpoint

\* The task cannot become RUNNING: InvalidTaskTransitionError.
StartRefused ==
    /\ pc = "next"
    /\ \E t \in Nodes :
        /\ ComesNext(t, visited)
        /\ call = "continue" => status[t] \notin TerminalStatus
        /\ ~CanTransition(t, "RUNNING")
    /\ Goto("raised")
    /\ UNCHANGED <<loopVars, graphVars, taskVars, visited>>

\* Faulty variant: the dependents of a failed task are not blocked.
Settle_Unpropagated ==
    /\ pc = "settle"
    /\ visited' = visited \cup {task}
    /\ task' = NoTask /\ changes' = None /\ previous' = None /\ shifted' = FALSE
    /\ reset_fix_counter
    /\ Goto("next")
    /\ UNCHANGED graphVars

\* Faulty variant: the fix counter runs on into the next task.
Settle_KeepsFixCount ==
    /\ pc = "settle"
    /\ IF status[task] = "FAILED" THEN propagate_failure(task) ELSE UNCHANGED graphVars
    /\ visited' = visited \cup {task}
    /\ task' = NoTask /\ changes' = None /\ previous' = None /\ shifted' = FALSE
    /\ Goto("next")
    /\ UNCHANGED loopVars

\* After _execute_task.
Settle ==
    /\ pc = "settle"
    /\ IF status[task] = "FAILED" THEN propagate_failure(task) ELSE UNCHANGED graphVars
    /\ visited' = visited \cup {task}
    /\ task' = NoTask /\ changes' = None /\ previous' = None /\ shifted' = FALSE
    /\ reset_fix_counter
    /\ Goto("next")

NothingFailed == NoneIn({"FAILED", "BLOCKED"})

\* The iteration is over.
FinishExecute ==
    /\ pc = "next" /\ call = "execute" /\ Available(visited) = {}
    /\ Terminate(IF NothingFailed THEN "SUCCESS" ELSE "UNRECOVERABLE_FAILURE")
    /\ Return(NothingFailed, FALSE)

FinishContinue ==
    /\ pc = "next" /\ call = "continue" /\ Available(visited) = {}
    /\ LET complete == NothingFailed /\ NoneIn(TaskStatus \ {"COMPLETED"}) IN
        /\ IF complete THEN Terminate("SUCCESS")
           ELSE IF NoneIn({"PENDING", "RUNNING"}) THEN Terminate("UNRECOVERABLE_FAILURE")
           ELSE UNCHANGED loopVars
        /\ Return(complete, FALSE)

FinishAdditional ==
    /\ pc = "next" /\ call = "additional" /\ Available(visited) = {}
    /\ Return(NothingFailed, FALSE)
    /\ UNCHANGED loopVars

----------------------------------------------------------------------------
(* _execute_task: the code-review-fix cycle.  Each step asks an agent or    *)
(* ends the task.                                                           *)

FailTask ==
    /\ mark_failed(task) /\ Goto("settle")
    /\ UNCHANGED <<taskVars, visited>>

CompleteTask ==
    /\ mark_completed(task) /\ Goto("settle")
    /\ UNCHANGED <<taskVars, visited>>

Work(at) == Goto(at) /\ UNCHANGED <<graphVars, task, visited>>

\* The subtask's tool plan, run at the start of _execute_coder.
ToolPlanFails ==
    /\ pc = "tools"
    /\ FailTask
    /\ UNCHANGED loopVars

ToolPlanRuns ==
    /\ pc = "tools"
    /\ Work("code")
    /\ UNCHANGED <<loopVars, changes, previous, shifted>>

AskCoder == pc = "code" /\ begin_iteration("coder")

\* Faulty variant: a round of tools starts the coder again and costs nothing.
CoderAsksForTools_Free ==
    /\ pc = "code" /\ client = "open"
    /\ Work("tools")
    /\ UNCHANGED <<loopVars, changes, previous, shifted>>

CoderAsksForTools ==
    /\ AskCoder /\ client = "open"
    /\ Work("code")
    /\ UNCHANGED <<changes, previous, shifted>>

\* `changes` is None until the coder first answered; after a strategy shift the
\* coder's answer must differ from the changes that stagnated.
CoderProposes ==
    /\ AskCoder /\ client = "open"
    /\ changes' \in Change \ {changes}
    /\ previous' = None
    /\ Work("review")
    /\ UNCHANGED shifted

CoderNeedsNoChange ==
    /\ AskCoder /\ client = "open"
    /\ changes = None
    /\ CompleteTask

\* The coder failed or, after a shift, came up with nothing new.
CoderFails ==
    /\ AskCoder
    /\ FailTask

AskReviewer == pc = "review" /\ begin_iteration("reviewer")

\* task_complete, through the verification gate, and the changes are applied.
ReviewerApproves ==
    /\ AskReviewer /\ client = "open"
    /\ CompleteTask

\* No review, the gate refused it, the changes did not apply, or a rejection.
ReviewerFails ==
    /\ AskReviewer
    /\ FailTask

\* _is_no_progress_cycle: the same changes and issues as one review before; a
\* high similarity of either counts as well, and is not modelled further.
NoProgress(fp, similar) == previous # None /\ (previous = fp \/ similar)

ReviewerRequestsChanges ==
    /\ AskReviewer /\ client = "open"
    /\ \E issue \in Issue, similar \in BOOLEAN :
        LET fp == <<changes, issue>> IN
        \/ /\ ~NoProgress(fp, similar) /\ CanFixAgain
           /\ previous' = fp
           /\ Work("fix") /\ UNCHANGED <<changes, shifted>>
        \/ /\ ~NoProgress(fp, similar) /\ ~CanFixAgain
           /\ FailTask
        \/ /\ NoProgress(fp, similar) /\ ~shifted
           /\ shifted' = TRUE
           /\ Work("tools") /\ UNCHANGED <<changes, previous>>
        \/ /\ NoProgress(fp, similar) /\ shifted
           /\ FailTask

AskFixer == pc = "fix" /\ begin_iteration("fixer")

FixerFails ==
    /\ AskFixer
    /\ FailTask

\* The fixer's changes, or the old ones when its answer was malformed.
FixerFixes ==
    /\ AskFixer /\ client = "open"
    /\ changes' \in Change
    /\ Work("review")
    /\ UNCHANGED <<previous, shifted>>

----------------------------------------------------------------------------
Planning ==
    \/ PlanByCap \/ PlannerInputRejected \/ PlannerPlans \/ PlannerRepeatsId
    \/ PlannerAsksForTools \/ PlannerMalformed \/ PlannerFails \/ PlanFailed

Iterating ==
    \/ Order \/ SkipFinished \/ StartTask \/ StartRefused \/ Settle
    \/ FinishExecute \/ FinishContinue \/ FinishAdditional

Working ==
    \/ ToolPlanFails \/ ToolPlanRuns
    \/ CoderAsksForTools \/ CoderProposes \/ CoderNeedsNoChange \/ CoderFails
    \/ ReviewerApproves \/ ReviewerFails \/ ReviewerRequestsChanges
    \/ FixerFails \/ FixerFixes

\* The steps of a call, the steps of its caller, and time.
Step == Check \/ Raised \/ TimesOut \/ Pauses \/ Planning \/ Iterating \/ Working

Caller ==
    \/ execute \/ continue_execution \/ continue_execution_Asserts
    \/ execute_additional_task \/ rollback_to_checkpoint

Tick ==
    /\ ClockExpires
    /\ UNCHANGED <<graphVars, callVars, ownVars, taskVars, client, visited, sessionVars>>

Act == Caller \/ Step \/ Tick

\* The tools a step runs: a tool plan, the tools the coder asked for, and those
\* of a planner that is to be asked again.
ToolRound ==
    \/ ToolPlanFails \/ ToolPlanRuns \/ CoderAsksForTools
    \/ PlannerAsksForTools /\ pc' = "plan"

RunsTools ==
    \/ pc = "tools"
    \/ /\ client = "open" /\ ~expired /\ iterationCount < maxIterations
       /\ \/ pc = "code"
          \/ pc = "plan" /\ planningCycleCount + 1 < MaxPlanningCycles

\* A tool asks for an approval, or a tool server for an answer: input() and
\* readline() have no timeout.  Nothing of the round is seen before the answer,
\* and the clock is not read, so both follow it.
ToolWaits ==
    /\ wait = "none" /\ RunsTools
    /\ wait' = "waiting"
    /\ UNCHANGED execVars

Answered ==
    /\ wait = "waiting"
    /\ wait' = "answered"
    /\ UNCHANGED execVars

\* A step that waits for nothing, and one that has waited.
Proceeds ==
    \/ wait = "none" /\ Step /\ UNCHANGED wait
    \/ wait = "answered" /\ ToolRound /\ wait' = "none"

Next ==
    \/ Proceeds \/ ToolWaits \/ Answered
    \/ wait = "none" /\ (Caller \/ Tick) /\ UNCHANGED wait

Spec == Init /\ [][Next]_vars

\* A call under way is not abandoned: the model's answers, the shell and the
\* subprocesses have timeouts, and a step that waits for none but these ends.
\* Nobody owes a tool the answer it waits for.
FairSpec == Spec /\ WF_vars(Proceeds)

----------------------------------------------------------------------------
\* Every variable has a value the code could give it.
ExecTypeOK ==
    /\ LoopTypeOK
    /\ deps \in Plans \cup {<<>>} /\ status \in [Nodes -> TaskStatus]
    /\ call \in {"none", "execute", "continue", "additional"}
    /\ pc \in Phases \cup {"idle"}
    /\ active \in {"own", "local"}
    /\ kept.deps \in Plans \cup {<<>>} /\ kept.status \in [DOMAIN kept.deps -> TaskStatus]
    /\ client \in {"none", "open", "closed"}
    /\ visited \subseteq Nodes
    /\ task \in Nodes \cup {NoTask}
    /\ changes \in Change \cup {None}
    /\ previous \in (Change \X Issue) \cup {None}
    /\ shifted \in BOOLEAN
    /\ result \in [success : BOOLEAN, needs : BOOLEAN]
    /\ \A cp \in checkpoints :
        cp.deps \in Plans /\ cp.status \in [DOMAIN cp.deps -> TaskStatus]
    /\ extraTasks \in 0..MaxExtraTasks /\ rollbacks \in 0..MaxRollbacks
    /\ wait \in {"none", "waiting", "answered"}

\* The steps in which a task is in the hands of _execute_task.
InTask == pc \in {"tools", "code", "review", "fix"}

\* No task is ever worked on before everything it depends on is COMPLETED:
\* neither get_ready_tasks nor is_ready is asked, so this rests on the order of
\* the iteration together with the propagation of failures, across pauses,
\* exceptions and the calls of a session.
DependenciesComplete ==
    \A t \in Nodes :
        status[t] \in {"RUNNING", "COMPLETED", "FAILED"} =>
            \A d \in KnownDeps(t) : status[d] = "COMPLETED"

\* The task in hand is RUNNING and nothing else is, whatever an earlier call
\* left behind.
OneTaskRunning ==
    /\ \A t, u \in Nodes : status[t] = "RUNNING" /\ status[u] = "RUNNING" => t = u
    /\ InTask => status[task] = "RUNNING"

\* A call returns success only when every subtask is COMPLETED, although
\* execute only looks for FAILED and BLOCKED ones.
SuccessIsComplete ==
    [][call # "none" /\ call' = "none" /\ result'.success =>
        \A t \in Nodes : status[t] = "COMPLETED"]_execVars

\* The statements of a call run only while the controller is running: the
\* branches of the code for a loop that stopped by itself are never taken.
RunsOnlyWhileRunning ==
    InTask \/ pc \in {"plan", "order", "next", "settle"} => IsRunning

\* The caller is asked to continue exactly after a pause with the budget spent.
NeedsMeansPaused ==
    result.needs => IsPaused /\ needsUserContinue /\ iterationCount >= maxIterations

\* The two limits beside that of the iterations.
FixAndPlanningBudget ==
    /\ fixIterationCount <= MaxFixIterations
    /\ planningCycleCount <= MaxPlanningCycles

\* A task begins with no fix counted, although the counter is the run's.
FreshFixBudget == pc = "tools" /\ ~shifted => fixIterationCount = 0

\* The fixer and the planner stay within their own limits and, until the user
\* rolls back, every task starts with the full number of fixes.
FixesInBudget == FixAndPlanningBudget /\ (rollbacks = 0 => FreshFixBudget)

\* Every call ends, unless one of its tools is kept waiting for ever by the user
\* or a tool server: the planning loop, the tool rounds of the coder and the
\* code-review-fix cycle all run out, however often a tool is made to wait.
CallsEnd == call # "none" ~> (call = "none" \/ [](wait = "waiting"))

\* Why every call ends: a step of a call spends an iteration of the budget or,
\* on the same budget, leaves the planning for good, finishes one more task, or
\* goes on to a later statement; so between two iterations no loop of the code
\* comes back to where it was.
IterationsLeft == maxIterations - iterationCount

PlanningStage == IF pc \in {"check", "plan"} THEN 1 ELSE 0

StepsAhead ==
    [check |-> 7, plan |-> 6, order |-> 5, next |-> 4, tools |-> 3, code |-> 2,
     review |-> 2, fix |-> 2, settle |-> 1, plan_failed |-> 1, raised |-> 0]

NearerToItsEnd ==
    \/ call' = "none"
    \/ call' = call /\ IterationsLeft' < IterationsLeft
    \/ /\ call' = call /\ IterationsLeft' = IterationsLeft
       /\ \/ PlanningStage' < PlanningStage
          \/ /\ PlanningStage' = PlanningStage /\ Nodes' = Nodes
             /\ \/ (Nodes \ visited)' \subseteq Nodes \ visited
                   /\ (Nodes \ visited)' # Nodes \ visited
                \/ visited' = visited /\ StepsAhead[pc'] < StepsAhead[pc]

EveryStepNearsTheEnd == [][Step => NearerToItsEnd]_execVars

\* The session handles its controller as LoopController says a caller does: it
\* starts it once, which start itself does not ask for, and changes it by whole
\* methods only, whichever calls follow each other.
ObeysController == LoopSpec

\* One run, with its pauses and continuations, implements TaskRun: every step
\* of the executor is a step of that specification or changes nothing in it.
Verdict ==
    IF call # "none" THEN "running"
    ELSE IF client = "none" THEN "idle"
    ELSE IF result.success THEN "success"
    ELSE IF result.needs THEN "paused" ELSE "failure"

Run == INSTANCE TaskRun WITH verdict <- Verdict

ImplementsTaskRun == Run!RunSpec

----------------------------------------------------------------------------
(* What the repository says of the executor and the code does otherwise.    *)

\* continue_execution: "Execute the task (resume if it was running)".
ResumesRunningTask ==
    [][(pc = "next" /\ \E t \in Nodes : ComesNext(t, visited) /\ status[t] = "RUNNING")
        => pc' # "raised"]_execVars

\* A task-level failure marks the node failed and blocks its dependents; the
\* run goes on to the others.
BlockedTaskIsPassedOver ==
    [][(pc = "next" /\ \E t \in Nodes : ComesNext(t, visited) /\ status[t] = "BLOCKED")
        => pc' # "raised"]_execVars

\* The graph a call was iterating is the one its continuation iterates.
ContinuesSameGraph ==
    [][call = "none" /\ call' = "continue" => UNCHANGED graphVars]_execVars

\* The assertion of continue_execution that there is a graph.
ContinueHasGraph == [][~continue_execution_Asserts]_execVars

\* The client is alive while a call of the session needs it.
SessionKeepsClient == call # "none" => client = "open"
=============================================================================
