------------------------------ MODULE TaskGraph ------------------------------
(****************************************************************************)
(* The graph of subtasks an Executor works through                          *)
(* (src/orchestration/task_graph.py).  `deps` holds every node's dependency *)
(* list as the planner wrote it, so it may name ids that are not nodes;     *)
(* `status` holds every node's TaskStatus.  The edge list `dependents` is   *)
(* the inverse of `deps` and is not a variable.  Ids are compared when the  *)
(* execution order is computed, so they are numbers here.                   *)
(****************************************************************************)
EXTENDS Integers, FiniteSets

CONSTANTS
    TaskId,     \* every id a plan may mention, as a node or as a dependency
    Plans       \* the dependency functions a planner may produce

ASSUME PlansAssumption ==
    /\ TaskId \subseteq Int
    /\ \A plan \in Plans :
        DOMAIN plan \subseteq TaskId /\ plan \in [DOMAIN plan -> SUBSET TaskId]

VARIABLES deps, status

graphVars == <<deps, status>>

----------------------------------------------------------------------------
TaskStatus ==
    {"PENDING", "READY", "RUNNING", "COMPLETED", "FAILED", "SKIPPED", "BLOCKED"}

TerminalStatus == {"COMPLETED", "FAILED", "SKIPPED", "BLOCKED"}

\* The table TaskNode._ALLOWED_TRANSITIONS.
AllowedTransitions ==
    [PENDING   |-> {"READY", "RUNNING", "SKIPPED", "BLOCKED"},
     READY     |-> {"RUNNING", "SKIPPED", "BLOCKED"},
     RUNNING   |-> {"COMPLETED", "FAILED"},
     COMPLETED |-> {},
     FAILED    |-> {},
     SKIPPED   |-> {},
     BLOCKED   |-> {}]

Nodes == DOMAIN deps

\* _transition_to raises InvalidTaskTransitionError unless this holds.
CanTransition(t, next) == next \in AllowedTransitions[status[t]]

\* The dependencies that are nodes: the others never order anything.
KnownDeps(t) == deps[t] \cap Nodes

Dependents(t) == {d \in Nodes : t \in deps[d]}

\* TaskNode.is_ready: a dependency that is not a node is never satisfied.
IsReady(t) == \A d \in deps[t] : d \in Nodes /\ status[d] = "COMPLETED"

\* What _detect_cycle decides: in every set of nodes some member depends on no
\* member of the set.
Acyclic ==
    \A S \in SUBSET Nodes \ {{}} : \E t \in S : KnownDeps(t) \cap S = {}

\* Kahn's algorithm, one node at a time: the nodes whose known dependencies
\* have all been emitted, of which the sorted queue yields the smallest.
Available(emitted) ==
    {t \in Nodes \ emitted : KnownDeps(t) \subseteq emitted}

ComesNext(t, emitted) ==
    /\ t \in Available(emitted)
    /\ \A u \in Available(emitted) : t <= u

\* propagate_failure: the dependents of a failed node and, through every one
\* that is PENDING and so becomes BLOCKED, their dependents in turn.
ClosedUnderBlocking(S, failed, st) ==
    \A t \in S \cup {failed} :
        \A d \in Dependents(t) : st[d] = "PENDING" => d \in S

\* Faulty variant: only the direct dependents are walked.
BlockedByDirectOnly(failed, st) == {t \in Dependents(failed) : st[t] = "PENDING"}

BlockedBy(failed, st) ==
    {t \in Nodes :
        /\ st[t] = "PENDING"
        /\ \A S \in SUBSET Nodes : ClosedUnderBlocking(S, failed, st) => t \in S}

PropagateFailure(failed, st) ==
    [t \in Nodes |-> IF t \in BlockedBy(failed, st) THEN "BLOCKED" ELSE st[t]]

\* The counts of get_stats that its callers compare with zero.
NoneIn(S) == \A t \in Nodes : status[t] \notin S

----------------------------------------------------------------------------
(* The operations, as a caller that may use any of them at any time.        *)

NewGraph(plan) ==
    /\ deps' = plan
    /\ status' = [t \in DOMAIN plan |-> "PENDING"]

Transition(t, next) ==
    /\ CanTransition(t, next)
    /\ status' = [status EXCEPT ![t] = next]
    /\ UNCHANGED deps

mark_running(t)   == Transition(t, "RUNNING")
mark_completed(t) == Transition(t, "COMPLETED")
mark_failed(t)    == Transition(t, "FAILED")
mark_skipped(t)   == Transition(t, "SKIPPED")

\* Faulty variant: every PENDING node is handed out.
get_ready_tasks_Unchecked ==
    /\ status' = [t \in Nodes |-> IF status[t] = "PENDING" THEN "READY" ELSE status[t]]
    /\ UNCHANGED deps

\* mark_ready is called here and mark_blocked by propagate_failure, only.
get_ready_tasks ==
    /\ status' = [t \in Nodes |->
                    IF status[t] = "PENDING" /\ IsReady(t) THEN "READY" ELSE status[t]]
    /\ UNCHANGED deps

propagate_failure(t) ==
    /\ status[t] = "FAILED"
    /\ status' = PropagateFailure(t, status)
    /\ UNCHANGED deps

\* Faulty variant: only the nodes that had finished are kept.
reset_TerminalOnly ==
    /\ status' = [t \in {u \in Nodes : status[u] \in TerminalStatus} |-> "PENDING"]
    /\ UNCHANGED deps

reset ==
    /\ status' = [t \in Nodes |-> "PENDING"]
    /\ UNCHANGED deps

----------------------------------------------------------------------------
GraphInit ==
    \E plan \in Plans :
        /\ deps = plan
        /\ status = [t \in DOMAIN plan |-> "PENDING"]

\* A scheduler that honours get_ready_tasks: it runs what that returns.
GraphNext ==
    \/ get_ready_tasks
    \/ reset
    \/ \E t \in Nodes :
        \/ status[t] = "READY" /\ mark_running(t)
        \/ status[t] = "READY" /\ mark_skipped(t)
        \/ mark_completed(t)
        \/ mark_failed(t)
        \/ propagate_failure(t)

GraphSpec == GraphInit /\ [][GraphNext]_graphVars

----------------------------------------------------------------------------
\* Every node has exactly one of the seven statuses.
GraphTypeOK ==
    /\ deps \in Plans
    /\ status \in [Nodes -> TaskStatus]

\* A node is handed out, run, finished or skipped only while everything it
\* depends on is COMPLETED: TaskNode.is_ready is asked once, when the node
\* becomes READY, and must still be true of every later status.
ReadyMeansDependenciesDone ==
    \A t \in Nodes :
        status[t] \in {"READY", "RUNNING", "COMPLETED", "FAILED", "SKIPPED"} => IsReady(t)

\* Everything that depends on t, directly or through other nodes.
Downstream(t) ==
    {u \in Nodes : \A S \in SUBSET Nodes :
        (\A v \in S \cup {t} : Dependents(v) \subseteq S) => u \in S}

\* A call of propagate_failure leaves no node downstream of the failed one that
\* could still be scheduled, although its walk stops at every node that is not
\* PENDING.
FailureReachesEveryDependent ==
    [][\A t \in Nodes :
        propagate_failure(t) => \A u \in Downstream(t) : status'[u] = "BLOCKED"]_graphVars
=============================================================================
