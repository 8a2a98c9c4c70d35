------------------------------ MODULE TaskRun ------------------------------
(****************************************************************************)
(* What a run promises about its graph of subtasks, whatever the agents     *)
(* answer and however often it is paused: the specification the executor    *)
(* implements.  One task is worked on at a time; a task is started once,    *)
(* and only when everything it depends on is COMPLETED; a task is given up  *)
(* without being started only because one it depends on was; a run that     *)
(* reports success has completed every task, and a run that is over leaves  *)
(* its graph alone.                                                         *)
(****************************************************************************)
EXTENDS TaskGraph

VARIABLE verdict    \* "idle", "running", "paused", "success", "failure"

runVars == <<graphVars, verdict>>

----------------------------------------------------------------------------
RunInit ==
    /\ deps = <<>> /\ status = <<>>
    /\ verdict = "idle"

Begin == verdict = "idle" /\ verdict' = "running" /\ UNCHANGED graphVars

\* A run is planned once.
AdoptPlan ==
    /\ verdict = "running" /\ Nodes = {}
    /\ \E plan \in Plans : NewGraph(plan)
    /\ UNCHANGED verdict

StartTask(t) ==
    /\ verdict = "running"
    /\ status[t] = "PENDING"
    /\ \A u \in Nodes : status[u] # "RUNNING"
    /\ \A d \in KnownDeps(t) : status[d] = "COMPLETED"
    /\ mark_running(t)
    /\ UNCHANGED verdict

EndTask(t) ==
    /\ verdict = "running"
    /\ mark_completed(t) \/ mark_failed(t)
    /\ UNCHANGED verdict

\* Tasks are blocked for a reason: each depends on a task that FAILED, or is
\* BLOCKED already or with it.
BlockTasks ==
    /\ verdict = "running"
    /\ \E S \in SUBSET {t \in Nodes : status[t] = "PENDING"} :
        /\ \A t \in S : \E d \in KnownDeps(t) :
            status[d] \in {"FAILED", "BLOCKED"} \/ d \in S
        /\ status' = [t \in Nodes |-> IF t \in S THEN "BLOCKED" ELSE status[t]]
    /\ UNCHANGED <<deps, verdict>>

\* A run that paused may also be given up.
Conclude ==
    /\ verdict \in {"running", "paused"}
    /\ \/ verdict' \in {"paused", "failure"}
       \/ /\ verdict' = "success"
          /\ Nodes # {} /\ \A t \in Nodes : status[t] = "COMPLETED"
    /\ UNCHANGED graphVars

Resume == verdict = "paused" /\ verdict' = "running" /\ UNCHANGED graphVars

RunNext ==
    \/ Begin \/ AdoptPlan \/ BlockTasks \/ Conclude \/ Resume
    \/ \E t \in Nodes : StartTask(t) \/ EndTask(t)

RunSpec == RunInit /\ [][RunNext]_runVars

----------------------------------------------------------------------------
\* What the promise amounts to.  A task that was ever started has all its
\* known dependencies COMPLETED, and no two tasks are RUNNING.
StartedInOrder ==
    /\ \A t \in Nodes :
        status[t] \in {"RUNNING", "COMPLETED", "FAILED"} =>
            \A d \in KnownDeps(t) : status[d] = "COMPLETED"
    /\ \A t, u \in Nodes :
        status[t] = "RUNNING" /\ status[u] = "RUNNING" => t = u

\* A run that reported success has completed every task, for ever after.
SuccessIsFinal ==
    verdict = "success" => Nodes # {} /\ \A t \in Nodes : status[t] = "COMPLETED"
=============================================================================
