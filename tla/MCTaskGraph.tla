---------------------------- MODULE MCTaskGraph ----------------------------
(****************************************************************************)
(* The task graph for TLC.  A behaviour is about one half of the module:    *)
(* a scheduler works through a graph whose dependencies may also name the   *)
(* id 0, which is never a node, or a plan of up to N subtasks with the ids  *)
(* 1..N is added and sorted.  The other half is then left as it starts.     *)
(****************************************************************************)
EXTENDS TaskGraph, TopologicalSort

CONSTANTS N, RepeatedDeps   \* may a dependency list name one id twice?

VARIABLE half       \* "scheduling" or "sorting"

MCTaskId == 0..N
MCId == 1..N

\* Cyclic plans are part of the instance: nothing in them ever becomes READY.
MCPlans == [MCId -> SUBSET MCTaskId]

DepLists ==
    {s \in UNION {[1..n -> MCId] : n \in 0..2} : RepeatedDeps \/ IsInjective(s)}

MCSubtasks == UNION {[1..n -> [id : MCId, deps : DepLists]] : n \in 0..N}

----------------------------------------------------------------------------
HalfInit ==
    \/ half = "scheduling" /\ plan = <<>> /\ Init /\ GraphInit
    \/ half = "sorting" /\ Init /\ deps = <<>> /\ status = <<>>

HalfNext ==
    \/ half = "scheduling" /\ GraphNext /\ UNCHANGED <<sortVars, half>>
    \/ half = "sorting" /\ Next /\ UNCHANGED <<graphVars, half>>

HalfSpec == HalfInit /\ [][HalfNext]_<<graphVars, sortVars, half>>
=============================================================================
