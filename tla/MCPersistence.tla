---------------------------- MODULE MCPersistence ----------------------------
(****************************************************************************)
(* The three stores on disk for TLC: the project's memory, the checkpoints  *)
(* and the run states.  They share nothing, so a behaviour is about one.    *)
(****************************************************************************)
EXTENDS Memory, CheckpointStore, RunStateStore

VARIABLE store      \* the store the behaviour is about

vars == <<memoryVars, storeVars, runStateVars, store>>

Init ==
    /\ MemoryInit /\ StoreInit /\ RunStateInit
    /\ store \in {"memory", "checkpoints", "runs"}

Next ==
    \/ store = "memory" /\ MemoryNext /\ UNCHANGED <<storeVars, runStateVars, store>>
    \/ store = "checkpoints" /\ StoreNext /\ UNCHANGED <<memoryVars, runStateVars, store>>
    \/ store = "runs" /\ RunStateNext /\ UNCHANGED <<memoryVars, storeVars, store>>

Spec == Init /\ [][Next]_vars

----------------------------------------------------------------------------
\* Two tasks of the same kind that fail alike and not alike.
FailureOf(task, error, kind, tags) ==
    [id |-> <<kind, task>>, task |-> task, error |-> error, kind |-> kind, tags |-> tags,
     words |-> {kind, task}]

Failures ==
    {FailureOf("t1", "e1", "missing_import", {"import", "t1"}),
     FailureOf("t2", "e1", "missing_import", {"import", "t2", "api"}),
     FailureOf("t1", "e2", "unknown_error", {"t1"})}

ChangeOf(f, kind) ==
    [id |-> <<kind, f>>, task |-> "t1", file |-> f, kind |-> kind, tags |-> {"api", "router"},
     words |-> {kind, f}]

Updates ==
    {[op |-> "failure", about |-> f] : f \in Failures}
    \cup {[op |-> "success", changes |-> <<ChangeOf("f1", "retry_pattern"), ChangeOf("f2", "retry_pattern")>>]}
    \cup {[op |-> "test", key |-> "test"]}
    \cup {[op |-> "tool", tool |-> "read", success |-> b] : b \in BOOLEAN}
    \cup {[op |-> "tool", tool |-> "write", success |-> TRUE]}
    \cup {[op |-> "reflection", quality |-> q] : q \in {20, 60}}
    \cup {[op |-> "outcome", task |-> "t1", success |-> FALSE], [op |-> "fact", fact |-> "a"]}
    \cup {[op |-> "preference", key |-> "k", value |-> v] : v \in {1, 2}}
    \cup {[op |-> "decision", task |-> "t1"]}

Qualities == {20, 40, 60}
\* The managers of the memory are alike.
WriterSymmetry == Permutations(Writer)

KeepCounts == [high |-> 1, medium |-> 1, low |-> 1]
=============================================================================
