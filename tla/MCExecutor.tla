----------------------------- MODULE MCExecutor -----------------------------
(* Instances of Executor.  The plans are the fallback plan, a diamond, a    *)
(* chain with a task beside it, a task that also depends on an id that is   *)
(* not a node, and a cycle.                                                 *)
EXTENDS Executor

MCTaskId == 0..4

Diamond == [t \in 1..4 |-> CASE t = 1 -> {} [] t = 4 -> {2, 3} [] OTHER -> {1}]
Chain == [t \in 1..3 |-> CASE t = 1 -> {} [] t = 2 -> {1} [] t = 3 -> {}]
Unknown == [t \in 1..2 |-> CASE t = 1 -> {0, 2} [] t = 2 -> {}]
Cycle == [t \in 1..2 |-> {3 - t}]

MCPlans == {FallbackPlan, Diamond, Chain, Unknown, Cycle}
SmallPlans == {FallbackPlan, Chain, Unknown, Cycle}
=============================================================================
