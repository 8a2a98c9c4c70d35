-------------------------- MODULE TaskGraphProofs --------------------------
(* What the task graph guarantees for every set of plans, cyclic ones and   *)
(* ones with unknown dependencies included.                                 *)
EXTENDS TaskGraph, TLAPS

\* The walk of propagate_failure leaves out no PENDING dependent of a node it
\* reaches, and reaches PENDING nodes only.
LEMMA BlockedByIsClosed ==
    ASSUME NEW failed, NEW st
    PROVE  ClosedUnderBlocking(BlockedBy(failed, st), failed, st)
<1>1. SUFFICES ASSUME NEW t \in BlockedBy(failed, st) \cup {failed},
                      NEW d \in Dependents(t), st[d] = "PENDING"
               PROVE  d \in BlockedBy(failed, st)
  BY DEF ClosedUnderBlocking
<1>2. d \in Nodes
  BY DEF Dependents
<1>3. ASSUME NEW S \in SUBSET Nodes, ClosedUnderBlocking(S, failed, st)
      PROVE  d \in S
  <2>1. t \in S \cup {failed}
    BY <1>1, <1>3 DEF BlockedBy
  <2> QED
    BY <2>1, <1>1, <1>3 DEF ClosedUnderBlocking
<1> QED
  BY <1>1, <1>2, <1>3 DEF BlockedBy

\* Only PENDING nodes are blocked.
LEMMA BlockedByWasPending ==
    ASSUME NEW failed, NEW st
    PROVE  /\ BlockedBy(failed, st) \subseteq Nodes
           /\ \A t \in BlockedBy(failed, st) : st[t] = "PENDING"
BY DEF BlockedBy

----------------------------------------------------------------------------
\* Every node keeps exactly one status, whatever the order of the operations.
THEOREM GraphTypeCorrect == GraphSpec => []GraphTypeOK
<1>1. GraphInit => GraphTypeOK
  BY DEF GraphInit, GraphTypeOK, Nodes, TaskStatus
<1>2. GraphTypeOK /\ [GraphNext]_graphVars => GraphTypeOK'
  <2> SUFFICES ASSUME GraphTypeOK, [GraphNext]_graphVars
               PROVE  GraphTypeOK'
    OBVIOUS
  <2> USE DEF GraphTypeOK, Nodes, TaskStatus
  <2>1. CASE get_ready_tasks
    BY <2>1 DEF get_ready_tasks
  <2>2. CASE reset
    BY <2>2 DEF reset
  <2>3. ASSUME NEW t \in Nodes, NEW next \in TaskStatus, Transition(t, next)
        PROVE  GraphTypeOK'
    BY <2>3 DEF Transition
  <2>4. ASSUME NEW t \in Nodes, propagate_failure(t)
        PROVE  GraphTypeOK'
    BY <2>4 DEF propagate_failure, PropagateFailure
  <2>5. CASE UNCHANGED graphVars
    BY <2>5 DEF graphVars
  <2> QED
    BY <2>1, <2>2, <2>3, <2>4, <2>5
    DEF GraphNext, mark_running, mark_skipped, mark_completed, mark_failed
<1> QED
  BY <1>1, <1>2, PTL DEF GraphSpec

----------------------------------------------------------------------------
\* A node that became READY depends on COMPLETED nodes only, and those are
\* final; a node that is BLOCKED has had its dependents BLOCKED with it.
BlockedDependents ==
    \A t \in Nodes : status[t] = "BLOCKED" =>
        \A d \in Dependents(t) : status[d] = "BLOCKED"

GraphInv == GraphTypeOK /\ ReadyMeansDependenciesDone /\ BlockedDependents

\* A dependent of a node that is FAILED or BLOCKED was never READY.
LEMMA DependentsWait ==
    ASSUME GraphTypeOK, ReadyMeansDependenciesDone,
           NEW t \in Nodes, status[t] # "COMPLETED", NEW d \in Dependents(t)
    PROVE  d \in Nodes /\ status[d] \in {"PENDING", "BLOCKED"}
<1>1. d \in Nodes /\ t \in deps[d]
  BY DEF Dependents
<1>2. ~IsReady(d)
  BY <1>1 DEF IsReady
<1> QED
  BY <1>1, <1>2 DEF GraphTypeOK, ReadyMeansDependenciesDone, TaskStatus

\* One call of propagate_failure keeps the invariant and blocks every dependent.
LEMMA PropagationBlocks ==
    ASSUME GraphInv, NEW f \in Nodes, propagate_failure(f)
    PROVE  GraphInv' /\ \A d \in Dependents(f) : status'[d] = "BLOCKED"
<1> USE DEF GraphInv
<1>1. /\ deps' = deps /\ Nodes' = Nodes
      /\ status[f] = "FAILED"
      /\ status' = [t \in Nodes |-> IF t \in BlockedBy(f, status) THEN "BLOCKED" ELSE status[t]]
  BY DEF propagate_failure, PropagateFailure, Nodes
<1>2. GraphTypeOK'
  BY <1>1 DEF GraphTypeOK, Nodes, TaskStatus
<1>3. \A t \in BlockedBy(f, status) : t \in Nodes /\ status[t] = "PENDING"
  BY BlockedByWasPending
<1>4. ReadyMeansDependenciesDone'
  <2> SUFFICES ASSUME NEW t \in Nodes,
                      status'[t] \in {"READY", "RUNNING", "COMPLETED", "FAILED", "SKIPPED"},
                      NEW d \in deps[t]
               PROVE  d \in Nodes /\ status'[d] = "COMPLETED"
    BY <1>1 DEF ReadyMeansDependenciesDone, IsReady
  <2>1. status'[t] = status[t]
    BY <1>1
  <2>2. d \in Nodes /\ status[d] = "COMPLETED"
    BY <2>1 DEF ReadyMeansDependenciesDone, IsReady
  <2> QED
    BY <2>2, <1>1, <1>3
<1>5. ASSUME NEW t \in BlockedBy(f, status) \cup {f}, NEW d \in Dependents(t)
      PROVE  status'[d] = "BLOCKED"
  <2>1. t \in Nodes /\ status[t] # "COMPLETED"
    BY <1>1, <1>3, <1>5
  <2>2. d \in Nodes /\ status[d] \in {"PENDING", "BLOCKED"}
    BY <2>1, <1>5, DependentsWait
  <2>3. status[d] = "PENDING" => d \in BlockedBy(f, status)
    BY <1>5, BlockedByIsClosed DEF ClosedUnderBlocking
  <2> QED
    BY <2>2, <2>3, <1>1
<1>6. BlockedDependents'
  <2> SUFFICES ASSUME NEW t \in Nodes, status'[t] = "BLOCKED", NEW d \in Dependents(t)
               PROVE  status'[d] = "BLOCKED"
    BY <1>1 DEF BlockedDependents, Dependents
  <2>1. CASE t \in BlockedBy(f, status)
    BY <2>1, <1>5
  <2>2. CASE t \notin BlockedBy(f, status)
    <3>1. status[t] = "BLOCKED" /\ status[d] = "BLOCKED" /\ d \in Nodes
      BY <2>2, <1>1 DEF BlockedDependents, Dependents
    <3> QED
      BY <3>1, <1>1
  <2> QED
    BY <2>1, <2>2
<1> QED
  BY <1>2, <1>4, <1>5, <1>6

\* The strengthened invariant survives every operation on the graph.
LEMMA GraphInvInductive ==
    ASSUME GraphInv, GraphTypeOK', [GraphNext]_graphVars
    PROVE  GraphInv'
<1> USE DEF GraphInv
<1>1. CASE get_ready_tasks
  <2>1. deps' = deps /\ Nodes' = Nodes
    BY <1>1 DEF get_ready_tasks, Nodes
  <2>2. \A t \in Nodes : status'[t] =
            IF status[t] = "PENDING" /\ IsReady(t) THEN "READY" ELSE status[t]
    BY <1>1 DEF get_ready_tasks
  <2>3. \A t \in Nodes : IsReady(t) => IsReady(t)'
    BY <2>1, <2>2 DEF IsReady
  <2>4. ReadyMeansDependenciesDone'
    BY <2>1, <2>2, <2>3 DEF ReadyMeansDependenciesDone
  <2>5. BlockedDependents'
    BY <2>1, <2>2 DEF BlockedDependents, Dependents
  <2> QED
    BY <2>4, <2>5
<1>2. CASE reset
  BY <1>2 DEF reset, ReadyMeansDependenciesDone, BlockedDependents, Nodes
<1>3. ASSUME NEW t \in Nodes, NEW next \in TaskStatus, Transition(t, next),
             IsReady(t), status[t] # "COMPLETED", status[t] # "BLOCKED",
             next \in {"RUNNING", "SKIPPED", "COMPLETED", "FAILED"}
      PROVE  GraphInv'
  <2>1. deps' = deps /\ Nodes' = Nodes
    BY <1>3 DEF Transition, Nodes
  <2>2. status' = [status EXCEPT ![t] = next]
    BY <1>3 DEF Transition
  <2>3. \A u \in Nodes : status'[u] = IF u = t THEN next ELSE status[u]
    BY <2>2 DEF GraphTypeOK, Nodes
  <2>4. \A u \in Nodes : IsReady(u) => IsReady(u)'
    BY <2>1, <2>3, <1>3 DEF IsReady
  <2>5. ReadyMeansDependenciesDone'
    BY <2>1, <2>3, <2>4, <1>3 DEF ReadyMeansDependenciesDone
  <2>6. \A u \in Nodes : status[u] = "BLOCKED" => t \notin Dependents(u)
    BY <1>3 DEF BlockedDependents
  <2>7. BlockedDependents'
    BY <2>1, <2>3, <2>6, <1>3 DEF BlockedDependents, Dependents
  <2> QED
    BY <2>5, <2>7
<1>4. ASSUME NEW t \in Nodes, propagate_failure(t)
      PROVE  GraphInv'
  BY <1>4, PropagationBlocks
<1>5. CASE UNCHANGED graphVars
  BY <1>5 DEF graphVars, ReadyMeansDependenciesDone, BlockedDependents, IsReady,
     Dependents, Nodes
<1>6. ASSUME NEW t \in Nodes, status[t] \in {"READY", "RUNNING"}
      PROVE  IsReady(t)
  BY <1>6 DEF ReadyMeansDependenciesDone
<1>7. ASSUME NEW t \in Nodes, mark_completed(t) \/ mark_failed(t)
      PROVE  status[t] = "RUNNING"
  BY <1>7 DEF mark_completed, mark_failed, Transition, CanTransition,
     AllowedTransitions, GraphTypeOK, TaskStatus
<1>8. ASSUME NEW t \in Nodes,
             \/ status[t] = "READY" /\ mark_running(t)
             \/ status[t] = "READY" /\ mark_skipped(t)
             \/ mark_completed(t)
             \/ mark_failed(t)
      PROVE  GraphInv'
  BY <1>3, <1>6, <1>7, <1>8
  DEF mark_running, mark_skipped, mark_completed, mark_failed, TaskStatus
<1> QED
  BY <1>1, <1>2, <1>4, <1>5, <1>8 DEF GraphNext

\* It holds of every execution of the scheduler.
LEMMA GraphInvCorrect == GraphSpec => []GraphInv
<1>1. GraphInit => GraphInv
  BY DEF GraphInit, GraphInv, GraphTypeOK, ReadyMeansDependenciesDone,
     BlockedDependents, Nodes, TaskStatus
<1>2. GraphInv /\ GraphTypeOK' /\ [GraphNext]_graphVars => GraphInv'
  BY GraphInvInductive
<1> QED
  BY <1>1, <1>2, GraphTypeCorrect, PTL DEF GraphSpec

\* A node is handed out, run, finished or skipped only while everything it
\* depends on is COMPLETED.
THEOREM ReadyIsSafe == GraphSpec => []ReadyMeansDependenciesDone
<1>1. GraphInv => ReadyMeansDependenciesDone
  BY DEF GraphInv
<1> QED
  BY <1>1, GraphInvCorrect, PTL

\* propagate_failure leaves no node downstream of the failed one that could
\* still be scheduled.
THEOREM FailureReaches == GraphSpec => FailureReachesEveryDependent
<1>1. ASSUME GraphInv, [GraphNext]_graphVars
      PROVE  [\A t \in Nodes : propagate_failure(t) =>
                \A u \in Downstream(t) : status'[u] = "BLOCKED"]_graphVars
  <2> SUFFICES ASSUME NEW t \in Nodes, propagate_failure(t), NEW u \in Downstream(t)
               PROVE  status'[u] = "BLOCKED"
    OBVIOUS
  <2> DEFINE S == {v \in Nodes : status'[v] = "BLOCKED"}
  <2>1. deps' = deps /\ Nodes' = Nodes
    BY DEF propagate_failure, Nodes
  <2>2. GraphInv' /\ \A d \in Dependents(t) : status'[d] = "BLOCKED"
    BY <1>1, PropagationBlocks
  <2>3. \A v \in S \cup {t} : Dependents(v) \subseteq S
    BY <2>1, <2>2 DEF GraphInv, BlockedDependents, Dependents
  <2>4. S \in SUBSET Nodes
    OBVIOUS
  <2>5. u \in S
    BY <2>3, <2>4 DEF Downstream
  <2> QED
    BY <2>5
<1> QED
  BY <1>1, GraphInvCorrect, PTL DEF GraphSpec, FailureReachesEveryDependent

----------------------------------------------------------------------------
(* The order of an iteration.  The sets of nodes an iteration over the      *)
(* dependency function d may have emitted form a chain, so that two         *)
(* iterations of one graph, in two calls, meet the nodes in the same order. *)

Before(d, t) == d[t] \cap DOMAIN d
FreeIn(d, V) == {t \in DOMAIN d \ V : Before(d, t) \subseteq V}
NextIn(d, t, V) == t \in FreeIn(d, V) /\ \A u \in FreeIn(d, V) : t <= u

\* A family of sets that contains the empty set and, with every set, the set
\* an iteration makes of it.
Grows(d, F) ==
    /\ {} \in F
    /\ \A V \in F : \A t \in DOMAIN d : NextIn(d, t, V) => V \cup {t} \in F

Prefixes(d) ==
    {V \in SUBSET DOMAIN d : \A F \in SUBSET SUBSET DOMAIN d : Grows(d, F) => V \in F}

\* The prefixes contain the empty one and what an iteration makes of each.
LEMMA PrefixesGrow ==
    ASSUME NEW d
    PROVE  Grows(d, Prefixes(d))
<1>1. {} \in Prefixes(d)
  BY DEF Prefixes, Grows
<1>2. ASSUME NEW V \in Prefixes(d), NEW t \in DOMAIN d, NextIn(d, t, V)
      PROVE  V \cup {t} \in Prefixes(d)
  <2>1. V \cup {t} \in SUBSET DOMAIN d
    BY DEF Prefixes
  <2>2. ASSUME NEW F \in SUBSET SUBSET DOMAIN d, Grows(d, F)
        PROVE  V \cup {t} \in F
    <3>1. V \in F
      BY <2>2 DEF Prefixes
    <3> QED
      BY <3>1, <2>2, <1>2 DEF Grows
  <2> QED
    BY <2>1, <2>2 DEF Prefixes
<1> QED
  BY <1>1, <1>2 DEF Grows

\* Whatever family of prefixes grows contains them all.
LEMMA PrefixesLeast ==
    ASSUME NEW d, NEW F \in SUBSET Prefixes(d), Grows(d, F)
    PROVE  F = Prefixes(d)
<1>1. F \in SUBSET SUBSET DOMAIN d
  BY DEF Prefixes
<1> QED
  BY <1>1 DEF Prefixes

\* An iteration has one way to go on.
LEMMA NextIsUnique ==
    ASSUME NEW d, DOMAIN d \subseteq Int, NEW V, NEW t, NEW u,
           NextIn(d, t, V), NextIn(d, u, V)
    PROVE  t = u
<1>1. t <= u /\ u <= t /\ t \in Int /\ u \in Int
  BY DEF NextIn, FreeIn
<1> QED
  BY <1>1

\* What a prefix contains properly, an iteration extends within it.
Extends(d, V) ==
    \A W \in Prefixes(d) : W \subseteq V /\ W # V =>
        \A t \in DOMAIN d : NextIn(d, t, W) => t \in V

\* A prefix lies within another that is extended, or contains its extension.
LEMMA PrefixSplits ==
    ASSUME NEW d, DOMAIN d \subseteq Int,
           NEW V \in Prefixes(d), Extends(d, V),
           NEW t \in DOMAIN d, NextIn(d, t, V),
           NEW W \in Prefixes(d)
    PROVE  W \subseteq V \/ V \cup {t} \subseteq W
<1> DEFINE F == {X \in Prefixes(d) : X \subseteq V \/ V \cup {t} \subseteq X}
<1>1. {} \in F
  BY PrefixesGrow DEF Grows
<1>2. ASSUME NEW X \in F, NEW u \in DOMAIN d, NextIn(d, u, X)
      PROVE  X \cup {u} \in F
  <2>1. X \cup {u} \in Prefixes(d)
    BY <1>2, PrefixesGrow DEF Grows
  <2>2. CASE X = V
    BY <2>1, <2>2, <1>2, NextIsUnique
  <2>3. CASE X # V /\ X \subseteq V
    BY <2>1, <2>3, <1>2 DEF Extends
  <2>4. CASE V \cup {t} \subseteq X
    BY <2>1, <2>4
  <2> QED
    BY <2>2, <2>3, <2>4
<1>3. Grows(d, F)
  BY <1>1, <1>2 DEF Grows
<1>4. F = Prefixes(d)
  BY <1>3, PrefixesLeast
<1> QED
  BY <1>4

\* What a prefix contains properly is extended within it.
LEMMA PrefixesExtend ==
    ASSUME NEW d, DOMAIN d \subseteq Int, NEW V \in Prefixes(d)
    PROVE  Extends(d, V)
<1> DEFINE F == {X \in Prefixes(d) : Extends(d, X)}
<1>1. {} \in F
  BY PrefixesGrow DEF Grows, Extends
<1>2. ASSUME NEW X \in F, NEW t \in DOMAIN d, NextIn(d, t, X)
      PROVE  X \cup {t} \in F
  <2>1. X \cup {t} \in Prefixes(d)
    BY <1>2, PrefixesGrow DEF Grows
  <2>2. ASSUME NEW W \in Prefixes(d), W \subseteq X \cup {t}, W # X \cup {t},
               NEW u \in DOMAIN d, NextIn(d, u, W)
        PROVE  u \in X \cup {t}
    <3>1. W \subseteq X
      BY <2>2, <1>2, PrefixSplits
    <3>2. CASE W = X
      BY <3>2, <2>2, <1>2, NextIsUnique
    <3>3. CASE W # X
      BY <3>1, <3>3, <2>2 DEF Extends
    <3> QED
      BY <3>2, <3>3
  <2> QED
    BY <2>1, <2>2 DEF Extends
<1>3. F = Prefixes(d)
  <2>1. Grows(d, F)
    BY <1>1, <1>2 DEF Grows
  <2> QED
    BY <2>1, PrefixesLeast
<1> QED
  BY <1>3

\* The sets two iterations of one graph have emitted are comparable, and the
\* node the shorter one meets next is a node the longer one has met.
LEMMA PrefixesAreAChain ==
    ASSUME NEW d, DOMAIN d \subseteq Int,
           NEW V \in Prefixes(d), NEW W \in Prefixes(d),
           NEW t \in DOMAIN d, NextIn(d, t, V)
    PROVE  \/ W = V
           \/ W \subseteq V /\ W # V
           \/ t \in W
BY PrefixSplits, PrefixesExtend
=============================================================================
