--------------------------- MODULE TaskRunProofs ---------------------------
(****************************************************************************)
(* What TaskRun's promise amounts to, for every set of plans; and what the  *)
(* order is in which a plan's tasks are laid out, for plans of any size.    *)
(****************************************************************************)
EXTENDS TaskRun, TopologicalSort, FiniteSetTheorems, TLAPS

\* The graph is a plan's or empty, and every node has a status.
RunTypeOK ==
    /\ deps \in Plans \cup {<<>>}
    /\ status \in [Nodes -> TaskStatus]

\* The statuses of a run are statuses.
LEMMA RunTypeCorrect == RunSpec => []RunTypeOK
<1>1. RunInit => RunTypeOK
  BY DEF RunInit, RunTypeOK, Nodes
<1>2. RunTypeOK /\ [RunNext]_runVars => RunTypeOK'
  <2> SUFFICES ASSUME RunTypeOK, [RunNext]_runVars
               PROVE  RunTypeOK'
    OBVIOUS
  <2> USE DEF RunTypeOK, Nodes
  <2>1. CASE Begin \/ Conclude \/ Resume \/ UNCHANGED runVars
    BY <2>1 DEF Begin, Conclude, Resume, runVars, graphVars
  <2>2. CASE AdoptPlan
    BY <2>2 DEF AdoptPlan, NewGraph, TaskStatus
  <2>3. CASE BlockTasks
    BY <2>3 DEF BlockTasks, TaskStatus
  <2>4. ASSUME NEW t \in Nodes, StartTask(t) \/ EndTask(t)
        PROVE  RunTypeOK'
    BY <2>4 DEF StartTask, EndTask, mark_running, mark_completed, mark_failed,
       Transition, TaskStatus
  <2> QED
    BY <2>1, <2>2, <2>3, <2>4 DEF RunNext
<1> QED
  BY <1>1, <1>2, PTL DEF RunSpec

\* Both promises, which are inductive with the types: COMPLETED is final, and
\* nothing is started or ended once the verdict is "success".
RunInv == RunTypeOK /\ StartedInOrder /\ SuccessIsFinal

\* The strengthened invariant survives every step of a run.
LEMMA RunInvInductive ==
    ASSUME RunInv, RunTypeOK', [RunNext]_runVars
    PROVE  RunInv'
<1> USE DEF RunInv
<1>1. CASE Begin \/ Conclude \/ Resume \/ UNCHANGED runVars
  BY <1>1 DEF Begin, Conclude, Resume, runVars, graphVars, StartedInOrder,
     SuccessIsFinal, KnownDeps, Nodes
<1>2. CASE AdoptPlan
  <2>1. \A t \in Nodes' : status'[t] = "PENDING"
    BY <1>2 DEF AdoptPlan, NewGraph, Nodes
  <2>2. verdict' = "running"
    BY <1>2 DEF AdoptPlan
  <2> QED
    BY <2>1, <2>2 DEF StartedInOrder, SuccessIsFinal
<1>3. CASE BlockTasks
  <2>1. deps' = deps /\ Nodes' = Nodes /\ verdict' = "running"
    BY <1>3 DEF BlockTasks, Nodes
  <2>2. \A t \in Nodes :
            status'[t] # status[t] => status[t] = "PENDING" /\ status'[t] = "BLOCKED"
    BY <1>3 DEF BlockTasks
  <2>3. \A t \in Nodes : KnownDeps(t)' = KnownDeps(t) /\ KnownDeps(t) \subseteq Nodes
    BY <2>1 DEF KnownDeps
  <2> QED
    BY <2>1, <2>2, <2>3 DEF StartedInOrder, SuccessIsFinal
<1>4. ASSUME NEW t \in Nodes, StartTask(t) \/ EndTask(t)
      PROVE  RunInv'
  <2>1. deps' = deps /\ Nodes' = Nodes /\ verdict' = "running"
    BY <1>4 DEF StartTask, EndTask, mark_running, mark_completed, mark_failed,
       Transition, Nodes
  <2>2. PICK next \in {"RUNNING", "COMPLETED", "FAILED"} : Transition(t, next)
    BY <1>4 DEF StartTask, EndTask, mark_running, mark_completed, mark_failed
  <2>3. \A u \in Nodes : status'[u] = IF u = t THEN next ELSE status[u]
    BY <2>2 DEF Transition, RunTypeOK, Nodes
  <2>4. \A u \in Nodes : KnownDeps(u)' = KnownDeps(u) /\ KnownDeps(u) \subseteq Nodes
    BY <2>1 DEF KnownDeps
  <2>5. status[t] # "COMPLETED"
    BY <2>2 DEF Transition, CanTransition, AllowedTransitions
  <2>6. CASE StartTask(t)
    <3>1. /\ \A u \in Nodes : status[u] # "RUNNING"
          /\ \A d \in KnownDeps(t) : status[d] = "COMPLETED"
      BY <2>6 DEF StartTask
    <3> QED
      BY <3>1, <2>1, <2>2, <2>3, <2>4, <2>5 DEF StartedInOrder, SuccessIsFinal
  <2>7. CASE EndTask(t)
    <3>1. next \in {"COMPLETED", "FAILED"} /\ status[t] = "RUNNING"
      <4>1. status'[t] \in {"COMPLETED", "FAILED"}
        BY <2>7 DEF EndTask, mark_completed, mark_failed, Transition, RunTypeOK, Nodes
      <4>2. status[t] \in TaskStatus
        BY DEF RunTypeOK
      <4> QED
        BY <4>1, <4>2, <2>2, <2>3
        DEF Transition, CanTransition, AllowedTransitions, TaskStatus
    <3> QED
      BY <3>1, <2>1, <2>3, <2>4 DEF StartedInOrder, SuccessIsFinal
  <2> QED
    BY <1>4, <2>6, <2>7
<1> QED
  BY <1>1, <1>2, <1>3, <1>4 DEF RunNext

\* It holds of every run.
LEMMA RunInvCorrect == RunSpec => []RunInv
<1>1. RunInit => RunInv
  BY DEF RunInit, RunInv, RunTypeOK, StartedInOrder, SuccessIsFinal, Nodes
<1>2. RunInv /\ RunTypeOK' /\ [RunNext]_runVars => RunInv'
  BY RunInvInductive
<1> QED
  BY <1>1, <1>2, RunTypeCorrect, PTL DEF RunSpec

\* No task is started out of order and no two at once; a success stands.
THEOREM RunKeepsItsPromise == RunSpec => [](StartedInOrder /\ SuccessIsFinal)
<1>1. RunInv => StartedInOrder /\ SuccessIsFinal
  BY DEF RunInv
<1> QED
  BY <1>1, RunInvCorrect, PTL

----------------------------------------------------------------------------
(* The execution order.                                                     *)

\* No dependency list names an id twice.
NoRepeats == \A p \in Subtasks : \A i \in DOMAIN p : IsInjective(p[i].deps)

\* The places of a dependency list whose node is not among the ids `out` yet.
Waiting(x, out) == {i \in DOMAIN DepsOf(x) : DepsOf(x)[i] \in Added \ out}

PlanInv ==
    /\ plan \in Subtasks /\ nodes \in 0..Len(plan)
    /\ \A i, j \in 1..nodes : plan[i].id = plan[j].id => i = j

EdgesInv ==
    /\ dependents \in [Added -> [Added -> Nat]]
    /\ \A x, y \in Added : dependents[x][y] = IF x \in ToSet(DepsOf(y)) THEN 1 ELSE 0

\* The loop of Kahn's algorithm: a node's counter is the number of its known
\* dependencies that are not out, and the queue holds the nodes without any.
LoopInv ==
    /\ nodes = TaskCount /\ Graph!Acyclic
    /\ result \in Seq(Added) /\ IsInjective(result)
    /\ in_degree \in [Added -> Nat]
    /\ \A x \in Added : in_degree[x] = Cardinality(Waiting(x, ToSet(result)))
    /\ queue = {x \in Added \ ToSet(result) : in_degree[x] = 0}
    /\ \A x \in ToSet(result) : in_degree[x] = 0

SortInv ==
    /\ PlanInv /\ EdgesInv
    /\ outcome \in {"adding", "duplicate_id", "sorting", "sorted", "cycle"}
    /\ outcome = "adding" => result = <<>>
    /\ outcome = "sorting" => LoopInv
    /\ CycleReportedIffCyclic

LEMMA PlanFacts ==
    ASSUME PlanInv
    PROVE  /\ plan \in Seq([id : Id, deps : Seq(Id)]) /\ nodes \in Nat /\ nodes <= Len(plan)
           /\ \A i \in 1..nodes : plan[i].id \in Added /\ DepsOf(plan[i].id) = plan[i].deps
           /\ Added \subseteq Id /\ Added \subseteq Int
           /\ \A x \in Added : DepsOf(x) \in Seq(Id)
           /\ \A x \in Added : \E i \in 1..nodes : x = plan[i].id
<1>1. plan \in Seq([id : Id, deps : Seq(Id)]) /\ nodes \in Nat /\ nodes <= Len(plan)
  <2>1. plan \in Subtasks /\ nodes \in 0..Len(plan)
    BY DEF PlanInv
  <2> DEFINE R == [id : Id, deps : Seq(Id)]
  <2>2. Subtasks \subseteq Seq(R)
    BY SubtasksAssumption
  <2>3. plan \in Seq(R)
    BY <2>1, <2>2
  <2> HIDE DEF R
  <2>4. Len(plan) \in Nat
    BY <2>3
  <2>5. nodes \in Nat /\ nodes <= Len(plan)
    BY <2>1, <2>4
  <2> QED
    BY <2>3, <2>5 DEF R
<1>2. \A i \in 1..nodes : plan[i].id \in Id /\ plan[i].deps \in Seq(Id)
  <2> SUFFICES ASSUME NEW i \in 1..nodes PROVE plan[i].id \in Id /\ plan[i].deps \in Seq(Id)
    OBVIOUS
  <2> DEFINE R == [id : Id, deps : Seq(Id)]
  <2>1. plan[i] \in R
    <3>1. plan \in Seq(R) /\ i \in 1..Len(plan)
      BY <1>1
    <3> HIDE DEF R
    <3> QED
      BY <3>1
  <2> QED
    BY <2>1
<1>3. \A i \in 1..nodes : plan[i].id \in Added /\ DepsOf(plan[i].id) = plan[i].deps
  <2> SUFFICES ASSUME NEW i \in 1..nodes
               PROVE  plan[i].id \in Added /\ DepsOf(plan[i].id) = plan[i].deps
    OBVIOUS
  <2>1. \A j \in 1..nodes : plan[j].id = plan[i].id => j = i
    BY DEF PlanInv
  <2>2. (CHOOSE j \in 1..nodes : plan[j].id = plan[i].id) = i
    BY <2>1
  <2> QED
    BY <2>2 DEF Added, DepsOf
<1>4. \A x \in Added : \E i \in 1..nodes : x = plan[i].id
  BY DEF Added
<1>5. Added \subseteq Id
  BY <1>2, <1>4
<1>6. \A x \in Added : DepsOf(x) \in Seq(Id)
  BY <1>2, <1>3, <1>4
<1>7. Added \subseteq Int
  BY <1>5, SubtasksAssumption
<1> QED
  BY <1>1, <1>3, <1>4, <1>5, <1>6, <1>7

\* A list without repetitions names an id once or not at all.
LEMMA OccursOnce ==
    ASSUME NEW s, IsInjective(s), NEW x
    PROVE  Occurrences(x, s) = IF x \in ToSet(s) THEN 1 ELSE 0
<1> DEFINE I == {i \in DOMAIN s : s[i] = x}
<1>1. CASE x \in ToSet(s)
  <2>1. PICK i \in DOMAIN s : s[i] = x
    BY <1>1 DEF ToSet
  <2>2. I = {i}
    BY <2>1 DEF IsInjective
  <2>3. Cardinality(I) = 1
    BY <2>2, FS_Singleton
  <2> QED
    BY <1>1, <2>3 DEF Occurrences
<1>2. CASE x \notin ToSet(s)
  <2>1. I = {}
    BY <1>2 DEF ToSet
  <2>2. Cardinality(I) = 0
    BY <2>1, FS_EmptySet
  <2> QED
    BY <1>2, <2>2 DEF Occurrences
<1> QED
  BY <1>1, <1>2

\* As many ids as places.
LEMMA DistinctCount ==
    ASSUME NEW n \in Nat, NEW f, \A i, j \in 1..n : f[i] = f[j] => i = j,
           NEW T, T = {f[i] : i \in 1..n}
    PROVE  IsFiniteSet(T) /\ Cardinality(T) = n
<1> DEFINE g == [i \in 1..n |-> f[i]]
<1>1. g \in Bijection(1..n, T)
  <2>1. g \in [1..n -> T]
    OBVIOUS
  <2>2. g \in Injection(1..n, T)
    BY <2>1 DEF Injection, IsInjective
  <2>3. g \in Surjection(1..n, T)
    BY <2>1 DEF Surjection
  <2> QED
    BY <2>2, <2>3 DEF Bijection
<1>2. ExistsBijection(1..n, T)
  BY <1>1 DEF ExistsBijection
<1>3. IsFiniteSet(1..n) /\ Cardinality(1..n) = n
  BY FS_Interval
<1> QED
  BY <1>2, <1>3, FS_Bijection

LEMMA AddedCount ==
    ASSUME PlanInv
    PROVE  IsFiniteSet(Added) /\ Cardinality(Added) = nodes
<1> DEFINE f == [i \in 1..nodes |-> plan[i].id]
<1>1. nodes \in Nat
  BY PlanFacts
<1>2. \A i, j \in 1..nodes : f[i] = f[j] => i = j
  BY DEF PlanInv
<1>3. Added = {f[i] : i \in 1..nodes}
  BY DEF Added
<1> HIDE DEF f
<1> QED
  BY <1>1, <1>2, <1>3, DistinctCount

LEMMA ResultCount ==
    ASSUME NEW S, NEW r \in Seq(S), IsInjective(r)
    PROVE  IsFiniteSet(ToSet(r)) /\ Cardinality(ToSet(r)) = Len(r)
<1> DEFINE n == Len(r)
<1>1. n \in Nat /\ DOMAIN r = 1..n
  OBVIOUS
<1>2. \A i, j \in 1..n : r[i] = r[j] => i = j
  BY <1>1 DEF IsInjective
<1>3. ToSet(r) = {r[i] : i \in 1..n}
  BY <1>1 DEF ToSet
<1> HIDE DEF n
<1>4. IsFiniteSet(ToSet(r)) /\ Cardinality(ToSet(r)) = n
  BY <1>1, <1>2, <1>3, DistinctCount
<1> QED
  BY <1>4 DEF n

\* A finite set of numbers has a least one: the one with the fewest below it.
LEMMA LeastExists ==
    ASSUME NEW S \in SUBSET Int, IsFiniteSet(S), S # {}
    PROVE  \E x \in S : \A y \in S : x <= y
<1> DEFINE Below(x) == {y \in S : y < x}
           R == {Cardinality(Below(x)) : x \in S}
<1>1. \A x \in S : IsFiniteSet(Below(x)) /\ Cardinality(Below(x)) \in Nat
  BY FS_Subset, FS_CardinalityType
<1>2. R \subseteq Nat /\ R # {}
  BY <1>1
<1>3. PICK n \in R : \A m \in R : <<m, n>> \notin OpToRel(<, Nat)
  <2> HIDE DEF R
  <2> QED
    BY <1>2, NatLessThanWellFounded, WFMin
<1>4. \A m \in R : ~(m < n)
  BY <1>2, <1>3 DEF OpToRel
<1>5. PICK x \in S : n = Cardinality(Below(x))
  OBVIOUS
<1>6. ASSUME NEW y \in S, y < x PROVE FALSE
  <2>1. Below(y) \subseteq Below(x) /\ y \in Below(x) /\ y \notin Below(y)
    <3>1. \A z \in S : z \in Int
      OBVIOUS
    <3>2. \A z \in S : z < y => z < x
      BY <1>6, <3>1
    <3>3. ~(y < y)
      BY <3>1
    <3> QED
      BY <1>6, <3>2, <3>3
  <2>2. Cardinality(Below(y)) <= Cardinality(Below(x)) /\ Cardinality(Below(y)) # Cardinality(Below(x))
    <3> HIDE DEF Below
    <3> QED
      BY <1>1, <2>1, FS_Subset
  <2>3. Cardinality(Below(y)) \in R
    OBVIOUS
  <2> HIDE DEF Below, R
  <2> QED
    BY <1>1, <1>4, <1>5, <2>2, <2>3
<1> QED
  BY <1>6

\* A cycle in the dependents lists is one in the dependency lists.
LEMMA CycleMeans ==
    ASSUME PlanInv, EdgesInv
    PROVE  HasCycle <=> ~Graph!Acyclic
<1>1. Graph!Nodes = Added
  BY DEF Graph!Nodes
<1>2. \A x \in Added : Graph!KnownDeps(x) = ToSet(DepsOf(x)) \cap Added
  BY <1>1 DEF Graph!KnownDeps
<1>3. \A x, y \in Added : dependents[y][x] > 0 <=> y \in Graph!KnownDeps(x)
  BY <1>2 DEF EdgesInv
<1>4. ASSUME NEW S \in SUBSET Added
      PROVE  (\A x \in S : \E y \in S : dependents[y][x] > 0)
                <=> ~ \E x \in S : Graph!KnownDeps(x) \cap S = {}
  BY <1>3
<1> QED
  BY <1>1, <1>4 DEF HasCycle, Graph!Acyclic

\* The counter of a node is zero when all its known dependencies are out.
LEMMA NothingWaiting ==
    ASSUME PlanInv, NEW x \in Added, NEW out
    PROVE  /\ IsFiniteSet(Waiting(x, out)) /\ Cardinality(Waiting(x, out)) \in Nat
           /\ Cardinality(Waiting(x, out)) = 0 <=> Graph!KnownDeps(x) \subseteq out
<1>1. DepsOf(x) \in Seq(Id)
  BY PlanFacts
<1>2. IsFiniteSet(DOMAIN DepsOf(x))
  BY <1>1, FS_Interval
<1>3. IsFiniteSet(Waiting(x, out)) /\ Cardinality(Waiting(x, out)) \in Nat
  BY <1>2, FS_Subset, FS_CardinalityType DEF Waiting
<1>4. Cardinality(Waiting(x, out)) = 0 <=> Waiting(x, out) = {}
  BY <1>3, FS_EmptySet
<1>5. Graph!KnownDeps(x) = ToSet(DepsOf(x)) \cap Added
  BY DEF Graph!KnownDeps, Graph!Nodes
<1>6. Waiting(x, out) = {} <=> Graph!KnownDeps(x) \subseteq out
  BY <1>5 DEF Waiting, ToSet
<1> QED
  BY <1>3, <1>4, <1>6

\* The queue holds what may come next.
LEMMA QueueIsAvailable ==
    ASSUME PlanInv, LoopInv
    PROVE  queue = Graph!Available(ToSet(result))
<1>1. Graph!Nodes = Added
  BY DEF Graph!Nodes
<1>2. \A x \in Added : in_degree[x] = 0 <=> Graph!KnownDeps(x) \subseteq ToSet(result)
  BY NothingWaiting DEF LoopInv
<1> QED
  BY <1>1, <1>2 DEF LoopInv, Graph!Available

LEMMA SmallestIsLeast ==
    ASSUME PlanInv, LoopInv, queue # {}
    PROVE  SmallestQueued \in queue /\ \A y \in queue : SmallestQueued <= y
<1>1. queue \subseteq Added /\ Added \subseteq Int /\ IsFiniteSet(Added)
  BY PlanFacts, AddedCount DEF LoopInv
<1>2. IsFiniteSet(queue) /\ queue \in SUBSET Int
  BY <1>1, FS_Subset
<1>3. \E x \in queue : \A y \in queue : x <= y
  BY <1>2, LeastExists
<1> QED
  BY <1>3 DEF SmallestQueued

LEMMA SamePlan ==
    ASSUME UNCHANGED <<plan, nodes>>
    PROVE  /\ Added' = Added /\ TaskCount' = TaskCount
           /\ \A x : DepsOf(x)' = DepsOf(x)
           /\ \A x, out : Waiting(x, out)' = Waiting(x, out)
           /\ Graph!Acyclic' <=> Graph!Acyclic
<1>1. Added' = Added /\ TaskCount' = TaskCount
  BY DEF Added, TaskCount
<1>2. \A x : DepsOf(x)' = DepsOf(x)
  BY DEF DepsOf
<1>3. \A x, out : Waiting(x, out)' = Waiting(x, out)
  BY <1>1, <1>2 DEF Waiting
<1>4. Graph!Acyclic' <=> Graph!Acyclic
  BY <1>1, <1>2 DEF Graph!Acyclic, Graph!Nodes, Graph!KnownDeps
<1> QED
  BY <1>1, <1>2, <1>3, <1>4

\* The place of a node in the plan.
LEMMA PlaceFound ==
    ASSUME NEW p, NEW n, \A i, j \in 1..n : p[i].id = p[j].id => i = j, NEW k \in 1..n
    PROVE  (CHOOSE i \in 1..n : p[i].id = p[k].id) = k
<1>1. \A i \in 1..n : p[i].id = p[k].id => i = k
  OBVIOUS
<1> QED
  BY <1>1

\* A subtask that is added enters the lists of its dependencies, wherever those
\* are in the plan, and those that wait for it enter its own.
LEMMA AddStep ==
    ASSUME NoRepeats, SortInv, add_task
    PROVE  SortInv'
<1> DEFINE m == nodes + 1  new == plan[m]
<1>1. /\ outcome = "adding" /\ nodes < Len(plan) /\ UNCHANGED <<plan, result>>
      /\ PlanInv /\ EdgesInv
  BY DEF add_task, TaskCount, SortInv
<1>2. /\ nodes \in Nat /\ \A i \in 1..nodes : DepsOf(plan[i].id) = plan[i].deps
      /\ \A i, j \in 1..nodes : plan[i].id = plan[j].id => i = j
      /\ m \in 1..Len(plan)
  BY <1>1, PlanFacts DEF PlanInv
<1>3. CASE new.id \in Added
  <2>1. outcome' = "duplicate_id" /\ UNCHANGED <<nodes, dependents>>
    BY <1>3 DEF add_task
  <2>2. PlanInv' /\ EdgesInv'
    BY <1>1, <2>1, SamePlan DEF PlanInv, EdgesInv
  <2> QED
    BY <2>1, <2>2 DEF SortInv, CycleReportedIffCyclic
<1>4. CASE new.id \notin Added
  <2>1. nodes' = m /\ dependents' = DependentsAfterAdd(new) /\ outcome' = "adding"
    BY <1>1, <1>4 DEF add_task
  <2>2. \A i \in 1..nodes : plan[i].id # new.id
    BY <1>4 DEF Added
  <2>3. \A i, j \in 1..m : plan[i].id = plan[j].id => i = j
    BY <1>2, <2>2
  <2>4. PlanInv'
    BY <1>1, <1>2, <2>1, <2>3 DEF PlanInv
  <2>5. Added' = Added \cup {new.id}
    <3>1. 1..m = 1..nodes \cup {m}
      BY <1>2
    <3> HIDE DEF m
    <3> QED
      BY <1>1, <2>1, <3>1 DEF Added
  <2>6. \A x : \A i \in 1..m : x = plan[i].id => DepsOf(x)' = plan[i].deps
    <3> SUFFICES ASSUME NEW x, NEW i \in 1..m, x = plan[i].id PROVE DepsOf(x)' = plan[i].deps
      OBVIOUS
    <3>1. (CHOOSE j \in 1..m : plan[j].id = plan[i].id) = i
      <4> HIDE DEF m
      <4> QED
        BY <2>3, PlaceFound
    <3> QED
      BY <1>1, <2>1, <3>1 DEF DepsOf
  <2>7. \A x : x = new.id => DepsOf(x)' = new.deps
    <3>1. m \in 1..m
      BY <1>2
    <3> QED
      BY <2>6, <3>1
  <2>8. \A y \in Added : DepsOf(y)' = DepsOf(y)
    <3> SUFFICES ASSUME NEW y \in Added PROVE DepsOf(y)' = DepsOf(y)
      OBVIOUS
    <3>1. PICK i \in 1..nodes : y = plan[i].id
      BY DEF Added
    <3>2. i \in 1..m
      BY <1>2
    <3> QED
      BY <1>2, <2>6, <3>1, <3>2
  <2>9. IsInjective(new.deps)
    <3>1. plan \in Subtasks /\ m \in DOMAIN plan
      BY <1>1, <1>2, PlanFacts DEF PlanInv
    <3> QED
      BY <3>1 DEF NoRepeats
  <2>10. \A x : Occurrences(x, new.deps) = IF x \in ToSet(new.deps) THEN 1 ELSE 0
    BY <2>9, OccursOnce
  <2> DEFINE ids == Added \cup {new.id}
             entry(x, y) == IF y = new.id THEN Occurrences(x, new.deps)
                            ELSE IF x = new.id THEN IF Contains(DepsOf(y), x) THEN 1 ELSE 0
                            ELSE dependents[x][y]
  <2>11. dependents' = [x \in ids |-> [y \in ids |-> entry(x, y)]]
    BY <2>1 DEF DependentsAfterAdd
  <2>12. \A x, y \in ids : entry(x, y) = IF x \in ToSet(DepsOf(y)') THEN 1 ELSE 0
    <3> SUFFICES ASSUME NEW x \in ids, NEW y \in ids
                 PROVE  entry(x, y) = IF x \in ToSet(DepsOf(y)') THEN 1 ELSE 0
      OBVIOUS
    <3>1. CASE y = new.id
      BY <2>7, <2>10, <3>1
    <3>2. CASE y # new.id /\ x = new.id
      <4>1. y \in Added /\ DepsOf(y)' = DepsOf(y)
        BY <2>8, <3>2
      <4>2. Contains(DepsOf(y), x) <=> x \in ToSet(DepsOf(y))
        <5>1. DepsOf(y) \in Seq(Id)
          BY <1>1, <4>1, PlanFacts
        <5> QED
          BY <5>1 DEF Contains, ToSet
      <4>3. entry(x, y) = IF Contains(DepsOf(y), x) THEN 1 ELSE 0
        BY <3>2
      <4> QED
        BY <4>1, <4>2, <4>3
    <3>3. CASE y # new.id /\ x # new.id
      <4>1. x \in Added /\ y \in Added /\ DepsOf(y)' = DepsOf(y)
        BY <2>8, <3>3
      <4>2. entry(x, y) = dependents[x][y]
        BY <3>3
      <4> QED
        BY <1>1, <4>1, <4>2 DEF EdgesInv
    <3> QED
      BY <3>1, <3>2, <3>3
  <2> HIDE DEF entry, ids
  <2>13. /\ dependents' \in [ids -> [ids -> Nat]]
         /\ \A x, y \in ids : dependents'[x][y] = IF x \in ToSet(DepsOf(y)') THEN 1 ELSE 0
    BY <2>11, <2>12
  <2>14. EdgesInv'
    BY <2>5, <2>13 DEF EdgesInv, ids
  <2> QED
    BY <1>1, <2>1, <2>4, <2>14 DEF SortInv, CycleReportedIffCyclic
<1> QED
  BY <1>3, <1>4

LEMMA BeginStep ==
    ASSUME SortInv, begin_sort
    PROVE  SortInv'
<1>1. /\ outcome = "adding" /\ nodes = TaskCount /\ UNCHANGED <<plan, nodes, dependents, result>>
      /\ PlanInv /\ EdgesInv /\ result = <<>>
  BY DEF begin_sort, SortInv
<1>2. PlanInv' /\ EdgesInv'
  BY <1>1, SamePlan DEF PlanInv, EdgesInv
<1>3. CASE HasCycle
  <2>1. outcome' = "cycle" /\ ~Graph!Acyclic'
    BY <1>1, <1>3, SamePlan, CycleMeans DEF begin_sort
  <2> QED
    BY <1>2, <2>1 DEF SortInv, CycleReportedIffCyclic
<1>4. CASE ~HasCycle
  <2>1. /\ in_degree' = [x \in Added |-> Cardinality({i \in DOMAIN DepsOf(x) : DepsOf(x)[i] \in Added})]
        /\ queue' = {x \in Added : in_degree'[x] = 0}
        /\ outcome' = "sorting"
    BY <1>4 DEF begin_sort
  <2>2. ToSet(result') = {}
    BY <1>1 DEF ToSet
  <2>3. \A x \in Added : in_degree'[x] = Cardinality(Waiting(x, {}))
    BY <2>1 DEF Waiting
  <2>4. in_degree' \in [Added -> Nat]
    <3>1. \A x \in Added : Cardinality(Waiting(x, {})) \in Nat
      BY <1>1, NothingWaiting
    <3> QED
      BY <2>1, <2>3, <3>1
  <2>5. Graph!Acyclic' /\ nodes' = TaskCount' /\ Added' = Added
    BY <1>1, <1>4, SamePlan, CycleMeans
  <2>6. \A x \in Added : in_degree'[x] = Cardinality(Waiting(x, ToSet(result))')
    BY <1>1, <2>2, <2>3, SamePlan
  <2>7. result' \in Seq(Added) /\ IsInjective(result')
    BY <1>1 DEF IsInjective
  <2>8. queue' = {x \in Added \ ToSet(result') : in_degree'[x] = 0}
    BY <2>1, <2>2
  <2>9. LoopInv'
    BY <2>2, <2>4, <2>5, <2>6, <2>7, <2>8 DEF LoopInv
  <2> QED
    BY <1>2, <2>1, <2>9 DEF SortInv, CycleReportedIffCyclic
<1> QED
  BY <1>3, <1>4

\* A node that comes out of the queue is one dependency less for its dependents.
LEMMA OneLess ==
    ASSUME NoRepeats, PlanInv, EdgesInv, NEW out, NEW n \in Added \ out, NEW x \in Added
    PROVE  Cardinality(Waiting(x, out \cup {n})) = Cardinality(Waiting(x, out)) - dependents[n][x]
<1>1. DepsOf(x) \in Seq(Id) /\ IsInjective(DepsOf(x))
  <2>1. PICK i \in 1..nodes : x = plan[i].id /\ DepsOf(x) = plan[i].deps
    BY PlanFacts
  <2>2. plan \in Subtasks /\ i \in DOMAIN plan
    BY PlanFacts DEF PlanInv
  <2> QED
    BY <2>1, <2>2, PlanFacts DEF NoRepeats
<1>2. dependents[n][x] = IF n \in ToSet(DepsOf(x)) THEN 1 ELSE 0
  BY DEF EdgesInv
<1>3. IsFiniteSet(Waiting(x, out)) /\ Cardinality(Waiting(x, out)) \in Nat
  BY NothingWaiting
<1>4. CASE n \in ToSet(DepsOf(x))
  <2>1. PICK i \in DOMAIN DepsOf(x) : DepsOf(x)[i] = n
    BY <1>4 DEF ToSet
  <2>2. i \in Waiting(x, out)
    BY <2>1 DEF Waiting
  <2>3. Waiting(x, out \cup {n}) = Waiting(x, out) \ {i}
    BY <1>1, <2>1 DEF Waiting, IsInjective
  <2>4. Cardinality(Waiting(x, out) \ {i}) = Cardinality(Waiting(x, out)) - 1
    BY <1>3, <2>2, FS_RemoveElement
  <2> QED
    BY <1>2, <1>4, <2>3, <2>4
<1>5. CASE n \notin ToSet(DepsOf(x))
  <2>1. Waiting(x, out \cup {n}) = Waiting(x, out)
    BY <1>5 DEF Waiting, ToSet
  <2> QED
    BY <1>2, <1>3, <1>5, <2>1
<1> QED
  BY <1>4, <1>5

LEMMA PopStep ==
    ASSUME NoRepeats, SortInv, pop_queue
    PROVE  SortInv'
<1> DEFINE n == SmallestQueued  R == ToSet(result)
           left(x) == in_degree[x] - dependents[n][x]
<1>1. /\ outcome = "sorting" /\ queue # {} /\ UNCHANGED <<plan, nodes, dependents, outcome>>
      /\ PlanInv /\ EdgesInv /\ LoopInv
  BY DEF pop_queue, SortInv
<1>2. /\ result' = Append(result, n)
      /\ in_degree' = [x \in Added |-> left(x)]
      /\ queue' = (queue \ {n}) \cup {x \in Added : in_degree[x] > 0 /\ left(x) <= 0}
  BY DEF pop_queue
<1>3. n \in queue
  BY <1>1, SmallestIsLeast
<1> HIDE DEF n
<1>4. /\ result \in Seq(Added) /\ IsInjective(result) /\ in_degree \in [Added -> Nat]
      /\ queue = {x \in Added \ R : in_degree[x] = 0}
      /\ \A x \in R : in_degree[x] = 0
      /\ \A x \in Added : in_degree[x] = Cardinality(Waiting(x, R))
  BY <1>1 DEF LoopInv
<1>5. n \in Added \ R /\ in_degree[n] = 0
  BY <1>3, <1>4
<1>6. /\ result' \in Seq(Added) /\ Len(result') = Len(result) + 1 /\ result'[Len(result) + 1] = n
      /\ \A i \in 1..Len(result) : result'[i] = result[i]
      /\ Len(result) \in Nat
  BY <1>2, <1>4, <1>5
<1>7. ToSet(result') = R \cup {n}
  <2>1. DOMAIN result' = 1..Len(result) \cup {Len(result) + 1} /\ DOMAIN result = 1..Len(result)
    BY <1>4, <1>6
  <2> QED
    BY <1>6, <2>1 DEF ToSet
<1>8. IsInjective(result')
  <2> SUFFICES ASSUME NEW i \in 1..Len(result'), NEW j \in 1..Len(result'), result'[i] = result'[j]
               PROVE  i = j
    BY <1>6 DEF IsInjective
  <2>1. \A k \in 1..Len(result) : result'[k] = result[k] /\ result[k] \in R /\ result[k] # n
    BY <1>4, <1>5, <1>6 DEF ToSet
  <2>2. \A k \in 1..Len(result') : k \in 1..Len(result) \/ k = Len(result) + 1
    BY <1>6
  <2>3. CASE i \in 1..Len(result) /\ j \in 1..Len(result)
    BY <1>4, <2>1, <2>3 DEF IsInjective
  <2> QED
    BY <1>6, <2>1, <2>2, <2>3
<1>9. \A x \in Added : left(x) = Cardinality(Waiting(x, R \cup {n})) /\ left(x) \in Nat
  <2> SUFFICES ASSUME NEW x \in Added
               PROVE  left(x) = Cardinality(Waiting(x, R \cup {n})) /\ left(x) \in Nat
    OBVIOUS
  <2>1. left(x) = Cardinality(Waiting(x, R \cup {n}))
    <3>1. Cardinality(Waiting(x, R \cup {n})) = Cardinality(Waiting(x, R)) - dependents[n][x]
      <4> HIDE DEF R
      <4> QED
        BY <1>1, <1>5, OneLess
    <3> QED
      BY <1>4, <3>1
  <2>2. Cardinality(Waiting(x, R \cup {n})) \in Nat
    BY <1>1, NothingWaiting
  <2> QED
    BY <2>1, <2>2
<1>10. \A x \in Added : dependents[n][x] \in {0, 1}
  BY <1>1, <1>5 DEF EdgesInv
<1>11. \A x \in Added : in_degree[x] = 0 => left(x) = 0
  BY <1>4, <1>9, <1>10
<1> HIDE DEF left, R
<1>12. in_degree' \in [Added -> Nat] /\ \A x \in Added : in_degree'[x] = left(x)
  BY <1>2, <1>9
<1>13. \A x \in R \cup {n} : x \in Added /\ in_degree'[x] = 0
  <2>1. R \subseteq Added
    BY <1>4 DEF R, ToSet
  <2> QED
    BY <1>4, <1>5, <1>11, <1>12, <2>1
<1>14. queue' = {x \in Added \ (R \cup {n}) : in_degree'[x] = 0}
  <2>1. ASSUME NEW x \in Added, x \notin R \cup {n}
        PROVE  x \in queue' <=> in_degree'[x] = 0
    <3>1. x \in queue' <=> in_degree[x] = 0 \/ (in_degree[x] > 0 /\ left(x) <= 0)
      BY <1>2, <1>4, <2>1
    <3>2. in_degree[x] \in Nat /\ left(x) \in Nat
      BY <1>4, <1>9
    <3> QED
      BY <1>11, <1>12, <3>1, <3>2
  <2>2. ASSUME NEW x \in R \cup {n} PROVE x \notin queue'
    <3>1. in_degree[x] = 0
      BY <1>4, <1>5, <2>2
    <3> QED
      BY <1>2, <1>4, <2>2, <3>1
  <2>3. queue' \subseteq Added
    BY <1>2, <1>4
  <2> QED
    BY <2>1, <2>2, <2>3
<1>15. Added' = Added /\ nodes' = TaskCount' /\ Graph!Acyclic'
  BY <1>1, SamePlan DEF LoopInv
<1>16. \A x \in Added : in_degree'[x] = Cardinality(Waiting(x, ToSet(result))')
  <2>1. \A x : Waiting(x, ToSet(result))' = Waiting(x, R \cup {n})
    BY <1>1, <1>7, SamePlan DEF Waiting
  <2> QED
    BY <1>9, <1>12, <2>1
<1>17. PlanInv' /\ EdgesInv'
  BY <1>1, SamePlan DEF PlanInv, EdgesInv
<1>18. LoopInv'
  BY <1>6, <1>7, <1>8, <1>12, <1>13, <1>14, <1>15, <1>16 DEF LoopInv
<1> QED
  BY <1>1, <1>17, <1>18 DEF SortInv, CycleReportedIffCyclic

\* With the queue empty no node is left: some node of those that are left would
\* depend on none of them.
LEMMA FinishStep ==
    ASSUME SortInv, finish_sort
    PROVE  SortInv'
<1>1. /\ outcome = "sorting" /\ queue = {} /\ UNCHANGED <<plan, nodes, dependents, result>>
      /\ PlanInv /\ EdgesInv /\ LoopInv
      /\ outcome' = IF Len(result) = TaskCount THEN "sorted" ELSE "cycle"
  BY DEF finish_sort, SortInv
<1>2. Graph!Available(ToSet(result)) = {}
  BY <1>1, QueueIsAvailable
<1>3. Graph!Nodes = Added
  BY DEF Graph!Nodes
<1>4. ToSet(result) = Added
  <2> DEFINE left == Added \ ToSet(result)
  <2>1. ToSet(result) \subseteq Added
    BY <1>1 DEF LoopInv, ToSet
  <2>2. SUFFICES ASSUME left # {} PROVE FALSE
    BY <2>1
  <2>3. PICK x \in left : Graph!KnownDeps(x) \cap left = {}
    BY <1>1, <1>3, <2>2 DEF LoopInv, Graph!Acyclic
  <2>4. Graph!KnownDeps(x) \subseteq Added
    BY <1>3 DEF Graph!KnownDeps
  <2>5. x \in Graph!Available(ToSet(result))
    BY <1>3, <2>3, <2>4 DEF Graph!Available
  <2> QED
    BY <1>2, <2>5
<1>5. Len(result) = TaskCount
  <2>1. Cardinality(ToSet(result)) = Len(result)
    BY <1>1, ResultCount DEF LoopInv
  <2>2. Cardinality(Added) = nodes
    BY <1>1, AddedCount
  <2> QED
    BY <1>1, <1>4, <2>1, <2>2 DEF LoopInv
<1>6. outcome' = "sorted" /\ Graph!Acyclic' /\ ToSet(result') = Added'
  BY <1>1, <1>4, <1>5, SamePlan DEF LoopInv
<1>7. PlanInv' /\ EdgesInv'
  BY <1>1, SamePlan DEF PlanInv, EdgesInv
<1> QED
  BY <1>6, <1>7 DEF SortInv, CycleReportedIffCyclic

LEMMA SortInvInit == Init => SortInv
<1> SUFFICES ASSUME Init PROVE SortInv
  OBVIOUS
<1>1. plan \in Subtasks /\ nodes = 0 /\ dependents = <<>> /\ result = <<>> /\ outcome = "adding"
  BY DEF Init
<1>2. Len(plan) \in Nat
  BY <1>1, SubtasksAssumption
<1>3. PlanInv
  BY <1>1, <1>2 DEF PlanInv
<1>4. Added = {}
  BY <1>1 DEF Added
<1>5. EdgesInv
  BY <1>1, <1>4 DEF EdgesInv
<1> QED
  BY <1>1, <1>3, <1>5 DEF SortInv, CycleReportedIffCyclic

LEMMA SortStays ==
    ASSUME SortInv, UNCHANGED sortVars
    PROVE  SortInv'
<1>1. UNCHANGED <<plan, nodes, dependents, in_degree, queue, result, outcome>>
  BY DEF sortVars
<1>2. PlanInv' /\ EdgesInv'
  BY <1>1, SamePlan DEF SortInv, PlanInv, EdgesInv
<1>3. \A x : Waiting(x, ToSet(result))' = Waiting(x, ToSet(result))
  BY <1>1, SamePlan DEF Waiting
<1>4. LoopInv => LoopInv'
  BY <1>1, <1>3, SamePlan DEF LoopInv
<1>5. CycleReportedIffCyclic'
  BY <1>1, SamePlan DEF SortInv, CycleReportedIffCyclic
<1> QED
  BY <1>1, <1>2, <1>4, <1>5 DEF SortInv

LEMMA NextKeepsSortInv == NoRepeats /\ SortInv /\ [Next]_sortVars => SortInv'
  BY AddStep, BeginStep, PopStep, FinishStep, SortStays DEF Next

\* CycleDetectedError is raised for the cyclic plans and for no other, and an
\* order that is returned has every node once (TaskGraph.topological_sort), for
\* all plans of any size whose dependency lists name no id twice.
THEOREM CyclesAreReported ==
    ASSUME NoRepeats
    PROVE  Spec => []CycleReportedIffCyclic
<1>1. SortInv => CycleReportedIffCyclic
  BY DEF SortInv
<1>2. SortInv /\ [Next]_sortVars => SortInv'
  BY NextKeepsSortInv
<1> QED
  BY <1>1, <1>2, SortInvInit, PTL DEF Spec

\* Each node that is emitted is the least of those whose known dependencies are
\* all out, so that the order does not depend on the order of the plan.
THEOREM OrderIsCanonical ==
    ASSUME NoRepeats
    PROVE  Spec => KahnFollowsOrder
<1>1. SortInv /\ [Next]_sortVars =>
        [result' # result => Graph!ComesNext(Last(result'), ToSet(result))]_sortVars
  <2> SUFFICES ASSUME SortInv, Next, result' # result
               PROVE  Graph!ComesNext(Last(result'), ToSet(result))
    OBVIOUS
  <2>1. pop_queue
    BY DEF Next, add_task, begin_sort, finish_sort
  <2>2. /\ PlanInv /\ LoopInv /\ queue # {} /\ result' = Append(result, SmallestQueued)
    BY <2>1 DEF pop_queue, SortInv
  <2>3. result \in Seq(Added) /\ SmallestQueued \in Added
    BY <2>2, SmallestIsLeast DEF LoopInv
  <2>4. Last(result') = SmallestQueued
    <3> DEFINE n == SmallestQueued
    <3>1. result' = Append(result, n) /\ n \in Added
      BY <2>2, <2>3
    <3> HIDE DEF n
    <3>2. Last(result') = n
      BY <2>3, <3>1 DEF Last
    <3> QED
      BY <3>2 DEF n
  <2> QED
    BY <2>2, <2>4, SmallestIsLeast, QueueIsAvailable DEF Graph!ComesNext
<1>2. SortInv /\ [Next]_sortVars => SortInv'
  BY NextKeepsSortInv
<1> QED
  BY <1>1, <1>2, SortInvInit, PTL DEF Spec, KahnFollowsOrder
=============================================================================
