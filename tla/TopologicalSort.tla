--------------------------- MODULE TopologicalSort ---------------------------
(****************************************************************************)
(* How a plan becomes a graph and the graph an execution order:             *)
(* TaskGraph.from_subtasks, which adds the subtasks one by one and builds   *)
(* the `dependents` lists as it goes, and TaskGraph.topological_sort, a DFS *)
(* for cycles followed by Kahn's algorithm with a queue sorted by id.       *)
(* Dependencies are lists here, as in the code: an id may be listed twice.  *)
(****************************************************************************)
EXTENDS Integers, Sequences, FiniteSets, SequencesExt

CONSTANTS
    Id,         \* ids of subtasks
    Subtasks    \* the plans: sequences of records [id, deps], deps a sequence

ASSUME SubtasksAssumption ==
    /\ Id \subseteq Int
    /\ Subtasks \subseteq Seq([id : Id, deps : Seq(Id)])

VARIABLES
    plan,        \* the planner's list of subtasks
    nodes,       \* how many of them are in _nodes
    dependents,  \* id -> id -> how often the node's dependents list has it
    in_degree,   \* id -> dependencies not yet emitted
    queue,       \* ids with in_degree 0
    result,      \* ids emitted so far
    outcome      \* what the two methods did

sortVars == <<plan, nodes, dependents, in_degree, queue, result, outcome>>

----------------------------------------------------------------------------
Added == {plan[i].id : i \in 1..nodes}
DepsOf(id) == plan[CHOOSE i \in 1..nodes : plan[i].id = id].deps
Occurrences(x, s) == Cardinality({i \in DOMAIN s : s[i] = x})

TaskCount == Len(plan)

Init ==
    /\ plan \in Subtasks
    /\ nodes = 0
    /\ dependents = <<>> /\ in_degree = <<>>
    /\ queue = {} /\ result = <<>>
    /\ outcome = "adding"

\* The dependents lists once `new` is added: one entry for every time `new`
\* lists a node that exists (itself included), and one entry, at most, for
\* every node already there that lists `new`.
DependentsAfterAdd(new) ==
    LET ids == Added \cup {new.id}
    IN  [x \in ids |-> [y \in ids |->
            IF y = new.id THEN Occurrences(x, new.deps)
            ELSE IF x = new.id THEN IF Contains(DepsOf(y), x) THEN 1 ELSE 0
            ELSE dependents[x][y]]]

\* add_task; a second subtask with the id of a node raises ValueError.
add_task ==
    /\ outcome = "adding" /\ nodes < TaskCount
    /\ LET new == plan[nodes + 1] IN
        IF new.id \in Added
        THEN outcome' = "duplicate_id" /\ UNCHANGED <<nodes, dependents>>
        ELSE /\ nodes' = nodes + 1
             /\ dependents' = DependentsAfterAdd(new)
             /\ UNCHANGED outcome
    /\ UNCHANGED <<plan, in_degree, queue, result>>

\* _detect_cycle: a node reaches itself along the dependents lists.
HasCycle ==
    \E S \in SUBSET Added \ {{}} :
        \A x \in S : \E y \in S : dependents[y][x] > 0

\* Faulty variant: dependencies that are not nodes are counted too.
begin_sort_CountsUnknown ==
    /\ outcome = "adding" /\ nodes = TaskCount
    /\ IF HasCycle
       THEN outcome' = "cycle" /\ UNCHANGED <<in_degree, queue>>
       ELSE /\ in_degree' = [x \in Added |-> Len(DepsOf(x))]
            /\ queue' = {x \in Added : in_degree'[x] = 0}
            /\ outcome' = "sorting"
    /\ UNCHANGED <<plan, nodes, dependents, result>>

\* The start of topological_sort.
begin_sort ==
    /\ outcome = "adding" /\ nodes = TaskCount
    /\ IF HasCycle
       THEN outcome' = "cycle" /\ UNCHANGED <<in_degree, queue>>
       ELSE /\ in_degree' = [x \in Added |->
                    Cardinality({i \in DOMAIN DepsOf(x) : DepsOf(x)[i] \in Added})]
            /\ queue' = {x \in Added : in_degree'[x] = 0}
            /\ outcome' = "sorting"
    /\ UNCHANGED <<plan, nodes, dependents, result>>

\* Faulty variant: the queue is not sorted before it is served.
SmallestQueued_Unsorted == CHOOSE x \in queue : \A y \in queue : x >= y

SmallestQueued == CHOOSE x \in queue : \A y \in queue : x <= y

\* One turn of the loop `while queue`.
pop_queue ==
    /\ outcome = "sorting" /\ queue # {}
    /\ LET n       == SmallestQueued
           left(x) == in_degree[x] - dependents[n][x]
       IN  /\ result' = Append(result, n)
           /\ in_degree' = [x \in Added |-> left(x)]
           /\ queue' = (queue \ {n}) \cup {x \in Added : in_degree[x] > 0 /\ left(x) <= 0}
    /\ UNCHANGED <<plan, nodes, dependents, outcome>>

\* The queue is empty: a node that was never emitted is reported as a cycle.
finish_sort ==
    /\ outcome = "sorting" /\ queue = {}
    /\ outcome' = IF Len(result) = TaskCount THEN "sorted" ELSE "cycle"
    /\ UNCHANGED <<plan, nodes, dependents, in_degree, queue, result>>

Next == add_task \/ begin_sort \/ pop_queue \/ finish_sort

Spec == Init /\ [][Next]_sortVars

----------------------------------------------------------------------------
\* The same plan as the dependency function of the TaskGraph module.
Graph == INSTANCE TaskGraph WITH
    TaskId <- Id,
    Plans  <- {},
    deps   <- [x \in Added |-> ToSet(DepsOf(x))],
    status <- <<>>

\* Every list and counter has the domain the code gives it.
TypeOK ==
    /\ nodes \in 0..TaskCount
    /\ dependents \in [Added -> [Added -> Nat]]
    /\ outcome \in {"sorting", "sorted"} => in_degree \in [Added -> Int]
    /\ queue \subseteq Added /\ ToSet(result) \subseteq Added
    /\ outcome \in {"adding", "duplicate_id", "sorting", "sorted", "cycle"}

\* Whatever the order in which subtasks are added, the dependents lists are the
\* inverse of the dependency lists: an edge is never lost because its target is
\* added after its source.
DependentsInverse ==
    \A x \in Added : {y \in Added : dependents[x][y] > 0} = Graph!Dependents(x)

\* Kahn's loop emits nodes in the order the TaskGraph module describes, the
\* smallest id among those whose known dependencies are out: the order does not
\* depend on the order of the plan.
KahnFollowsOrder ==
    [][result' # result =>
        Graph!ComesNext(Last(result'), ToSet(result))]_sortVars

\* CycleDetectedError is raised for cyclic graphs and for no other.
CycleReportedIffCyclic ==
    /\ outcome = "cycle" => ~Graph!Acyclic
    /\ outcome = "sorted" => Graph!Acyclic /\ ToSet(result) = Added

\* topological_sort's own contract, `CycleDetectedError: If graph contains
\* cycles`: an acyclic graph is never reported.
NoFalseCycle == outcome = "cycle" => ~Graph!Acyclic
=============================================================================
