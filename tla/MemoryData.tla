----------------------------- MODULE MemoryData -----------------------------
(****************************************************************************)
(* The project's memory file as data, and what each operation of            *)
(* MemoryManager makes of it (src/core/memory.py).  A text is the set of    *)
(* words that decide how similar it is to another; scores are compared as   *)
(* fractions, exactly.                                                      *)
(****************************************************************************)
EXTENDS Integers, FiniteSets, SequencesExt

CONSTANTS
    MaxPatterns,    \* 200 in the code
    MaxNodes,       \* 600
    MaxEdges,       \* 1200
    MaxSignals,     \* 300 test signals, 200 tool signals
    MaxEntries,     \* 300 task outcomes, 50 decisions
    Quality,        \* what _reflection_quality may give, in hundredths
    KeepOf          \* how many reflections stay of each class: 90, 20, 6

ASSUME MemoryAssumption ==
    /\ {MaxPatterns, MaxNodes, MaxEdges, MaxSignals, MaxEntries} \subseteq Nat \ {0}
    /\ Quality \subseteq 0..100
    /\ KeepOf \in [high : Nat \ {0}, medium : Nat \ {0}, low : Nat \ {0}]

default_memory ==
    [facts |-> {}, preferences |-> {}, failure_patterns |-> <<>>, success_patterns |-> <<>>,
     task_outcomes |-> <<>>, test_signals |-> <<>>, tool_signals |-> <<>>,
     meta_reflections |-> <<>>, nodes |-> <<>>, edges |-> <<>>, decisions |-> <<>>]

\* seq[-n:]
Latest(s, n) == SubSeq(s, Max({1, Len(s) - n + 1}), Len(s))

\* The entries of s at the places in I, as the strict order R puts the places.
InOrder(s, I, R) ==
    [n \in 1..Cardinality(I) |->
        s[CHOOSE i \in I : Cardinality({j \in I : <<j, i>> \in R}) = n - 1]]

Selected(s, Test(_)) ==
    LET I == {i \in DOMAIN s : Test(s[i])} IN InOrder(s, I, {p \in I \X I : p[1] < p[2]})

\* list.sort, which leaves equals as they are.
Sorted(s, Before(_, _)) ==
    InOrder(s, DOMAIN s, {p \in (DOMAIN s) \X (DOMAIN s) :
                             \/ Before(s[p[1]], s[p[2]])
                             \/ ~Before(s[p[2]], s[p[1]]) /\ p[1] < p[2]})

\* The entry of s that has the key, or 0.
IndexOf(s, key) == SelectInSeq(s, LAMBDA e : e.key = key)

----------------------------------------------------------------------------
(* Similarity.  Share is numerator and denominator of a Jaccard index.      *)

Share(a, b) == <<Cardinality(a \cap b), Max({1, Cardinality(a \cup b)})>>

\* Is the share at least n hundredths?
AtLeast(share, n) == 100 * share[1] >= n * share[2]

\* _similarity_score in units of 1 / (1000 * denominators).
Score(p, q) ==
    LET t == Share(p.tags, q.tags)
        w == Share(p.words, q.words)
    IN  <<7 * t[1] * w[2] + 3 * w[1] * t[2], 10 * t[2] * w[2]>>

\* The threshold of _find_similar_pattern; equal signatures count as 0.9.
Similar(p, q) == (p.words = q.words /\ p.words # {}) \/ AtLeast(Score(p, q), 72)

Higher(p, q, new) ==
    LET score(e) == IF e.words = new.words /\ new.words # {} /\ ~AtLeast(Score(e, new), 90) THEN <<9, 10>>
                    ELSE Score(e, new)
    IN  score(p)[1] * score(q)[2] > score(q)[1] * score(p)[2]

\* _find_similar_pattern: the first of the best among those of its kind, or 0.
find_similar_pattern(patterns, new) ==
    LET like(i) == patterns[i].kind = new.kind /\ Similar(patterns[i], new)
        best[n \in 0..Len(patterns)] ==
            IF n = 0 THEN 0
            ELSE LET b == best[n - 1]
                 IN  IF like(n) /\ (b = 0 \/ Higher(patterns[n], patterns[b], new)) THEN n ELSE b
    IN  best[Len(patterns)]

\* What _dedupe_patterns takes for the same: it is content with less.
Merges(p, q) ==
    /\ p.kind = q.kind
    /\ \/ p.words = q.words
       \/ AtLeast(Score(p, q), 58)
       \/ AtLeast(Share(p.tags, q.tags), 25) /\ AtLeast(Share(p.words, q.words), 20)
       \/ AtLeast(Share(p.tags, q.tags), 35)
       \/ p.kind \in {"missing_import", "missing_file"} /\ p.words \cap q.words # {}

\* Faulty variant: the frequency of a pattern that is merged away is forgotten.
MergedInto_Uncounted(p, q) ==
    [p EXCEPT !.tags = @ \cup q.tags, !.last = Max({@, q.last})]

MergedInto(p, q) ==
    [p EXCEPT !.frequency = @ + q.frequency, !.tags = @ \cup q.tags, !.last = Max({@, q.last})]

WithPattern(kept, p) ==
    LET i == SelectInSeq(kept, LAMBDA e : Merges(e, p))
    IN  IF i = 0 THEN Append(kept, p) ELSE [kept EXCEPT ![i] = MergedInto(@, p)]

Deduped(patterns) ==
    LET kept[n \in 0..Len(patterns)] ==
            IF n = 0 THEN <<>> ELSE WithPattern(kept[n - 1], patterns[n])
    IN  kept[Len(patterns)]

MoreUsed(p, q) ==
    \/ p.frequency > q.frequency
    \/ p.frequency = q.frequency /\ p.last > q.last

\* _dedupe_patterns: each is merged into the first that is like it; the most
\* frequent come first then, the latest of equals before the others.
dedupe_patterns(patterns) == Sorted(Deduped(patterns), MoreUsed)

\* The end of both record operations: the latest, deduplicated.
Trimmed(patterns) ==
    LET kept == dedupe_patterns(Latest(patterns, MaxPatterns))
    IN  SubSeq(kept, 1, Min({MaxPatterns, Len(kept)}))

\* One more occurrence: of a similar pattern, or of a new one.
Recorded(patterns, new, now) ==
    LET i == find_similar_pattern(patterns, new)
    IN  IF i = 0 THEN Append(patterns, [id |-> new.id, kind |-> new.kind, tags |-> new.tags,
                                        words |-> new.words, frequency |-> 1, last |-> now])
        ELSE [patterns EXCEPT ![i].frequency = @ + 1, ![i].last = now]

\* The id an occurrence gets: that of the pattern it counts for.
PatternOf(patterns, new) ==
    LET i == find_similar_pattern(patterns, new) IN IF i = 0 THEN new.id ELSE patterns[i].id

----------------------------------------------------------------------------
(* The semantic graph.  A node that exists stays where it is in the list.   *)

\* _upsert_graph_node and _upsert_graph_edge for each of a list without repetition.
Upserted(list, new) == list \o Selected(new, LAMBDA e : e \notin ToSet(list))

EdgesOf(path) == [i \in 1..(Len(path) - 1) |-> <<path[i], path[i + 1]>>]

\* Faulty variant: a path is entered from its second node on.
Linked_Rest(data, path) ==
    [data EXCEPT !.nodes = Upserted(@, Tail(path)), !.edges = Upserted(@, EdgesOf(path))]

\* A path of nodes, no two of one type, with an edge from each to the next.
Linked(data, path) ==
    [data EXCEPT !.nodes = Upserted(@, path), !.edges = Upserted(@, EdgesOf(path))]

Cut(data) == [data EXCEPT !.nodes = Latest(@, MaxNodes), !.edges = Latest(@, MaxEdges)]

record_semantic_failure_link(data, f, id) ==
    Linked(data, <<<<"task", f.task>>, <<"failure", <<f.kind, f.error>>>>, <<"failure_pattern", id>>>>)

record_semantic_success_link(data, c, id) ==
    Linked(data, <<<<"task", c.task>>, <<"file", c.file>>, <<"success_pattern", id>>>>)

----------------------------------------------------------------------------
(* The operations, as functions of what they loaded.                        *)

record_failure_pattern(data, f, now) ==
    LET linked == record_semantic_failure_link(data, f, PatternOf(data.failure_patterns, f))
    IN  Cut([linked EXCEPT !.failure_patterns = Trimmed(Recorded(@, f, now))])

WithChange(data, c, now) ==
    record_semantic_success_link([data EXCEPT !.success_patterns = Recorded(@, c, now)],
                                 c, PatternOf(data.success_patterns, c))

\* Change after change, then the trimming once.
WithChanges(data, changes, now) ==
    LET after[n \in 0..Len(changes)] ==
            IF n = 0 THEN data ELSE WithChange(after[n - 1], changes[n], now)
    IN  after[Len(changes)]

record_success_patterns_from_changes(data, changes, now) ==
    Cut([WithChanges(data, changes, now) EXCEPT !.success_patterns = Trimmed(@)])

\* A test signal once more.
Seen(signals, key) ==
    LET i == IndexOf(signals, key)
    IN  IF i = 0 THEN Append(signals, [key |-> key, frequency |-> 1])
        ELSE [signals EXCEPT ![i].frequency = @ + 1]

record_test_signal(data, key) ==
    [data EXCEPT !.test_signals = Latest(Seen(@, key), MaxSignals)]

\* How often a tool succeeded and failed, with one more of them.
Counted(signals, tool, good) ==
    LET i == IndexOf(signals, tool)
    IN  IF i = 0 THEN Append(signals, [key |-> tool, success |-> good, failure |-> 1 - good])
        ELSE [signals EXCEPT ![i].success = @ + good, ![i].failure = @ + 1 - good]

record_tool_signal(data, tool, success) ==
    [data EXCEPT !.tool_signals = Latest(Counted(@, tool, IF success THEN 1 ELSE 0), MaxSignals)]

High == {q \in Quality : q >= 55}
Medium == {q \in Quality : q >= 35 /\ q < 55}
Low == {q \in Quality : q < 35}

\* Faulty variant: the classes are not told apart.
compact_meta_reflections_Plain(reflections) ==
    Latest(reflections, KeepOf.high)

\* The latest n of one class.
OfClass(reflections, qs, n) == Latest(Selected(reflections, LAMBDA r : r.quality \in qs), n)

Earlier(r, s) == r.time < s.time

\* _compact_meta_reflections: the latest of each class, in the order of time.
compact_meta_reflections(reflections) ==
    Sorted(OfClass(reflections, High, KeepOf.high) \o OfClass(reflections, Medium, KeepOf.medium)
               \o OfClass(reflections, Low, KeepOf.low), Earlier)

record_meta_reflection(data, quality, now) ==
    [data EXCEPT !.meta_reflections =
        compact_meta_reflections(Append(@, [quality |-> quality, time |-> now]))]

record_task_outcome(data, task, success) ==
    LET outcome == IF success THEN "success" ELSE "failure"
    IN  Cut([Linked(data, <<<<"task", task>>, <<"outcome", outcome>>>>)
                EXCEPT !.task_outcomes = Latest(Append(@, <<task, outcome>>), MaxEntries)])

remember_decision(data, d) == [data EXCEPT !.decisions = Latest(Append(@, d), MaxEntries)]

add_fact(data, fact) == [data EXCEPT !.facts = @ \cup {fact}]

\* The preferences, and remember_pattern's named patterns: a key has one value.
update_preference(data, key, value) ==
    [data EXCEPT !.preferences = {p \in @ : p[1] # key} \cup {<<key, value>>}]

=============================================================================
