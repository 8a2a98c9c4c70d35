------------------------------- MODULE Memory -------------------------------
(****************************************************************************)
(* The project's memory file and the processes that keep it                 *)
(* (MemoryManager in src/core/memory.py).  Every update loads the whole     *)
(* file, changes what it loaded and writes it all again; there is no lock,  *)
(* opening the file for writing empties it, and a file that cannot be read  *)
(* counts as an empty memory.                                               *)
(****************************************************************************)
EXTENDS MemoryData

CONSTANTS
    Writer,     \* processes with a MemoryManager for the project
    Update,     \* the updates there are; each has an op
    MaxUpdates, \* bound: updates begun
    MaxCrashes  \* bound

ASSUME MemoryBounds == {MaxUpdates, MaxCrashes} \subseteq Nat

\* What a pattern is called is made of its kind and its summary; the summary
\* begins with the kind, so that it has words.
NamedByContent(occurrences) ==
    \A p, q \in occurrences :
        p.words # {} /\ (p.id = q.id => p.kind = q.kind /\ p.words = q.words)

Failure == {u.about : u \in {v \in Update : v.op = "failure"}}
Change == UNION {ToSet(u.changes) : u \in {v \in Update : v.op = "success"}}

ASSUME UpdateAssumption ==
    /\ NamedByContent(Failure) /\ NamedByContent(Change)
    /\ \A u \in Update : /\ u.op = "success" => u.changes \in Seq(Change)
                         /\ u.op = "tool" => u.success \in BOOLEAN

VARIABLES
    file,       \* [is, data]: "missing", "torn" (emptied and not written) or "whole"
    at,         \* writer -> where it is in its update
    data,       \* writer -> what it is going to write
    update,     \* writer -> the update it is at
    fresh,      \* history: writer -> is the file as it was when it loaded?
    done,       \* history: the updates that are written, until the disturbance
    disturbed,  \* history: updates overlapped, or a write was cut short
    updates, crashes

memoryVars == <<file, at, data, update, fresh, done, disturbed, updates, crashes>>

----------------------------------------------------------------------------
Emptied == [is |-> "torn", data |-> default_memory]

NoUpdate == [op |-> "none"]

MemoryInit ==
    /\ file = [is |-> "missing", data |-> default_memory]
    /\ at = [w \in Writer |-> "new"]
    /\ data = [w \in Writer |-> default_memory]
    /\ update = [w \in Writer |-> NoUpdate]
    /\ fresh = [w \in Writer |-> TRUE]
    /\ done = <<>> /\ disturbed = FALSE /\ updates = 0 /\ crashes = 0

\* _load_memory: any failure is an empty memory, which is then the data of a file
\* that is not whole.
load_memory == file.data

\* What an update makes of the memory d at the time now.
Applied(d, u, now) ==
    CASE u.op = "failure"    -> record_failure_pattern(d, u.about, now)
      [] u.op = "success"    -> record_success_patterns_from_changes(d, u.changes, now)
      [] u.op = "test"       -> record_test_signal(d, u.key)
      [] u.op = "tool"       -> record_tool_signal(d, u.tool, u.success)
      [] u.op = "reflection" -> record_meta_reflection(d, u.quality, now)
      [] u.op = "outcome"    -> record_task_outcome(d, u.task, u.success)
      [] u.op = "fact"       -> add_fact(d, u.fact)
      [] u.op = "preference" -> update_preference(d, u.key, u.value)
      [] u.op = "decision"   -> remember_decision(d, u.task)
      [] OTHER               -> d

\* Faulty variant: an empty memory is saved although there is one.
ensure_files_Always(w) ==
    /\ at[w] = "new"
    /\ at' = [at EXCEPT ![w] = "save"]
    /\ data' = [data EXCEPT ![w] = default_memory]
    /\ update' = [update EXCEPT ![w] = NoUpdate]
    /\ fresh' = [fresh EXCEPT ![w] = TRUE]
    /\ UNCHANGED <<file, done, disturbed, updates, crashes>>

\* _ensure_files: the file is looked for, and made when it was not there.
ensure_files(w) ==
    /\ at[w] = "new"
    /\ at' = [at EXCEPT ![w] = IF file.is = "missing" THEN "save" ELSE "idle"]
    /\ data' = [data EXCEPT ![w] = default_memory]
    /\ update' = [update EXCEPT ![w] = NoUpdate]
    /\ fresh' = [fresh EXCEPT ![w] = TRUE]
    /\ UNCHANGED <<file, done, disturbed, updates, crashes>>

\* The manager goes on, or starts anew, with nothing in hand.
Finished(w, next) ==
    /\ at' = [at EXCEPT ![w] = next]
    /\ data' = [data EXCEPT ![w] = default_memory]
    /\ update' = [update EXCEPT ![w] = NoUpdate]

\* An update begins: load and change.  A fact that is known is not saved again.
begin_update(w, u) ==
    /\ at[w] = "idle" /\ updates < MaxUpdates
    /\ updates' = updates + 1
    /\ IF u.op = "fact" /\ u.fact \in load_memory.facts
       THEN Finished(w, "idle")
       ELSE /\ at' = [at EXCEPT ![w] = "save"]
            /\ data' = [data EXCEPT ![w] = Applied(load_memory, u, updates')]
            /\ update' = [update EXCEPT ![w] = u]
    /\ fresh' = [fresh EXCEPT ![w] = TRUE]
    /\ disturbed' = (disturbed \/ file.is = "torn")
    /\ done' = IF disturbed' THEN <<>> ELSE done
    /\ UNCHANGED <<file, crashes>>

\* open(file, "w") empties the file, whatever has become of it since.
open_for_writing(w) ==
    /\ at[w] = "save"
    /\ at' = [at EXCEPT ![w] = "write"]
    /\ file' = Emptied
    /\ fresh' = [v \in Writer |-> v = w /\ fresh[w]]
    /\ disturbed' = (disturbed \/ ~fresh[w])
    /\ done' = IF disturbed' THEN <<>> ELSE done
    /\ UNCHANGED <<data, update, updates, crashes>>

\* The content; written over another's it may leave the other's end standing.
write_file(w) ==
    /\ at[w] = "write"
    /\ Finished(w, "idle")
    /\ file' \in {[is |-> "whole", data |-> data[w]]} \cup (IF file = Emptied THEN {} ELSE {Emptied})
    /\ fresh' = [v \in Writer |-> FALSE]
    /\ done' = IF disturbed \/ update[w] = NoUpdate THEN done ELSE Append(done, update[w])
    /\ UNCHANGED <<disturbed, updates, crashes>>

\* _save_memory only logs that the file could not be opened or written, and the
\* update is reported as a success.
save_fails(w) ==
    /\ at[w] \in {"save", "write"}
    /\ Finished(w, "idle")
    /\ disturbed' = TRUE /\ done' = <<>>
    /\ UNCHANGED <<file, fresh, updates, crashes>>

Crash(w) ==
    /\ at[w] # "new" /\ crashes < MaxCrashes
    /\ crashes' = crashes + 1
    /\ Finished(w, "new")
    /\ UNCHANGED <<file, fresh, done, disturbed, updates>>

MemoryNext ==
    \E w \in Writer :
        \/ ensure_files(w) \/ open_for_writing(w) \/ write_file(w) \/ save_fails(w) \/ Crash(w)
        \/ \E u \in Update : begin_update(w, u)

MemorySpec == MemoryInit /\ [][MemoryNext]_memoryVars

----------------------------------------------------------------------------
MemoryTypeOK ==
    /\ at \in [Writer -> {"new", "idle", "save", "write"}]
    /\ file.is \in {"missing", "torn", "whole"} /\ DOMAIN file.data = DOMAIN default_memory

\* The memory as whoever comes next will find it: what is being written counts
\* as written.
Stored ==
    IF \E w \in Writer : at[w] = "write" THEN data[CHOOSE w \in Writer : at[w] = "write"]
    ELSE file.data

\* Loading, changing and writing have the effect of one step, although there are
\* other managers and no lock, as long as nobody writes over what he has not
\* seen: whatever the steps, the memory changes by one update made of all there
\* was before; and only a manager that stops between emptying the file and
\* writing it loses the memory.
StoreIsAtomic ==
    [][~disturbed' =>
          \/ Stored' = Stored
          \/ \E u \in Update, n \in 1..MaxUpdates : Stored' = Applied(Stored, u, n)
          \/ \E w \in Writer : at[w] = "write" /\ at'[w] = "new" /\ Stored' = default_memory]_memoryVars

Readable == file.is = "whole"

\* How many of the updates done are in the set U.
Count(U) == Cardinality({i \in DOMAIN done : done[i] \in U})

FailuresOf == {u \in Update : u.op = "failure"}
RunsOf(tool, how) == {u \in Update : u.op = "tool" /\ u.tool = tool /\ (u.success <=> how)}
HighReflections == {u \in Update : u.op = "reflection" /\ u.quality \in High}

ToolsDone == {u.tool : u \in {v \in ToSet(done) : v.op = "tool"}}

Occurrences(patterns) ==
    Cardinality(UNION {{i} \X (1..patterns[i].frequency) : i \in DOMAIN patterns})

\* As long as updates do not overlap and none is cut short the memory keeps what
\* it was told: every fact, the last value of each preference, how often each tool
\* succeeded and failed, unless there are more tools than signals are kept, and --
\* however patterns were merged, and unless the list was full -- how many failures
\* there were.
MemoryKeeps ==
    Readable /\ ~disturbed =>
        /\ \A i \in DOMAIN done : done[i].op = "fact" => done[i].fact \in file.data.facts
        /\ \A i \in DOMAIN done :
               done[i].op = "preference" /\
               (\A j \in DOMAIN done :
                    j > i => ~(done[j].op = "preference" /\ done[j].key = done[i].key)) =>
                   <<done[i].key, done[i].value>> \in file.data.preferences
        /\ Cardinality(ToolsDone) <= MaxSignals =>
               ToSet(file.data.tool_signals) =
                   {[key |-> tool, success |-> Count(RunsOf(tool, TRUE)),
                     failure |-> Count(RunsOf(tool, FALSE))] : tool \in ToolsDone}
        /\ Count(FailuresOf) <= MaxPatterns =>
               Occurrences(file.data.failure_patterns) = Count(FailuresOf)

\* In every memory there ever is, disturbed or not: the pattern ids are
\* distinct, and until the list of nodes is full (it is cut off separately from
\* that of the edges) every edge joins two nodes.
GraphClosed ==
    Readable =>
        /\ \A patterns \in {file.data.failure_patterns, file.data.success_patterns} :
               IsInjective([i \in DOMAIN patterns |-> patterns[i].id])
        /\ Len(file.data.nodes) < MaxNodes =>
               \A i \in DOMAIN file.data.edges :
                   ToSet(file.data.edges[i]) \subseteq ToSet(file.data.nodes)

\* "Keep full high-quality history, only bounded recent medium/low quality
\* entries": as long as there is room for those, and whatever else is recorded.
HighQualityKept ==
    Readable /\ ~disturbed /\ Count(HighReflections) <= KeepOf.high =>
        Cardinality({i \in DOMAIN file.data.meta_reflections :
                         file.data.meta_reflections[i].quality \in High}) = Count(HighReflections)
=============================================================================
