---------------------------- MODULE RunStateStore ----------------------------
(****************************************************************************)
(* The states of runs and the files they are kept in                        *)
(* (src/state/run_state.py), and the summary made of one                    *)
(* (src/state/summaries.py).  A caller changes a state in memory and saves  *)
(* it; saving empties the file first, and a file cut short cannot be        *)
(* loaded.  The names of the files are in an order that is not that of time.*)
(****************************************************************************)
EXTENDS Integers, FiniteSets, SequencesExt

CONSTANTS
    RunId,      \* run ids; file names sort as numbers do
    Task,       \* task ids a run may have
    Path,       \* files a run may name
    KeepCount,  \* keep_count of cleanup_old_runs
    MaxSaves,   \* bound: saves
    MaxEvents   \* bound: changes of the state that is in memory

ASSUME RunStateAssumption ==
    RunId \subseteq Nat /\ {KeepCount, MaxSaves, MaxEvents} \subseteq Nat

VARIABLES
    state,      \* the RunState in memory, or NoState
    disk,       \* run id -> [torn, content, mtime]; a torn file has no content yet
    saving,     \* has the file been opened?
    saves, events,
    doomed      \* cleanup_old_runs: the run ids whose files are still to go

runStateVars == <<state, disk, saving, saves, events, doomed>>

----------------------------------------------------------------------------
Phase == {"initializing", "planning", "executing", "reviewing", "fixing",
          "completed", "failed", "aborted"}

TaskStatus == {"pending", "running", "completed", "failed", "blocked"}

NoState == [run_id |-> 0]

NewState(id) ==
    [run_id |-> id, phase |-> "initializing", task |-> "none", agent |-> "none", fixes |-> 0,
     tasks |-> <<>>, executions |-> <<>>, created |-> {}, modified |-> {}, deleted |-> {},
     success |-> "unset", error |-> FALSE, started |-> FALSE, ended |-> FALSE]

RunStateInit ==
    /\ state = NoState /\ disk = <<>> /\ saving = FALSE
    /\ saves = 0 /\ events = 0 /\ doomed = {}

----------------------------------------------------------------------------
(* The operations of RunState.                                              *)

mark_started(s) == [s EXCEPT !.started = TRUE, !.phase = "planning"]

mark_planning(s) == [s EXCEPT !.phase = "planning", !.agent = "planner"]

mark_executing(s, t) == [s EXCEPT !.phase = "executing", !.task = t, !.agent = "coder"]

mark_reviewing(s, t) == [s EXCEPT !.phase = "reviewing", !.task = t, !.agent = "reviewer"]

mark_fixing(s, t) ==
    [s EXCEPT !.phase = "fixing", !.task = t, !.agent = "fixer", !.fixes = @ + 1]

mark_completed(s, ok) ==
    [s EXCEPT !.ended = TRUE, !.phase = IF ok THEN "completed" ELSE "failed",
              !.success = IF ok THEN "yes" ELSE "no", !.task = "none", !.agent = "none"]

mark_aborted(s) ==
    [s EXCEPT !.ended = TRUE, !.phase = "aborted", !.success = "no", !.error = TRUE,
              !.task = "none", !.agent = "none"]

add_task(s, t) ==
    [s EXCEPT !.tasks = Append(@, [id |-> t, status |-> "pending", started |-> FALSE,
                                   ended |-> FALSE, error |-> FALSE])]

\* The first task with that id, if there is one.  A task that runs again was
\* started before, and still has the time at which it ended.
update_task_status(s, t, status, error) ==
    LET i == SelectInSeq(s.tasks, LAMBDA task : task.id = t) IN
    IF i = 0 THEN s
    ELSE [s EXCEPT !.tasks[i].status = status,
                   !.tasks[i].started = @ \/ status = "running",
                   !.tasks[i].ended = @ \/ status \in {"completed", "failed", "blocked"},
                   !.tasks[i].error = @ \/ error]

add_agent_execution(s, a, ok) == [s EXCEPT !.executions = Append(@, <<a, ok>>)]

add_file_created(s, p) == [s EXCEPT !.created = @ \cup {p}]

add_file_modified(s, p) == IF p \in s.created THEN s ELSE [s EXCEPT !.modified = @ \cup {p}]

add_file_deleted(s, p) == [s EXCEPT !.deleted = @ \cup {p}]

\* The states a change of s may lead to.
Changed(s) ==
    {mark_started(s), mark_planning(s), mark_aborted(s)}
    \cup {mark_completed(s, ok) : ok \in BOOLEAN}
    \cup UNION {{mark_executing(s, t), mark_reviewing(s, t), mark_fixing(s, t), add_task(s, t)} : t \in Task}
    \cup {update_task_status(s, t, st, err) : t \in Task, st \in TaskStatus, err \in BOOLEAN}
    \cup {add_agent_execution(s, a, ok) : a \in {"coder"}, ok \in BOOLEAN}
    \cup UNION {{add_file_created(s, p), add_file_modified(s, p), add_file_deleted(s, p)} : p \in Path}

get_task_stats(s) ==
    [status \in TaskStatus |-> Cardinality({i \in DOMAIN s.tasks : s.tasks[i].status = status})]

\* from_run_state
from_run_state(s) ==
    [status |-> s.phase, success |-> s.success = "yes",
     total |-> Len(s.tasks), completed |-> get_task_stats(s)["completed"],
     failed |-> get_task_stats(s)["failed"],
     errors |-> Cardinality({i \in DOMAIN s.tasks : s.tasks[i].error}) + (IF s.error THEN 1 ELSE 0)]

----------------------------------------------------------------------------
(* The manager.                                                             *)

Idle == ~saving /\ doomed = {}

change ==
    /\ state # NoState /\ Idle /\ events < MaxEvents
    /\ state' \in Changed(state) /\ state' # state
    /\ events' = events + 1
    /\ UNCHANGED <<disk, saving, saves, doomed>>

\* The file is emptied, and its time is now.
open_state(s) ==
    /\ Idle /\ saves < MaxSaves
    /\ saves' = saves + 1
    /\ disk' = [r \in DOMAIN disk \cup {s.run_id} |->
                   IF r = s.run_id THEN [torn |-> TRUE, content |-> s, mtime |-> saves'] ELSE disk[r]]
    /\ state' = s /\ saving' = TRUE
    /\ UNCHANGED <<events, doomed>>

create(id) == open_state(NewState(id))

save == state # NoState /\ open_state(state)

write_state ==
    /\ saving
    /\ disk' = [disk EXCEPT ![state.run_id].torn = FALSE]
    /\ saving' = FALSE
    /\ UNCHANGED <<state, saves, events, doomed>>

\* A file that cannot be read raises, and nothing is loaded.
load(id) ==
    /\ id \in DOMAIN disk /\ Idle
    /\ ~disk[id].torn
    /\ state' = disk[id].content
    /\ UNCHANGED <<disk, saving, saves, events, doomed>>

Unlink(id) ==
    /\ disk' = [r \in DOMAIN disk \ {id} |-> disk[r]]
    /\ UNCHANGED <<state, saving, saves, events>>

delete(id) == id \in DOMAIN disk /\ Idle /\ Unlink(id) /\ UNCHANGED doomed

\* Faulty variant: the names decide, as they do in list_runs.
Beyond_ByName ==
    {r \in DOMAIN disk : Cardinality({q \in DOMAIN disk : q > r}) >= KeepCount}

\* All but the KeepCount files written last, whether they can be read or not.
\* No two were written at the same time.
Beyond ==
    {r \in DOMAIN disk :
        Cardinality({q \in DOMAIN disk : disk[q].mtime > disk[r].mtime}) >= KeepCount}

\* cleanup_old_runs, up to the first unlink.
cleanup_old_runs ==
    /\ Idle
    /\ doomed' = Beyond
    /\ UNCHANGED <<state, disk, saving, saves, events>>

\* They go one by one, the newest first; an unlink that fails is passed over.
unlink_old_run ==
    \E r \in doomed :
        /\ \A q \in doomed : disk[q].mtime <= disk[r].mtime
        /\ doomed' = doomed \ {r}
        /\ Unlink(r) \/ UNCHANGED <<state, disk, saving, saves, events>>

\* The process ends, in the middle of a save or a cleanup or not.
forget ==
    /\ state # NoState \/ doomed # {}
    /\ state' = NoState /\ saving' = FALSE /\ doomed' = {}
    /\ UNCHANGED <<disk, saves, events>>

\* list_runs: those that can be read, in the order of their names, the last
\* first; those that completed or failed may be left out.
list_runs(limit, completed, failed) ==
    LET shown == {r \in DOMAIN disk :
                    /\ ~disk[r].torn
                    /\ disk[r].content.phase = "completed" => completed
                    /\ disk[r].content.phase = "failed" => failed}
        names == SetToSortSeq(shown, >)
    IN  SubSeq(names, 1, IF Len(names) < limit THEN Len(names) ELSE limit)

get_latest == list_runs(1, TRUE, TRUE)

RunStateNext ==
    \/ change \/ save \/ write_state \/ cleanup_old_runs \/ unlink_old_run \/ forget
    \/ \E id \in RunId : create(id) \/ load(id) \/ delete(id)

RunStateSpec == RunStateInit /\ [][RunStateNext]_runStateVars

----------------------------------------------------------------------------
\* A cleanup unlinks none of the KeepCount runs that were saved last, whatever
\* the runs are called, whichever unlinks fail and wherever it is broken off:
\* the run that somebody is at work on is not the one to go.  (It goes from the
\* newest to the oldest, so one that fails or is broken off may remove a run and
\* keep an older one.)
CleanupKeepsRecent ==
    [][doomed # {} =>
         \A r \in DOMAIN disk \ DOMAIN disk' :
            Cardinality({q \in DOMAIN disk' : disk[q].mtime > disk[r].mtime}) >= KeepCount]_runStateVars

\* "Get the most recent run state."
LatestIsMostRecent ==
    get_latest # <<>> =>
        \A r \in DOMAIN disk : disk[r].torn \/ disk[r].mtime <= disk[get_latest[1]].mtime
=============================================================================
