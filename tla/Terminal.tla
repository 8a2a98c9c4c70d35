------------------------------ MODULE Terminal ------------------------------
(****************************************************************************)
(* The interactive terminal (src/cli/app.py) and its commands               *)
(* (src/cli/commands.py) around a session: the loop that asks about pending *)
(* changes or for input, tasks, project mode, the profile, apply and undo,  *)
(* and the ways to leave.  What a task does is the Executor's; here it may  *)
(* write files and leave changes to be decided.                             *)
(****************************************************************************)
EXTENDS Session, SequencesExt

CONSTANTS
    MaxStarts,  \* bound: how often the program is started
    MaxTasks,   \* bound: tasks typed in
    MaxFaults   \* bound: writes that fail, and crashes

ASSUME TerminalAssumption == {MaxStarts, MaxTasks, MaxFaults} \subseteq Nat

VARIABLES
    at,             \* where the program is: "off", "initialize", "loop", "prompt",
                    \* "approve" or "cleanup"
    oneshot,        \* started for one task only?
    policy_profile, \* _policy_profile
    workspaces,     \* are there several workspaces?
    project_mode,
    executor,       \* the profile of the executor that is kept, or "none"
    interrupted,
    undo_stack,     \* <<path, content>>: what a file held before a change
    file,           \* the files: path -> content
    base,           \* history: the files when the program was started
    touched,        \* history: files that something else wrote since then
    added,          \* history: changes that were put before the user
    decided,        \* history: those that were applied, skipped or discarded
    lost,           \* history: those a crash or a cleaning took
    starts, tasks, faults

terminalVars == <<at, oneshot, policy_profile, workspaces, project_mode, executor, interrupted, undo_stack,
                  file, base, touched, added, decided, lost, starts, tasks, faults>>

historyVars == <<base, added, starts, tasks>>
modeVars == <<oneshot, policy_profile, workspaces, project_mode, executor>>

----------------------------------------------------------------------------
Path == {c.path : c \in Change}

TerminalInit ==
    /\ SessionInit
    /\ at = "off" /\ oneshot = FALSE /\ policy_profile = "balanced"
    /\ workspaces = FALSE /\ project_mode = FALSE /\ executor = "none" /\ interrupted = FALSE
    /\ undo_stack = <<>> /\ file \in [Path -> {"absent", "original"}] /\ base = file /\ touched = {}
    /\ added = {} /\ decided = {} /\ lost = {}
    /\ starts = 0 /\ tasks = 0 /\ faults = 0

\* What is in memory goes with the program.
Off ==
    /\ at' = "off" /\ session' = NoSession
    /\ oneshot' = FALSE /\ policy_profile' = "balanced" /\ workspaces' = FALSE
    /\ project_mode' = FALSE /\ executor' = "none"
    /\ interrupted' = FALSE /\ undo_stack' = <<>> /\ touched' = {}

\* __init__: a session is loaded or begun.
__init__ ==
    /\ at = "off" /\ starts < MaxStarts /\ starts' = starts + 1
    /\ \/ Loadable /\ session' = Loaded
       \/ disk = EmptyDir /\ \E p \in {"strict", "balanced"} : session' = New(p)
    /\ policy_profile' = session'.profile
    /\ oneshot' \in BOOLEAN
    /\ at' = "initialize" /\ base' = file
    /\ UNCHANGED <<disk, workspaces, project_mode, executor, interrupted, undo_stack, touched, file,
                   added, decided, lost, tasks, faults>>

Same == UNCHANGED <<disk, modeVars, interrupted, undo_stack, file, touched, decided, lost, faults,
                    historyVars>>

\* _initialize_components: when the server or the model is missing the program
\* returns at once, and saves nothing.  A task given at the start needs no
\* prompt.
_initialize_components ==
    /\ at = "initialize"
    /\ \/ at' = (IF oneshot THEN "prompt" ELSE "loop") /\ session' = start(session) /\ Same
       \/ Off /\ UNCHANGED <<disk, file, decided, lost, faults, historyVars>>

\* The head of the loop: the flag, then what waits, then input.
run_interactive ==
    /\ at = "loop"
    /\ at' = IF interrupted THEN "cleanup"
             ELSE IF session.state = "pending_approval" THEN "approve" ELSE "prompt"
    /\ UNCHANGED session /\ Same

\* Where the program goes when it is done with a step.
Onward == IF oneshot THEN "cleanup" ELSE "loop"

----------------------------------------------------------------------------
(* _apply_changes: one change after another, until one fails.               *)

Content(c) == IF c.delete THEN "absent" ELSE c.id

\* The files after the first n changes: each is as the last of them left it.
After(n) ==
    [p \in Path |->
        LET hits == {i \in 1..n : session.pending[i].path = p}
        IN  IF hits = {} THEN file[p] ELSE Content(session.pending[Max(hits)])]

Undoes(n) == [i \in 1..n |-> <<session.pending[i].path, After(i - 1)[session.pending[i].path]>>]

Decide == decided' = decided \cup ToSet(session.pending)

_apply_changes ==
    /\ file' = After(Len(session.pending))
    /\ undo_stack' = undo_stack \o Undoes(Len(session.pending))
    /\ session' = clear_pending_changes(session)
    /\ Decide
    /\ UNCHANGED <<touched, faults>>

\* The n-th change fails, before the file is written or while it is: the changes
\* before it stay, and all of them are pending still.
_apply_changes_fails ==
    /\ faults < MaxFaults /\ faults' = faults + 1
    /\ \E n \in DOMAIN session.pending : \E written \in BOOLEAN :
        LET p == session.pending[n].path IN
        /\ file' = IF written THEN [After(n - 1) EXCEPT ![p] = "empty"] ELSE After(n - 1)
        /\ touched' = IF written THEN touched \cup {p} ELSE touched
        /\ undo_stack' = undo_stack \o Undoes(n - 1)
    /\ UNCHANGED <<session, decided>>

Waiting == at = "approve"

\* get_approval and handle_approval: a refusal, or a failure, ends the program.
approval_applied ==
    /\ Waiting /\ _apply_changes
    /\ at' = Onward
    /\ UNCHANGED <<disk, modeVars, interrupted, lost, historyVars>>

approval_fails ==
    /\ Waiting /\ _apply_changes_fails
    /\ at' = "cleanup"
    /\ UNCHANGED <<disk, modeVars, interrupted, lost, historyVars>>

approval_dropped(stop) ==
    /\ Waiting /\ Decide
    /\ session' = clear_pending_changes(session)
    /\ at' = IF stop THEN "cleanup" ELSE Onward
    /\ UNCHANGED <<disk, modeVars, interrupted, undo_stack, file, touched, lost, faults, historyVars>>

\* _edit_changes and _explain_changes decide nothing: the loop asks again, a
\* task given at the start is over.
approval_looked_at == Waiting /\ at' = Onward /\ UNCHANGED session /\ Same

----------------------------------------------------------------------------
(* Commands.  A signal that comes while the prompt waits does not end it.   *)

Prompt == at = "prompt" /\ ~oneshot

Back == at' = "loop"

_cmd_apply ==
    /\ Prompt /\ session.pending # <<>>
    /\ _apply_changes \/ _apply_changes_fails
    /\ Back /\ UNCHANGED <<disk, modeVars, interrupted, lost, historyVars>>

_cmd_reject ==
    /\ Prompt /\ session.pending # <<>> /\ Decide
    /\ session' = clear_pending_changes(session)
    /\ Back /\ UNCHANGED <<disk, modeVars, interrupted, undo_stack, file, touched, lost, faults, historyVars>>

Newest == undo_stack[Len(undo_stack)]

\* Faulty variant: the oldest change is undone first.
_cmd_undo_First ==
    /\ Prompt /\ undo_stack # <<>>
    /\ undo_stack' = Tail(undo_stack)
    /\ file' = [file EXCEPT ![undo_stack[1][1]] = undo_stack[1][2]]
    /\ UNCHANGED <<faults, touched>>
    /\ Back /\ UNCHANGED <<session, disk, modeVars, interrupted, decided, lost, historyVars>>

\* _cmd_undo: taken from the stack first, whether or not it can be done then.
_cmd_undo ==
    /\ Prompt /\ undo_stack # <<>>
    /\ undo_stack' = SubSeq(undo_stack, 1, Len(undo_stack) - 1)
    /\ \/ /\ file' = [file EXCEPT ![Newest[1]] = Newest[2]] /\ UNCHANGED <<faults, touched>>
       \/ /\ faults < MaxFaults /\ faults' = faults + 1
          /\ touched' = touched \cup {Newest[1]} /\ UNCHANGED file
    /\ Back /\ UNCHANGED <<session, disk, modeVars, interrupted, decided, lost, historyVars>>

_cmd_clear ==
    /\ Prompt /\ session' = clear_context(session) /\ Back /\ Same

_cmd_pause ==
    /\ Prompt /\ pause(session) /\ at' = "cleanup"
    /\ UNCHANGED <<modeVars, interrupted, undo_stack, file, touched, decided, lost, faults, historyVars>>

\* _cmd_exit: changes that wait are discarded on request only.
_cmd_exit ==
    /\ Prompt /\ end(session) /\ Decide /\ at' = "cleanup"
    /\ UNCHANGED <<modeVars, interrupted, undo_stack, file, touched, lost, faults, historyVars>>

\* The save of /pause or /exit fails at one of its files: the loop ends with an
\* error, and the session, an error now, is saved once more on the way out.
save_fails ==
    /\ Prompt /\ faults < MaxFaults /\ faults' = faults + 1
    /\ \E st \in {"paused", "ended"}, n \in 0..Files(session) - 1, begun \in BOOLEAN :
        /\ disk' = SavedUpTo([session EXCEPT !.state = st], n, begun)
        /\ IF st = "ended" THEN Decide ELSE UNCHANGED decided
    /\ session' = set_error(session) /\ at' = "cleanup"
    /\ UNCHANGED <<modeVars, interrupted, undo_stack, file, touched, lost, historyVars>>

\* _cmd_project: leaving project mode lets the executor go.
_cmd_project ==
    /\ Prompt /\ project_mode' = ~project_mode
    /\ executor' = IF project_mode THEN "none" ELSE executor
    /\ Back /\ UNCHANGED <<session, disk, oneshot, policy_profile, workspaces, interrupted, undo_stack, file, touched,
                   decided, lost, faults, historyVars>>

\* Faulty variant: the executor that is kept stays.
set_policy_profile_KeepsExecutor(p) ==
    /\ Prompt /\ policy_profile' = p /\ session' = [session EXCEPT !.profile = p]
    /\ Back /\ UNCHANGED <<executor, disk, oneshot, workspaces, project_mode, interrupted, undo_stack, file, touched,
                   decided, lost, faults, historyVars>>

set_policy_profile(p) ==
    /\ Prompt /\ policy_profile' = p /\ session' = [session EXCEPT !.profile = p]
    /\ executor' = "none"
    /\ Back /\ UNCHANGED <<disk, oneshot, workspaces, project_mode, interrupted, undo_stack, file, touched,
                   decided, lost, faults, historyVars>>

_cmd_workspaces ==
    /\ Prompt /\ workspaces' = ~workspaces
    /\ Back /\ UNCHANGED <<session, disk, oneshot, policy_profile, project_mode, executor, interrupted,
                   undo_stack, file, touched, decided, lost, faults, historyVars>>

\* End of input.
eof == Prompt /\ at' = "cleanup" /\ UNCHANGED session /\ Same

----------------------------------------------------------------------------
(* Tasks.                                                                   *)

Fresh(cs) == \A i \in DOMAIN cs : cs[i] \notin added

\* _process_task: the message, the plan that may be declined, and the run, by
\* the executor that is kept or by a new one; several workspaces have a new one
\* each, and no plan is shown.  A run writes files, may put changes before the
\* user, and may raise.
_process_task ==
    /\ at = "prompt" /\ tasks < MaxTasks /\ tasks' = tasks + 1
    /\ \E declined, raised \in BOOLEAN, wrote \in SUBSET Path, cs \in SeqOf(Change, 2) :
        /\ Fresh(cs) /\ IsInjective(cs) /\ Cardinality(wrote) <= 1
        /\ declined => wrote = {} /\ cs = <<>> /\ ~raised /\ ~workspaces
        /\ executor' = IF project_mode /\ ~workspaces /\ ~declined /\ executor = "none"
                       THEN policy_profile ELSE executor
        /\ file' = [p \in Path |-> IF p \in wrote THEN "written" ELSE file[p]]
        /\ touched' = touched \cup wrote
        /\ added' = added \cup ToSet(cs)
        /\ LET s == add_pending_changes(add_user_message(session), cs)
           IN  session' = IF raised THEN set_error(s) ELSE s
    /\ at' = IF oneshot /\ session'.pending # <<>> THEN "approve" ELSE Onward
    /\ UNCHANGED <<disk, oneshot, policy_profile, workspaces, project_mode, interrupted, undo_stack,
                   base, decided, lost, starts, faults>>

\* A signal only sets the flag; what runs is not stopped, and what is asked
\* still wants an answer.
_handle_interrupt ==
    /\ at \in {"loop", "prompt", "approve"} /\ ~interrupted /\ interrupted' = TRUE
    /\ UNCHANGED <<session, disk, at, modeVars, undo_stack, file, touched, decided, lost, faults, historyVars>>

\* Faulty variant: a session that ended with an error counts as saved.
_cleanup_NotError ==
    /\ at = "cleanup" /\ Off
    /\ IF session.state \in {"ended", "paused", "error"} THEN UNCHANGED disk
       ELSE save([session EXCEPT !.state = "ended"])
    /\ UNCHANGED <<file, decided, lost, faults, historyVars>>

\* _cleanup: a session that is neither paused nor ended is ended, whatever
\* state it is in, and saved with all that is pending.
_cleanup ==
    /\ at = "cleanup" /\ Off
    /\ IF session.state \in {"ended", "paused"} THEN UNCHANGED disk
       ELSE save([session EXCEPT !.state = "ended"])
    /\ UNCHANGED <<file, decided, lost, faults, historyVars>>

\* The program dies, perhaps while it saves, or because the save of _cleanup fails.
crash ==
    /\ at \in {"loop", "prompt", "approve", "cleanup"}
    /\ faults < MaxFaults /\ faults' = faults + 1
    /\ Off
    /\ \/ UNCHANGED disk
       \/ /\ at \in {"prompt", "cleanup"}
          /\ \E st \in {"paused", "ended"}, n \in 0..Files(session) - 1, begun \in BOOLEAN :
                disk' = SavedUpTo([session EXCEPT !.state = st], n, begun)
    /\ lost' = lost \cup (added \ decided)
    /\ UNCHANGED <<file, decided, historyVars>>

cleanup_old_sessions ==
    /\ at = "off" /\ disk # EmptyDir /\ \E old \in BOOLEAN : cleaned(old)
    /\ disk' = EmptyDir
    /\ lost' = lost \cup (added \ decided)
    /\ UNCHANGED <<session, at, modeVars, interrupted, undo_stack, file, touched, decided, faults, historyVars>>

TerminalNext ==
    \/ __init__ \/ _initialize_components \/ run_interactive
    \/ approval_applied \/ approval_fails \/ \E stop \in BOOLEAN : approval_dropped(stop)
    \/ approval_looked_at
    \/ _cmd_apply \/ _cmd_reject \/ _cmd_undo \/ _cmd_clear \/ _cmd_pause \/ _cmd_exit \/ save_fails
    \/ _cmd_project \/ _cmd_workspaces \/ \E p \in {"strict", "balanced"} : set_policy_profile(p)
    \/ eof \/ _process_task \/ _handle_interrupt
    \/ _cleanup \/ crash \/ cleanup_old_sessions

TerminalSpec == TerminalInit /\ [][TerminalNext]_<<sessionVars, terminalVars>>

----------------------------------------------------------------------------
(* A change that was put before the user is there until it is decided: in   *)
(* the session while the program runs, and in the directory when it does    *)
(* not, however the program was left, unless it died or the directory was   *)
(* cleaned.                                                                 *)
NoChangeVanishes == \A c \in added \ (decided \cup lost) :
    IF at = "off" THEN Loadable /\ c \in ToSet(Loaded.pending) ELSE c \in ToSet(session.pending)

(* Undoing everything leads back to the files as they were when the program *)
(* was started, also when changes to one file were applied twice or only in *)
(* part.  Files that something else wrote meanwhile, or that a failed write *)
(* left empty, are another matter; and a content is a text up to the ends   *)
(* of its lines, which reading and writing as text convert.                 *)
UndoRestoresOriginals == at # "off" => \A p \in Path \ touched :
    LET i == SelectInSeq(undo_stack, LAMBDA u : u[1] = p)
    IN  base[p] = IF i = 0 THEN file[p] ELSE undo_stack[i][2]

(* An executor that is kept between the tasks of a project works under the  *)
(* profile that was set last.                                               *)
KeptExecutorObeysProfile == executor # "none" => project_mode /\ executor = policy_profile
=============================================================================
