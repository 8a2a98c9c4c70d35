------------------------------- MODULE Session -------------------------------
(****************************************************************************)
(* A session of the terminal (src/cli/session.py): its state, the roles of  *)
(* its messages and the changes that wait for a decision, and the files it  *)
(* is saved to: state.json, context.json and one file per pending change.   *)
(* They are written one after another, each in place.                       *)
(****************************************************************************)
EXTENDS Integers, Sequences, FiniteSets

CONSTANT Change     \* pending changes: records with an id and a path

VARIABLES
    session,    \* the session in memory, or NoSession
    disk        \* its directory: what each file holds

sessionVars == <<session, disk>>

----------------------------------------------------------------------------
NoSession == [state |-> "none", profile |-> "balanced", pending |-> <<>>, messages |-> {}]

Absent == [is |-> "absent"]
Torn   == [is |-> "torn"]
Holding(x) == [is |-> "written", holds |-> x]

EmptyDir == [state |-> Absent, context |-> Absent, diffs |-> <<>>]

SessionInit == session = NoSession /\ disk = EmptyDir

\* __init__
New(profile) == [NoSession EXCEPT !.state = "init", !.profile = profile]

start(s)        == [s EXCEPT !.state = "active"]
set_error(s)    == [s EXCEPT !.state = "error"]
set_pending_approval(s) == [s EXCEPT !.state = "pending_approval"]
add_user_message(s) == [s EXCEPT !.messages = @ \cup {"user"}]
clear_context(s) == [s EXCEPT !.messages = @ \cap {"system"}]

\* Called by the tests; no run of the executor hands its changes over this way.
add_pending_changes(s, cs) ==
    IF cs = <<>> THEN s ELSE set_pending_approval([s EXCEPT !.pending = @ \o cs])

clear_pending_changes(s) ==
    [s EXCEPT !.pending = <<>>,
              !.state = IF @ = "pending_approval" THEN "active" ELSE @]

----------------------------------------------------------------------------
(* save: the files in the order in which they are written.                  *)

Files(s) == 2 + Len(s.pending)

\* The diffs of an earlier save that had more of them stay.
Diffs(s, n) ==
    [i \in 1..(IF n > Len(disk.diffs) THEN n ELSE Len(disk.diffs)) |->
        IF i <= n THEN Holding(s.pending[i]) ELSE disk.diffs[i]]

\* What is on disk when n files were written, and the next one was begun.  The
\* state says nothing of the profile.
SavedUpTo(s, n, begun) ==
    [state   |-> IF n > 0 THEN Holding(s.state) ELSE IF begun THEN Torn ELSE disk.state,
     context |-> IF n > 1 THEN Holding(s.messages)
                 ELSE IF n = 1 /\ begun THEN Torn ELSE disk.context,
     diffs   |-> IF n < 2 THEN disk.diffs
                 ELSE IF begun THEN [i \in 1..Len(Diffs(s, n - 1)) |->
                        IF i = n - 1 THEN Torn ELSE Diffs(s, n - 2)[i]]
                 ELSE Diffs(s, n - 2)]

save(s) == disk' = SavedUpTo(s, Files(s), FALSE)

pause(s) == session' = [s EXCEPT !.state = "paused"] /\ save(session')
end(s)   == session' = [s EXCEPT !.state = "ended"] /\ save(session')

----------------------------------------------------------------------------
(* load: nothing, unless every file that is there can be read.              *)

Loadable ==
    /\ disk.state.is = "written" /\ disk.context.is # "torn"
    /\ \A i \in DOMAIN disk.diffs : disk.diffs[i].is = "written"

\* The changes of all files are pending again, whenever they were written.
Loaded ==
    [state |-> disk.state.holds, profile |-> "balanced",
     messages |-> IF disk.context.is = "written" THEN disk.context.holds ELSE {},
     pending |-> [i \in DOMAIN disk.diffs |-> disk.diffs[i].holds]]

\* cleanup_old_sessions: a directory without a state that can be read goes at
\* once, another one when it is old, unless it is paused.
cleaned(old) == disk.state.is = "written" => old /\ disk.state.holds # "paused"
=============================================================================
