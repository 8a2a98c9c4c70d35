---------------------------- MODULE FrontProofs ----------------------------
(****************************************************************************)
(* Proofs about the two ways to talk to the program: the conversational     *)
(* prompt (Repl) and the terminal (Terminal).                               *)
(****************************************************************************)
EXTENDS Terminal, Repl, SequenceTheorems, WellFoundedInduction, TLAPS

----------------------------------------------------------------------------
(* The conversational prompt. *)

Turn == [task : Nat, result : Nat, interrupted : BOOLEAN]

\* The tasks whose threads may still write to the holder without the main
\* thread waiting for them.
Awaited == IF main \in {"poll", "grace"} THEN {Task} ELSE {}

\* The inductive invariant of the conversation: a thread that is not over is the
\* one waited for or went on after the wait, and the result held during a wait
\* is from one of these.
ReplInv ==
    /\ main \in {"prompt", "poll", "grace", "ask", "rebuild", "ended"}
    /\ thread \in Seq({"new", "runs", "over"})
    /\ turns \in Seq(Turn)
    /\ holder \in Nat
    /\ Awaited \subseteq DOMAIN thread
    /\ \A t \in DOMAIN thread : thread[t] # "over" => t \in Awaited \cup outlived
    /\ Awaited # {} => holder \in {0} \cup Awaited \cup outlived
    /\ TurnIsOwn

LEMMA TaskIsNat == thread \in Seq({"new", "runs", "over"}) => Task \in Nat /\ DOMAIN thread = 1..Task
BY DEF Task

\* A turn that is recorded is right, and the others stay so.
LEMMA RecordedTurn ==
  ASSUME turns \in Seq(Turn), TurnIsOwn, outlived \subseteq outlived',
         NEW task \in Nat, NEW result \in Nat, NEW stopped \in BOOLEAN,
         record_turn(task, result, stopped),
         ~stopped => result \in {task} \cup outlived'
  PROVE  turns' \in Seq(Turn) /\ TurnIsOwn'
<1> DEFINE new == [task |-> task, result |-> result, interrupted |-> stopped]
<1>1. new \in Turn /\ turns' = Append(turns, new)
  BY DEF record_turn, Turn
<1>2. new.task = task /\ new.result = result /\ new.interrupted = stopped
  OBVIOUS
<1> HIDE DEF new
<1>3. turns' \in Seq(Turn)
  BY <1>1
<1>4. ASSUME NEW i \in DOMAIN turns', ~turns'[i].interrupted
      PROVE  turns'[i].result \in {turns'[i].task} \cup outlived'
  <2>1. CASE i \in DOMAIN turns
    <3>1. turns'[i] = turns[i]
      BY <1>1, <2>1
    <3> QED BY <1>4, <2>1, <3>1 DEF TurnIsOwn
  <2>2. CASE i \notin DOMAIN turns
    <3>1. turns'[i] = new
      BY <1>1, <2>2
    <3>2. ~stopped
      BY <1>2, <1>4, <3>1, Zenon
    <3> QED BY <1>2, <3>1, <3>2
  <2> QED BY <2>1, <2>2
<1> QED BY <1>3, <1>4 DEF TurnIsOwn

\* A new task is started when no thread is waited for.
LEMMA TaskStarts ==
  ASSUME ReplInv, Awaited = {}, _run_task, UNCHANGED turns
  PROVE  ReplInv'
<1>1. thread' = Append(thread, "new") /\ main' = "poll" /\ holder' = 0 /\ outlived' = outlived
  BY DEF _run_task
<1>2. thread' \in Seq({"new", "runs", "over"}) /\ Task' = Task + 1
  BY <1>1 DEF ReplInv, Task
<1>3. Awaited' = {Task + 1}
  BY <1>1, <1>2 DEF Awaited
<1>4. \A t \in DOMAIN thread' : thread'[t] # "over" => t \in {Task + 1} \cup outlived
  <2>1. ASSUME NEW t \in DOMAIN thread', t # Task + 1
        PROVE  t \in DOMAIN thread /\ thread'[t] = thread[t]
    BY <1>1, <2>1 DEF ReplInv, Task
  <2> QED BY <2>1 DEF ReplInv
<1>5. Task + 1 \in DOMAIN thread'
  BY <1>1, <1>2, TaskIsNat DEF ReplInv, Task
<1> QED BY <1>1, <1>2, <1>3, <1>4, <1>5 DEF ReplInv, TurnIsOwn

LEMMA ReplSteps ==
  ASSUME ReplInv, [ReplNext]_replVars
  PROVE  ReplInv'
<1> USE TaskIsNat
<1>1. CASE run \/ rebuild
  BY <1>1, TaskStarts DEF run, rebuild, Awaited
<1>2. CASE quit
  BY <1>2 DEF quit, ReplInv, Awaited, TurnIsOwn
<1>3. CASE join_returns
  <2>1. /\ main = "poll" /\ main' = "prompt" /\ thread[Task] = "over"
        /\ UNCHANGED <<thread, holder, outlived>>
        /\ IF holder # 0 THEN record_turn(Task, holder, FALSE) ELSE UNCHANGED turns
    BY <1>3 DEF join_returns, Unchanged
  <2>2. Awaited = {Task} /\ Awaited' = {}
    BY <2>1 DEF Awaited
  <2>3. turns' \in Seq(Turn) /\ TurnIsOwn'
    <3>1. CASE holder # 0
      <4>1. holder \in {Task} \cup outlived
        BY <2>2, <3>1 DEF ReplInv
      <4>2. record_turn(Task, holder, FALSE) /\ outlived \subseteq outlived'
        BY <2>1, <3>1
      <4> QED BY <2>1, <4>1, <4>2, RecordedTurn DEF ReplInv
    <3>2. CASE holder = 0
      BY <2>1, <3>2 DEF ReplInv, TurnIsOwn
    <3> QED BY <3>1, <3>2
  <2> QED BY <2>1, <2>2, <2>3 DEF ReplInv
<1>4. CASE KeyboardInterrupt
  <2>1. Awaited' = Awaited
    BY <1>4 DEF KeyboardInterrupt, Unchanged, Awaited, Task
  <2> QED BY <1>4, <2>1 DEF KeyboardInterrupt, Unchanged, ReplInv, TurnIsOwn
<1>5. CASE grace_ends
  <2>1. /\ main = "grace" /\ main' = "ask" /\ UNCHANGED <<thread, holder, turns>>
        /\ outlived' = IF thread[Task] = "over" THEN outlived ELSE outlived \cup {Task}
    BY <1>5 DEF grace_ends, Unchanged
  <2>2. Awaited = {Task} /\ Awaited' = {}
    BY <2>1 DEF Awaited
  <2>3. outlived \subseteq outlived' /\ (thread[Task] # "over" => Task \in outlived')
    BY <2>1
  <2> QED BY <2>1, <2>2, <2>3 DEF ReplInv, TurnIsOwn
<1>6. CASE abandon \/ redirect
  <2>1. /\ main = "ask" /\ main' \in {"prompt", "rebuild"}
        /\ UNCHANGED <<thread, holder, outlived>>
        /\ record_turn(Task, 0, TRUE)
    BY <1>6 DEF abandon, redirect, Unchanged
  <2>2. Awaited = {} /\ Awaited' = {}
    BY <2>1 DEF Awaited
  <2>3. turns' \in Seq(Turn) /\ TurnIsOwn'
    BY <2>1, RecordedTurn DEF ReplInv
  <2> QED BY <2>1, <2>2, <2>3 DEF ReplInv
<1>7. CASE \E t \in DOMAIN thread : _executor_thread(t)
  <2>1. PICK t \in DOMAIN thread : _executor_thread(t)
    BY <1>7
  <2>2. PICK new \in {"runs", "over"} :
           /\ thread[t] = "new" /\ thread' = [thread EXCEPT ![t] = new]
           /\ UNCHANGED <<main, holder, turns, outlived>>
    BY <2>1 DEF _executor_thread
  <2>3. Awaited' = Awaited
    BY <2>2 DEF ReplInv, Awaited, Task
  <2> QED BY <2>2, <2>3 DEF ReplInv, TurnIsOwn
<1>8. CASE \E t \in DOMAIN thread : \E r \in BOOLEAN : execute_ends(t, r)
  <2>1. PICK t \in DOMAIN thread, r \in BOOLEAN : execute_ends(t, r)
    BY <1>8
  <2>2. /\ thread[t] = "runs" /\ thread' = [thread EXCEPT ![t] = "over"]
        /\ holder' \in {holder, t}
        /\ UNCHANGED <<main, turns, outlived>>
    BY <2>1 DEF execute_ends
  <2>3. Awaited' = Awaited
    BY <2>2 DEF ReplInv, Awaited, Task
  <2>4. t \in Awaited \cup outlived /\ t \in Nat
    BY <2>2 DEF ReplInv
  <2> QED BY <2>2, <2>3, <2>4 DEF ReplInv, TurnIsOwn
<1>9. CASE UNCHANGED replVars
  BY <1>9 DEF replVars, ReplInv, Awaited, Task, TurnIsOwn
<1> QED BY <1>1, <1>2, <1>3, <1>4, <1>5, <1>6, <1>7, <1>8, <1>9 DEF ReplNext

\* What a turn records as the result of a task is that task's result, or that of
\* a task whose thread was left running when the wait after Ctrl+C was over:
\* however the threads of many tasks interleave, no other thread is left that
\* could write to the holder (ConversationREPL._run_task, _result_holder).
THEOREM TurnsAreOwn == ReplSpec => []TurnIsOwn
<1>1. ReplInit => ReplInv
  BY DEF ReplInit, ReplInv, Awaited, TurnIsOwn
<1>2. ReplInv => TurnIsOwn
  BY DEF ReplInv
<1> QED BY <1>1, <1>2, ReplSteps, PTL DEF ReplSpec

----------------------------------------------------------------------------
(* The terminal: what is in its variables. *)

Role == {"user", "system"}
SessionState == {"none", "init", "active", "error", "pending_approval", "paused", "ended"}
Profile == {"strict", "balanced"}

SessionType ==
    [state : SessionState, profile : Profile, pending : Seq(Change), messages : SUBSET Role]

\* A file of the session's directory, and the directory.
SavedIn(S) == {Absent, Torn} \cup {Holding(x) : x \in S}
SavedDiff == {Torn} \cup {Holding(c) : c \in Change}
DiskType ==
    [state : SavedIn(SessionState), context : SavedIn(SUBSET Role), diffs : Seq(SavedDiff)]

Held == {"absent", "original", "written", "empty"} \cup {c.id : c \in Change}

TerminalTypes ==
    /\ session \in SessionType /\ disk \in DiskType
    /\ at \in {"off", "initialize", "loop", "prompt", "approve", "cleanup"}
    /\ file \in [Path -> Held] /\ undo_stack \in Seq(Path \X Held)

\* An executor is kept for a project only, and none outlives the program.
KeptInv == KeptExecutorObeysProfile /\ (at = "off" => executor = "none")

\* The first entry of a stack for a file holds what the file was; a file that has
\* none is what it was.
Traced(stack, now, was, p) ==
    /\ (\A i \in DOMAIN stack : stack[i][1] # p) => was = now
    /\ \A i \in DOMAIN stack :
           stack[i][1] = p /\ (\A j \in 1..(i - 1) : stack[j][1] # p) => was = stack[i][2]

UndoInv ==
    /\ at = "off" => undo_stack = <<>> /\ touched = {}
    /\ at # "off" => \A p \in Path \ touched : Traced(undo_stack, file[p], base[p], p)

\* The changes that wait for a decision, and what it takes to find them again.
Waits == added \ (decided \cup lost)
OnDisk == \A c \in Waits : Loadable /\ c \in ToSet(Loaded.pending)

\* While the program runs they are in memory, and every file of the directory can
\* be read, but for one that a failed save left and the next one will replace;
\* before that, and when the session was paused or ended, they are on
\* disk; and where a session is still used it is neither paused nor ended.
SaveInv ==
    /\ at \in {"off", "initialize"} => OnDisk
    /\ at = "cleanup" /\ session.state \in {"paused", "ended"} => OnDisk
    /\ at # "off" => Waits \subseteq ToSet(session.pending)
    /\ at # "off" => \A i \in DOMAIN disk.diffs :
           \/ disk.diffs[i].is = "written"
           \/ at = "cleanup" /\ session.state = "error" /\ i <= Len(session.pending)
    /\ at \in {"loop", "prompt", "approve"} => session.state \notin {"paused", "ended"}

----------------------------------------------------------------------------
(* The executor that is kept. *)

\* Only a task in project mode makes an executor that is kept, under the profile
\* there is then.
LEMMA KeptSteps ==
  ASSUME KeptInv, [TerminalNext]_<<sessionVars, terminalVars>>
  PROVE  KeptInv'
<1> USE DEF KeptInv, KeptExecutorObeysProfile
<1>1. CASE __init__
  BY <1>1 DEF __init__
<1>2. CASE _initialize_components
  BY <1>2 DEF _initialize_components, Off, Same, modeVars
<1>3. CASE run_interactive \/ approval_looked_at \/ _cmd_clear \/ eof
  BY <1>3 DEF run_interactive, approval_looked_at, _cmd_clear, eof, Same, modeVars, Back, Onward
<1>4. CASE approval_applied \/ approval_fails \/ \E stop \in BOOLEAN : approval_dropped(stop)
  BY <1>4 DEF approval_applied, approval_fails, approval_dropped, modeVars, Onward, Waiting
<1>5. CASE _cmd_apply \/ _cmd_reject \/ _cmd_undo \/ _cmd_pause \/ _cmd_exit \/ save_fails
  BY <1>5 DEF _cmd_apply, _cmd_reject, _cmd_undo, _cmd_pause, _cmd_exit, save_fails, Back, modeVars
<1>6. CASE _cmd_project \/ _cmd_workspaces
  BY <1>6 DEF _cmd_project, _cmd_workspaces, Back
<1>7. CASE \E p \in {"strict", "balanced"} : set_policy_profile(p)
  BY <1>7 DEF set_policy_profile, Back
<1>8. CASE _process_task
  <2>1. /\ at = "prompt" /\ at' # "off" /\ UNCHANGED <<policy_profile, project_mode>>
        /\ executor' = executor \/ (project_mode /\ executor' = policy_profile)
    BY <1>8 DEF _process_task, Onward
  <2> QED BY <2>1
<1>9. CASE _handle_interrupt \/ cleanup_old_sessions
  BY <1>9 DEF _handle_interrupt, cleanup_old_sessions, modeVars
<1>10. CASE _cleanup \/ crash
  BY <1>10 DEF _cleanup, crash, Off
<1>11. CASE UNCHANGED <<sessionVars, terminalVars>>
  BY <1>11 DEF terminalVars
<1> QED BY <1>1, <1>2, <1>3, <1>4, <1>5, <1>6, <1>7, <1>8, <1>9, <1>10, <1>11 DEF TerminalNext

\* An executor that is kept between the tasks of a project works under the policy
\* profile that was set last, whatever commands come in between, and goes with
\* the project mode and with the program (set_policy_profile, _cmd_project).
THEOREM KeptExecutorIsRight == TerminalSpec => []KeptExecutorObeysProfile
<1>1. TerminalInit => KeptInv
  BY DEF TerminalInit, KeptInv, KeptExecutorObeysProfile
<1>2. KeptInv => KeptExecutorObeysProfile
  BY DEF KeptInv
<1> QED BY <1>1, <1>2, KeptSteps, PTL DEF TerminalSpec

----------------------------------------------------------------------------
(* The session and its directory. *)

\* What the session's operations leave alone.
LEMMA SessionOps ==
  ASSUME NEW s \in SessionType
  PROVE  /\ \A st \in SessionState : /\ [s EXCEPT !.state = st] \in SessionType
                                     /\ [s EXCEPT !.state = st].pending = s.pending
                                     /\ [s EXCEPT !.state = st].state = st
         /\ \A p \in Profile : /\ [s EXCEPT !.profile = p] \in SessionType
                               /\ [s EXCEPT !.profile = p].pending = s.pending
                               /\ [s EXCEPT !.profile = p].state = s.state
         /\ \A t \in {add_user_message(s), clear_context(s)} :
               t \in SessionType /\ t.pending = s.pending /\ t.state = s.state
BY DEF SessionType, Role, add_user_message, clear_context

LEMMA ClearedSession ==
  ASSUME NEW s \in SessionType
  PROVE  LET t == clear_pending_changes(s) IN
         /\ t \in SessionType /\ t.pending = <<>>
         /\ t.state \in {s.state, "active"}
<1> DEFINE t  == clear_pending_changes(s)
           st == IF s.state = "pending_approval" THEN "active" ELSE s.state
<1>1. s.state \in SessionState /\ s.profile \in Profile /\ s.messages \in SUBSET Role
  BY DEF SessionType
<1>2. t = [state |-> st, profile |-> s.profile, pending |-> <<>>, messages |-> s.messages]
  <2>1. t = [s EXCEPT !.pending = <<>>, !.state = st]
    BY DEF SessionType, clear_pending_changes
  <2> HIDE DEF t, st
  <2> QED BY <2>1 DEF SessionType
<1>3. st \in SessionState /\ st \in {s.state, "active"}
  BY <1>1 DEF SessionState
<1>4. <<>> \in Seq(Change)
  OBVIOUS
<1> HIDE DEF t, st
<1> QED BY <1>1, <1>2, <1>3, <1>4 DEF SessionType, t

LEMMA AddedChanges ==
  ASSUME NEW s \in SessionType, NEW cs \in Seq(Change)
  PROVE  LET t == add_pending_changes(s, cs) IN
         /\ t \in SessionType /\ t.state \in {s.state, "pending_approval"}
         /\ ToSet(t.pending) = ToSet(s.pending) \cup ToSet(cs)
<1> DEFINE t == add_pending_changes(s, cs)
<1>1. CASE cs = <<>>
  BY <1>1 DEF add_pending_changes, ToSet
<1>2. CASE cs # <<>>
  <2>1. t = [s EXCEPT !.pending = s.pending \o cs, !.state = "pending_approval"]
    BY <1>2 DEF add_pending_changes, set_pending_approval, SessionType
  <2> DEFINE both == s.pending \o cs
  <2>2. both \in Seq(Change) /\ s.profile \in Profile /\ s.messages \in SUBSET Role
    BY DEF SessionType
  <2> HIDE DEF both
  <2>3. t = [state |-> "pending_approval", profile |-> s.profile,
             pending |-> both, messages |-> s.messages]
    BY <2>1 DEF SessionType, both
  <2> HIDE DEF t
  <2>4. t \in SessionType /\ t.state = "pending_approval" /\ t.pending = both
    BY <2>2, <2>3 DEF SessionType, SessionState
  <2>5. \A x : x \in ToSet(s.pending \o cs) <=> x \in ToSet(s.pending) \cup ToSet(cs)
    <3> DEFINE u == s.pending
    <3>1. u \in Seq(Change)
      BY DEF SessionType
    <3> HIDE DEF u
    <3>2. ASSUME NEW x \in ToSet(u \o cs) PROVE x \in ToSet(u) \cup ToSet(cs)
      BY <3>1, <3>2 DEF ToSet
    <3>3. ASSUME NEW x \in ToSet(u) PROVE x \in ToSet(u \o cs)
      BY <3>1, <3>3 DEF ToSet
    <3>4. ASSUME NEW x \in ToSet(cs) PROVE x \in ToSet(u \o cs)
      <4>1. PICK i \in 1..Len(cs) : x = cs[i]
        BY <3>4 DEF ToSet
      <4>2. (u \o cs)[Len(u) + i] = x /\ Len(u) + i \in DOMAIN (u \o cs)
        BY <3>1, <4>1
      <4> QED BY <4>2 DEF ToSet
    <3> QED BY <3>2, <3>3, <3>4 DEF u
  <2> QED BY <2>4, <2>5 DEF t, both
<1> QED BY <1>1, <1>2

\* A file of the directory that holds something.
LEMMA HoldingIs ==
  /\ Absent.is = "absent" /\ Torn.is = "torn"
  /\ \A x : Holding(x).is = "written" /\ Holding(x).holds = x
BY DEF Absent, Torn, Holding

\* The files of the changes when n of them are written.
LEMMA DiffsTyped ==
  ASSUME disk \in DiskType, NEW s \in SessionType, NEW n \in 0..Len(s.pending)
  PROVE  LET d == Diffs(s, n) IN
         /\ d \in Seq(SavedDiff)
         /\ Len(d) = IF n > Len(disk.diffs) THEN n ELSE Len(disk.diffs)
         /\ \A i \in 1..Len(d) : d[i] = IF i <= n THEN Holding(s.pending[i]) ELSE disk.diffs[i]
<1> DEFINE d == Diffs(s, n)
           m == IF n > Len(disk.diffs) THEN n ELSE Len(disk.diffs)
<1>1. s.pending \in Seq(Change) /\ disk.diffs \in Seq(SavedDiff)
  BY DEF SessionType, DiskType
<1>2. m \in Nat /\ d = [i \in 1..m |-> IF i <= n THEN Holding(s.pending[i]) ELSE disk.diffs[i]]
  BY <1>1 DEF Diffs
<1>3. ASSUME NEW i \in 1..m
      PROVE  (IF i <= n THEN Holding(s.pending[i]) ELSE disk.diffs[i]) \in SavedDiff
  <2>1. CASE i <= n
    <3>1. s.pending[i] \in Change
      BY <1>1, <2>1
    <3> QED BY <2>1, <3>1 DEF SavedDiff
  <2>2. CASE ~(i <= n)
    BY <1>1, <2>2
  <2> QED BY <2>1, <2>2
<1> HIDE DEF m, d
<1>4. d \in [1..m -> SavedDiff]
  BY <1>2, <1>3
<1>5. d \in Seq(SavedDiff) /\ Len(d) = m
  BY <1>2, <1>4
<1> QED BY <1>2, <1>5 DEF m, d

\* However far a saving got, the directory is one that was saved in part.
LEMMA SavedTyped ==
  ASSUME disk \in DiskType, NEW s \in SessionType, NEW n \in 0..Files(s), NEW begun \in BOOLEAN,
         begun => n < Files(s)
  PROVE  SavedUpTo(s, n, begun) \in DiskType
<1> DEFINE d == SavedUpTo(s, n, begun)
<1>1. s.pending \in Seq(Change) /\ Len(s.pending) \in Nat /\ Files(s) = 2 + Len(s.pending)
  BY DEF SessionType, Files
<1>2. Torn \in SavedIn(SessionState) /\ Torn \in SavedIn(SUBSET Role) /\ Torn \in SavedDiff
  BY DEF SavedIn, SavedDiff
<1>3. Holding(s.state) \in SavedIn(SessionState) /\ Holding(s.messages) \in SavedIn(SUBSET Role)
  BY DEF SessionType, SavedIn
<1>4. /\ disk.state \in SavedIn(SessionState) /\ disk.context \in SavedIn(SUBSET Role)
      /\ disk.diffs \in Seq(SavedDiff)
  BY DEF DiskType
<1> DEFINE diffs == IF n < 2 THEN disk.diffs
                    ELSE IF begun THEN [i \in 1..Len(Diffs(s, n - 1)) |->
                            IF i = n - 1 THEN Torn ELSE Diffs(s, n - 2)[i]]
                    ELSE Diffs(s, n - 2)
<1>5. diffs \in Seq(SavedDiff)
  <2>1. CASE n < 2
    BY <1>4, <2>1
  <2>2. CASE n >= 2 /\ ~begun
    <3>1. n - 2 \in 0..Len(s.pending)
      BY <1>1, <2>2
    <3>2. Diffs(s, n - 2) \in Seq(SavedDiff)
      BY <3>1, DiffsTyped
    <3> QED BY <2>2, <3>2
  <2>3. CASE n >= 2 /\ begun
    <3>1. n - 2 \in 0..Len(s.pending) /\ n - 1 \in 0..Len(s.pending)
      BY <1>1, <2>3
    <3> DEFINE e == Diffs(s, n - 2)
               l == Len(Diffs(s, n - 1))
    <3>2. /\ e \in Seq(SavedDiff)
          /\ Len(e) = IF n - 2 > Len(disk.diffs) THEN n - 2 ELSE Len(disk.diffs)
      BY <3>1, DiffsTyped
    <3>3. l = IF n - 1 > Len(disk.diffs) THEN n - 1 ELSE Len(disk.diffs)
      BY <3>1, DiffsTyped
    <3>4. diffs = [i \in 1..l |-> IF i = n - 1 THEN Torn ELSE e[i]]
      BY <2>3
    <3> HIDE DEF e, l, diffs
    <3>5. l \in Nat
      BY <1>4, <3>1, <3>3
    <3>6. \A i \in 1..l : i # n - 1 => i \in 1..Len(e)
      BY <1>4, <3>1, <3>2, <3>3
    <3>7. \A i \in 1..l : (IF i = n - 1 THEN Torn ELSE e[i]) \in SavedDiff
      BY <1>2, <3>2, <3>6
    <3> QED BY <3>4, <3>5, <3>7
  <2> QED BY <2>1, <2>2, <2>3
<1>6. /\ d.state \in SavedIn(SessionState)
      /\ d.context \in SavedIn(SUBSET Role)
      /\ d = [state |-> d.state, context |-> d.context, diffs |-> diffs]
  BY <1>2, <1>3, <1>4 DEF SavedUpTo
<1> HIDE DEF d, diffs
<1> QED BY <1>5, <1>6 DEF DiskType, d

\* A directory that can be loaded gives a session with the changes of its files.
LEMMA LoadedTyped ==
  ASSUME disk \in DiskType, Loadable
  PROVE  /\ Loaded \in SessionType
         /\ \A i \in DOMAIN disk.diffs : disk.diffs[i].is = "written"
<1>1. disk.state \in SavedIn(SessionState) /\ disk.context \in SavedIn(SUBSET Role)
      /\ disk.diffs \in Seq(SavedDiff)
  BY DEF DiskType
<1>2. disk.state.holds \in SessionState
  BY <1>1, HoldingIs DEF SavedIn, Loadable
<1> DEFINE messages == IF disk.context.is = "written" THEN disk.context.holds ELSE {}
           pending  == [i \in DOMAIN disk.diffs |-> disk.diffs[i].holds]
<1>3. messages \in SUBSET Role
  BY <1>1, HoldingIs DEF SavedIn
<1>4. \A i \in DOMAIN disk.diffs : disk.diffs[i].holds \in Change
  BY <1>1, HoldingIs DEF SavedDiff, Loadable
<1>5. pending \in Seq(Change)
  BY <1>1, <1>4
<1>6. Loaded = [state |-> disk.state.holds, profile |-> "balanced",
                messages |-> messages, pending |-> pending]
  BY DEF Loaded
<1> HIDE DEF messages, pending
<1>7. Loaded \in SessionType
  BY <1>2, <1>3, <1>5, <1>6 DEF SessionType, Profile
<1> QED BY <1>7 DEF Loadable

\* When a directory whose other files can all be read is saved to, what was pending
\* can be loaded again.
LEMMA SavedAll ==
  ASSUME disk \in DiskType, NEW s \in SessionType, save(s),
         \A i \in DOMAIN disk.diffs : disk.diffs[i].is = "written" \/ i <= Len(s.pending)
  PROVE  /\ disk' \in DiskType
         /\ \A i \in DOMAIN disk'.diffs : disk'.diffs[i].is = "written"
         /\ Loadable'
         /\ \A c \in ToSet(s.pending) : c \in ToSet(Loaded'.pending)
<1> DEFINE n == Len(s.pending)
           d == Diffs(s, n)
<1>1. s.pending \in Seq(Change) /\ n \in Nat /\ Files(s) = 2 + n /\ disk.diffs \in Seq(SavedDiff)
  BY DEF SessionType, Files, DiskType
<1>2. disk' \in DiskType
  <2>1. Files(s) \in 0..Files(s) /\ FALSE \in BOOLEAN
    BY <1>1
  <2>2. SavedUpTo(s, Files(s), FALSE) \in DiskType
    BY <2>1, SavedTyped, Zenon
  <2> QED BY <2>2 DEF save
<1>3. disk' = [state |-> Holding(s.state), context |-> Holding(s.messages), diffs |-> d]
  BY <1>1 DEF save, SavedUpTo
<1>4. /\ d \in Seq(SavedDiff)
      /\ Len(d) = IF n > Len(disk.diffs) THEN n ELSE Len(disk.diffs)
      /\ \A i \in 1..Len(d) : d[i] = IF i <= n THEN Holding(s.pending[i]) ELSE disk.diffs[i]
  BY <1>1, DiffsTyped
<1>9. \A i \in DOMAIN disk.diffs : disk.diffs[i].is = "written" \/ i <= n
  OBVIOUS
<1> HIDE DEF n, d
<1>5. disk'.diffs = d /\ disk'.state = Holding(s.state) /\ disk'.context = Holding(s.messages)
  BY <1>3
<1>6. ASSUME NEW i \in DOMAIN d PROVE d[i].is = "written"
  <2>1. CASE i <= n
    BY <1>4, <2>1, HoldingIs
  <2>2. CASE ~(i <= n)
    BY <1>1, <1>4, <1>9, <2>2
  <2> QED BY <2>1, <2>2
<1>7. Loadable'
  BY <1>5, <1>6, HoldingIs DEF Loadable
<1>8. ASSUME NEW i \in 1..n PROVE s.pending[i] \in ToSet(Loaded'.pending)
  <2>1. i \in DOMAIN d /\ d[i] = Holding(s.pending[i])
    BY <1>1, <1>4
  <2>2. Loaded'.pending = [j \in DOMAIN d |-> d[j].holds]
    BY <1>5 DEF Loaded
  <2>3. Loaded'.pending[i] = s.pending[i] /\ i \in DOMAIN Loaded'.pending
    BY <2>1, <2>2, HoldingIs
  <2> QED BY <2>3 DEF ToSet
<1> QED BY <1>1, <1>2, <1>5, <1>6, <1>7, <1>8 DEF ToSet, n

----------------------------------------------------------------------------
(* The stack of undone changes. *)

\* A set of numbers that is not empty has a least one, and a greatest one if it
\* is bounded.
LEMMA LeastNumber ==
  ASSUME NEW T, T \subseteq Nat, T # {}
  PROVE  \E x \in T : \A y \in T : x <= y
<1>1. PICK x \in T : \A y \in T : ~(<<y, x>> \in OpToRel(<, Nat))
  BY NatLessThanWellFounded, WFMin
<1>2. ASSUME NEW y \in T PROVE x <= y
  <2>1. ~(y < x)
    BY <1>1, <1>2 DEF OpToRel
  <2> QED BY <2>1
<1> QED BY <1>2

LEMMA GreatestNumber ==
  ASSUME NEW n \in Nat, NEW T, T \subseteq 1..n, T # {}
  PROVE  Max(T) \in T
<1> DEFINE bounds == {b \in Nat : \A y \in T : y <= b}
<1>1. n \in bounds
  OBVIOUS
<1>2. PICK b \in bounds : \A c \in bounds : b <= c
  BY <1>1, LeastNumber
<1>3. b \in T
  <2> SUFFICES ASSUME b \notin T PROVE FALSE
    OBVIOUS
  <2>1. \A y \in T : y <= b - 1
    BY <1>2
  <2>2. b - 1 \in Nat
    <3>1. PICK y \in T : TRUE
      OBVIOUS
    <3>2. y \in Nat /\ 1 <= y /\ y <= b - 1 /\ b \in Nat
      BY <2>1, <3>1
    <3> QED BY <3>2
  <2>3. b - 1 \in bounds
    BY <2>1, <2>2
  <2> QED BY <1>2, <2>3
<1>4. \A y \in T : b >= y
  BY <1>2
<1> QED BY <1>3, <1>4, Zenon DEF Max

\* The files after the first n changes, and what their undoing holds.
LEMMA AppliedTyped ==
  ASSUME TerminalTypes, NEW n \in 0..Len(session.pending)
  PROVE  /\ After(n) \in [Path -> Held]
         /\ Undoes(n) \in Seq(Path \X Held)
         /\ Len(Undoes(n)) = n
         /\ \A i \in 1..n : /\ Undoes(n)[i][1] = session.pending[i].path
                            /\ Undoes(n)[i][2] = After(i - 1)[session.pending[i].path]
         /\ \A p \in Path :
               (\A i \in 1..n : session.pending[i].path # p) => After(n)[p] = file[p]
<1> DEFINE pending == session.pending
<1>1. pending \in Seq(Change) /\ n \in Nat /\ \A i \in 1..n : pending[i] \in Change
  BY DEF TerminalTypes, SessionType
<1>2. \A i \in 1..n : pending[i].path \in Path
  BY <1>1 DEF Path
<1>3. ASSUME NEW k \in 0..n
      PROVE  /\ After(k) \in [Path -> Held]
             /\ \A p \in Path : (\A i \in 1..k : pending[i].path # p) => After(k)[p] = file[p]
  <2>1. ASSUME NEW p \in Path
        PROVE  After(k)[p] \in Held
               /\ ((\A i \in 1..k : pending[i].path # p) => After(k)[p] = file[p])
    <3> DEFINE hits == {i \in 1..k : pending[i].path = p}
    <3>1. After(k)[p] = IF hits = {} THEN file[p] ELSE Content(pending[Max(hits)])
      BY DEF After
    <3>2. CASE hits = {}
      BY <3>1, <3>2 DEF TerminalTypes
    <3>3. CASE hits # {}
      <4>1. Max(hits) \in hits
        <5>1. k \in Nat /\ hits \subseteq 1..k
          BY <1>1
        <5> HIDE DEF hits
        <5> QED BY <3>3, <5>1, GreatestNumber
      <4> HIDE DEF hits
      <4>2. Content(pending[Max(hits)]) \in Held
        <5>1. Max(hits) \in 1..n
          BY <1>1, <4>1 DEF hits
        <5>2. pending[Max(hits)] \in Change
          BY <1>1, <5>1
        <5> QED BY <5>2 DEF Content, Held
      <4> QED BY <3>1, <3>3, <4>1, <4>2 DEF hits
    <3> QED BY <3>2, <3>3
  <2>2. After(k) = [p \in Path |-> After(k)[p]]
    BY DEF After
  <2> QED BY <2>1, <2>2
<1> DEFINE u == Undoes(n)
<1>4. u = [i \in 1..n |-> <<pending[i].path, After(i - 1)[pending[i].path]>>]
  BY DEF Undoes
<1>5. ASSUME NEW i \in 1..n
      PROVE  <<pending[i].path, After(i - 1)[pending[i].path]>> \in Path \X Held
  <2>1. i - 1 \in 0..n
    BY <1>1
  <2>2. After(i - 1) \in [Path -> Held]
    BY <1>3, <2>1
  <2> QED BY <1>2, <2>2
<1> HIDE DEF u, pending
<1>6. u \in Seq(Path \X Held) /\ Len(u) = n
  BY <1>1, <1>4, <1>5
<1>7. \A i \in 1..n : u[i][1] = pending[i].path /\ u[i][2] = After(i - 1)[pending[i].path]
  BY <1>4
<1> QED BY <1>1, <1>3, <1>6, <1>7 DEF u, pending

\* Applying changes keeps track of what every file was: the first entry for a
\* file that had none is made while the file is what it was.
LEMMA TraceGrows ==
  ASSUME TerminalTypes, NEW n \in 0..Len(session.pending), NEW p \in Path, NEW was,
         Traced(undo_stack, file[p], was, p)
  PROVE  Traced(undo_stack \o Undoes(n), After(n)[p], was, p)
<1> DEFINE u == Undoes(n)
           both == undo_stack \o u
           l == Len(undo_stack)
<1>1. /\ undo_stack \in Seq(Path \X Held) /\ l \in Nat /\ n \in Nat
      /\ u \in Seq(Path \X Held) /\ Len(u) = n
      /\ \A i \in 1..n : /\ u[i][1] = session.pending[i].path
                         /\ u[i][2] = After(i - 1)[session.pending[i].path]
  BY AppliedTyped DEF TerminalTypes, SessionType
<1>2. ASSUME NEW k \in 0..n, \A i \in 1..k : u[i][1] # p
      PROVE  After(k)[p] = file[p]
  <2>1. k \in 0..Len(session.pending) /\ \A i \in 1..k : session.pending[i].path # p
    BY <1>1, <1>2 DEF TerminalTypes, SessionType
  <2> QED BY <2>1, AppliedTyped
<1> HIDE DEF u
<1>3. /\ DOMAIN both = 1..(l + n) /\ DOMAIN undo_stack = 1..l
      /\ \A i \in 1..l : both[i] = undo_stack[i]
      /\ \A k \in 1..n : both[l + k] = u[k]
  <2>1. DOMAIN both = 1..(l + n) /\ DOMAIN undo_stack = 1..l
    <3>1. both \in Seq(Path \X Held) /\ Len(both) = l + n
      BY <1>1, ConcatProperties
    <3> HIDE DEF both
    <3>2. DOMAIN both = 1..Len(both)
      BY <3>1
    <3> QED BY <1>1, <3>1, <3>2
  <2>2. \A i \in 1..l : both[i] = undo_stack[i]
    BY <1>1
  <2>3. ASSUME NEW k \in 1..n PROVE both[l + k] = u[k]
    <3>1. l + k \in 1..(l + n) /\ l + k > l /\ (l + k) - l = k
      BY <1>1
    <3> QED BY <1>1, <3>1
  <2> QED BY <2>1, <2>2, <2>3
<1> HIDE DEF both, l
<1>4. ASSUME \A i \in DOMAIN undo_stack : undo_stack[i][1] # p
      PROVE  was = file[p]
  BY <1>4 DEF Traced
<1>5. ASSUME \A i \in DOMAIN both : both[i][1] # p
      PROVE  was = After(n)[p]
  <2>1. \A i \in DOMAIN undo_stack : undo_stack[i][1] # p
    <3>1. \A i \in 1..l : i \in 1..(l + n)
      BY <1>1
    <3> QED BY <1>3, <1>5, <3>1
  <2>2. \A k \in 1..n : l + k \in DOMAIN both
    BY <1>1, <1>3
  <2>3. \A k \in 1..n : u[k][1] # p
    BY <1>3, <1>5, <2>2
  <2> QED BY <1>1, <1>2, <1>4, <2>1, <2>3
<1>6. ASSUME NEW i \in DOMAIN both, both[i][1] = p, \A j \in 1..(i - 1) : both[j][1] # p
      PROVE  was = both[i][2]
  <2>1. CASE i <= l
    <3>1. i \in DOMAIN undo_stack /\ both[i] = undo_stack[i]
          /\ \A j \in 1..(i - 1) : undo_stack[j][1] # p
      <4>1. i \in 1..l /\ \A j \in 1..(i - 1) : j \in 1..l
        BY <1>1, <1>3, <2>1
      <4> QED BY <1>3, <1>6, <4>1
    <3> QED BY <1>6, <3>1 DEF Traced
  <2>2. CASE i > l
    <3>1. PICK k \in 1..n : i = l + k
      <4>1. i - l \in 1..n /\ i = l + (i - l)
        BY <1>1, <1>3, <2>2
      <4> QED BY <4>1
    <3>2. both[i] = u[k] /\ k - 1 \in 0..n
      BY <1>1, <1>3, <3>1
    <3>3. \A j \in DOMAIN undo_stack : undo_stack[j][1] # p
      <4>1. \A j \in 1..l : j \in 1..(i - 1)
        BY <1>1, <1>3, <2>2
      <4> QED BY <1>3, <1>6, <4>1
    <3>4. \A j \in 1..(k - 1) : l + j \in 1..(i - 1) /\ j \in 1..n
      BY <1>1, <3>1
    <3>5. \A j \in 1..(k - 1) : u[j][1] # p
      BY <1>3, <1>6, <3>4
    <3>6. After(k - 1)[p] = file[p]
      BY <1>2, <3>2, <3>5
    <3>7. u[k][2] = After(k - 1)[p]
      BY <1>1, <1>6, <3>2
    <3> QED BY <1>4, <3>2, <3>3, <3>6, <3>7
  <2> QED BY <1>1, <1>3, <2>1, <2>2
<1> QED BY <1>5, <1>6 DEF Traced, both, u

\* Undoing the newest entry keeps track as well.
LEMMA TraceShrinks ==
  ASSUME TerminalTypes, undo_stack # <<>>, NEW p \in Path, NEW was,
         Traced(undo_stack, file[p], was, p)
  PROVE  Traced(SubSeq(undo_stack, 1, Len(undo_stack) - 1),
                IF Newest[1] = p THEN Newest[2] ELSE file[p], was, p)
<1> DEFINE l == Len(undo_stack)
           rest == SubSeq(undo_stack, 1, l - 1)
<1>1. undo_stack \in Seq(Path \X Held) /\ l \in Nat /\ l >= 1 /\ DOMAIN undo_stack = 1..l
  BY DEF TerminalTypes
<1>2. DOMAIN rest = 1..(l - 1) /\ \A i \in 1..(l - 1) : rest[i] = undo_stack[i]
  BY <1>1
<1> HIDE DEF rest, l
<1>3. ASSUME \A i \in DOMAIN rest : rest[i][1] # p
      PROVE  was = IF Newest[1] = p THEN Newest[2] ELSE file[p]
  <2>1. Newest = undo_stack[l] /\ \A i \in 1..(l - 1) : undo_stack[i][1] # p
    BY <1>2, <1>3 DEF Newest, l
  <2>2. CASE Newest[1] = p
    BY <1>1, <2>1, <2>2 DEF Traced
  <2>3. CASE Newest[1] # p
    <3>1. \A i \in DOMAIN undo_stack : undo_stack[i][1] # p
      BY <1>1, <2>1, <2>3
    <3> QED BY <2>3, <3>1 DEF Traced
  <2> QED BY <2>2, <2>3
<1>4. ASSUME NEW i \in DOMAIN rest, rest[i][1] = p, \A j \in 1..(i - 1) : rest[j][1] # p
      PROVE  was = rest[i][2]
  <2>1. i \in DOMAIN undo_stack /\ rest[i] = undo_stack[i]
        /\ \A j \in 1..(i - 1) : undo_stack[j][1] # p
    BY <1>1, <1>2, <1>4
  <2> QED BY <1>4, <2>1 DEF Traced
<1> QED BY <1>3, <1>4 DEF Traced, rest, l

----------------------------------------------------------------------------
(* The steps of the terminal. *)

\* The inductive invariant of the terminal's files and changes.
TermInv == TerminalTypes /\ UndoInv /\ SaveInv

DataVars == <<disk, undo_stack, file, base, touched, added, decided, lost>>

\* A step that changes no more of the session than its state, profile and
\* messages.
LEMMA QuietSteps ==
  ASSUME TermInv, UNCHANGED DataVars, at \notin {"off", "cleanup"},
         at' \in {"loop", "prompt", "approve", "cleanup"},
         session' \in SessionType, session'.pending = session.pending,
         \/ session'.state \notin {"paused", "ended"}
         \/ at = at' /\ session'.state = session.state
  PROVE  TermInv'
<1> USE DEF DataVars
<1>1. TerminalTypes'
  BY DEF TermInv, TerminalTypes
<1>2. UndoInv'
  BY DEF TermInv, UndoInv
<1>3. Waits' = Waits /\ (OnDisk => OnDisk')
  BY DEF Waits, OnDisk, Loadable, Loaded
<1>4. SaveInv'
  BY <1>3 DEF TermInv, SaveInv
<1> QED BY <1>1, <1>2, <1>4 DEF TermInv

\* Every step that only moves on, or changes how the program works.
LEMMA MovingSteps ==
  ASSUME TermInv,
         \/ _initialize_components /\ at' # "off"
         \/ run_interactive \/ approval_looked_at \/ _cmd_clear \/ eof
         \/ _cmd_project \/ _cmd_workspaces \/ _handle_interrupt
         \/ \E p \in {"strict", "balanced"} : set_policy_profile(p)
  PROVE  TermInv'
<1>1. session \in SessionType
  BY DEF TermInv, TerminalTypes
<1>2. CASE _initialize_components /\ at' # "off"
  <2>1. /\ at = "initialize" /\ at' \in {"prompt", "loop"} /\ session' = start(session)
        /\ UNCHANGED DataVars
    BY <1>2 DEF _initialize_components, Same, DataVars, historyVars, Off
  <2>2. session' \in SessionType /\ session'.pending = session.pending /\ session'.state = "active"
    BY <1>1, <2>1, SessionOps DEF start, SessionState
  <2> QED BY <2>1, <2>2, QuietSteps
<1>3. CASE run_interactive \/ approval_looked_at \/ eof \/ _cmd_project \/ _cmd_workspaces
           \/ _handle_interrupt
  <2>1. /\ session' = session /\ at \in {"loop", "prompt", "approve"}
        /\ at' \in {"loop", "prompt", "approve", "cleanup"}
        /\ UNCHANGED DataVars
    BY <1>3 DEF run_interactive, approval_looked_at, eof, _cmd_project, _cmd_workspaces,
       _handle_interrupt, Same, DataVars, historyVars, Prompt, Waiting, Back, Onward
  <2>2. session.state \notin {"paused", "ended"}
    BY <2>1 DEF TermInv, SaveInv
  <2> QED BY <1>1, <2>1, <2>2, QuietSteps
<1>4. CASE _cmd_clear \/ \E p \in {"strict", "balanced"} : set_policy_profile(p)
  <2>1. /\ at = "prompt" /\ at' = "loop" /\ UNCHANGED DataVars
        /\ \/ session' = clear_context(session)
           \/ \E p \in Profile : session' = [session EXCEPT !.profile = p]
    BY <1>4 DEF _cmd_clear, set_policy_profile, Same, DataVars, historyVars, Prompt, Back, Profile
  <2>2. session' \in SessionType /\ session'.pending = session.pending
        /\ session'.state = session.state
    BY <1>1, <2>1, SessionOps
  <2>3. session.state \notin {"paused", "ended"}
    BY <2>1 DEF TermInv, SaveInv
  <2> QED BY <2>1, <2>2, <2>3, QuietSteps
<1> QED BY <1>2, <1>3, <1>4

\* The changes that wait are decided, in memory as well.
LEMMA DecidingSteps ==
  ASSUME TermInv, Decide, at \in {"prompt", "approve"},
         at' \in {"loop", "cleanup"},
         session' = clear_pending_changes(session),
         UNCHANGED <<disk, base, added, lost, touched>>,
         \/ UNCHANGED <<file, undo_stack>>
         \/ /\ file' = After(Len(session.pending))
            /\ undo_stack' = undo_stack \o Undoes(Len(session.pending))
  PROVE  TermInv'
<1>1. session \in SessionType /\ session.pending \in Seq(Change)
  BY DEF TermInv, TerminalTypes, SessionType
<1>2. session' \in SessionType /\ session'.state \in {session.state, "active"}
  BY <1>1, ClearedSession
<1>3. Len(session.pending) \in 0..Len(session.pending)
  BY <1>1
<1>4. TerminalTypes'
  <2>1. file' \in [Path -> Held] /\ undo_stack' \in Seq(Path \X Held)
    <3>1. CASE UNCHANGED <<file, undo_stack>>
      BY <3>1 DEF TermInv, TerminalTypes
    <3>2. CASE ~UNCHANGED <<file, undo_stack>>
      <4> DEFINE n == Len(session.pending)
      <4>1. /\ n \in 0..n /\ file' = After(n) /\ undo_stack' = undo_stack \o Undoes(n)
            /\ undo_stack \in Seq(Path \X Held) /\ TerminalTypes
        BY <1>3, <3>2 DEF TermInv, TerminalTypes
      <4>2. After(n) \in [Path -> Held] /\ Undoes(n) \in Seq(Path \X Held)
        BY <4>1, AppliedTyped
      <4> HIDE DEF n
      <4> QED BY <4>1, <4>2
    <3> QED BY <3>1, <3>2
  <2> QED BY <1>2, <2>1 DEF TermInv, TerminalTypes
<1>5. UndoInv'
  <2>1. ASSUME NEW p \in Path \ touched
        PROVE  Traced(undo_stack', file'[p], base[p], p)
    <3>1. Traced(undo_stack, file[p], base[p], p)
      BY <2>1 DEF TermInv, UndoInv
    <3>2. CASE UNCHANGED <<file, undo_stack>>
      BY <3>1, <3>2
    <3>3. CASE ~UNCHANGED <<file, undo_stack>>
      BY <1>3, <3>1, <3>3, TraceGrows DEF TermInv
    <3> QED BY <3>2, <3>3
  <2> QED BY <2>1 DEF UndoInv
<1>6. Waits' = {}
  BY DEF Decide, Waits, TermInv, SaveInv
<1>7. SaveInv'
  BY <1>2, <1>6 DEF TermInv, SaveInv, OnDisk
<1> QED BY <1>4, <1>5, <1>7 DEF TermInv

\* Some of the changes are applied, and all of them wait still.
LEMMA FailingSteps ==
  ASSUME TermInv, _apply_changes_fails, at \in {"prompt", "approve"},
         at' \in {"loop", "cleanup"}, UNCHANGED <<disk, base, added, lost>>
  PROVE  TermInv'
<1>1. session \in SessionType /\ session.pending \in Seq(Change)
      /\ file \in [Path -> Held] /\ undo_stack \in Seq(Path \X Held) /\ TerminalTypes
  BY DEF TermInv, TerminalTypes, SessionType
<1>2. session' = session /\ decided' = decided
  BY DEF _apply_changes_fails
<1>3. PICK n \in DOMAIN session.pending, written \in BOOLEAN :
        LET p == session.pending[n].path IN
        /\ file' = IF written THEN [After(n - 1) EXCEPT ![p] = "empty"] ELSE After(n - 1)
        /\ touched' = IF written THEN touched \cup {p} ELSE touched
        /\ undo_stack' = undo_stack \o Undoes(n - 1)
  BY DEF _apply_changes_fails
<1> DEFINE m == n - 1
           q == session.pending[n].path
<1>4. m \in 0..Len(session.pending)
  BY <1>1
<1>5. file' = (IF written THEN [After(m) EXCEPT ![q] = "empty"] ELSE After(m))
      /\ touched' = (IF written THEN touched \cup {q} ELSE touched)
      /\ undo_stack' = undo_stack \o Undoes(m)
  BY <1>3
<1> HIDE DEF m, q
<1>6. After(m) \in [Path -> Held] /\ Undoes(m) \in Seq(Path \X Held)
  BY <1>1, <1>4, AppliedTyped
<1>7. file' \in [Path -> Held]
  BY <1>5, <1>6 DEF Held
<1>8. TerminalTypes'
  BY <1>1, <1>2, <1>5, <1>6, <1>7 DEF TerminalTypes
<1>9. ASSUME NEW p \in Path \ touched'
      PROVE  Traced(undo_stack', file'[p], base[p], p)
  <2>1. Traced(undo_stack, file[p], base[p], p)
    BY <1>5, <1>9 DEF TermInv, UndoInv
  <2>2. Traced(undo_stack \o Undoes(m), After(m)[p], base[p], p)
    BY <1>1, <1>4, <2>1, TraceGrows
  <2>3. file'[p] = After(m)[p]
    BY <1>5, <1>6, <1>9
  <2> QED BY <1>5, <2>2, <2>3
<1>10. UndoInv'
  BY <1>9 DEF UndoInv
<1>11. Waits' = Waits /\ session.state \notin {"paused", "ended"}
  BY <1>2 DEF Waits, TermInv, SaveInv
<1>12. SaveInv'
  BY <1>2, <1>11 DEF TermInv, SaveInv
<1> QED BY <1>8, <1>10, <1>12 DEF TermInv

\* The newest change is undone, or cannot be.
LEMMA UndoingStep ==
  ASSUME TermInv, _cmd_undo
  PROVE  TermInv'
<1>1. /\ at = "prompt" /\ at' = "loop" /\ undo_stack # <<>>
      /\ UNCHANGED <<session, disk, base, added, decided, lost>>
      /\ undo_stack' = SubSeq(undo_stack, 1, Len(undo_stack) - 1)
      /\ \/ file' = [file EXCEPT ![Newest[1]] = Newest[2]] /\ touched' = touched
         \/ touched' = touched \cup {Newest[1]} /\ file' = file
  BY DEF _cmd_undo, Prompt, Back, historyVars
<1>2. TerminalTypes /\ file \in [Path -> Held] /\ undo_stack \in Seq(Path \X Held)
  BY DEF TermInv, TerminalTypes
<1>3. Newest \in Path \X Held
  BY <1>1, <1>2 DEF Newest
<1>4. file' \in [Path -> Held]
  BY <1>1, <1>2, <1>3
<1>5. undo_stack' \in Seq(Path \X Held)
  BY <1>1, <1>2
<1>6. TerminalTypes'
  BY <1>1, <1>2, <1>4, <1>5 DEF TerminalTypes
<1>7. ASSUME NEW p \in Path \ touched'
      PROVE  Traced(undo_stack', file'[p], base[p], p)
  <2>1. Traced(undo_stack, file[p], base[p], p)
    BY <1>1, <1>7 DEF TermInv, UndoInv
  <2>2. Traced(undo_stack', IF Newest[1] = p THEN Newest[2] ELSE file[p], base[p], p)
    BY <1>1, <1>2, <2>1, TraceShrinks
  <2>3. file'[p] = IF Newest[1] = p THEN Newest[2] ELSE file[p]
    BY <1>1, <1>2, <1>3, <1>7
  <2> QED BY <2>2, <2>3
<1>8. UndoInv'
  BY <1>1, <1>7 DEF UndoInv
<1>9. Waits' = Waits /\ session.state \notin {"paused", "ended"}
  BY <1>1 DEF Waits, TermInv, SaveInv
<1>10. SaveInv'
  BY <1>1, <1>9 DEF TermInv, SaveInv
<1> QED BY <1>6, <1>8, <1>10 DEF TermInv

\* The session is paused or ended, and saved with what is pending.
LEMMA LeavingSteps ==
  ASSUME TermInv, _cmd_pause \/ _cmd_exit
  PROVE  TermInv'
<1>1. /\ at = "prompt" /\ at' = "cleanup" /\ UNCHANGED <<undo_stack, file, base, touched, added, lost>>
      /\ decided' \in {decided, decided \cup ToSet(session.pending)}
      /\ \E st \in {"paused", "ended"} : session' = [session EXCEPT !.state = st]
      /\ save(session')
  BY DEF _cmd_pause, _cmd_exit, pause, end, Prompt, Decide, historyVars
<1>2. /\ session' \in SessionType /\ session'.pending = session.pending
      /\ session'.state \in {"paused", "ended"}
  <2>1. PICK st \in {"paused", "ended"} : session' = [session EXCEPT !.state = st]
    BY <1>1
  <2>2. session \in SessionType /\ st \in SessionState
    BY DEF TermInv, TerminalTypes, SessionState
  <2> QED BY <2>1, <2>2, SessionOps
<1>3. /\ disk' \in DiskType
      /\ \A i \in DOMAIN disk'.diffs : disk'.diffs[i].is = "written"
      /\ Loadable'
      /\ \A c \in ToSet(session.pending) : c \in ToSet(Loaded'.pending)
  <2> DEFINE s == session'
  <2>1. s \in SessionType /\ save(s) /\ s.pending = session.pending
    BY <1>1, <1>2
  <2>2. disk \in DiskType /\ \A i \in DOMAIN disk.diffs : disk.diffs[i].is = "written"
    BY <1>1 DEF TermInv, TerminalTypes, SaveInv
  <2> HIDE DEF s
  <2> QED BY <2>1, <2>2, SavedAll
<1>4. Waits' \subseteq ToSet(session.pending)
  BY <1>1 DEF Waits, TermInv, SaveInv
<1>5. OnDisk'
  BY <1>3, <1>4 DEF OnDisk
<1>6. TerminalTypes' /\ UndoInv'
  BY <1>1, <1>2, <1>3 DEF TermInv, TerminalTypes, UndoInv
<1>7. SaveInv'
  BY <1>1, <1>2, <1>3, <1>4, <1>5 DEF SaveInv
<1> QED BY <1>6, <1>7 DEF TermInv

\* Saving the first n files, and beginning the next, leaves the diffs after the
\* pending ones as they were.
LEMMA SavedInPart ==
  ASSUME disk \in DiskType, NEW s \in SessionType, NEW n \in 0..Files(s) - 1, NEW begun \in BOOLEAN,
         \A i \in DOMAIN disk.diffs : disk.diffs[i].is = "written"
  PROVE  LET d == SavedUpTo(s, n, begun)
         IN  /\ d \in DiskType
             /\ \A i \in DOMAIN d.diffs : d.diffs[i].is = "written" \/ i <= Len(s.pending)
<1> DEFINE d == SavedUpTo(s, n, begun)
           l == Len(s.pending)
<1>1. s.pending \in Seq(Change) /\ l \in Nat /\ Files(s) = 2 + l /\ disk.diffs \in Seq(SavedDiff)
  BY DEF SessionType, Files, DiskType
<1>2. d \in DiskType
  <2>1. n \in 0..Files(s) /\ (begun => n < Files(s))
    BY <1>1
  <2> QED BY <2>1, SavedTyped
<1>3. d.diffs = IF n < 2 THEN disk.diffs
                ELSE IF begun THEN [i \in 1..Len(Diffs(s, n - 1)) |->
                        IF i = n - 1 THEN Torn ELSE Diffs(s, n - 2)[i]]
                ELSE Diffs(s, n - 2)
  BY DEF SavedUpTo
<1>4. ASSUME NEW i \in DOMAIN d.diffs, ~(i <= l) PROVE d.diffs[i].is = "written"
  <2>1. CASE n < 2
    BY <1>3, <1>4, <2>1
  <2>2. CASE n >= 2
    <3> DEFINE e == Diffs(s, n - 2)
               f == Diffs(s, n - 1)
    <3>1. n - 2 \in 0..l /\ n - 1 \in 0..l
      BY <1>1, <2>2
    <3>2. /\ e \in Seq(SavedDiff)
          /\ Len(e) = IF n - 2 > Len(disk.diffs) THEN n - 2 ELSE Len(disk.diffs)
          /\ \A j \in 1..Len(e) : e[j] = IF j <= n - 2 THEN Holding(s.pending[j]) ELSE disk.diffs[j]
      BY <1>1, <3>1, DiffsTyped
    <3>3. /\ f \in Seq(SavedDiff)
          /\ Len(f) = IF n - 1 > Len(disk.diffs) THEN n - 1 ELSE Len(disk.diffs)
      BY <1>1, <3>1, DiffsTyped
    <3>4. d.diffs = IF begun THEN [j \in 1..Len(f) |-> IF j = n - 1 THEN Torn ELSE e[j]] ELSE e
      BY <1>3, <2>2
    <3> HIDE DEF d, e, f, l
    <3>5. i \in Nat /\ i > l /\ i # n - 1 /\ ~(i <= n - 2)
      BY <1>1, <1>4, <3>1, <3>2, <3>3, <3>4
    <3>6. i \in 1..Len(disk.diffs) /\ i \in 1..Len(e)
      BY <1>1, <1>4, <3>1, <3>2, <3>3, <3>4, <3>5
    <3>7. d.diffs[i] = disk.diffs[i]
      BY <1>4, <3>2, <3>4, <3>5, <3>6
    <3> QED BY <1>1, <3>6, <3>7
  <2> QED BY <1>1, <2>1, <2>2
<1> QED BY <1>2, <1>4

\* After a save that failed what waits is still in memory, to be saved again.
LEMMA SaveFailsStep ==
  ASSUME TermInv, save_fails
  PROVE  TermInv'
<1>1. /\ at = "prompt" /\ at' = "cleanup" /\ UNCHANGED <<undo_stack, file, base, touched, added, lost>>
      /\ decided' \in {decided, decided \cup ToSet(session.pending)}
      /\ session' = [session EXCEPT !.state = "error"]
      /\ \E st \in {"paused", "ended"}, n \in 0..Files(session) - 1, begun \in BOOLEAN :
            disk' = SavedUpTo([session EXCEPT !.state = st], n, begun)
  BY DEF save_fails, set_error, Prompt, Decide, historyVars
<1>2. session \in SessionType /\ disk \in DiskType
      /\ \A i \in DOMAIN disk.diffs : disk.diffs[i].is = "written"
  BY <1>1 DEF TermInv, TerminalTypes, SaveInv
<1>3. session' \in SessionType /\ session'.pending = session.pending /\ session'.state = "error"
  BY <1>1, <1>2, SessionOps DEF SessionState
<1>4. /\ disk' \in DiskType
      /\ \A i \in DOMAIN disk'.diffs : disk'.diffs[i].is = "written" \/ i <= Len(session.pending)
  <2> PICK st \in {"paused", "ended"}, n \in 0..Files(session) - 1, begun \in BOOLEAN :
            disk' = SavedUpTo([session EXCEPT !.state = st], n, begun)
    BY <1>1
  <2> DEFINE s == [session EXCEPT !.state = st]
  <2>1. s \in SessionType /\ s.pending = session.pending
    <3>1. st \in SessionState
      BY DEF SessionState
    <3> QED BY <1>2, <3>1, SessionOps
  <2>2. n \in 0..Files(s) - 1 /\ disk' = SavedUpTo(s, n, begun)
    BY <2>1 DEF Files
  <2> HIDE DEF s
  <2> QED BY <1>2, <2>1, <2>2, SavedInPart
<1>5. Waits' \subseteq ToSet(session.pending)
  BY <1>1 DEF Waits, TermInv, SaveInv
<1>6. TerminalTypes' /\ UndoInv'
  BY <1>1, <1>3, <1>4 DEF TermInv, TerminalTypes, UndoInv
<1>7. SaveInv'
  BY <1>1, <1>3, <1>4, <1>5 DEF SaveInv
<1> QED BY <1>6, <1>7 DEF TermInv

\* A task writes files, and adds changes that wait to those that do.
LEMMA TaskStep ==
  ASSUME TermInv, _process_task
  PROVE  TermInv'
<1>1. PICK declined \in BOOLEAN, raised \in BOOLEAN, wrote \in SUBSET Path, cs \in SeqOf(Change, 2) :
        /\ file' = [p \in Path |-> IF p \in wrote THEN "written" ELSE file[p]]
        /\ touched' = touched \cup wrote
        /\ added' = added \cup ToSet(cs)
        /\ LET s == add_pending_changes(add_user_message(session), cs)
           IN  session' = IF raised THEN set_error(s) ELSE s
  BY DEF _process_task
<1>2. /\ at = "prompt" /\ at' \in {"loop", "approve", "cleanup"}
      /\ UNCHANGED <<disk, undo_stack, base, decided, lost>>
  BY DEF _process_task, Onward
<1>3. cs \in Seq(Change)
  <2>1. PICK m \in 0..2 : cs \in [1..m -> Change]
    BY DEF SeqOf
  <2> QED BY <2>1
<1>4. session \in SessionType /\ session.state \notin {"paused", "ended"}
  BY <1>2 DEF TermInv, TerminalTypes, SaveInv
<1> DEFINE t == add_user_message(session)
           s == add_pending_changes(t, cs)
<1>5. t \in SessionType /\ t.pending = session.pending /\ t.state = session.state
  BY <1>4, SessionOps
<1> HIDE DEF t
<1>6. /\ s \in SessionType /\ s.state \in {session.state, "pending_approval"}
      /\ ToSet(s.pending) = ToSet(session.pending) \cup ToSet(cs)
  BY <1>3, <1>5, AddedChanges
<1>7. session' = IF raised THEN set_error(s) ELSE s
  BY <1>1 DEF t
<1> HIDE DEF s
<1>8. /\ session' \in SessionType /\ session'.pending = s.pending
      /\ session'.state \notin {"paused", "ended"}
  BY <1>4, <1>6, <1>7, SessionOps DEF set_error, SessionState
<1>9. TerminalTypes'
  BY <1>1, <1>2, <1>8 DEF TermInv, TerminalTypes, Held
<1>10. UndoInv'
  BY <1>1, <1>2 DEF TermInv, UndoInv
<1>11. Waits' \subseteq ToSet(session'.pending)
  BY <1>1, <1>2, <1>6, <1>8 DEF TermInv, SaveInv, Waits
<1>12. SaveInv'
  BY <1>2, <1>8, <1>11 DEF TermInv, SaveInv
<1> QED BY <1>9, <1>10, <1>12 DEF TermInv

\* The program starts with the session it finds, or with a new one.
LEMMA StartingStep ==
  ASSUME TermInv, __init__
  PROVE  TermInv'
<1>1. /\ at = "off" /\ at' = "initialize" /\ base' = file
      /\ UNCHANGED <<disk, undo_stack, touched, file, added, decided, lost>>
      /\ \/ Loadable /\ session' = Loaded
         \/ disk = EmptyDir /\ \E p \in {"strict", "balanced"} : session' = New(p)
  BY DEF __init__
<1>2. disk \in DiskType /\ OnDisk /\ undo_stack = <<>>
  BY <1>1 DEF TermInv, TerminalTypes, SaveInv, UndoInv
<1>3. /\ session' \in SessionType
      /\ Waits \subseteq ToSet(session'.pending)
      /\ \A i \in DOMAIN disk.diffs : disk.diffs[i].is = "written"
  <2>1. CASE Loadable /\ session' = Loaded
    BY <1>2, <2>1, LoadedTyped DEF OnDisk
  <2>2. CASE disk = EmptyDir /\ \E p \in {"strict", "balanced"} : session' = New(p)
    <3>1. ~Loadable /\ disk.diffs = <<>>
      BY <2>2, HoldingIs DEF EmptyDir, Loadable
    <3>2. Waits = {}
      BY <1>2, <3>1 DEF OnDisk
    <3>3. session' \in SessionType
      <4>1. PICK p \in Profile : session' = New(p)
        BY <2>2 DEF Profile
      <4>2. session' = [state |-> "init", profile |-> p, pending |-> <<>>, messages |-> {}]
        BY <4>1 DEF New, NoSession
      <4>3. <<>> \in Seq(Change) /\ {} \in SUBSET Role
        OBVIOUS
      <4> QED BY <4>2, <4>3 DEF SessionType, SessionState
    <3> QED BY <3>1, <3>2, <3>3
  <2> QED BY <1>1, <2>1, <2>2
<1>4. TerminalTypes'
  BY <1>1, <1>3 DEF TermInv, TerminalTypes
<1>5. UndoInv'
  BY <1>1, <1>2 DEF TermInv, UndoInv, Traced
<1>6. Waits' = Waits /\ OnDisk'
  BY <1>1, <1>2 DEF Waits, OnDisk, Loadable, Loaded
<1>7. SaveInv'
  BY <1>1, <1>3, <1>6 DEF TermInv, SaveInv
<1> QED BY <1>4, <1>5, <1>7 DEF TermInv

\* The program ends, and its memory with it.
LEMMA EndingSteps ==
  ASSUME TermInv, Off, disk' \in DiskType, UNCHANGED <<file, base, added, decided>>,
         OnDisk'
  PROVE  TermInv'
<1>1. /\ at' = "off" /\ session' = NoSession /\ undo_stack' = <<>> /\ touched' = {}
  BY DEF Off
<1>2. NoSession \in SessionType
  BY DEF NoSession, SessionType, SessionState, Profile
<1>3. TerminalTypes'
  BY <1>1, <1>2 DEF TermInv, TerminalTypes
<1> QED BY <1>1, <1>3 DEF TermInv, UndoInv, SaveInv

LEMMA OffSteps ==
  ASSUME TermInv,
         \/ _initialize_components /\ at' = "off"
         \/ _cleanup \/ crash \/ cleanup_old_sessions
  PROVE  TermInv'
<1>1. session \in SessionType /\ disk \in DiskType
  BY DEF TermInv, TerminalTypes
<1>2. CASE _initialize_components /\ at' = "off"
  <2>1. at = "initialize" /\ Off /\ UNCHANGED <<disk, file, base, added, decided, lost>>
    BY <1>2 DEF _initialize_components, historyVars
  <2>2. OnDisk
    BY <2>1 DEF TermInv, SaveInv
  <2>3. OnDisk'
    BY <2>1, <2>2 DEF OnDisk, Waits, Loadable, Loaded
  <2> QED BY <1>1, <2>1, <2>3, EndingSteps
<1>3. CASE _cleanup
  <2>1. /\ at = "cleanup" /\ Off /\ UNCHANGED <<file, base, added, decided, lost>>
        /\ IF session.state \in {"ended", "paused"} THEN UNCHANGED disk
           ELSE save([session EXCEPT !.state = "ended"])
    BY <1>3 DEF _cleanup, historyVars
  <2>2. /\ Waits \subseteq ToSet(session.pending)
        /\ \A i \in DOMAIN disk.diffs : disk.diffs[i].is = "written" \/ i <= Len(session.pending)
    BY <2>1 DEF TermInv, SaveInv
  <2>3. CASE session.state \in {"ended", "paused"}
    <3>1. OnDisk /\ UNCHANGED disk
      BY <2>1, <2>3 DEF TermInv, SaveInv
    <3>2. OnDisk'
      BY <2>1, <3>1 DEF OnDisk, Waits, Loadable, Loaded
    <3> QED BY <1>1, <2>1, <3>1, <3>2, EndingSteps
  <2>4. CASE session.state \notin {"ended", "paused"}
    <3> DEFINE s == [session EXCEPT !.state = "ended"]
    <3>1. save(s) /\ s \in SessionType /\ s.pending = session.pending
      BY <1>1, <2>1, <2>4, SessionOps DEF SessionState
    <3> HIDE DEF s
    <3>2. /\ disk' \in DiskType /\ Loadable'
          /\ \A c \in ToSet(session.pending) : c \in ToSet(Loaded'.pending)
      BY <1>1, <2>2, <3>1, SavedAll
    <3>3. OnDisk'
      BY <2>1, <2>2, <3>2 DEF OnDisk, Waits
    <3> QED BY <2>1, <3>2, <3>3, EndingSteps
  <2> QED BY <2>3, <2>4
<1>4. CASE crash
  <2>1. /\ Off /\ UNCHANGED <<file, base, added, decided>>
        /\ lost' = lost \cup (added \ decided)
        /\ \/ UNCHANGED disk
           \/ \E st \in {"paused", "ended"}, n \in 0..Files(session) - 1, begun \in BOOLEAN :
                disk' = SavedUpTo([session EXCEPT !.state = st], n, begun)
    BY <1>4 DEF crash, historyVars
  <2>2. disk' \in DiskType
    <3>1. ASSUME NEW st \in {"paused", "ended"}, NEW n \in 0..Files(session) - 1,
                 NEW begun \in BOOLEAN,
                 disk' = SavedUpTo([session EXCEPT !.state = st], n, begun)
          PROVE  disk' \in DiskType
      <4> DEFINE s == [session EXCEPT !.state = st]
      <4>1. s \in SessionType /\ s.pending = session.pending
        <5>1. st \in SessionState
          BY DEF SessionState
        <5> QED BY <1>1, <5>1, SessionOps
      <4>2. Len(s.pending) \in Nat /\ Files(s) = 2 + Len(s.pending) /\ Files(session) = Files(s)
        BY <4>1 DEF Files, SessionType
      <4>3. n \in 0..Files(s) /\ n < Files(s)
        BY <4>2
      <4> HIDE DEF s
      <4>4. SavedUpTo(s, n, begun) \in DiskType
        BY <1>1, <4>1, <4>3, SavedTyped
      <4> QED BY <3>1, <4>4 DEF s
    <3> QED BY <1>1, <2>1, <3>1
  <2>3. OnDisk'
    BY <2>1 DEF OnDisk, Waits
  <2> QED BY <2>1, <2>2, <2>3, EndingSteps
<1>5. CASE cleanup_old_sessions
  <2>1. /\ at = "off" /\ at' = "off" /\ disk' = EmptyDir
        /\ UNCHANGED <<session, undo_stack, file, touched, base, added, decided>>
        /\ lost' = lost \cup (added \ decided)
    BY <1>5 DEF cleanup_old_sessions, historyVars
  <2>2. EmptyDir \in DiskType
    <3>1. <<>> \in Seq(SavedDiff)
      OBVIOUS
    <3> QED BY <3>1 DEF EmptyDir, DiskType, SavedIn
  <2>3. OnDisk'
    BY <2>1 DEF OnDisk, Waits
  <2> QED BY <2>1, <2>2, <2>3 DEF TermInv, TerminalTypes, UndoInv, SaveInv
<1> QED BY <1>2, <1>3, <1>4, <1>5

LEMMA TerminalSteps ==
  ASSUME TermInv, [TerminalNext]_<<sessionVars, terminalVars>>
  PROVE  TermInv'
<1>1. CASE __init__
  BY <1>1, StartingStep
<1>2. CASE _initialize_components
  BY <1>2, MovingSteps, OffSteps
<1>3. CASE \/ run_interactive \/ approval_looked_at \/ _cmd_clear \/ eof
           \/ _cmd_project \/ _cmd_workspaces \/ _handle_interrupt
           \/ \E p \in {"strict", "balanced"} : set_policy_profile(p)
  BY <1>3, MovingSteps
<1>4. CASE approval_applied
  <2>1. /\ Decide /\ at = "approve" /\ at' \in {"loop", "cleanup"}
        /\ session' = clear_pending_changes(session)
        /\ UNCHANGED <<disk, base, added, lost, touched>>
        /\ file' = After(Len(session.pending))
        /\ undo_stack' = undo_stack \o Undoes(Len(session.pending))
    BY <1>4 DEF approval_applied, _apply_changes, Waiting, Onward, historyVars
  <2> QED BY <2>1, DecidingSteps
<1>5. CASE _cmd_apply /\ _apply_changes
  <2>1. /\ Decide /\ at = "prompt" /\ at' = "loop"
        /\ session' = clear_pending_changes(session)
        /\ UNCHANGED <<disk, base, added, lost, touched>>
        /\ file' = After(Len(session.pending))
        /\ undo_stack' = undo_stack \o Undoes(Len(session.pending))
    BY <1>5 DEF _cmd_apply, _apply_changes, Prompt, Back, historyVars
  <2> QED BY <2>1, DecidingSteps
<1>6. CASE approval_fails \/ (_cmd_apply /\ _apply_changes_fails)
  <2>1. /\ _apply_changes_fails /\ at \in {"prompt", "approve"} /\ at' \in {"loop", "cleanup"}
        /\ UNCHANGED <<disk, base, added, lost>>
    BY <1>6 DEF approval_fails, _cmd_apply, Prompt, Waiting, Back, historyVars
  <2> QED BY <2>1, FailingSteps
<1>7. CASE _cmd_reject \/ \E stop \in BOOLEAN : approval_dropped(stop)
  <2>1. /\ Decide /\ at \in {"prompt", "approve"} /\ at' \in {"loop", "cleanup"}
        /\ session' = clear_pending_changes(session)
        /\ UNCHANGED <<disk, base, added, lost, touched, file, undo_stack>>
    BY <1>7 DEF _cmd_reject, approval_dropped, Prompt, Waiting, Back, Onward, historyVars
  <2> QED BY <2>1, DecidingSteps
<1>8. CASE _cmd_undo
  BY <1>8, UndoingStep
<1>9. CASE _cmd_pause \/ _cmd_exit \/ save_fails
  BY <1>9, LeavingSteps, SaveFailsStep
<1>10. CASE _process_task
  BY <1>10, TaskStep
<1>11. CASE _cleanup \/ crash \/ cleanup_old_sessions
  BY <1>11, OffSteps
<1>12. CASE UNCHANGED <<sessionVars, terminalVars>>
  <2>1. UNCHANGED <<session, disk, at, undo_stack, file, base, touched, added, decided, lost>>
    BY <1>12 DEF sessionVars, terminalVars
  <2>2. Waits' = Waits /\ OnDisk' = OnDisk
    BY <2>1 DEF Waits, OnDisk, Loadable, Loaded
  <2> QED BY <2>1, <2>2 DEF TermInv, TerminalTypes, UndoInv, SaveInv
<1>13. _cmd_apply => _apply_changes \/ _apply_changes_fails
  BY DEF _cmd_apply
<1> QED BY <1>1, <1>2, <1>3, <1>4, <1>5, <1>6, <1>7, <1>8, <1>9, <1>10, <1>11, <1>12, <1>13
        DEF TerminalNext

\* The terminal's changes, undo stack and saved session, at each place of its
\* loop (cli/app.py).
THEOREM TerminalInvariant == TerminalSpec => []TermInv
<1>1. TerminalInit => TermInv
  <2> SUFFICES ASSUME TerminalInit PROVE TermInv
    OBVIOUS
  <2>1. NoSession \in SessionType /\ EmptyDir \in DiskType
    <3>1. <<>> \in Seq(SavedDiff) /\ <<>> \in Seq(Change) /\ {} \in SUBSET Role
      OBVIOUS
    <3>2. NoSession \in SessionType
      BY <3>1 DEF NoSession, SessionType, SessionState, Profile
    <3> QED BY <3>1, <3>2 DEF EmptyDir, DiskType, SavedIn
  <2>2. file \in [Path -> Held] /\ <<>> \in Seq(Path \X Held)
    BY DEF TerminalInit, Held
  <2>3. TerminalTypes
    BY <2>1, <2>2 DEF TerminalInit, SessionInit, TerminalTypes
  <2> QED BY <2>3 DEF TermInv, TerminalInit, UndoInv, SaveInv, OnDisk, Waits
<1> QED BY <1>1, TerminalSteps, PTL DEF TerminalSpec

\* A change that was put before the user is found again until it is decided: in
\* the session while the program runs and on disk when it does not, also when a
\* batch was applied in part, the session was paused or ended, or an error ended
\* it.  Only a crash or the cleaning of old sessions takes it (_cleanup, save,
\* load, _apply_changes).
THEOREM ChangesAreKept == TerminalSpec => []NoChangeVanishes
<1>1. TermInv => NoChangeVanishes
  BY DEF TermInv, SaveInv, OnDisk, Waits, NoChangeVanishes
<1> QED BY <1>1, TerminalInvariant, PTL

\* Undoing every change that is left on the stack gives back the files as they
\* were when the program was started, for any number of changes to any files,
\* applied together, in part or after undoing others, as long as nothing else
\* wrote the file and no write of it failed (_cmd_undo, _undo_stack).
THEOREM UndoGivesBack == TerminalSpec => []UndoRestoresOriginals
<1>1. TermInv => UndoRestoresOriginals
  <2> SUFFICES ASSUME TermInv, at # "off", NEW p \in Path \ touched
               PROVE  LET i == SelectInSeq(undo_stack, LAMBDA u : u[1] = p)
                      IN  base[p] = IF i = 0 THEN file[p] ELSE undo_stack[i][2]
    BY DEF UndoRestoresOriginals
  <2> DEFINE places == {i \in 1..Len(undo_stack) : undo_stack[i][1] = p}
  <2>1. undo_stack \in Seq(Path \X Held) /\ Traced(undo_stack, file[p], base[p], p)
    BY DEF TermInv, TerminalTypes, UndoInv
  <2>2. CASE places = {}
    <3>1. base[p] = file[p]
      <4>1. \A i \in DOMAIN undo_stack : undo_stack[i][1] # p
        BY <2>1, <2>2
      <4> QED BY <2>1, <4>1 DEF Traced
    <3> QED BY <2>2, <3>1 DEF SelectInSeq
  <2>3. CASE places # {}
    <3> DEFINE first == CHOOSE i \in places : \A j \in places : i <= j
    <3>1. places \subseteq Nat /\ places \subseteq 1..Len(undo_stack)
      BY <2>1
    <3>2. first \in places /\ \A j \in places : first <= j
      <4> HIDE DEF places
      <4>1. \E i \in places : \A j \in places : i <= j
        BY <2>3, <3>1, LeastNumber
      <4> QED BY <4>1
    <3>3. SelectInSeq(undo_stack, LAMBDA u : u[1] = p) = first
      BY <2>3 DEF SelectInSeq, Min
    <3> HIDE DEF first
    <3>4. /\ first \in DOMAIN undo_stack /\ undo_stack[first][1] = p /\ first # 0
          /\ \A j \in 1..(first - 1) : undo_stack[j][1] # p
      BY <2>1, <3>1, <3>2
    <3>5. base[p] = undo_stack[first][2]
      BY <2>1, <3>4 DEF Traced
    <3> QED BY <3>3, <3>4, <3>5
  <2> QED BY <2>2, <2>3
<1> QED BY <1>1, TerminalInvariant, PTL
=============================================================================
