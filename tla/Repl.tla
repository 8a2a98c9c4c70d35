-------------------------------- MODULE Repl --------------------------------
(****************************************************************************)
(* The conversational prompt (src/cli/repl.py): the main thread starts a    *)
(* thread for each task and polls it; after Ctrl+C it waits ten seconds     *)
(* more, asks for a correction and starts the amended task.  Both write to  *)
(* the same holder of the result.  A thread is the number of its task.      *)
(****************************************************************************)
EXTENDS Integers, Sequences, FiniteSets

CONSTANT MaxTurns   \* bound: tasks started

ASSUME ReplAssumption == MaxTurns \in Nat

VARIABLES
    main,       \* the main thread: "prompt", "poll", "grace", "ask",
                \* "rebuild" or "ended"
    thread,     \* task -> what its thread does: "new", "runs" or "over"
    uses,       \* task -> the executor its thread uses, 0 before it does
    executors,  \* how many were built; the last one is _executor
    loop_event, \* executors whose controller was given the event
    holder,     \* _result_holder: whose result it is, or 0
    turns,      \* the session's turns: [task, result, interrupted]
    outlived    \* history: tasks whose thread went on after the wait

replVars == <<main, thread, uses, executors, loop_event, holder, turns, outlived>>

----------------------------------------------------------------------------
ReplInit ==
    /\ main = "prompt" /\ thread = <<>> /\ uses = <<>> /\ executors = 0
    /\ loop_event = {} /\ holder = 0 /\ turns = <<>> /\ outlived = {}

Task == Len(thread)

\* _run_task: the event and the result are cleared, and the thread is started.
_run_task_NotCleared ==
    /\ Task < MaxTurns
    /\ thread' = Append(thread, "new") /\ uses' = Append(uses, 0)
    /\ main' = "poll"
    /\ UNCHANGED <<loop_event, holder, outlived>>

_run_task ==
    /\ Task < MaxTurns
    /\ holder' = 0
    /\ thread' = Append(thread, "new") /\ uses' = Append(uses, 0)
    /\ main' = "poll"
    /\ UNCHANGED <<loop_event, outlived>>

\* run: the executor is built for the first task, and used for the next ones.
run ==
    /\ main = "prompt"
    /\ executors' = IF executors = 0 THEN 1 ELSE executors
    /\ _run_task
    /\ UNCHANGED turns

quit ==
    /\ main = "prompt" /\ main' = "ended"
    /\ UNCHANGED <<thread, uses, executors, loop_event, holder, turns, outlived>>

record_turn(task, result, interrupted) ==
    turns' = Append(turns, [task |-> task, result |-> result, interrupted |-> interrupted])

Unchanged == UNCHANGED <<thread, uses, executors, loop_event, holder>>

\* The thread is seen to be over: its result is recorded, if there is one.
join_returns ==
    /\ main = "poll" /\ thread[Task] = "over"
    /\ main' = "prompt"
    /\ IF holder # 0 THEN record_turn(Task, holder, FALSE) ELSE UNCHANGED turns
    /\ UNCHANGED outlived /\ Unchanged

KeyboardInterrupt ==
    /\ main = "poll" /\ main' = "grace"
    /\ UNCHANGED <<turns, outlived>> /\ Unchanged

\* The second join returns when the thread is over, or when the time is.
grace_ends ==
    /\ main = "grace" /\ main' = "ask"
    /\ outlived' = IF thread[Task] = "over" THEN outlived ELSE outlived \cup {Task}
    /\ UNCHANGED turns /\ Unchanged

\* _handle_interrupt: without a correction the task is recorded as abandoned.
abandon ==
    /\ main = "ask" /\ main' = "prompt"
    /\ record_turn(Task, 0, TRUE)
    /\ UNCHANGED outlived /\ Unchanged

\* With one, the executor is dropped and another is built for the amended task.
redirect ==
    /\ main = "ask" /\ main' = "rebuild"
    /\ record_turn(Task, 0, TRUE)
    /\ UNCHANGED outlived /\ Unchanged

rebuild ==
    /\ main = "rebuild"
    /\ executors' = executors + 1
    /\ _run_task
    /\ UNCHANGED turns

\* _executor_thread and _patch_loop_interrupt: the event goes to the controller
\* of the run before, when there was one; execute makes another.  While there is
\* no executor the thread returns.
_executor_thread(t) ==
    /\ thread[t] = "new"
    /\ thread' = [thread EXCEPT ![t] = IF main = "rebuild" THEN "over" ELSE "runs"]
    /\ uses' = [uses EXCEPT ![t] = IF main = "rebuild" THEN 0 ELSE executors]
    /\ loop_event' = IF uses'[t] \in {uses[u] : u \in DOMAIN uses} \ {0}
                     THEN loop_event \cup {uses'[t]} ELSE loop_event
    /\ UNCHANGED <<main, executors, holder, turns, outlived>>

\* execute returns, or raises: then there is no result.  Nothing looks at the
\* event, so an interrupt ends no run.
execute_ends(t, raises) ==
    /\ thread[t] = "runs"
    /\ thread' = [thread EXCEPT ![t] = "over"]
    /\ holder' = IF raises THEN holder ELSE t
    /\ UNCHANGED <<main, uses, executors, loop_event, turns, outlived>>

ReplNext ==
    \/ run \/ quit \/ join_returns \/ KeyboardInterrupt \/ grace_ends \/ abandon \/ redirect
    \/ rebuild
    \/ \E t \in DOMAIN thread : _executor_thread(t) \/ \E r \in BOOLEAN : execute_ends(t, r)

ReplSpec == ReplInit /\ [][ReplNext]_replVars

----------------------------------------------------------------------------
(* What a turn records as the result of a task is the result of that task,  *)
(* unless it is that of a task whose thread was left running when the wait  *)
(* after an interrupt was over.                                             *)
TurnIsOwn == \A i \in DOMAIN turns :
    ~turns[i].interrupted => turns[i].result \in {turns[i].task} \cup outlived

(* "Inject our interrupt_event into LoopController so it stops cleanly when *)
(* the user presses Ctrl+C." (repl.py:198-199): when the user is asked what *)
(* to change, or starts the next task, the interrupted run has stopped.     *)
InterruptStopsTheRun ==
    main \in {"prompt", "ask", "poll"} => Cardinality({t \in DOMAIN thread : thread[t] # "over"}) <= 1
=============================================================================
