--------------------------- MODULE LoopController ---------------------------
(****************************************************************************)
(* The controller that meters a run (src/orchestration/loop_controller.py): *)
(* its state machine, the iteration, fix and planning counters with their   *)
(* limits, the run's clock, and how a run pauses, resumes and terminates.   *)
(* agent_retries, token totals and statistics are written and never read by *)
(* the executor, and are left out.                                          *)
(****************************************************************************)
EXTENDS Integers

CONSTANTS
    MaxLoopIterations,  \* limits.iterations.max_loop_iterations
    MaxFixIterations,   \* limits.iterations.max_fix_iterations
    MaxPlanningCycles,  \* limits.iterations.max_planning_cycles
    Extension,          \* iterations granted when the user continues
    IterationCap        \* bound of the model: no caller extends beyond it

ASSUME LimitsAssumption ==
    /\ MaxLoopIterations \in Nat /\ MaxFixIterations \in Nat
    /\ MaxPlanningCycles \in Nat /\ Extension \in Nat
    /\ IterationCap \in Nat

VARIABLES
    state,              \* LoopState
    iterationCount,
    fixIterationCount,
    planningCycleCount,
    maxIterations,      \* the limit in force, raised by extend_iterations
    needsUserContinue,
    terminationReason,  \* TerminationReason, or "none"
    expired             \* more than max_run_seconds have passed since _start_time

loopVars == <<state, iterationCount, fixIterationCount, planningCycleCount,
              maxIterations, needsUserContinue, terminationReason, expired>>

----------------------------------------------------------------------------
LoopState ==
    {"IDLE", "PLANNING", "EXECUTING", "REVIEWING", "FIXING",
     "COMPLETED", "FAILED", "TIMEOUT", "ABORTED", "PAUSED"}

FailureReason ==
    {"MAX_ITERATIONS", "MAX_FIX_ITERATIONS", "FATAL_ERROR", "ALL_TASKS_COMPLETE",
     "UNRECOVERABLE_FAILURE"}

TerminationReason ==
    FailureReason \cup {"SUCCESS", "TIMEOUT", "USER_ABORT", "PAUSED_FOR_USER"}

AgentType == {"planner", "coder", "reviewer", "fixer"}

IsRunning  == state \in {"PLANNING", "EXECUTING", "REVIEWING", "FIXING"}
IsPaused   == state = "PAUSED"
IsTerminal == state \in {"COMPLETED", "FAILED", "TIMEOUT", "ABORTED"}

CanFixAgain == fixIterationCount < MaxFixIterations
CanReplan   == planningCycleCount < MaxPlanningCycles

\* begin_iteration's state_map.
StateOf(agent) ==
    CASE agent = "planner"  -> "PLANNING"
      [] agent = "coder"    -> "EXECUTING"
      [] agent = "reviewer" -> "REVIEWING"
      [] agent = "fixer"    -> "FIXING"

\* Faulty variant: the reason itself is stored as the state.
TerminalStateOf_Reason(reason) == reason

\* The state _terminate moves to.
TerminalStateOf(reason) ==
    CASE reason = "SUCCESS"         -> "COMPLETED"
      [] reason = "TIMEOUT"         -> "TIMEOUT"
      [] reason = "USER_ABORT"      -> "ABORTED"
      [] reason = "PAUSED_FOR_USER" -> "PAUSED"
      [] OTHER                      -> "FAILED"

----------------------------------------------------------------------------
LoopInit ==
    /\ state = "IDLE"
    /\ iterationCount = 0 /\ fixIterationCount = 0 /\ planningCycleCount = 0
    /\ maxIterations = MaxLoopIterations
    /\ needsUserContinue = FALSE
    /\ terminationReason = "none"
    /\ expired = FALSE

\* The constructor: the executor builds a new controller for every run.
NewController ==
    /\ state' = "IDLE"
    /\ iterationCount' = 0 /\ fixIterationCount' = 0 /\ planningCycleCount' = 0
    /\ maxIterations' = MaxLoopIterations
    /\ needsUserContinue' = FALSE
    /\ terminationReason' = "none"
    /\ expired' = FALSE

start ==
    /\ state' = "PLANNING"
    /\ expired' = FALSE
    /\ UNCHANGED <<iterationCount, fixIterationCount, planningCycleCount,
                   maxIterations, needsUserContinue, terminationReason>>

\* The clock of perf_counter passes _start_time + max_run_seconds.
ClockExpires ==
    /\ ~expired /\ state # "IDLE"
    /\ expired' = TRUE
    /\ UNCHANGED <<state, iterationCount, fixIterationCount, planningCycleCount,
                   maxIterations, needsUserContinue, terminationReason>>

\* _terminate, which complete_success, complete_failure, abort and
\* decline_continue call.
Terminate(reason) ==
    /\ terminationReason' = reason
    /\ state' = TerminalStateOf(reason)
    /\ UNCHANGED <<iterationCount, fixIterationCount, planningCycleCount,
                   maxIterations, needsUserContinue, expired>>

\* begin_iteration, when the run is out of time: LoopTimeoutError is raised.
begin_iteration_TimesOut ==
    /\ expired
    /\ Terminate("TIMEOUT")

\* begin_iteration, at the iteration limit: it returns None.
begin_iteration_Pauses ==
    /\ ~expired
    /\ iterationCount >= maxIterations
    /\ needsUserContinue' = TRUE
    /\ state' = "PAUSED"
    /\ UNCHANGED <<iterationCount, fixIterationCount, planningCycleCount,
                   maxIterations, terminationReason, expired>>

\* Faulty variant: the limit is tested with > and not with >=.
begin_iteration_OffByOne(agent) ==
    /\ ~expired
    /\ iterationCount <= maxIterations
    /\ state' = StateOf(agent)
    /\ iterationCount' = iterationCount + 1
    /\ planningCycleCount' = planningCycleCount + (IF agent = "planner" THEN 1 ELSE 0)
    /\ fixIterationCount' = fixIterationCount + (IF agent = "fixer" THEN 1 ELSE 0)
    /\ UNCHANGED <<maxIterations, needsUserContinue, terminationReason, expired>>

\* begin_iteration, with an iteration granted.
begin_iteration(agent) ==
    /\ ~expired
    /\ iterationCount < maxIterations
    /\ state' = StateOf(agent)
    /\ iterationCount' = iterationCount + 1
    /\ planningCycleCount' = planningCycleCount + (IF agent = "planner" THEN 1 ELSE 0)
    /\ fixIterationCount' = fixIterationCount + (IF agent = "fixer" THEN 1 ELSE 0)
    /\ UNCHANGED <<maxIterations, needsUserContinue, terminationReason, expired>>

reset_fix_counter ==
    /\ fixIterationCount' = 0
    /\ UNCHANGED <<state, iterationCount, planningCycleCount, maxIterations,
                   needsUserContinue, terminationReason, expired>>

\* Faulty variant: the planning cycles of the previous task still count.
reset_for_new_task_KeepsPlanning ==
    /\ state' = "PLANNING"
    /\ iterationCount' = 0 /\ fixIterationCount' = 0
    /\ terminationReason' = "none"
    /\ needsUserContinue' = FALSE
    /\ expired' = FALSE
    /\ UNCHANGED <<planningCycleCount, maxIterations>>

\* Faulty variant: the pause of the previous task is not cleared.
reset_for_new_task_KeepsPause ==
    /\ state' = "PLANNING"
    /\ iterationCount' = 0 /\ fixIterationCount' = 0 /\ planningCycleCount' = 0
    /\ terminationReason' = "none"
    /\ expired' = FALSE
    /\ UNCHANGED <<maxIterations, needsUserContinue>>

\* A new task in the same session.  The limit stays where it is.
reset_for_new_task ==
    /\ state' = "PLANNING"
    /\ iterationCount' = 0 /\ fixIterationCount' = 0 /\ planningCycleCount' = 0
    /\ terminationReason' = "none"
    /\ needsUserContinue' = FALSE
    /\ expired' = FALSE
    /\ UNCHANGED maxIterations

\* Faulty variant: the state is still PAUSED.
extend_iterations_StaysPaused ==
    /\ maxIterations' = maxIterations + Extension
    /\ needsUserContinue' = FALSE
    /\ UNCHANGED <<state, iterationCount, fixIterationCount, planningCycleCount,
                   terminationReason, expired>>

\* The user grants more iterations.  Neither the clock nor the reason of an
\* earlier termination is touched.
extend_iterations ==
    /\ maxIterations' = maxIterations + Extension
    /\ needsUserContinue' = FALSE
    /\ state' = "EXECUTING"
    /\ UNCHANGED <<iterationCount, fixIterationCount, planningCycleCount,
                   terminationReason, expired>>

decline_continue ==
    /\ needsUserContinue' = FALSE
    /\ terminationReason' = "MAX_ITERATIONS"
    /\ state' = TerminalStateOf("MAX_ITERATIONS")
    /\ UNCHANGED <<iterationCount, fixIterationCount, planningCycleCount,
                   maxIterations, expired>>

----------------------------------------------------------------------------
(* The controller on its own, its methods called in any order.              *)

LoopNext ==
    \/ state = "IDLE" /\ start
    \/ ClockExpires
    \/ begin_iteration_TimesOut
    \/ begin_iteration_Pauses
    \/ \E agent \in AgentType : begin_iteration(agent)
    \/ reset_fix_counter
    \/ reset_for_new_task
    \/ maxIterations + Extension <= IterationCap /\ extend_iterations
    \/ decline_continue
    \/ Terminate("SUCCESS")
    \/ Terminate("USER_ABORT")
    \/ \E reason \in FailureReason : Terminate(reason)

LoopSpec == LoopInit /\ [][LoopNext]_loopVars

----------------------------------------------------------------------------
\* The state is a LoopState, the reason a TerminationReason, and the counters
\* never go below zero.
LoopTypeOK ==
    /\ state \in LoopState
    /\ iterationCount \in Nat /\ fixIterationCount \in Nat
    /\ planningCycleCount \in Nat /\ maxIterations \in Nat
    /\ needsUserContinue \in BOOLEAN /\ expired \in BOOLEAN
    /\ terminationReason \in TerminationReason \cup {"none"}

\* No order of calls obtains an iteration beyond the limit in force, and the
\* iterations of planner and fixer are among those counted: no reset forgets
\* one counter and keeps another.
IterationBudget ==
    /\ iterationCount <= maxIterations
    /\ planningCycleCount + fixIterationCount <= iterationCount

\* The user is asked to continue only when the whole budget is spent, and that
\* is never less than a full one since the last reset or construction.
PauseMeansBudgetSpent ==
    needsUserContinue =>
        /\ iterationCount >= maxIterations
        /\ iterationCount >= MaxLoopIterations
=============================================================================
