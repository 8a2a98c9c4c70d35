\* A thread that an interrupt leaves running.
SPECIFICATION Spec
CONSTANTS
    Change <- Changes
    MaxStarts = 2
    MaxTasks = 2
    MaxFaults = 1
    MaxTurns = 3
INVARIANTS
    InterruptStopsTheRun
CHECK_DEADLOCK FALSE
