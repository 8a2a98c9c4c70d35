SPECIFICATION Spec
CONSTANTS
    TaskId <- MCTaskId
    Plans <- SmallPlans
    Change = {c1, c2}
    Issue = {i1}
    NoTask = NoTask
    None = None
    MaxLoopIterations = 3
    MaxFixIterations = 1
    MaxPlanningCycles = 1
    Extension = 2
    IterationCap = 8
    MaxRollbacks = 0
    MaxExtraTasks = 0
PROPERTY BlockedTaskIsPassedOver
CHECK_DEADLOCK FALSE
