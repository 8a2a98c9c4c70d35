\* All limits 0.
SPECIFICATION FairSpec
CONSTANTS
    TaskId <- MCTaskId
    Plans <- SmallPlans
    Change = {c1, c2}
    Issue = {i1}
    NoTask = NoTask
    None = None
    MaxLoopIterations = 0
    MaxFixIterations = 0
    MaxPlanningCycles = 0
    Extension = 1
    IterationCap = 4
    MaxRollbacks = 1
    MaxExtraTasks = 2
PROPERTY CallsEnd
CHECK_DEADLOCK FALSE
