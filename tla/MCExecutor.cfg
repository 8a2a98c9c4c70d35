SPECIFICATION FairSpec
CONSTANTS
    TaskId <- MCTaskId
    Plans <- MCPlans
    Change = {c1, c2}
    Issue = {i1, i2}
    NoTask = NoTask
    None = None
    MaxLoopIterations = 9
    MaxFixIterations = 2
    MaxPlanningCycles = 2
    Extension = 2
    IterationCap = 11
    MaxRollbacks = 0
    MaxExtraTasks = 0
INVARIANTS
    DependenciesComplete
    OneTaskRunning
    NeedsMeansPaused
    FixesInBudget
PROPERTIES
    SuccessIsComplete
    CallsEnd
    ImplementsTaskRun
CHECK_DEADLOCK FALSE
