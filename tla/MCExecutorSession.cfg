SPECIFICATION Spec
CONSTANTS
    TaskId <- MCTaskId
    Plans <- SmallPlans
    Change = {c1, c2}
    Issue = {i1}
    NoTask = NoTask
    None = None
    MaxLoopIterations = 2
    MaxFixIterations = 1
    MaxPlanningCycles = 3
    Extension = 2
    IterationCap = 8
    MaxRollbacks = 1
    MaxExtraTasks = 2
INVARIANTS
    IterationBudget
    PauseMeansBudgetSpent
PROPERTIES
    EveryStepNearsTheEnd
CHECK_DEADLOCK FALSE
