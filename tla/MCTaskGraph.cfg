SPECIFICATION HalfSpec
CONSTANTS
    N = 3
    RepeatedDeps = FALSE
    TaskId <- MCTaskId
    Plans <- MCPlans
    Id <- MCId
    Subtasks <- MCSubtasks
INVARIANTS
    ReadyMeansDependenciesDone
    CycleReportedIffCyclic
PROPERTIES
    FailureReachesEveryDependent
    KahnFollowsOrder
CHECK_DEADLOCK FALSE
