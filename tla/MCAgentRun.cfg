SPECIFICATION Spec
CONSTANTS
    Model = {m1, m2}
    NoModel = NoModel
    SubtaskId = {1, 2, 3}
    MaxSubtasks = 2
    MaxSteps = 3
    MaxFiles = 1
    MaxLines = 1
    MaxRetries = 1
    Budget = 4
    Floor = 1
    Prompts <- PromptSizes
    Inputs <- InputsOf
    Answers <- AnswersOf
    Reviewed <- Issue
    MaxRuns = 2
INVARIANTS
    OneModelResident
    ApprovalIsClean
    PlanIsRunnable
    NamesWhoRuns
CHECK_DEADLOCK FALSE
