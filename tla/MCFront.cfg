\* The terminal with two changes to one file, two starts and one fault; three
\* tasks at the conversational prompt.
SPECIFICATION Spec
CONSTANTS
    Change <- Changes
    MaxStarts = 2
    MaxTasks = 2
    MaxFaults = 1
    MaxTurns = 3
INVARIANTS
    NoChangeVanishes
    UndoRestoresOriginals
    KeptExecutorObeysProfile
    TurnIsOwn
CHECK_DEADLOCK FALSE
