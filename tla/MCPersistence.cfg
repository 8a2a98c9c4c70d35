SPECIFICATION Spec
CONSTANTS
    MaxPatterns = 2
    MaxNodes = 6
    MaxEdges = 4
    MaxSignals = 2
    MaxEntries = 2
    Quality <- Qualities
    KeepOf <- KeepCounts
    Writer = {p1, p2}
    Update <- Updates
    MaxUpdates = 3
    MaxCrashes = 1
    Run = {r1, r2}
    File = {f1, f2}
    MaxCheckpoints = 2
    MaxCreated = 3
    MaxFailures = 1
    RunId = {1, 2, 3}
    Task = {a1, a2}
    Path = {b}
    KeepCount = 1
    MaxSaves = 4
    MaxEvents = 1
INVARIANTS
    MemoryKeeps
    GraphClosed
    HighQualityKept
    CheckpointsUsable
PROPERTIES
    StoreIsAtomic
    CleanupKeepsRecent
CHECK_DEADLOCK FALSE
SYMMETRY WriterSymmetry
