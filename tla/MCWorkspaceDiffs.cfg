\* A batch of up to three diffs, applied and undone, and an edit from outside.
SPECIFICATION Spec
CONSTANTS
    p1 = p1
    p2 = p2
    empty = empty
    c1 = c1
    c2 = c2
    Path <- MCPath
    Stem <- MCStem
    Content = {empty, c1, c2}
    Large = {}
    Torn = empty
    AsText <- MCAsText
    Absent = Absent
    NoCheckpoint = NoCheckpoint
    MaxFiles = 3
    MaxCheckpoints = 2
    Kinds = {"create_hunks", "modify_hunks"}
    MaxBatch = 3
    MaxBatches = 1
    MaxMade = 0
    MaxEdits = 1
    MaxSeconds = 1
INVARIANTS
    UndoRestoresBatch
    UndoRetraces
CHECK_DEADLOCK FALSE
SYMMETRY MCPathSymmetry
