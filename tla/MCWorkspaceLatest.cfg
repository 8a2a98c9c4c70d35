\* More checkpoints than are kept.
SPECIFICATION Spec
CONSTANTS
    p1 = p1
    p2 = p2
    empty = empty
    c1 = c1
    c2 = c2
    Path <- MCPath
    Stem <- MCStem
    Content = {empty, c1}
    Large = {}
    Torn = empty
    AsText <- MCAsText
    Absent = Absent
    NoCheckpoint = NoCheckpoint
    MaxFiles = 2
    MaxCheckpoints = 2
    Kinds = {"delete", "content"}
    MaxBatch = 1
    MaxBatches = 0
    MaxMade = 6
    MaxEdits = 0
    MaxSeconds = 0
INVARIANT LatestIsKept
CHECK_DEADLOCK FALSE
SYMMETRY MCPathSymmetry
