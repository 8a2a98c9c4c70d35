\* A checkpoint that could not read a file.
SPECIFICATION Spec
CONSTANTS
    p1 = p1
    p2 = p2
    empty = empty
    c1 = c1
    c2 = c2
    Path <- MCPath
    Stem <- MCStem
    Content = {empty, c1}
    Large = {}
    Torn = empty
    AsText <- MCAsText
    Absent = Absent
    NoCheckpoint = NoCheckpoint
    MaxFiles = 2
    MaxCheckpoints = 2
    Kinds = {"delete", "content"}
    MaxBatch = 1
    MaxBatches = 1
    MaxMade = 1
    MaxEdits = 0
    MaxSeconds = 0
PROPERTY KeepsExistingFiles
CHECK_DEADLOCK FALSE
SYMMETRY MCPathSymmetry
