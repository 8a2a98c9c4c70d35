SPECIFICATION Spec
CONSTANTS
    Proc = {p1, p2}
    Old = Old
    Torn = Torn
    Absent = Absent
    MaxCalls = 3
SYMMETRY Processes
INVARIANT ExclusiveWriteLocks
