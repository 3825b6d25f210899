CONSTANTS
    p1 = p1
    p2 = p2
    SegmentRecords <- MCSegmentRecords
    SameMs = FALSE
    BatchMax = 2
    MaxRecords = 2
    MaxStarts = 2
    Partitions = {p1, p2}
    Layouts <- MCTwo
    MinFiles = 4
    MaxCompacted = 4
    MaxFaults = 1
SPECIFICATION MergeSpec
INVARIANTS MergeInv NoDuplicateRows
PROPERTIES MergeImplementsDurableLog
CHECK_DEADLOCK FALSE
