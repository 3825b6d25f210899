CONSTANTS
    p1 = p1
    p2 = p2
    SegmentRecords <- MCSegmentRecords
    SameMs = TRUE
    BatchMax = 2
    MaxRecords = 2
    MaxStarts = 2
    Partitions = {p1}
    Layouts <- MCOne
    MinFiles = 4
    MaxCompacted = 4
    MaxFaults = 0
SPECIFICATION MergeSpec
PROPERTIES StoreKeepsRows
CHECK_DEADLOCK FALSE
