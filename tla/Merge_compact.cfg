CONSTANTS
    p1 = p1
    p2 = p2
    SegmentRecords <- MCOneRecordSegments
    SameMs = FALSE
    BatchMax = 1
    MaxRecords = 2
    MaxStarts = 1
    Partitions = {p1, p2}
    Layouts <- MCMoved
    MinFiles = 2
    MaxCompacted = 4
    MaxFaults = 2
SPECIFICATION MergeSpec
INVARIANTS MergeInv CatalogOnDisk
PROPERTIES StoreKeepsRows
CHECK_DEADLOCK FALSE
