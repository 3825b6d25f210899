CONSTANTS
    Threads = {t1}
    Channels = {c1}
    NoChannel = none
    MaxOutstanding = 1
    HandoffCapacity = 2
    AckBatchMax = 1
    MaxBatches = 2
    MaxAckStarts = 2
SPECIFICATION AckSpec
INVARIANTS ToldIsOnDisk
CHECK_DEADLOCK FALSE
