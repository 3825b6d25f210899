CONSTANTS
    Threads = {t1}
    Channels = {c1}
    NoChannel = none
    MaxOutstanding = 1
    HandoffCapacity = 2
    AckBatchMax = 1
    MaxBatches = 2
    MaxAckStarts = 1
SPECIFICATION AckFairSpec
PROPERTIES ChannelReopens
CHECK_DEADLOCK FALSE
