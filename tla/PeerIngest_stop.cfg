CONSTANTS
    Producers = {"main"}
    Record <- MCRecord
    ClassOf <- MCClassOf
    Capacity = 2
    MaxReceived = 20
    Senders = {"s1"}
    BatchOf <- MCOneBatch
    PeerPending = 1
    MaxAbandoned = 1
    MaxCount = 0
    MaxTickets = 2
    Signals = TRUE
    Failures = FALSE
    Pressures = {FALSE}
SPECIFICATION PeerSpec
INVARIANTS OkMeansOnDisk
CHECK_DEADLOCK FALSE
