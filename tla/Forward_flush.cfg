SPECIFICATION ForwardFairSpec
CONSTANTS
    Destinations = {1, 2}
    Aggregating = {2}
    OutboundCapacity = 1
    ReplayLimit = 2
    PeekLimit = 2
    max_retries = 1
    MaxErrors = 2
    MaxForwardFaults = 0
    MaxCommitFaults = 0
    MaxForwardCrashes = 0
PROPERTY RollupsAreFlushed
CHECK_DEADLOCK FALSE
