SPECIFICATION PeersSpec
CONSTANTS
    \* PeerIngest
    Producers = {"main"}
    Record <- MCRecord
    ClassOf <- MCClassOf
    Capacity = 2
    MaxReceived = 20
    Senders = {"s1", "s2"}
    BatchOf <- MCBatchOf
    PeerPending = 1
    MaxAbandoned = 1
    MaxCount = 0
    MaxTickets = 2
    Signals = TRUE
    Failures = TRUE
    Pressures = {TRUE, FALSE}
    \* PeerSync
    SegmentBytes = 5
    MaxTotalBytes = 8
    MaxSpoolFaults = 1
    MaxOffered = 3
    TAP_CAPACITY = 1
    FRAMES_PER_PASS = 2
    MaxTargets = 1
    MaxFetches = 0
    \* PeerPlanner
    Records = {1, 2}
    Severity <- MCSeverity
    ServiceOf <- MCServiceOf
    TemplateOf <- MCTemplateOf
    PercentOf <- MCPercentOf
    PlannerConfigs <- MCConfigs
    WINDOW = 2
    GRACE = 1
    LOOKBACK = 1
    BOOST = 2
    QUIET = 2
    LEARN = 1
    RING_MAX = 1
    MaxNow = 4
    MaxFindings = 1
    MaxRestarts = 1
    \* PeerSignals
    Pairs <- MCPairs
    Traces = {"t", "u"}
    SILENCE_BUCKETS = 1
    FORGET_AFTER_QUIET = 2
    MAX_KEYS = 2
    MAX_SET = 1
    MAX_TRACES = 1
    MaxBuckets = 3
    \* PeerHops
    HopNodes <- MCHopNodes
    HopLinks <- MCHopLinks
    HopEvents <- MCHopEvents
    MAX_HOPS = 4
    MaxForgets = 1
    MaxResends = 1
    \* PartsEdge
    Files = {"f1", "f2"}
    Contents = {"c1", "c2"}
    ATTEMPTS = 2
    MaxRuns = 2
    MaxLost = 1
    MaxEdgeCrashes = 1
    MaxSweeps = 1
    \* Ring
    LineSources <- MCLineSources
    LineTemplates = {"l"}
    ErrorTemplates = {"e", "f"}
    shard_budget = 4
    max_lines_per_key = 3
    max_context_lines = 2
    context_age = 1
    dedupe_window = 2
    MINUTE = 2
    windows_per_minute = 1
    max_windows_per_minute = 2
    MaxFlows = 2
    MaxRingClock = 3
    MaxLines = 4
    \* Forward
    Destinations = {1, 2}
    Aggregating = {2}
    OutboundCapacity = 1
    ReplayLimit = 2
    PeekLimit = 2
    max_retries = 1
    MaxErrors = 2
    MaxForwardFaults = 2
    MaxCommitFaults = 1
    MaxForwardCrashes = 1
    \* Sentry
    SdkEnvelopes <- MCSdkEnvelopes
    SampledIds = {2}
    UpstreamAuthMode = "relay"
    UpstreamDsn = TRUE
    RoutedProjects = {"q"}
    SpoolConfigured = TRUE
    SentrySpoolCap = 2
    SentryPeek = 2
    max_attempts = 2
    LimitSeconds = {1}
    MaxSentryClock = 1
    MaxSentryPosts = 2
    MaxSentryFaults = 2
INVARIANTS PeerInv PeerSyncInv HopsInv RingInv ForwardInv
PROPERTIES PlannerPromise SignalsPromise PartsEdgePromise SentryPromise
CHECK_DEADLOCK FALSE
