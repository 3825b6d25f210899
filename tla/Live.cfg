SPECIFICATION LiveSpec
CONSTANTS
    \* SplitWal
    SegmentRecords <- MCSegmentRecords
    SameMs = FALSE
    BatchMax = 2
    MaxRecords = 2
    MaxStarts = 2
    \* AckTable
    Threads = {t1}
    Channels = {c1}
    NoChannel = none
    MaxOutstanding = 1
    HandoffCapacity = 2
    AckBatchMax = 1
    MaxBatches = 2
    MaxAckStarts = 2
    \* PeerIngest
    Producers = {"main"}
    Record <- MCRecord
    ClassOf <- MCClassOf
    Capacity = 2
    MaxReceived = 20
    Senders = {"s1"}
    BatchOf <- MCOneBatch
    PeerPending = 1
    MaxAbandoned = 1
    MaxCount = 2
    MaxTickets = 2
    Signals = TRUE
    Failures = TRUE
    Pressures = {FALSE}
    \* PeerSync
    SegmentBytes = 5
    MaxTotalBytes = 9
    MaxSpoolFaults = 1
    MaxOffered = 2
    TAP_CAPACITY = 1
    FRAMES_PER_PASS = 2
    MaxTargets = 0
    MaxFetches = 1
    \* FileTail
    MaxLines = 1
    MaxInodes = 2
    MaxTruncates = 0
    MaxTailCrashes = 1
    Paths = {"p"}
    Matches <- MCMatches
    \* PartsEdge
    Files = {"f1", "f2"}
    Contents = {"c1", "c2"}
    ATTEMPTS = 2
    MaxRuns = 1
    MaxLost = 1
    MaxEdgeCrashes = 1
    MaxSweeps = 1
    \* Replicate
    MaxKey = 3
    PART_LEN = 2
    PAGE_SIZE = 2
    MaxSourceChanges = 1
    MaxTransferFaults = 1
    \* Auth
    Handlers = {"h1"}
    KID_REFRESH_SECS = 2
    CLOCK_SKEW = 1
    S3_TTL = 1
    MaxGeneration = 3
    MaxAuthClock = 1
    MaxAuthFaults = 1
    MaxAuthRestarts = 1
    MaxCredentials = 0
    \* HttpServer
    Clients = {"c1"}
    Requests <- MCRequests
    max_head_bytes = 2
    max_body_bytes = 1
    max_decompressed_bytes = 2
    max_connections = 1
    MaxSpawnFaults = 1
    \* Forward
    Destinations = {1, 2}
    Aggregating = {2}
    OutboundCapacity = 1
    ReplayLimit = 2
    PeekLimit = 2
    max_retries = 1
    MaxErrors = 2
    MaxForwardFaults = 1
    MaxCommitFaults = 0
    MaxForwardCrashes = 1
    \* OtlpGrpc
    GrpcStreams = {1, 2}
    Exports <- MCExports
    WINDOW = 4
    FirstWindow = 1
    MAX_CONCURRENT_STREAMS = 2
    max_message_bytes = 3
    ClientStreams = 2
    MaxWire = 1
    \* Sentry
    SdkEnvelopes <- MCSdkEnvelopes
    SampledIds = {2}
    UpstreamAuthMode = "relay"
    UpstreamDsn = TRUE
    RoutedProjects = {"q"}
    SpoolConfigured = TRUE
    SentrySpoolCap = 2
    SentryPeek = 2
    max_attempts = 2
    LimitSeconds = {1}
    MaxSentryClock = 1
    MaxSentryPosts = 1
    MaxSentryFaults = 2
    \* Globs
    GlobNames <- MCFewNames
    Components <- MCFewComponents
    Trees <- MCTrees
    PathPatterns <- MCPathPatterns
    Rank <- MCRank
PROPERTIES LiveServes LiveEnds
CHECK_DEADLOCK FALSE
