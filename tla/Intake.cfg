SPECIFICATION IntakeSpec
CONSTANTS
    \* SplitWal
    SegmentRecords <- MCSegmentRecords
    SameMs = FALSE
    BatchMax = 2
    MaxRecords = 3
    MaxStarts = 2
    \* IngestQueue
    Producers = {a, b}
    Record <- MCRecord
    ClassOf <- MCClassOf
    Capacity = 2
    MaxReceived = 5
    \* AckTable
    Threads = {t1, t2}
    Channels = {c1}
    NoChannel = none
    MaxOutstanding = 1
    HandoffCapacity = 2
    AckBatchMax = 1
    MaxBatches = 2
    MaxAckStarts = 1
    \* HecRequests
    Connections = {1, 2}
    HecInputs <- MCHecInputs
    hecOpen = FALSE
    ack_enabled = TRUE
    Levels = {"info", "error"}
    LEVEL_SCAN_TOKENS = 2
    RefusedIndexes = {"lost"}
    MaxHecRequests = 2
    \* HttpServer
    Clients = {"c1", "c2"}
    Requests <- MCContended
    max_head_bytes = 2
    max_body_bytes = 1
    max_decompressed_bytes = 2
    max_connections = 1
    MaxSpawnFaults = 1
    \* OtlpGrpc
    GrpcStreams = {1, 2}
    Exports <- MCExports
    WINDOW = 4
    FirstWindow = 1
    MAX_CONCURRENT_STREAMS = 1
    max_message_bytes = 3
    ClientStreams = 2
    MaxWire = 1
    \* OtlpHttp
    Posts <- MCPosts
    Workers = {"w1", "w2"}
    ArrivalTime = 1
    MaxPosts = 3
    \* FileTail
    MaxLines = 2
    MaxInodes = 2
    MaxTruncates = 1
    MaxTailCrashes = 0
    Paths = {"p"}
    Matches <- MCMatches
    \* Globs
    GlobNames <- MCGlobNames
    Components <- MCComponents
    Trees <- MCTrees
    PathPatterns <- MCPathPatterns
    Rank <- MCRank
    \* Tenancy
    Configs <- MCTenancies
    Principals <- MCPrincipals
    Tokens <- MCTokens
    TenantRecords <- MCRecords
    LevelBuckets <- MCBuckets
    ClosedListeners = {"hec"}
    WholeLevel = {"hec"}
    Listeners = {"hec", "sentry"}
    MAX_COUNTED = 1
    MaxRequests = 2
    MaxConfigs = 1
    MaxBatch = 2
    \* Policy
    Operators = {o1, o2}
    o1 = o1
    o2 = o2
    Documents <- MCDocuments
    ConfigFiles <- MCConfigFiles
    AUDIT_COMPACT = 1
    AUDIT_KEEP = 1
    MIN_SAFE_QUEUE = 2
    MaxPartitions = 1
    MaxNow = 1
    MaxWrites = 2
    MaxPolicyCrashes = 1
    MaxAuditFaults = 0
INVARIANTS WalInv QueueInv HecInv HttpInv GrpcInv OtlpHttpInv FileTailInv GlobInv TenancyInv
PROPERTIES PublishedIsTrue ImplementsDurableLog AckPromise PolicyPromise NeverBlocksHere
CHECK_DEADLOCK FALSE
