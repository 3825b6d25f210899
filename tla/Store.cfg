SPECIFICATION StoreSpec
CONSTANTS
    \* PartsStore
    Parts = {p1, p2}
    PartSize <- MCPartSize
    Slots = {s1, s2}
    Fetchers = {s2}
    PartsBudget = 1
    MAX_PART_BYTES = 1
    MaxPuts = 2
    MaxStoreFaults = 1
    \* Replicate
    MaxKey = 3
    PART_LEN = 2
    PAGE_SIZE = 2
    MaxSourceChanges = 1
    MaxTransferFaults = 2
    \* Restore
    MaxParts = 2
    Layouts = {"error", "info"}
    MaxRestores = 2
    MaxRestoreFaults = 1
    \* Reclaim
    Files = {1, 2, 3}
    Bytes <- MCBytes
    HourOf <- MCHourOf
    BucketOf <- MCBucketOf
    Policies <- MCPolicies
    PinBytes = 8
    PinAge = 1
    WalBytes = {0, 1}
    MaxHour = 2
    MaxFaults = 1
    \* Migrate
    StoreRows = {1, 2, 3}
    MigrateHourOf <- MCMigrateHourOf
    OldFiles = {a, b}
    CurrentFiles = {c}
    a = a
    b = b
    c = c
    MaxMigrateStops = 2
    \* Auth
    Handlers = {"h1"}
    KID_REFRESH_SECS = 2
    CLOCK_SKEW = 1
    S3_TTL = 1
    MaxGeneration = 2
    MaxAuthClock = 2
    MaxAuthFaults = 1
    MaxAuthRestarts = 2
    MaxCredentials = 1
    \* S3Serve
    StoreKeys <- MCStoreKeys
    HiddenKeys <- MCHiddenKeys
    PartKeys <- MCPartKeys
    ListRequests <- MCListRequests
    Readers <- MCReaders
    VersionLen <- MCVersionLen
    Pins = {"match", "etag"}
    RangeBytes = 1
    MaxTreeChanges = 1
    MaxS3Requests = 4
    \* TypedColumns
    Batches <- MCBatches
    ColumnOf <- MCColumnOf
    NoColumn = "none"
    F64_EXACT_INT = 1
    max_per_service = 1
    max_columns = 2
    min_rows = 1
    MinPresencePercent = 50
    MinTypePercent = 95
    MaxSegments = 3
    MaxColumnCrashes = 1
    MaxCatalogLosses = 1
    \* Templates
    RawLines <- MCRawLines
    Placeholders = {"<*>", "<NUM>"}
    TokenLevels = 1
    max_children = 2
    max_templates = 1
    SimilarityPercent = 60
    MaxMined = 2
    MaxForeign = 1
    MaxMinerCrashes = 1
INVARIANTS PartsInv ReplicateInv RestoreInv MigrateInv AuthInv ColumnsInv
PROPERTIES ReclaimPromise S3Promise TemplatesPromise
CHECK_DEADLOCK FALSE
