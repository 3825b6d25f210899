SPECIFICATION TypedColumnsSpec
CONSTANTS
    Batches <- MCNotANumber
    ColumnOf <- MCColumnOf
    NoColumn = "none"
    F64_EXACT_INT = 1
    max_per_service = 1
    max_columns = 2
    min_rows = 1
    MinPresencePercent = 50
    MinTypePercent = 95
    MaxSegments = 3
    MaxColumnCrashes = 2
    MaxCatalogLosses = 1
INVARIANT AttributesSurvive
CHECK_DEADLOCK FALSE
