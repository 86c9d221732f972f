CONSTANTS
    Names <- MCNames
    PoolStages = {"partial_pool_found", "pool_missing"}
    Durations = {1, 2}
    Relays = {r1}
    Results = {"accepted", "submit_failed"}
    Selectors = {1, 2}
    Setups <- MCSetups
    Retention = 0
    LogRetention = 0
    RejectCap = 2
    SelectorCap = 1
    RecentCap = 2
    TrailCap = 2
    MaxClock = 1
    MaxRecords = 3
    MaxFaults = 1
    MaxClears = 1
SPECIFICATION Spec
CHECK_DEADLOCK FALSE
INVARIANTS
    BooksAgree
    ClearedEventsReturnOnlyByRace
PROPERTIES
    LedgerSpec
    RetentionKeepsRecent
    OutcomesSettle
