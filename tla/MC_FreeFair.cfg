SPECIFICATION SuiteFairSpec
CONSTANTS
    r1 = r1
    r2 = r2
    t1 = t1
    t2 = t2
    t3 = t3
    b1 = b1
    b2 = b2
    NoTask = NoTask
    NoBatch = NoBatch
    Rows = {r1}
    Tasks = {t1, t2}
    RowOf <- OneRow
    BatchOf <- SharedBatch
    TTL = 1
    Punctual = FALSE
    NoManager = NoManager
    Managers = {m1}
    OwnerTTL = 2
    MaxEpoch = 2
    MaxReleases = 3
    OwnerPunctual = FALSE
    Sequential = FALSE
    Retries = TRUE
    BalanceKeys = {}
    OutboxCapacity = 1
    StallAfter = 1
    LastInstant = 0
PROPERTIES
    TaskCompletes
    IdleYields
    OutboxDrains
CHECK_DEADLOCK FALSE
