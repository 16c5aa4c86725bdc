SPECIFICATION SuiteFairSpec
CONSTANTS
    Requests = {q1}
    Origins = {auth}
    Threshold = 2
    RecoveryRounds = 2
    Baseline = 1
    Ceiling = 1
    RestoreSuccesses = 1
    LateDecisions = FALSE
    LateToggles = FALSE
    Accounts = {a1}
    MaxJobs = 2
    QueueLimit = 2
    MaxHealthy = 1
    MaxCheckCrashes = 1
    NoAccount = NoAccount
    PoolSlots = {s1}
    PoolCalls = {c1}
    NoSlot = NoSlot
    MaxContexts = 1
    MaxRegistrations = 1
    MaxDeaths = 1
    LateDeadlines = FALSE
    ClosesMeetDeaths = FALSE
INVARIANTS
    ChecksAreKept
PROPERTIES
    GateReopens
    LiveIsAnswered
    DeadIsReplaced
CHECK_DEADLOCK FALSE
