SPECIFICATION SuiteSpec
CONSTANTS
    r1 = r1
    r2 = r2
    t1 = t1
    t2 = t2
    t3 = t3
    b1 = b1
    b2 = b2
    NoTask = NoTask
    NoBatch = NoBatch
    Rows = {r1, r2}
    Tasks = {t1, t2, t3}
    RowOf <- TwoRows
    BatchOf <- SharedBatch
    TTL = 1
    Punctual = TRUE
    NoManager = NoManager
    Managers = {m1, m2}
    OwnerTTL = 2
    MaxEpoch = 3
    MaxReleases = 3
    OwnerPunctual = TRUE
    Sequential = TRUE
    Retries = FALSE
    Requests = {q1, q2}
    Origins = {auth}
    Threshold = 2
    RecoveryRounds = 2
    Baseline = 1
    Ceiling = 1
    RestoreSuccesses = 1
    LateDecisions = FALSE
    LateToggles = FALSE
    RetryLimit = 1
    SwitchLimit = 1
    PageLimit = 2
    RoundLimit = 2
    ResendLimit = 1
    MaxEnroll = 2
    MaxManual = 1
    MaxSetupCrashes = 1
    AutoPassword = TRUE
    AutoTwofa = TRUE
    TwofaLimit = 1
    PasswordLimit = 1
    ThrottleLimit = 1
    Components = {"mailbox", "owner", "guard", "signup", "setup"}
SYMMETRY RowSymmetry
INVARIANTS
    GrantIsDurable
    HandedBack
    BatchIsOwned
    PausedGateIsProbed
    OutageShutsGate
    AddressIsPostedOnce
    SessionsAreBounded
    CredentialsAreKept
    RetriesAreBounded
PROPERTIES
    LeaseShields
    NoGrantOverResult
CHECK_DEADLOCK FALSE
