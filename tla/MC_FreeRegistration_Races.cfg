SPECIFICATION SuiteSpec
CONSTANTS
    r1 = r1
    r2 = r2
    t1 = t1
    t2 = t2
    t3 = t3
    b1 = b1
    b2 = b2
    NoTask = NoTask
    NoBatch = NoBatch
    Rows = {r1}
    Tasks = {t1, t2}
    RowOf <- OneRow
    BatchOf <- SharedBatch
    TTL = 2
    Punctual = FALSE
    NoManager = NoManager
    Managers = {m1, m2}
    OwnerTTL = 1
    MaxEpoch = 2
    MaxReleases = 1
    OwnerPunctual = FALSE
    Sequential = FALSE
    Retries = TRUE
    Requests = {q1, q2}
    Origins = {auth}
    Threshold = 2
    RecoveryRounds = 2
    Baseline = 1
    Ceiling = 2
    RestoreSuccesses = 1
    LateDecisions = TRUE
    LateToggles = TRUE
    RetryLimit = 1
    SwitchLimit = 1
    PageLimit = 2
    RoundLimit = 2
    ResendLimit = 1
    MaxEnroll = 2
    MaxManual = 1
    MaxSetupCrashes = 1
    AutoPassword = TRUE
    AutoTwofa = TRUE
    TwofaLimit = 1
    PasswordLimit = 1
    ThrottleLimit = 1
    Components = {"mailbox", "owner", "guard"}
SYMMETRY RaceSymmetry
INVARIANTS
    OneLiveOwner
    SlotsAreHeld
    GateKeepsReasons
PROPERTIES
    MarkerErasedOnlyByAbortOrRerun
    RecordSurvives
    FencedUntilReleased
    RecoveryIsClean
CHECK_DEADLOCK FALSE
