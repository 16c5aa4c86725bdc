SPECIFICATION SuiteSpec
CONSTANTS
    NoManager = NoManager
    Managers = {m1, m2}
    OwnerTTL = 1
    MaxEpoch = 2
    MaxReleases = 1
    OwnerPunctual = TRUE
    Sequential = TRUE
    Retries = FALSE
    FreeTaskIds = {f1}
    Outcomes = {"partial_success", "stopped"}
    MaxLostSaves = 1
    MaxRequests = 1
    MaxWaits = 2
    MaxPosts = 1
    MaxPrompts = 1
    Exits = {e1, e2, e3, e4}
    FirstExits = {e1, e2}
    ManualExits = {e1}
    ProxyTasks = {p1, p2}
    NoExit = NoExit
    NoTask = NoTask
    PoolTarget = 1
    FailureLimit = 2
    BurnThreshold = 2
    ProbeTTL = TRUE
    LateReports = FALSE
    MaxResets = 1
    LeaseTasks = {l1, l2}
    LeaseTerm = 2
    MaxVanished = 1
SYMMETRY UpkeepSymmetry
INVARIANTS
    RowsTellTheTask
    CodesReachTheirWait
PROPERTIES
    RowsOnlyAdvance
    RefillKeepsPool
    LeasesAreATable
CHECK_DEADLOCK FALSE
