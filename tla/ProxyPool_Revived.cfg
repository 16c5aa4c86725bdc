SPECIFICATION ProxySpec
CONSTANTS
    Exits = {e1, e2, e3, e4}
    FirstExits = {e1, e2}
    ManualExits = {e1}
    ProxyTasks = {p1, p2}
    NoExit = NoExit
    NoTask = NoTask
    PoolTarget = 1
    FailureLimit = 2
    BurnThreshold = 2
    ProbeTTL = TRUE
    LateReports = TRUE
    MaxResets = 1
PROPERTIES
    BurnedIsForever
CHECK_DEADLOCK FALSE
