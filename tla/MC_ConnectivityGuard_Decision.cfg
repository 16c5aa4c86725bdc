SPECIFICATION GuardSpec
CONSTANTS
    r1 = r1
    r2 = r2
    auth = auth
    sentinel = sentinel
    Requests = {r1, r2}
    Origins = {auth}
    Threshold = 2
    RecoveryRounds = 2
    Baseline = 1
    Ceiling = 2
    RestoreSuccesses = 2
    LateDecisions = TRUE
    LateToggles = FALSE
SYMMETRY RequestSymmetry
INVARIANT PausedGateIsProbed
CHECK_DEADLOCK FALSE
