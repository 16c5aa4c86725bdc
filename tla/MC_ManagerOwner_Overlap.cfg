CONSTANTS
    m1 = m1
    m2 = m2
    NoManager = NoManager
    Managers = {m1, m2}
    OwnerTTL = 2
    MaxEpoch = 3
    MaxReleases = 3
    OwnerPunctual = TRUE
    Sequential = FALSE
    Retries = FALSE
SPECIFICATION OwnerSpec
INVARIANT
    BatchIsOwned
CHECK_DEADLOCK FALSE
