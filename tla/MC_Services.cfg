SPECIFICATION SuiteSpec
CONSTANTS
    GateTasks = {t1, t2, t3}
    PressureNodes = {n1}
    Monitor = monitor
    Minimum = 1
    BaseLimit = 1
    RestoreCeiling = 2
    Ceiling = 3
    ImmediateResetLimit = 1
    RestoreSuccesses = 1
    PressureThreshold = 2
    BannedThreshold = 1
    BurstStep = 1
    NewsBound = 1
    PoolSlots = {s1}
    PoolCalls = {c1, c2}
    NoSlot = NoSlot
    MaxContexts = 2
    MaxRegistrations = 1
    MaxDeaths = 1
    LateDeadlines = FALSE
    ClosesMeetDeaths = FALSE
    SmsKeys = {k1}
    SmsTasks = {t1, t2}
    Orders = {o1}
    Probes = {p1}
    NoKey = NoKey
    OldKey = OldKey
    NoOrder = NoOrder
    NoProbe = NoProbe
    NumberBudget = 1
    MaxSmsCrashes = 1
SYMMETRY ServiceSymmetry
INVARIANTS
    AdmissionIsExact
    CapacityIsLent
    PlacesAddUp
PROPERTIES
    WindowsSurviveRecycling
    MoneyIsAccounted
    AnswersInOrder
CHECK_DEADLOCK FALSE
