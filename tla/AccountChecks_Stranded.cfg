SPECIFICATION CheckSpec
CONSTANTS
    Accounts = {a1}
    MaxJobs = 2
    QueueLimit = 2
    MaxHealthy = 1
    MaxCheckCrashes = 1
    NoAccount = NoAccount
INVARIANTS
    PlanNotStranded
CHECK_DEADLOCK FALSE
