SPECIFICATION SuiteSpec
CONSTANTS
    Mailboxes = {x1, x2}
    MaxBatches = 2
    MaxCrashes = 1
    MaxMishaps = 1
    Workers = 1
    BalanceKeys = {b1}
    OutboxCapacity = 2
    StallAfter = 1
    LastInstant = 2
SYMMETRY MailboxSymmetry
INVARIANTS
    BoxesAreKept
    RunClosesWhole
    NoticesAreExact
    StallClockExact
CHECK_DEADLOCK FALSE
