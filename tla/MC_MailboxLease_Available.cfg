SPECIFICATION Spec
CONSTANTS
    r1 = r1
    r2 = r2
    t1 = t1
    t2 = t2
    t3 = t3
    b1 = b1
    b2 = b2
    Rows = {r1}
    Tasks = {t1, t2}
    NoTask = NoTask
    NoBatch = NoBatch
    RowOf <- OneRow
    BatchOf <- SharedBatch
    TTL = 1
    Punctual = TRUE
INVARIANTS
    ConfirmedNeverAvailable
CHECK_DEADLOCK FALSE
