CONSTANTS
    w1 = w1
    w2 = w2
    h1 = h1
    h2 = h2
    Nobody = Nobody
    Workers <- OneWorker
    Handlers <- TwoHandlers
    MaxSeq = 4
    ScanCap = 2
    Policies = {"none"}
SPECIFICATION ShortSpec
CHECK_DEADLOCK FALSE
INVARIANTS
    ReportsStand
PROPERTIES
    EventuallyCommitted
    StopEndsWorkers
