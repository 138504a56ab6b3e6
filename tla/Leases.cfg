CONSTANTS
    m1 = m1
    m2 = m2
    s1 = s1
    s2 = s2
    s3 = s3
    x1 = x1
    Nobody = Nobody
    Subs <- AllSubs
    Subjects = {x1}
    Monitors = {m1, m2}
    MonitorOf <- TwoOnM1
    Durations = {0, 1}
    CountLimit = 2
    MaxAttempts = 3
    MaxTime = 3
SPECIFICATION Spec
CHECK_DEADLOCK FALSE
SYMMETRY Workers
INVARIANTS
    TypeOK
    OneWorker
    LogTellsHolder
PROPERTIES
    StaleNeverFinishes
    DeadStaysDead
