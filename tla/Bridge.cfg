CONSTANTS
    w1 = w1
    w2 = w2
    h1 = h1
    h2 = h2
    Nobody = Nobody
    Workers <- TwoWorkers
    Handlers <- OneHandler
    MaxSeq = 4
    ScanCap = 2
    Policies = {"none", "earliest"}
SPECIFICATION Spec
SYMMETRY WorkerSymmetry
CHECK_DEADLOCK FALSE
INVARIANTS
    TypeOK
    NothingPassedOver
    OnePending
    MarksAreTrue
PROPERTIES
    GivesUpOnConflict
