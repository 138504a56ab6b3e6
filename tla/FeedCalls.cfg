CONSTANTS
    m1 = m1
    m2 = m2
    s1 = s1
    s2 = s2
    c1 = c1
    c2 = c2
    Monitors <- OneMonitor
    Subs <- OneSub
    Calls <- TwoCalls
    MonitorOf <- AllReadM1
    MonitorFilter <- LetAllThrough
    Kinds <- BothKinds
    Filters <- ObsOrAll
    Policies = {"latest"}
    Named = {3}
    Actions = {"pause", "resume", "retire"}
    MaxSeq = 4
    Limit = 1
    ScanCap = 4
SPECIFICATION Spec
VIEW WithoutReply
SYMMETRY CallSymmetry
CHECK_DEADLOCK FALSE
INVARIANTS
    TypeOK
    NoSilentLoss
    IInv
PROPERTIES
    RedeliveryIsMarked
    ImplementsQueue
