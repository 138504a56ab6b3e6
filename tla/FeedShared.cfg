CONSTANTS
    m1 = m1
    m2 = m2
    s1 = s1
    s2 = s2
    c1 = c1
    c2 = c2
    Monitors <- TwoMonitors
    Subs <- OneSub
    Calls <- OneCall
    MonitorOf <- AllReadM1
    MonitorFilter <- LetAllThrough
    Kinds <- BothKinds
    Filters <- ObsOnly
    Policies = {"earliest"}
    Named = {4}
    Actions = {"update"}
    MaxSeq = 5
    Limit = 2
    ScanCap = 10
SPECIFICATION Spec
VIEW WithoutReply
CHECK_DEADLOCK FALSE
INVARIANTS
    HeadIsRealHead
    LossIsKnown
PROPERTIES
    ReplyComplete
