CONSTANTS
    m1 = m1
    m2 = m2
    s1 = s1
    s2 = s2
    c1 = c1
    c2 = c2
    Monitors <- TwoMonitors
    Subs <- OneSub
    Calls <- OneCall
    MonitorOf <- AllReadM1
    MonitorFilter <- LetAllThrough
    Kinds <- BothKinds
    Filters <- ObsOnly
    Policies = {"none"}
    Named = {}
    Actions = {}
    MaxSeq = 5
    Limit = 1
    ScanCap = 1
SPECIFICATION Spec
VIEW WithoutReply
CHECK_DEADLOCK FALSE
INVARIANTS
    NeverLostWithinRetention
