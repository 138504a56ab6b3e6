CONSTANTS
    Policies <- AllPolicies
    Providers = {"codex", "claude"}
    Ids = {"read", "write"}
    Tools = {"t1", "t2"}
    Contracts = {"k", "other"}
    Configs = {"g", "h"}
    Cursors = {"p"}
    PageLimit = 2
    Ttl = 2
    Timeout = 3
    MaxRuntime = 1
    MaxTime = 6
SPECIFICATION AdmissionSpec
CHECK_DEADLOCK FALSE
INVARIANTS
    CatalogueBeforeProbes
PROPERTIES
    WorkRestsOnEvidence
    NothingAfterTimeout
    AdmissionEnds
