CONSTANTS
    Policies <- TwoPolicies
    Providers = {"codex", "claude"}
    Ids = {"read", "write"}
    Tools = {"t1", "t2"}
    Contracts = {"k", "other"}
    Configs = {"g"}
    Cursors = {"p"}
    PageLimit = 2
    Ttl = 2
    Timeout = 2
    MaxRuntime = 1
    MaxTime = 3
    Within = 1
    MaxDeliveries = 2
SPECIFICATION Spec
CHECK_DEADLOCK FALSE
INVARIANTS
    HandlingAsObserved
PROPERTIES
    VerifiedWasLive
