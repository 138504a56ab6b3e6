CONSTANTS
    MaxSeq = 4
    ScanCap = 1
    Limit = 1
    MaxLate = 1
    Policies <- SomePolicies
SPECIFICATION FairSpec
CHECK_DEADLOCK FALSE
INVARIANTS
    NothingUnseen
    StreamInOrder
PROPERTIES
    EventuallyPrinted
