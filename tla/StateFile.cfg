CONSTANTS
    MaxVersion = 4
    PowerCuts = TRUE
    CrashAgain = FALSE
SPECIFICATION Spec
CHECK_DEADLOCK FALSE
INVARIANTS
    TypeOK
    StateFileReadable
PROPERTIES
    OldOrNew
