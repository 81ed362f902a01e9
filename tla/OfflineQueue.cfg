SPECIFICATION Spec
CONSTANTS
    Events <- MCEvents
    MaxEntries = 2
    MaxTries = 2
    MaxCrashes = 1
INVARIANTS
    TypeOK
    InOrder
    CrashSafe
    NoDuplicate
PROPERTIES
    Drains
    ImplementsAudit
CHECK_DEADLOCK FALSE
