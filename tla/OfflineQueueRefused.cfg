SPECIFICATION Spec
CONSTANTS
    Events <- MCEvents
    MaxEntries = 2
    MaxTries = 2
    MaxCrashes = 1
PROPERTY RefusedIsDropped
CHECK_DEADLOCK FALSE
