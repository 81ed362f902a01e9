SPECIFICATION FairSpec
CONSTANTS
    MaxEnrolls = 3
    MaxCaptures = 2
INVARIANTS
    TypeOK
    DoorFollows
PROPERTIES
    SessionEnds
