SPECIFICATION Spec
CONSTANTS
    Member <- MCMember
    DayLength = 2
    Bundles <- MCBundles
    Moment <- MCMoment
    Visitor = "member"
    First <- MCFirst
    Outages = {"any"}
    MaxEdits = 1
INVARIANTS
    TypeOK
    LockdownDenies
    CacheWhole
PROPERTY PolicyFollows
