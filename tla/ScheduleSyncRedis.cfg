SPECIFICATION Spec
CONSTANTS
    Member <- MCMember
    DayLength = 2
    Bundles <- MCBundles
    Moment <- MCMoment
    Visitor = "member"
    First <- MCFirst
    Outages = {"redis"}
    MaxEdits = 1
PROPERTY FollowsWithoutRedis
