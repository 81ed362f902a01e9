SPECIFICATION FlowSpec
CONSTANTS
    Threshold <- MCThreshold
    AttemptGap = 1
    FaceGap = 2
    SpoofGap = 2
    ResetAfter = 3
    Never = Never
    Reasons <- MCReasons
    QueueMax = 2
    MaxDenials = 4
    MaxErrands = 1
PROPERTY EveryAttemptPosts
