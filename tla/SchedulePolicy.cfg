\* The calendar of the model ends, so that its last instant has no successor.
SPECIFICATION PolicySpec
CHECK_DEADLOCK FALSE
CONSTANTS
    Member = {m1, m2}
    DayLength = 4
    Bundles <- MCBundles
    FirstDay <- MCFirstDay
    LastDay <- MCLastDay
INVARIANTS
    OrderHarmless
    TightenOnlyCloses
