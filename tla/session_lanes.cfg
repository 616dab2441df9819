CONSTANTS
    Sessions = {s1, s2, s3, s4}
    Tasks = {t1, t2}
    MaxLanes = 1
    Watchdog = TRUE
    Cleanup = TRUE
    MaxCalls = 4
SPECIFICATION FairSpec
INVARIANT TypeOK
INVARIANT OverlapOnlyWhenTorn
INVARIANT LanesBounded
PROPERTY AcquireReturns
