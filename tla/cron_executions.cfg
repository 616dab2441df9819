CONSTANTS
    a = a
    b = b
    Ids = {a, b}
    Slots = {s1, s2}
    DependsOn <- Chain
    AnyRequired = FALSE
    Inject = TRUE
    Window = 1
    MaxRuns = 3
    MaxEvents = 1
SPECIFICATION FairSpec
INVARIANT TypeOK
INVARIANT OneAtATime
INVARIANT MarkAccurate
INVARIANT SuccessRecorded
INVARIANT ResultUsedOnce
PROPERTY MarkReleased
