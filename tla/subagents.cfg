CONSTANTS
    Futures = {f1, f2}
    NoFuture = NoFuture
    MaxActive = 2
    MaxDepth = 2
    MaxSpawns = 3
    MaxDrops = 1
SPECIFICATION FairSpec
INVARIANT SlotsInUse
INVARIANT WithinLimit
INVARIANT SteeredStaysSilent
PROPERTY Collected
