CONSTANTS
    Runs = {r1}
    Tasks = {t1, t2}
    MaxVersions = 2
    MaxChanges = 2
    MaxLives = 3
    MaxKills = 1
    MaxStoreFaults = 1
SPECIFICATION FairSpec
INVARIANT TasksSurvive
INVARIANT NoneLeftRunning
PROPERTY ShutdownEnds
