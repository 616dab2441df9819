CONSTANTS
    Ids = {i1, i2}
    Callers = {c1, c2}
    MaxAttempts = 2
    MaxConcurrent = 1
    MaxDlqCalls = 2
    MaxCrashes = 1
    MaxFaults = 1
SPECIFICATION FairSpec
INVARIANT TypeOK
INVARIANT Accounted
PROPERTY Settles
