CONSTANTS
    Runs = {r1}
    Tasks = {t1}
    w1 = w1
    w2 = w2
    Workers = {w1, w2}
    WorkerOf <- TwoWorkers
    NoRun = NoRun
    NoWorker = NoWorker
    TTL = 1
    MaxAttempts = 2
    MaxCalls = 4
    MaxTime = 4
    MaxRestarts = 2
    MaxFaults = 1
SPECIFICATION FairSpec
INVARIANT InterruptedRunHasLease
INVARIANT CompletedIsDurable
PROPERTY CheckpointGrows
PROPERTY OutcomeIsFinal
PROPERTY ImplementsLifecycle
PROPERTY CallsReturn
