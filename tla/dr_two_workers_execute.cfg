CONSTANTS
    Runs = {r1}
    Tasks = {t1, t2}
    w1 = w1
    w2 = w2
    Workers = {w1, w2}
    WorkerOf <- TwoWorkers
    NoRun = NoRun
    NoWorker = NoWorker
    TTL = 1
    MaxAttempts = 1
    MaxCalls = 2
    MaxTime = 2
    MaxRestarts = 0
    MaxFaults = 0
SPECIFICATION Spec
INVARIANT OneWorkerExecutes
