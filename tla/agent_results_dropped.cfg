CONSTANTS
    c1 = c1
    c2 = c2
    Calls = {c1, c2}
    Watched = c1
    Answers <- MCAnswers
    Models = 1
    MaxAttempts = 1
    MaxRounds = 3
    OverflowRetries = 2
    EmptyRetries = 1
    BlockAt = 2
    BreakAt = 3
    PingPong = 2
    Faults <- MCFaults
    HistoryLength = 2
SPECIFICATION Spec
INVARIANT PairsStay
