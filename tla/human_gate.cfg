CONSTANTS
    shell = shell
    q1 = q1
    q2 = q2
    Calls = {shell, q1, q2}
    Asks = {q1, q2}
    Messages = {m1, m2}
    NoCall = NoCall
    NoMessage = NoMessage
    MaxConcurrent = 2
    Threads = 2
    TTL = 1
    ToolTimeout = 1
SPECIFICATION FairSpec
INVARIANT DecisionsAgree
INVARIANT SleepsOnlyIfMissed
INVARIANT AnswersCount
PROPERTY CallsEnd
