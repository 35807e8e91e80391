CONSTANTS
    Requests = {r1, r2}
    StickyGoals = {"sticky"}
    RpcFlushes = {}
    MaxVersion = 1
    MaxNoise = 1
    MaxOverflows = 0
SPECIFICATION FairSpec
CHECK_DEADLOCK FALSE
INVARIANT TypeOK
INVARIANT UpToDateWhenIdle
INVARIANT OnlyDroppedFail
INVARIANT NoSpin
PROPERTY FreshAnswers
PROPERTY RequestAnswered
PROPERTY Settles
