CONSTANTS
    Requests = {}
    StickyGoals = {"sticky"}
    RpcFlushes = {}
    MaxVersion = 1
    MaxNoise = 0
    MaxOverflows = 1
SPECIFICATION Spec
CHECK_DEADLOCK FALSE
INVARIANT UpToDateWhenIdle
