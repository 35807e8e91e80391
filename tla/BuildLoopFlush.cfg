CONSTANTS
    Requests = {r1}
    StickyGoals = {"sticky"}
    RpcFlushes = {"rpc"}
    MaxVersion = 2
    MaxNoise = 0
    MaxOverflows = 1
SPECIFICATION Spec
CHECK_DEADLOCK FALSE
INVARIANT NoLostInvalidation
PROPERTY FlushApplied
