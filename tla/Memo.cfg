CONSTANTS
    Nodes <- MCNodes
    Leaves = {"x"}
    RunNodes = {}
    Cutoff = {"x", "m"}
    Jobs = {"s"}
    Values = {"v0", "v1", "v2"}
    Reads <- MCReads
    Result <- MCResult
    Goals = {{"t"}, {"s", "t"}}
    TopLevels = {"run"}
    MaxRun = 2
SPECIFICATION Spec
INVARIANT TypeOK
INVARIANT NoCodeError
INVARIANT QuietBetweenRuns
INVARIANT Consistent
INVARIANT FromScratch
PROPERTY OncePerRun
PROPERTY NothingInVain
CHECK_DEADLOCK FALSE
