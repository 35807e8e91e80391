CONSTANTS
    Nodes = {"x", "a", "b"}
    Leaves = {"x"}
    RunNodes = {"x"}
    Cutoff = {"x", "b"}
    Jobs = {"b"}
    Values = {"v1", "v2", "v3"}
    Reads <- MCReads
    Result <- MCResult
    Goals = {{"a"}, {"b"}, {"a", "b"}}
    TopLevels = {"run"}
    MaxRun = 1
SPECIFICATION Spec
INVARIANT FromScratch
INVARIANT SkippedResetIsSound
INVARIANT CyclesAreReal
PROPERTY RunEnds
CHECK_DEADLOCK FALSE
