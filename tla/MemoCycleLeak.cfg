CONSTANTS
    Nodes = {"x", "y", "a", "b", "p"}
    Leaves = {"x", "y"}
    RunNodes = {}
    Cutoff = {"x", "b"}
    Jobs = {}
    Values = {"v1", "v2", "v3"}
    Reads <- MCReads
    Result <- MCResult
    Goals = {{"a"}, {"y", "p"}}
    TopLevels = {"run_with_error_handler"}
    MaxRun = 0
SPECIFICATION Spec
INVARIANT CyclesAreReal
CHECK_DEADLOCK FALSE
