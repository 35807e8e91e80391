CONSTANTS
    Backends = {"fswatch_win"}
    Dirs <- MCDirs
    EventFlags <- MCEventFlags
    MaxEvents = 0
    WinPaths <- Siblings
    MaxChanges = 0
SPECIFICATION Spec
CHECK_DEADLOCK FALSE
INVARIANT WatchedAfterAdd
