CONSTANTS
    Backends = {"fsevents", "fswatch_win"}
    Dirs <- MCDirs
    EventFlags <- MCEventFlags
    MaxEvents = 2
    WinPaths <- MCWinPaths
    MaxChanges = 2
SPECIFICATION Spec
CHECK_DEADLOCK FALSE
INVARIANT TypeOK
INVARIANT StaysWatched
 
INVARIANT QueueOutlivesStreams
INVARIANT WatchedAfterAdd
INVARIANT RetrievedOnce
PROPERTY NobodyWaitsForEver
