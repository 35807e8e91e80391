CONSTANTS
    Threads = {"main", "other"}
    Platforms = {"linux", "haiku", "macos", "windows"}
    Requests <- MCRequests
    MaxFd = 10
    OwnMask = {"INT"}
SPECIFICATION FairSpec
CHECK_DEADLOCK FALSE
INVARIANT TypeOK
 
INVARIANT CallerUndisturbed
INVARIANT NoOrphan
PROPERTY CallReturns
PROPERTY KeepsPromise
