CONSTANTS
    j1 = j1
    j2 = j2
    j3 = j3
    Jobs <- MCJobs
    Sizes <- MCSizes
    Requests <- MCRequests
SPECIFICATION Spec
PROPERTY StartedInArrivalOrder
