SPECIFICATION LiveSpec
CONSTANTS
    Messages <- MCMessages
    RequestID <- MCRequestID
    PRNumber <- MCPRNumber
    Revision <- MCRevision
    EventTime <- MCEventTime
    Closing = {3}
    Rerun = {}
    TTL <- MCTTL
    MaxQueuedJobs = 2
    Retention = 2
    Skew = 0
    MaxTime = 3
    MaxLate = 1
INVARIANTS
    ReportsAreTrue
    NoAbandonedNamespace
PROPERTIES
    NoResurrection
    ClosedComesDown
    SuccessIsDeployed
