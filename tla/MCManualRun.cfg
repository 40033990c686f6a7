SPECIFICATION StoreSpec
CONSTANTS
    Messages <- MCMessages
    RequestID <- MCRequestID
    PRNumber <- MCPRNumber
    Revision <- MCRevision
    EventTime <- MCEventTime
    Closing = {3}
    Rerun = {2}
    TTL <- MCTTL
    MaxQueuedJobs = 2
    Retention = 2
    Skew = 0
    MaxTime = 4
PROPERTIES
    CloseTakesEffect
