SPECIFICATION StoreSpec
CONSTANTS
    Messages <- MCMessages
    RequestID <- MCRequestID
    PRNumber <- MCPRNumber
    Revision <- MCRevision
    EventTime <- MCEventTime
    Closing = {3}
    Rerun = {5}
    TTL <- MCTTL
    MaxQueuedJobs = 2
    Retention = 2
    Skew = 1
    MaxTime = 3
INVARIANTS
    TypeOK
    NewestEventWins
    OneOpenPipeline
    ActiveIsCurrent
PROPERTIES
    AnswersAreFinal
