SPECIFICATION LiveSpec
CONSTANTS
    Replicas <- MCReplicas
    Conns <- MCConns
    HostOf <- MCHostOf
    Attempts <- MCAttempts
    Results <- MCResults
    AttemptOf <- MCAttemptOf
    LeaseTTL = 2
    Timeout = 3
    MaxTries = 2
    MaxClock = 3
    MaxCrashes = 1
INVARIANTS
    OneAtATime
PROPERTIES
    LeaseOnlyGrows
    RowComesFree
    ImplementsAtomicStore
