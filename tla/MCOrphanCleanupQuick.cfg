SPECIFICATION LiveSpec
CONSTANTS
    Attempts <- MCAttempts
    Capacity = 1
    MaxCrashes = 1
    Grace = 1
    MaxRound = 1
INVARIANTS
    ClaimedOnce
    NoInventedResult
    ResultIsDocumented
PROPERTIES
    ActiveIsKept
    AbandonedIsRemoved
