SPECIFICATION Spec
CONSTANTS
    Attempts <- MCAttempts
    Capacity = 1
    MaxCrashes = 1
    Grace = 2
    MaxRound = 3
PROPERTIES
    ActiveIsKept
