CONSTANTS
    Seconds = 4
    LowIDs = 3
    HeightIDs = 2
    Times <- MCTimes
    MaxIDs = 5
SPECIFICATION UIDSpec
INVARIANTS
    UIDTypeOK
    Increasing
    CheckIsRedundant
