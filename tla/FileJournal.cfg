CONSTANTS
    Policies = {1, 2}
    MaxSeq = 2
    MaxTarget = 2
    Frames = {1, 2}
    MaxCalls = 3
    MaxFaults = 2
    MaxCrashes = 1
    Settles = TRUE
    Bad = Bad
SPECIFICATION Spec
INVARIANT TypeOK
INVARIANT ServesAcked
PROPERTY KeepsPromise
