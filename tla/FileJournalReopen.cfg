CONSTANTS
    Policies = {1}
    MaxSeq = 2
    MaxTarget = 2
    Frames = {1, 2}
    MaxCalls = 3
    MaxFaults = 0
    MaxCrashes = 1
    Settles = FALSE
    Bad = Bad
SPECIFICATION Spec
INVARIANT FiledSurvives
