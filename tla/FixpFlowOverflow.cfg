CONSTANTS
    ConsumerIsClient = FALSE
    MaxRetransmitCount = 1
    MaxPendingGaps = 1
    MaxGapLen = 1
    MaxRuns = 1
    Policy = "ReRequestAfterBatch"
    CutsBatches = FALSE
    EndsEarly = TRUE
    Finishes = FALSE
    MaxSeq = 5
    MaxTransports = 6
    MaxChannel = 1
SPECIFICATION Spec
INVARIANT TypeOK
INVARIANT ExactlyOnce
INVARIANT NothingForgotten
CHECK_DEADLOCK FALSE
