CONSTANTS
    ConsumerIsClient = TRUE
    MaxRetransmitCount = 2
    MaxPendingGaps = 2
    MaxGapLen = 4
    MaxRuns = 1
    Policy = "ReRequestAfterContextSwitch"
    CutsBatches = FALSE
    EndsEarly = FALSE
    Finishes = FALSE
    MaxSeq = 3
    MaxTransports = 2
    MaxChannel = 2
SPECIFICATION Spec
INVARIANT AckRevealsLoss
CHECK_DEADLOCK FALSE
