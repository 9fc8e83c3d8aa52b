CONSTANTS
    ConsumerIsClient = TRUE
    MaxRetransmitCount = 2
    MaxPendingGaps = 2
    MaxGapLen = 4
    MaxRuns = 1
    Policy = "ReRequestAfterContextSwitch"
    CutsBatches = FALSE
    EndsEarly = FALSE
    Finishes = TRUE
    MaxSeq = 1
    MaxTransports = 2
    MaxChannel = 2
SPECIFICATION FinishSpec
PROPERTY FinishIsAnswered
CHECK_DEADLOCK FALSE
