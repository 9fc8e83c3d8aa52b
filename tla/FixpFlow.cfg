CONSTANTS
    ConsumerIsClient = TRUE
    MaxRetransmitCount = 2
    MaxPendingGaps = 2
    MaxGapLen = 4
    MaxRuns = 1
    Policy = "ReRequestAfterContextSwitch"
    CutsBatches = TRUE
    EndsEarly = FALSE
    Finishes = TRUE
    MaxSeq = 2
    MaxTransports = 3
    MaxChannel = 2
SPECIFICATION FairSpec
INVARIANT ExactlyOnce
INVARIANT NothingForgotten
INVARIANT OneRequestInService
INVARIANT NeverAccused
INVARIANT AnswerIsEarned
PROPERTY AbandonedIsFinal
PROPERTY Recovers
CHECK_DEADLOCK FALSE
