CONSTANTS
  MaxSeq = 3
  QueueMax = 1
  ResendLimit = 2
  HoldMax = 1
  CallbackDrops = TRUE
SPECIFICATION FairSpec
PROPERTIES
  GapResolves
CHECK_DEADLOCK FALSE
