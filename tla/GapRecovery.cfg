CONSTANTS
  MaxSeq = 4
  QueueMax = 2
  ResendLimit = 2
  HoldMax = 2
  CallbackDrops = FALSE
SPECIFICATION Spec
INVARIANTS
  TypeOK
  AccountedOnce
  RecoveryTracksTarget
  QueueCovered
  LeavingHoldsNothing
  HeldLogonUnrequested
  RequestsBounded
PROPERTY
  FateFinal
CHECK_DEADLOCK FALSE
