CONSTANTS
  MaxSeq = 4
  AppQueueMax = 2
  WritesFail = TRUE
  Policies = {"CloseSession", "Continue"}
  CrashPolicies = {"CloseSession"}
  OpensAtOne = FALSE
SPECIFICATION FairSpec
INVARIANTS
  TypeOK
  LossIsNamed
  ResolvedAtClose
PROPERTIES
  DeliverySpec
  AcceptedResolved
