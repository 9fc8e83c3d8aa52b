CONSTANTS
  MaxSeq = 5
  AppQueueMax = 2
  WritesFail = FALSE
  Policies = {"CloseSession"}
  CrashPolicies = {"CloseSession"}
  OpensAtOne = TRUE
SPECIFICATION Spec
INVARIANTS
  LossIsNamed
