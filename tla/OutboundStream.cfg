CONSTANTS
  Roles = {"initiator", "acceptor"}
  MaxMessage = 2
  MaxSeq = 3
  MaxFaults = 2
  MaxCrashes = 1
  Policies = {"CloseSession", "Continue"}
  ResetOnLogout = TRUE
SPECIFICATION FairSpec
INVARIANT TypeOK
INVARIANT NumbersNeverReused
INVARIANT ReplayFaithful
INVARIANT ResetRemembered
INVARIANT DebtKept
INVARIANT OutcomeHonest
PROPERTY OutcomeArrives
