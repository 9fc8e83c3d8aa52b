CONSTANTS
  Sent = 2
  MaxSeq = 3
  PageLimit = 1
  MaxQueued = 2
  MaxHeld = 1
  MaxReads = 1
SPECIFICATION FairSpec
INVARIANTS TypeOK NeverStranded
PROPERTIES KeepsPromise FillsHideNothing CatchesUp LogoutAnswered
