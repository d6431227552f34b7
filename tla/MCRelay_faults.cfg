SPECIFICATION FairSpec
CONSTANTS
  Nobody = Nobody
  Messages = {"m1", "m2"}
  Drainers = {"d1", "d2"}
  Base = 1
  Environments <- CalmAndRough
INVARIANTS
  OneCopy
  SentOnce
  WaitingHasBody
  KeptWhileSteady
PROPERTY
  Settles
