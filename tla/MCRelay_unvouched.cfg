SPECIFICATION Spec
CONSTANTS
  Nobody = Nobody
  Messages = {"m1", "m2"}
  Drainers = {"d1", "d2"}
  Base = 1
  Environments <- Unreadable
INVARIANT
  AcceptedKept
