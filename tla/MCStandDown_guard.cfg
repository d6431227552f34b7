SPECIFICATION GuardSpec
CONSTANTS
  Sessions = {c1, c2}
  Hosts = {h1, h2}
  Threshold = 2
  Window = 1
  Pause = 2
  MaxLag = 1
  MaxTime = 5
  Faults = TRUE
SYMMETRY Symmetry

  
PROPERTY
  RuleBHasEvidence
CHECK_DEADLOCK FALSE
