SPECIFICATION Spec
CONSTANTS
  Callers = {c1, c2}
  MaxRate = 1
  Burst = 2
  Want = 2
  TTL = 4
  MaxLag = 2
  MaxTime = 7
SYMMETRY Symmetry
INVARIANTS
  GrantsWithinCredit
