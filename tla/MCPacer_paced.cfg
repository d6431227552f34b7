SPECIFICATION Spec
CONSTANTS
  n1 = n1
  n2 = n2
  w1 = w1
  w2 = w2
  w3 = w3
  Nodes = {n1, n2}
  Workers = {w1, w2, w3}
  NodeOf <- Placed
  MinRate = 1
  SeedMax = 2
  MinConc = 1
  MaxConc = 2
  CleanBeforeClimb = 1
  PauseFor = 1
  StandFor = 2
  PromoteAfter = 2
  Step = 150
  Ceiling = 3
  Environments <- Several
INVARIANTS
  RateWithinBand
  EarnedRate
  PausePersisted
  
