CONSTANTS
  IPs = {"ip1", "ip2"}
  Conns = {"c1", "c2", "c3"}
  Environments <- Everyone
  Horizon = 2
SPECIFICATION Spec
INVARIANTS
  SessionOrder
  OpenCounted
  RcptRateKept
  VerdictsTrue
  ReadAsMeant
PROPERTY CooldownEnds
