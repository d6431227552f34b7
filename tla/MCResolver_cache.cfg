SPECIFICATION ResolverSpec
CONSTANTS
  Callers = {p, q}
  Hosts = {h1, h2, h3}
  NoHost = NoHost
  Answers <- SomeAnswers
  TTL = 2
  NegTTL = 1
  Timeout = 1
  Size = 2
  Lag = 1
SYMMETRY Symmetry
INVARIANTS
  OnlyVetted
  ServedFresh
