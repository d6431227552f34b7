SPECIFICATION Spec
CONSTANTS
  Callers = {p, q}
  MaxCalls = 2
  Conns = {c1, c2}
  NoConn = NoConn
  Cap = 1
  MaxDrops = 1
INVARIANTS
  PoolSound
PROPERTY
  CallsSpec
CHECK_DEADLOCK FALSE
