SPECIFICATION FairSpec
CONSTANTS
  Calls = {c1, c2}
  Ids = {i1, i2}
  MaxLimit = 1
  TTL = 7
  LeaseWait = 7
  MaxLag = 1
  TokenWait = 1
  Addrs = 2
  Timeout = 1
  ReleaseGrace = 1

  
PROPERTIES
  SlotsSpec
  
  LeasesReclaimed
