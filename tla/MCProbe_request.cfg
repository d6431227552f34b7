SPECIFICATION FairSpec
CONSTANTS
  a1 = a1
  a2 = a2
  a3 = a3
  b1 = b1
  c1 = c1
  da = da
  db = db
  dc = dc
  Addrs = {a1, a2, a3, b1, c1}
  Domains = {da, db, dc}
  NoDomain = NoDomain
  domainOf <- DomainOfAddr
  Replies <- SomeReplies
  Environments <- Several
INVARIANTS
  EveryAddressAnswered
  VerdictOnlyFromRCPT
  
  
  LeasedAndPaid
  MixedAnswersCondemnHost
PROPERTY
  Terminates
