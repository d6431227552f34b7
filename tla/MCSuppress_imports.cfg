SPECIFICATION Spec
CONSTANTS
  a1 = a1
  a2 = a2
  i1 = i1
  i2 = i2
  Nobody = Nobody
  Domain = Domain
  Addresses = {a1, a2}
  Entries = {a1, a2, Domain}
  Importers = {i1, i2}
  Chunk = 2
  Stale = 1
  Environments <- Several
SYMMETRY Interchangeable
INVARIANTS
  AddedNotSent
  VersionIsWhole
  ReplaceIsExact
