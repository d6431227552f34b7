SPECIFICATION HealthFairSpec
CONSTANTS
  z1 = z1
  z2 = z2
  Zones = {z1, z2}
  Kinds <- AllKinds
  Window = 2
  Threshold = 2
  Environments <- Several
INVARIANTS
  BurnedOnlyByListing
  SpikeStopsSending
  KeyIsLastVerdict
PROPERTY
  ListingNotIgnored
