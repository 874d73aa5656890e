SPECIFICATION RunnerSpec
CONSTANTS
  b1 = b1
  b2 = b2
  base = base
  own1 = own1
  own2 = own2
  Sessions <- OneSession
  Slugs <- TwoSlugs
  NoSlug = NoSlug
  Foreign = Foreign
  Unowned = Unowned
  Candidates <- OneTwoCandidates
  ListLimit = 1
  RegistryAttempts = 2
  MaxCrashes = 2
  MaxStoreFaults = 2
  MaxLost = 1
INVARIANTS
  RegistryTraceable
  OneAppUnlessLost
  AdvanceNeverRefused
  CancelledIsQuiet
  NoOrphan
CHECK_DEADLOCK FALSE
