SPECIFICATION RunnerSpec
CONSTANTS
  b1 = b1
  b2 = b2
  base = base
  own1 = own1
  own2 = own2
  Sessions <- TwoSessions
  Slugs <- ThreeSlugs
  NoSlug = NoSlug
  Foreign = Foreign
  Unowned = Unowned
  Candidates <- TwoCandidates
  ListLimit = 2
  RegistryAttempts = 1
  MaxCrashes = 1
  MaxStoreFaults = 0
  MaxLost = 0
INVARIANTS
  OwnAppUnlessRestarted
  SlugUnavailableIsTrue
CHECK_DEADLOCK FALSE
