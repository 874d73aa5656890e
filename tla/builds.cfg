SPECIFICATION FairSpec
CONSTANTS
  b1 = b1
  base = base
  Sessions <- OneSession
  Slugs <- OneSlug
  NoSlug = NoSlug
  Foreign = Foreign
  Unowned = Unowned
  Candidates <- OneOneCandidate
  ListLimit = 1
  RegistryAttempts = 1
  MaxCrashes = 1
  MaxStoreFaults = 0
  MaxLost = 0
  CallbackMaxAttempts = 2
INVARIANTS
  AppBuildsTypeOK
PROPERTIES
  ImplementsContract
  EverySessionEnds
  CallbacksSettle
CHECK_DEADLOCK FALSE
