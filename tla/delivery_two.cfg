SPECIFICATION DeliverySpec
CONSTANTS
  b1 = b1
  b2 = b2
  Sessions <- TwoSessions
  Slugs <- NoSlugs
  NoSlug = NoSlug
  ListLimit = 1
  MaxCrashes = 1
  MaxStoreFaults = 1
  CallbackMaxAttempts = 2
  Reports = {"building", "failed"}
SYMMETRY Symmetric
INVARIANTS
  PostedInOrder
PROPERTIES
  SettledStays
CHECK_DEADLOCK FALSE
