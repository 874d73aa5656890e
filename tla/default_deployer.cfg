SPECIFICATION DeployedSpec
CONSTANTS
  b1 = b1
  base = base
  Sessions <- OneSession
  Slugs <- OneSlug
  NoSlug = NoSlug
  Foreign = Foreign
  Unowned = Unowned
  Candidates <- OneCandidate
  ListLimit = 1
  RegistryAttempts = 1
  MaxCrashes = 0
  MaxStoreFaults = 0
  MaxLost = 0
INVARIANTS
  IntegrationAccepted
CHECK_DEADLOCK FALSE
