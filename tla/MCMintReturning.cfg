SPECIFICATION FairSpec
CONSTANTS
  Retries = 1
  MaxSeals = 2
  MaxNow = 1
  Window = 0
  Burst = 2
  Ceiling = 0
  NoOwner = NoOwner
  StartJar = 1
  NoPour = NoPour
  Telemetry = t
  Owners <- MCOwners
  Starts <- MCStarts
  Tiers <- MCTiers
  Claims <- MCClaims
  Seed <- MCSeed
  Allowed <- MCAllowed
  Legacies <- MCLegacies
  Requests <- Attempts
INVARIANTS
  TypeOK
  MintedOnce
  ShownIsTheirs
  NeverConflicts
  BurstCoversRetries
PROPERTIES
  ShownIsTheSealed
  SealEnds
CHECK_DEADLOCK FALSE
