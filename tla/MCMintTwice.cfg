SPECIFICATION Spec
CONSTANTS
  Retries = 2
  MaxSeals = 1
  MaxNow = 1
  Window = 1
  Burst = 3
  Ceiling = 1
  NoOwner = NoOwner
  StartJar = NoOwner
  NoPour = NoPour
  Telemetry = t
  Owners <- MCOwners
  Starts <- MCStarts
  Tiers <- MCTiers
  Claims <- MCClaims
  Seed <- MCSeed
  Allowed <- MCAllowed
  Legacies <- MCLegacies
  Requests <- Attempts
INVARIANTS
  MintedOnce
CHECK_DEADLOCK FALSE
