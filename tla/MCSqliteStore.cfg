SPECIFICATION FairSpec
CONSTANTS
  r1 = r1  r2 = r2  r3 = r3  s1 = s1  s2 = s2
  ann = ann  bob = bob  t1 = t1  t2 = t2  c1 = c1  c2 = c2
  Nobody = Nobody
  Requests <- MCRequests
  Servers  <- MCServers
  Home     <- MCHome
  Owners   <- MCOwners
  Starts   <- MCStarts
  Claims   <- MCClaims
  Tiers    <- MCTiers
  Seed     <- MCSeed
  Allowed  <- MCAllowed
  Legacies <- MCLegacies
INVARIANTS
  TypeOK
  RegisterContinuous
  OnePourPerStart
  AnswersAreOnTheRegister
  FailuresAreExternal
PROPERTIES
  RegisterOnlyExtends
  KeepsPromise
  CallsSettle
CHECK_DEADLOCK FALSE
