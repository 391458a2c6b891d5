SPECIFICATION FairSpec
CONSTANTS
  None = None
  TopTier = 2
  Default = 2
  Ceiling = 1
  MaxHold = 2
  MaxReads = 2
  MaxSeals = 2
  MaxSwitches = 1
INVARIANTS
  TypeOK
  SettledIsFinal
  SameStartSamePour
PROPERTIES
  SettlesOnceHeld
