SPECIFICATION FairSpec
CONSTANTS
  Contexts = {c1, c2}
  None = None
  FullAmount = 1
  Reads = {r1, r2}
  MaxRecords = 1
INVARIANTS
  TypeOK
  NothingOutlivesTheCanvas
  DarkVesselSaysSo
  MintedIsListed
PROPERTIES
  GoneScreenIsMute
  BackdropSettles
  SealLifts
