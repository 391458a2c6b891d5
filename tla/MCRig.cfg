SPECIFICATION Spec
CONSTANTS
  MaxPourMs = 150
  MAX_BLOBS = 5
  FallMin = 200
  FallMax = 290
  Frames = {100, 300}
  Tiers = {0, 3, 5}
  Ceiling = 0
  Skews = {0, 100}
  MaxAge = 1000
INVARIANTS
  TypeOK
  EveryDropletLands
  DropletsWithin
  SpeedWithinAge
  TiltWithinAFrame
  PreviewIsMinted
  NoneBeatsReachable
CHECK_DEADLOCK FALSE
