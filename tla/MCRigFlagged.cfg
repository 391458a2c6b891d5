SPECIFICATION Spec
CONSTANTS
  MaxPourMs = 150
  MAX_BLOBS = 5
  FallMin = 200
  FallMax = 290
  Frames = {100, 300}
  Tiers = {0, 5}
  Ceiling = 5
  Skews = {0}
  MaxAge = 1000
INVARIANTS
  HonestNeverFlagged
CHECK_DEADLOCK FALSE
