SPECIFICATION Spec
CONSTANTS
  k1 = k1
  k2 = k2
  h1 = h1
  h2 = h2
  Keys = {k1, k2}
  Handlers = {h1, h2}
  Burst = 2
  Every = 2
  SweepAfter = 2
  Lag = 1
  Horizon = 7
  NoCall = NoCall
SYMMETRY Symmetry
INVARIANTS
  AdmitsWithinBurst
  IdleAreDropped
PROPERTIES
  WaitIsKept
