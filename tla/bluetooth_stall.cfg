SPECIFICATION StalledSpec
CONSTANTS
  Attempts = {a1}
  Closers = {c1}
  Gatts = {g1}
  LaneDepth = 1
  LaneMayStall = TRUE
  NoGatt = NoGatt
  NoProc = NoProc
  Binder = binder
PROPERTY AttemptEnds
