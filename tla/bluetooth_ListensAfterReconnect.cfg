SPECIFICATION Spec
CONSTANTS
  Attempts = {a1}
  Closers = {c1}
  Gatts = {g1}
  LaneDepth = 3
  LaneMayStall = FALSE
  NoGatt = NoGatt
  NoProc = NoProc
  Binder = binder
INVARIANT ListensAfterReconnect
