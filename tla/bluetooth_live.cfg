SPECIFICATION FairSpec
CONSTANTS
  Attempts = {a1}
  Closers = {c1}
  Gatts = {g1}
  LaneDepth = 2
  LaneMayStall = FALSE
  NoGatt = NoGatt
  NoProc = NoProc
  Binder = binder
PROPERTIES DisconnectNeverWaits DropIsShown
