SPECIFICATION Spec
CONSTANTS
  Attempts = {a1, a2}
  Closers = {}
  Gatts = {g1, g2}
  LaneDepth = 2
  LaneMayStall = FALSE
  NoGatt = NoGatt
  NoProc = NoProc
  Binder = binder
INVARIANT OneGattOperation
PROPERTY ConnectedNotUndone
SYMMETRY Symmetry
