SPECIFICATION FairSpec
CONSTANTS
  Managers = {m1}
  Writers = {w1}
  Cycles = {c1, c2}
  Depth = 1
  NoCycle = NoCycle
INVARIANT HandlerIsThere

PROPERTY DetectionStops
