SPECIFICATION Spec
CONSTANTS
  Callers = {u1}
  Loops = {l1}
  Conns = {c1, c2}
  Senders = {s1, s2}
  Endpoints = {e1}
  DefaultEndpoint = e1
  MaxFailedAttempts = 1
  NoConn = NoConn
  NoProc = NoProc
SYMMETRY Symmetry
INVARIANTS NoSocketLeak LinkIsWatched NoFalseConnected
PROPERTIES StopParks PacedWrites LinkSpec
