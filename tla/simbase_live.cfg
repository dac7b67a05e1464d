SPECIFICATION FairSpec
CONSTANTS
  Callers = {u1}
  Loops = {l1}
  Conns = {c1}
  Senders = {}
  Endpoints = {e1}
  DefaultEndpoint = e1
  MaxFailedAttempts = 2
  NoConn = NoConn
  NoProc = NoProc
PROPERTIES DeadLinkNoticed StopTerminates ReconnectsOrGivesUp
