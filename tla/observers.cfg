SPECIFICATION FairSpec
CONSTANTS
  NFields = 2
  Setters = {s1, s2}
  MaxStores = 2
  Conns = {c1}
  QueueDepth = 2
  SendDepth = 1
  NoMessage = NoMessage
  Starters = {l1, l2}
  DispatchDepth = 2
  NoEvent = NoEvent
INVARIANTS FinalValueReachesClients FinalValueReachesListener BuiltOnce
PROPERTIES BroadcastDrains DeadClientsLeave
CHECK_DEADLOCK FALSE
