SPECIFICATION FairSpec
CONSTANTS
  Pollers = {p1, p2}
  NoPoller = NoPoller
INVARIANTS OnePoller PolledUntilCharged RearmsActiveOnly
PROPERTIES RearmIsDue DisconnectCompletes
