SPECIFICATION FairSpec
CONSTANTS
  MaxShots = 2
  NoShot = NoShot
  Invalid = Invalid
INVARIANTS TypeOK PendingIsTimed
PROPERTIES FallbackAfterRetry PendingIsSettled
