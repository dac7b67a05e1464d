SPECIFICATION Spec
CONSTANTS
  MaxShots = 2
  MaxClubs = 2
  MaxArms = 1
  Both = FALSE
  Frames <- MCFrames
INVARIANTS ShotOnce NumbersNameShots ClubAfterBall AttachedOnce RightClip LegsTellOneShot
