SPECIFICATION FairSpec
CONSTANTS
  Slots <- OneSlot
  DriverOf <- OneRc
  Grace = 2
  QueueDepth = 2
  FlipOnRestart = TRUE
  TimerMayFail = TRUE
  MaxPresses = 1
INVARIANT GraceProtectsIntent
INVARIANT NotReadyIsQuiet
PROPERTY CameraFollowsIntent
