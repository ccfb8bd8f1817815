SPECIFICATION WaveSpec
CONSTANTS
  Slots <- TwoSlots
  DriverOf <- BothRc
  Grace = 1
  QueueDepth = 1
  FlipOnRestart = FALSE
  TimerMayFail = FALSE
  MaxPresses = 0
PROPERTY CommandsFollowIntent
