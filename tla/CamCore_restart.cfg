SPECIFICATION DisciplinedSpec
CONSTANTS
  Slots <- TwoSlots
  DriverOf <- BothRc
  Grace = 2
  QueueDepth = 1
  FlipOnRestart = TRUE
  TimerMayFail = FALSE
  MaxPresses = 0
PROPERTY PollStartsOnlyIdleCamera
