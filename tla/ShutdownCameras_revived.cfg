SPECIFICATION ShutdownSpec
CONSTANTS
  Slots <- OneSlot
  DriverOf <- OneRc
  MaxSlots = 1
  SpawnMayFail = TRUE
  Grace = 1
  QueueDepth = 1
  FlipOnRestart = FALSE
  TimerMayFail = FALSE
  MaxPresses = 0
PROPERTY NoSlotRevived
CHECK_DEADLOCK FALSE
