SPECIFICATION FairShutdownSpec
CONSTANTS
  Slots <- OneSlot
  DriverOf <- OneBle
  MaxSlots = 1
  SpawnMayFail = TRUE
  Grace = 1
  QueueDepth = 1
  FlipOnRestart = FALSE
  TimerMayFail = FALSE
  MaxPresses = 0
PROPERTY OnlyLateRequestsStart
PROPERTY LinksStayDown
CHECK_DEADLOCK FALSE
