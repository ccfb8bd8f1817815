SPECIFICATION TurnsSpec
CONSTANTS
  a = a
  b = b
  c = c
  NoCam = NoCam
  Cams <- Two
  MaxSlots = 2
  MaxRequests = 1
  MaxConnects = 4
SYMMETRY AnyTwo
INVARIANT ReadySlotReachesItsCamera
CHECK_DEADLOCK FALSE
