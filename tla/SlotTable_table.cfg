SPECIFICATION Spec
CONSTANTS
  a = a
  b = b
  c = c
  NoCam = NoCam
  Cams <- Three
  MaxSlots = 3
  MaxRequests = 2
  MaxConnects = 3
SYMMETRY AnyThree
INVARIANT BootLoadsTable
INVARIANT RemovalKeepsOthers
PROPERTY ImplementsRoster
CHECK_DEADLOCK FALSE
