SPECIFICATION LiveSpec
CONSTANTS
  N = 1
  Joins = 2
  Links = 1
  SpawnMayFail = FALSE
  Gateways = {TRUE, FALSE}
PROPERTY AlwaysBackInApMode
CHECK_DEADLOCK FALSE
