SPECIFICATION LiveSpec
CONSTANTS
  N = 2
  Joins = 1
  Links = 2
  SpawnMayFail = FALSE
  Gateways = {TRUE}
PROPERTY DeferredGetsTurn
CHECK_DEADLOCK FALSE
