SPECIFICATION LiveSpec
CONSTANTS
  N = 2
  Joins = 2
  Links = 2
  SpawnMayFail = TRUE
  Gateways = {TRUE, FALSE}
INVARIANT OneAtATime
INVARIANT RegistersOwn
PROPERTY ApComesBack
PROPERTY NoneHalfPaired
CHECK_DEADLOCK FALSE
