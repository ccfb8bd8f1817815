SPECIFICATION FairSpec
CONSTANTS
  MaxSlots = 3
  SpawnMayFail = TRUE
INVARIANT CompleteIffAllDone
INVARIANT FailuresReported
PROPERTY ImplementsPhases
PROPERTY RequestCompletes
CHECK_DEADLOCK FALSE
