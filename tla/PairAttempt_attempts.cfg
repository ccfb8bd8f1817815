SPECIFICATION FairSpec
CONSTANTS
  BleCameras = {"a"}
  RcCameras = {"r"}
  Legacy = {"a"}
  PairedBefore = {}
  MaxAttempts = 2
INVARIANT WatchdogCovers
INVARIANT CancelledRcForgotten
PROPERTY ResultIsSticky
PROPERTY AttemptEnds
CHECK_DEADLOCK FALSE
