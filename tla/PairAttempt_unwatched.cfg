SPECIFICATION FairSpec
CONSTANTS
  BleCameras = {}
  RcCameras = {"r"}
  Legacy = {}
  PairedBefore = {}
  MaxAttempts = 1
PROPERTY AttemptTimesOut
CHECK_DEADLOCK FALSE
