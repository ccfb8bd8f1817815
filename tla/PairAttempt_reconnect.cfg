SPECIFICATION AttemptSpec
CONSTANTS
  BleCameras = {"a", "b"}
  RcCameras = {}
  Legacy = {}
  PairedBefore = {"b"}
  MaxAttempts = 1
PROPERTY SuccessIsOwn
CHECK_DEADLOCK FALSE
