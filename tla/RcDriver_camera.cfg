SPECIFICATION LiveSpec
CONSTANT QueueDepth = 2
INVARIANT ReadyIsWatched
PROPERTY AnsweringIsReady
PROPERTY SilentIsDemoted
PROPERTY ModelLearnt
CHECK_DEADLOCK FALSE
