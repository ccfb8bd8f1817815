SPECIFICATION LiveSpec
CONSTANT QueueDepth = 2
PROPERTY AnsweringAlwaysReady
CHECK_DEADLOCK FALSE
