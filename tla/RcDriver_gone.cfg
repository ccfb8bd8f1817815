SPECIFICATION LiveSpec
CONSTANT QueueDepth = 2
INVARIANT QuietOnceGone
CHECK_DEADLOCK FALSE
