SPECIFICATION LiveSpec
CONSTANTS
    Attributes <- SmallAttributes
    Services <- SmallServices
    MaxServices = 2
    MaxNotify = 2
    RetryMax = 2
    Models = {"frozen", "legacy", "modern"}
    Conns = 2
INVARIANT CompletesOnce
INVARIANT SubscribesExactly
INVARIANT QuietWhenGone
PROPERTY Settles
CHECK_DEADLOCK FALSE
