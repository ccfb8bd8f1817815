SPECIFICATION StoreLiveSpec
CONSTANTS
    Channels <- MCChannels
    Ids = {1, 2, 3}
    Default <- MCDefault
    MaxPosts = 2
    MaxRestarts = 2
    MaxTouched = 2
INVARIANT AnnouncedOnce
INVARIANT ChannelsDistinct
PROPERTY ClockSettles
PROPERTY SaveSettles
