SPECIFICATION StoreLiveSpec
CONSTANTS
    Channels <- MCChannels
    Ids = {1, 2, 3}
    Default <- MCDefault
    MaxPosts = 2
    MaxRestarts = 2
    MaxTouched = 1
INVARIANT WebPathIsSafe
