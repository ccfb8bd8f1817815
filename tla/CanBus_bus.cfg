SPECIFICATION LiveSpec
CONSTANTS
    RxDepth = 1
    StateDepth = 2
INVARIANT KnownIsWatched
PROPERTY SilenceReleases
PROPERTY StatusResumes
PROPERTY ShutdownHeard
CHECK_DEADLOCK FALSE
