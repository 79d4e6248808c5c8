SPECIFICATION FairSpec
CONSTANTS
    Files = {"plain", "skip", "both", "rdbg"}
    MaxDepth = 2
    MaxStops = 2
    MaxRequests = 3
    StopOnEntry = TRUE
    Editing = TRUE
INVARIANT ScopesUnlessHidden
INVARIANT StoppedMeansStopped
INVARIANT NoSilentStop
PROPERTY AnsweredUnlessLost
PROPERTY DisconnectQuits
CHECK_DEADLOCK FALSE
