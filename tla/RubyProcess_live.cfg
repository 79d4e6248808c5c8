SPECIFICATION FairSpec
CONSTANTS
    Mode = "attach"
    MaxCalls = 3
    MaxStops = 1
    Quoting = TRUE
PROPERTY EveryCallSettles
PROPERTY EveryStopIsEmitted
PROPERTY DeathIsNoticed
CHECK_DEADLOCK FALSE
