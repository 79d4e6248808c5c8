SPECIFICATION Spec
CONSTANTS
    Mode = "launch"
    MaxCalls = 4
    MaxStops = 1
    Quoting = TRUE
INVARIANT RepliesMatch
INVARIANT StopsConserved
INVARIANT OneEvalNeverBlocks
PROPERTY ImplementsChannel
CHECK_DEADLOCK FALSE
