SPECIFICATION FairSpec
CONSTANTS
    Lines = {1, 2}
    Conditions = {"none"}
    MaxRequests = 3
    Refusing = TRUE
INVARIANT LastRequestWins
INVARIANT AnsweredOnce
INVARIANT IdsBelongToLines
PROPERTY EveryRequestAnswered
CHECK_DEADLOCK FALSE
