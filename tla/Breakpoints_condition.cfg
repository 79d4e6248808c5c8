SPECIFICATION Spec
CONSTANTS
    Lines = {1, 2}
    Conditions = {"none", "n > 10"}
    MaxRequests = 3
    Refusing = FALSE
INVARIANT ConditionsApplied
CHECK_DEADLOCK FALSE
