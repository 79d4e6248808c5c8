SPECIFICATION Spec
CONSTANTS
    Lines = {1, 2}
    Conditions = {"none"}
    MaxRequests = 4
    Refusing = FALSE
INVARIANT AssertionsHold
CHECK_DEADLOCK FALSE
