SPECIFICATION Spec
CONSTANTS
    Linters = {"rubocop", "ruby", "standard"}
    Unknown = {"standard"}
    MaxEdits = 3
    MaxDocs = 2
    MaxChanges = 3
INVARIANT ActiveIsRunning
INVARIANT LatestText
INVARIANT OffIsClear
PROPERTY ResultsInOrder
CHECK_DEADLOCK FALSE
