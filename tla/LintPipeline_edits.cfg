SPECIFICATION FairSpec
CONSTANTS
    Files <- MCFiles
    Linters <- MCLinters
    Supported <- MCSupported
    Missing <- MCMissing
    Settings <- MCSettings
    Failing = TRUE
    MaxEdits = 3
    MaxChanges = 2
INVARIANT SettingsFresh
INVARIANT AllTogether
INVARIANT LatestServed
PROPERTY ImplementsBoard
PROPERTY EditorSettles
CHECK_DEADLOCK FALSE
