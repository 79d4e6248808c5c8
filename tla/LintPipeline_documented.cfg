SPECIFICATION Spec
CONSTANTS
    Files <- MCFiles
    Linters <- MCLinters
    Supported <- MCSupported
    Missing <- MCMissing
    Settings <- DocumentedSettings
    Failing = FALSE
    MaxEdits = 4
    MaxChanges = 1
INVARIANT LintingSurvives
CHECK_DEADLOCK FALSE
