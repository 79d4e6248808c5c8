SPECIFICATION FairSpec
CONSTANTS
  Files = {"f", "g"}
  Nested = {"g"}
  Filtered = {"f"}
  Concurrency = 2
  MaxChanges = 1
  MaxWalks = 2
  MaxVersion = 3
  Processes = {"p", "q"}
  Kept = {"PATH", "HOME"}
  Others = {"TERM"}
  Values <- ValuesValue
  MaxVariables = 2
  Codes = {"2"}
INVARIANTS
  IndexFollows
  SearchesComplete
  TasksFresh
  EnvironmentOfShell
  NeverCut
PROPERTIES
  SearchesAnswered
CHECK_DEADLOCK FALSE
