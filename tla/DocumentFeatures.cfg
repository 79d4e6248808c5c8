SPECIFICATION FairSpec
CONSTANTS
  Codes = {"1", "2", "null"}
  MaxChunks = 2
  Texts <- TextsValue
  Inserts <- InsertsValue
  Types = {"comment", "call", "method", "do_block", "begin", "rescue"}
  MaxRow = 3
  MaxCaptures = 3
  MaxToken = 4
  MaxNodes = 6
INVARIANTS
  NoProcessLeft
  EditsOfWholeOutput
  EditsReproduce
  FoldsNest
  SymbolsNested
PROPERTIES
  FormattingSettles
CHECK_DEADLOCK FALSE
