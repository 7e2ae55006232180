SPECIFICATION TerminalFairSpec
CONSTANTS
  NONE = NONE
  Columns = 8
  Size = 3
  Keys <- MCKeys
  MaxKeys = 5
INVARIANTS PromptIntact EchoedIsStored StoreBounded OnlyLinefeedsLost
PROPERTIES KeysAreTaken
CHECK_DEADLOCK FALSE
