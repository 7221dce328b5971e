SPECIFICATION FairSpec
CONSTANTS
  None = None
  MaxCalls = 2
  MaxLines = 1
  Limit = 2
CHECK_DEADLOCK FALSE
INVARIANT RetriesAnswer
