SPECIFICATION TriedSpec
CONSTANTS
  r1 = r1
  r2 = r2
  r3 = r3
  None = None
  Requests <- Two
  Chats <- One
  Canaries <- Two
  Settings <- TablesAndCanaries
  Queries <- AllQueries
  MaxChanges = 1
  MaxFailures = 1
CHECK_DEADLOCK FALSE
INVARIANTS
  NeverBorrows
  FirstTierIsPromised
PROPERTY EveryRequestEnds
