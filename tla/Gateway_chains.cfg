SPECIFICATION ChainSpec
CONSTANTS
  r1 = r1
  r2 = r2
  r3 = r3
  None = None
  Requests <- Three
  Chats <- Nobody
  Canaries <- Nobody
  Settings <- ChainSettings
  Queries <- ChainQueries
  MaxChanges = 1
  MaxFailures = 1
CHECK_DEADLOCK FALSE
INVARIANTS
  TypeOK
  ContinuationFindsParent
  LeaseNeverDowngrades
  LeaseMatchesCall
  HopsExplainCount
  NotHigherOnlyAfterRollback
  EscalationsAreRecorded

SYMMETRY Sym
