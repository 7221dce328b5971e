SPECIFICATION Spec
CONSTANTS
  f1 = f1
  f2 = f2
  f3 = f3
  None = None
  Files <- Three
  NewDirs <- Nothing
  Modes <- AllModes
  EditDuring <- Idle
  MaxCommits = 1
INVARIANTS
  TypeOK
  NothingIsLost
  FailedWriteRestores
  CompletedMeansValidated
PROPERTIES
  UserWorkSurvives
  ReplacesItsBasis
