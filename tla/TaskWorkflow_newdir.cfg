SPECIFICATION Spec
CONSTANTS
  f1 = f1
  f2 = f2
  f3 = f3
  None = None
  Files <- One
  NewDirs <- One
  Modes <- CodexOnly
  EditDuring <- Idle
  MaxCommits = 1
PROPERTIES
  UserWorkSurvives
