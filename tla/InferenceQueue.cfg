SPECIFICATION FairSpec
CONSTANTS
  r1 = r1
  r2 = r2
  r3 = r3
  m1 = m1
  m2 = m2
  None = None
  Requests <- ThreeRequests
  Models <- TwoModels
  Policies <- AllPolicies
INVARIANTS
  TypeOK
  WaitingIsExact
PROPERTIES
  OnlyUntouchedTimersUnload
  ImplementsService
  EveryRequestServed
  PendingUnloadResolves
