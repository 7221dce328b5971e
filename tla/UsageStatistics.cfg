SPECIFICATION FairStatisticsSpec
CONSTANTS
  chat = chat
  second = second
  gateway = gateway
  worker = worker
  None = None
  Threads <- TwoThreads
  Processes <- BothProcesses
  Owners <- Pairs
  Deployed <- BeforeLast
  MaxEvents = 2
  MaxRecords <- Records
  MaxFaults = 2
CHECK_DEADLOCK FALSE
INVARIANTS
  StatisticsTypeOK
  OneProcessLosesNothing
  InitializedIsComplete
  OnlyDisturbedMigrationsClash
PROPERTY EveryRecordEnds
