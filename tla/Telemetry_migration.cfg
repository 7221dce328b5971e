SPECIFICATION StatisticsSpec
CONSTANTS
  chat = chat
  second = second
  gateway = gateway
  worker = worker
  None = None
  Threads <- OneThread
  Processes <- Gateway
  Owners <- Alone
  Deployed <- New
  MaxEvents = 2
  MaxRecords <- Records
  MaxFaults = 1
CHECK_DEADLOCK FALSE
INVARIANT InitializationIsIdempotent
