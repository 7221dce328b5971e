SPECIFICATION FairChatSpec
CONSTANTS
  None = None
  MaxCalls = 2
  MaxLines = 3
  Limit = 2
  MaxTiers = 1
CHECK_DEADLOCK FALSE
INVARIANTS
  ChatTypeOK
  AnswersAreDescribed
  ClientGetsTheAnswer
  ClientIsTold
PROPERTIES
  ImplementsContract
  EveryChatEnds
