SPECIFICATION FairSpec
CONSTANTS
  search = search
  fetch = fetch
  shell = shell
  None = None
  Hosted <- WebTools
  Client <- Shell
  MaxRounds = 5
  MaxDeltas = 1
  MaxTiers = 1
  StartsFirst = FALSE
INVARIANTS
  TypeOK
  EventsInOrder
  TextIsWhatWasSent
PROPERTY EveryStreamEnds
CHECK_DEADLOCK FALSE
