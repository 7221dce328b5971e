SPECIFICATION Spec
CONSTANTS
  search = search
  fetch = fetch
  shell = shell
  None = None
  Hosted <- Search
  Client <- NoTools
  MaxRounds = 5
  MaxDeltas = 1
  MaxTiers = 0
  StartsFirst = TRUE
INVARIANTS
  HostedCallsAreAnswered
CHECK_DEADLOCK FALSE
