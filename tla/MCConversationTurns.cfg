SPECIFICATION FairSpec
CONSTANTS
  Owners = {"a", "b", "c"}
  Conversations = {"a1", "a2", "b1", "c1"}
  OwnerOf <- MCOwner
  Requests = {"r1", "r2", "r3"}
  Asks <- MCAsks
  MaxActive = 2
  MaxUser = 1
  MaxTurns = 2
INVARIANTS
  OneTurn
  RunningHasWriter
  PendingWhileRunning
PROPERTIES
  WithinLimits
  KeepsTurns
  TurnsEnd
