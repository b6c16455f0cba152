SPECIFICATION FairSpec
CONSTANTS
  Runs = {r1, r2, r3}
  SlotCount = 2
INVARIANTS
  ContainersOwned
  TwoAtOnce
PROPERTIES
  FailureStopsWork
  RunsEnd
