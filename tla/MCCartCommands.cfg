SPECIFICATION FairSpec
CONSTANTS
  Keys = {k1, k2}
  Owners = {alice}
  Operations = {"ADD", "SET"}
  Handlers = {h1, h2}
  NoCommand = NoCommand
  NoKey = NoKey
  MaxMoves = 1
INVARIANTS
  AtMostOneUnknown
  OneOutcome
  ConflictIsFinal
PROPERTIES
  KeepsIntents
  AppliedIsDiscovered
