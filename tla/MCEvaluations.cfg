SPECIFICATION EvaluationSpec
CONSTANTS
  Merchant = merchant
  Buyers = {b1, b2}
INVARIANTS
  UnresolvedMarked
  WholeFixture
PROPERTIES
  ResetQuietly
