SPECIFICATION FairSpec
CONSTANTS
  OrderCount = 2
  Handlers = {h1, h2}
  MaxLate = 1
  MaxDeclined = 1
INVARIANTS
  ProgressIsTrue
  AnsweredInOrder
  PaidIsConfirmed
PROPERTIES
  PaidInFull
  PaysAsPromised
