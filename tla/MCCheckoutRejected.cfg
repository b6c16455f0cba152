SPECIFICATION Spec
CONSTANTS
  OrderCount = 1
  Handlers = {h1}
  MaxLate = 1
  MaxDeclined = 1
INVARIANTS
  CreatedNotRejected
