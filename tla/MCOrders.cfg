SPECIFICATION FairSpec
CONSTANTS
  Handlers = {h1, h2}
  None = None
  MaxLate = 2
INVARIANTS
  OneRefund
PROPERTIES
  RefundRecorded
  PaysOnce
