SPECIFICATION Spec
CONSTANTS
  Conversations = {c1, c2}
  None = None
  Slots = {j1, j2, j3}
  PageSize = 2
  MaxMessages = 6
SYMMETRY Symmetry
INVARIANTS
  ShownIsHistory
  BusyHasOwner
