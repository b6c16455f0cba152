SPECIFICATION Spec
CONSTANTS
  Turns = {t1, t2}
  FactKeys = {k1, k2}
  MaxChanges = 3
SYMMETRY Symmetry
INVARIANTS
  NothingOutlivesAChange
  RevokedOnlyByUser
