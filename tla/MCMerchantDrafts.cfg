SPECIFICATION FairSpec
CONSTANTS
  i1 = i1
  Intents = {i1}
  LastBinding = 2
  BindingOf <- SecondBinding
  Decisions = {"apply", "cancel"}
  Handlers = {h1, h2}
  Operator = h1
  NoRequest = NoRequest
  MaxKeys = 2
INVARIANTS
  OneDraft
  RefusalsConfirmed
PROPERTIES
  DraftKept
  DraftsFound
  IntentsSettle
  KeepsRegister
