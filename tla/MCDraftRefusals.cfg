SPECIFICATION Spec
CONSTANTS
  i1 = i1
  Intents = {i1}
  LastBinding = 2
  BindingOf <- SecondBinding
  Decisions = {}
  Handlers = {h1, h2}
  Operator = h1
  NoRequest = NoRequest
  MaxKeys = 1
INVARIANTS
  CommitWins
