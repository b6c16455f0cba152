SPECIFICATION CallsSpec
CONSTANTS
  Others = {c1}
  ToolKeys = {first, second}
  Ids = {a, b}
  Names = {n}
  None = None
  MaxCalls = 2
  MaxSearches = 1
  Bodies <- MCBodies
SYMMETRY Symmetry
INVARIANTS
  ToolsWhole
  DeltasWhole
  RequestKeepsBlocks
  UsageHonest
