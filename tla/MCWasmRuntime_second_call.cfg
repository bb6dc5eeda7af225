SPECIFICATION Spec
CONSTANTS
  ModuleIds = {m1}
  Ids = {i1}
  Binaries <- MCPlain
  Config <- MCConfig
  MaxSeconds = 1
  MaxCreated = 1
  None = None
INVARIANT BudgetPerCall
