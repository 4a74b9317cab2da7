SPECIFICATION Spec
CONSTANTS
  Keys = {k1, k2}
  Values = {a}
  Confidences = {1}
  Capacity = 1
  Sizes = {1, 2}
  Budget = 4
  MaxSummary = 3
  MaxTurn = 2
  MaxIdentity = 1
  MaxRevision = 2
  Faults = {"refused", "unlink", "crash"}
  NoEntry = NoEntry
  NoFile = NoFile
  NoTask = NoTask
  NoSource = NoSource
INVARIANTS
  MemoryIsDurable
  NothingForgotten
  PromptFitsBudget
  OpenOperationIsOwned
CHECK_DEADLOCK FALSE
