SPECIFICATION FairSpec
CONSTANTS
  Keys = {k1}
  Values = {a}
  Confidences = {1}
  Capacity = 1
  Sizes = {2}
  Budget = 3
  MaxSummary = 1
  MaxTurn = 1
  MaxIdentity = 0
  MaxRevision = 1
  Faults = {}
  NoEntry = NoEntry
  NoFile = NoFile
  NoTask = NoTask
  NoSource = NoSource
PROPERTY WorkComesToAnEnd
CHECK_DEADLOCK FALSE
