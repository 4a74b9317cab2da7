SPECIFICATION Spec
CONSTANTS
  initial = initial
  speech = speech
  retry = retry
  keyA = keyA
  keyB = keyB
  cap = cap
  NoTask = NoTask
  Tasks = {initial, speech}
  Keys = {keyA, keyB}
  Kinds = {"interactive", "maintenance"}
  Capabilities = {cap}
  Sessions = {"session"}
  Session = "session"
  AllowedKinds = {"interactive", "maintenance"}
  Shape <- MCShape
  Priority <- MCPriority
  MaxChildren = 1
  MaxRetries = 0
  TombstoneTtl = 2
  MaxPending = 1
  TaskTimeout = 0
  AnswerDelay = 1
  MaxTurn = 2
  MaxNow = 1
  MaxData = 1
  MaxIncarnations = 1
INVARIANTS
  LiveWorkIsOfThisEpoch
PROPERTIES
  CommitIsFenced
  ImplementsLedger
CHECK_DEADLOCK FALSE
