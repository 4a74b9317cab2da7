SPECIFICATION Spec
CONSTANTS
  initial = initial
  speech = speech
  retry = retry
  keyA = keyA
  keyB = keyB
  cap = cap
  NoTask = NoTask
  Tasks = {initial, speech, retry}
  Keys = {keyA, keyB}
  Kinds = {"interactive", "maintenance"}
  Capabilities = {}
  Sessions = {"session"}
  Session = "session"
  AllowedKinds = {"interactive", "maintenance"}
  Shape <- MCShape
  Priority <- MCPriority
  MaxChildren = 1
  MaxRetries = 0
  TombstoneTtl = 2
  MaxPending = 1
  TaskTimeout = 0
  AnswerDelay = 1
  MaxTurn = 2
  MaxNow = 3
  MaxData = 0
  MaxIncarnations = 2
INVARIANTS
  QueuedTaskHasEntry
  AnswersAreNotRevived
PROPERTIES
  TerminalIsFinal
  TombstoneOutlastsWindow
CHECK_DEADLOCK FALSE
