SPECIFICATION FairSpec
CONSTANTS
  v1 = v1
  v2 = v2
  c1 = c1
  c2 = c2
  c1again = c1again
  NoRequest = NoRequest
  Requests = {v1, v2, c1, c2, c1again}
  Correlations = {v1, v2, c1, c2}
  Source <- MCSource
  Correlation <- MCCorrelation
  Capacity = 2
INVARIANTS
  WaitingIsKept
  QueueHasWorker
PROPERTIES
  VoicesFirst
  CallersAreAnswered
  ImplementsDesk
CHECK_DEADLOCK FALSE
