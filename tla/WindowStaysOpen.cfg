SPECIFICATION FairSpec
CONSTANTS
  MaxTurn = 3
  Operating = {}
  Troubles = {}
PROPERTIES
  WindowCloses
CHECK_DEADLOCK FALSE
