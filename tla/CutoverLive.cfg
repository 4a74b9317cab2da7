SPECIFICATION FairSpec
CONSTANTS
  MaxTurn = 2
  Operating = {1}
  Troubles = {"provider", "sink"}
PROPERTIES
  SpeechEnds
  WindowClosesUnlessRolledBack
CHECK_DEADLOCK FALSE
