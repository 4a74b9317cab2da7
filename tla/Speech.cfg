SPECIFICATION FairSpec
CONSTANTS
  Kinds = {"realtime", "sse", "raw", "whole"}
  Length = 4
  Startup = 3
  Frame = 2
  Capacity = 1
  MaxCancels = 2
  End = End
  Failure = Failure
  Nothing = Nothing
INVARIANTS
  PlaysWhatWasSaid
  AudibleIsEnded
PROPERTIES
  SpeechLetsGo
CHECK_DEADLOCK FALSE
