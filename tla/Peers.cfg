SPECIFICATION Spec
CONSTANTS
  Peers = {p1, p2}
  Roles = {"mic", "sound", "comments", "frontend"}
  Sessions = {s1}
  Commands = {1, 2}
  MaxSessions = 1
  MaxPending = 1
  MaxComment = 2
  ReplayWindow = 0
  MaxEpoch = 3
  MaxSeq = 1
  MaxRuntimes = 2
  NoPeer = NoPeer
  NoSession = NoSession
  NoRuntime = NoRuntime
  NoCommand = NoCommand
  Done = Done
INVARIANTS
  TheGoneOwnNothing
PROPERTIES
  TakenOnce
  UtteranceOfTheLiveRoute
  PagesMoveForward
SYMMETRY PeerSymmetry
CHECK_DEADLOCK FALSE
