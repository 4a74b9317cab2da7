SPECIFICATION Spec
CONSTANTS
  MaxTurn = 2
  Operating = {1}
  Troubles = {"sink", "revoke", "trust", "refusal"}
INVARIANTS
  NoStaleAudio
  HeardEpochsDiffer
  AcknowledgedIsAdmitted
PROPERTY
  ImplementsStream
CHECK_DEADLOCK FALSE
