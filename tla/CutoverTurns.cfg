SPECIFICATION Spec
CONSTANTS
  MaxTurn = 3
  Operating = {}
  Troubles = {"refusal","provider","deadline"}
INVARIANTS
  TypeOK
  PreparingHasASpeech
  CancelledSpeechIsCut
  ReplacementHasItsExchange
PROPERTIES
  CompletedByItsOwnFinish
  ReplacedOnlyByLiveSpeech
  TasksKeepTheLedger
CHECK_DEADLOCK FALSE
