SPECIFICATION Spec
CONSTANTS
  Profiles = {p1}
  Keys = {k1, k2}
  MaxRevision = 4
  Faults = {"refused", "unsure", "unlink", "crash"}
  NoRecord = NoRecord
  NoTemplate = NoTemplate
  NoFile = NoFile
  NoWork = NoWork
INVARIANTS
  WithdrawnIsNeverRecognized
  MemoryIsOnDisk
  TemplateIsOfItsRecord
  WithdrawnIsNotTold
CHECK_DEADLOCK FALSE
