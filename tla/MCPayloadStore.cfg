CONSTANTS
  Ids = {p1, p2}
  Files = {attachments, message}
  MaxFaults = 3
SYMMETRY Symmetry
SPECIFICATION Spec
INVARIANTS
  SavedIsDurable
  RecoveryFindsOnlyRecords
  OrphanKept
CHECK_DEADLOCK FALSE
