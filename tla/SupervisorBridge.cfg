SPECIFICATION Spec
CONSTANTS
  OperationIds = {a, b}
  SequenceLimit = 3
  ProgressCapacity = 1
  Shutdowns = {x, y}
  Freedoms = {"overlap", "timeout", "drop"}
  None = None
SYMMETRY Interchangeable
CHECK_DEADLOCK FALSE
INVARIANTS
  RecordsFollowActive
  NoWorkerIsLost
  OutcomesValidate
  HandlesTakenOnce
  SnapshotNotEarlier
PROPERTIES
  ReleasedRecordIsFinal
  RefinesContract
