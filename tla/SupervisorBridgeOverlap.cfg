SPECIFICATION Spec
CONSTANTS
  OperationIds = {a}
  SequenceLimit = 2
  ProgressCapacity = 1
  Shutdowns = {x, y}
  Freedoms = {"overlap"}
  None = None
SYMMETRY Interchangeable
CHECK_DEADLOCK FALSE
INVARIANTS
  RetainedTasksOwnHandles
