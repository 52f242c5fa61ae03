SPECIFICATION Spec
CONSTANTS
  OperationIds = {a}
  SequenceLimit = 3
  ProgressCapacity = 1
  Shutdowns = {x}
  Freedoms = {}
  None = None
SYMMETRY Interchangeable
CHECK_DEADLOCK FALSE
INVARIANTS
  WaitReleasedObservesRelease
