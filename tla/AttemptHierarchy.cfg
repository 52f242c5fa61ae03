\* The sequences run out, so in the end only creations and cancellations go on.
SPECIFICATION Spec
CONSTANTS
  OperationIds = {a, b}
  SequenceLimit = 5
  CreationLimit = 3
SYMMETRY Interchangeable
CHECK_DEADLOCK FALSE
INVARIANTS
  AttemptsStayWithTheirOperation
  CancellationIsAnchored
