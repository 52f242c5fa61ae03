CONSTANTS
  Suites <- ReferenceSuites
  OperationIds = {1, 2, 3, 4, 5, 6, 7}
  FirstSequence = 1
  SequenceLimit = 8
  ProgressCapacity = 2
  PublishLimit = 4
  ShutdownCallers = {"main"}
  None = None
  Concurrent = 3
  Historical = 4
SPECIFICATION SuiteSpec
INVARIANTS
  SuitesPass
  ProgressIsNewestWindow
