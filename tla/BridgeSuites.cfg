SPECIFICATION SuiteSpec
CONSTANTS
  Suites <- BridgeScripts
  OperationIds = {1, 2, 3, 4, 5, 6, 7, 8, 9, 10}
  SequenceLimit = 11
  ProgressCapacity = 2
  Shutdowns = {1, 2}
  Freedoms = {}
  FreeSequences = 2
  None = None
INVARIANTS
  SuitesPass
PROPERTIES
  SuitesEnd
  ShutdownCompletes
