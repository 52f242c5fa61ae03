CONSTANTS
  OperationIds = {a, b}
  FirstSequence = 1
  SequenceLimit = 3
  ProgressCapacity = 1
  PublishLimit = 2
  ShutdownCallers = {x}
  None = None
SPECIFICATION FairSpec
INVARIANTS
  TypeOK
  ActiveAgreement
  CountersAgree
  QuiesceReachesEveryAttempt
  CancelledOnDemand
  ShutdownAccountsForEveryAttempt
PROPERTIES
  TerminalIsFinal
  RefinesContract
  QuiescingCloses
