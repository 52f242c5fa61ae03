\* Two publishers, alike or in conflict, at most two injected faults.
SPECIFICATION FairSpec
CONSTANTS
  Publishers = {p, q}
  Contents = {x, y}
  Corrupted = Corrupted
  InjectLimit = 2
  None = None
INVARIANTS
  OutcomesAreTrue
  VisibleIsVerified
  StagesAreCleaned
PROPERTIES
  NoClobber
  RecoveryConverges
