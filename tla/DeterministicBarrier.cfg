\* One participant more than declared, and one coordinator that does not wait.
SPECIFICATION FairSpec
CONSTANTS
  Participants = {p1, p2, p3, p4}
  Coordinators = {c1, c2}
  Hasty = {c2}
  Expected = 3
INVARIANTS
  OpensOnExactArrival
PROPERTIES
  OvercrowdedNeverOpens
  ArrivedGetOut
