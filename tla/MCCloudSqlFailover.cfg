SPECIFICATION Spec
CONSTANTS
  e1 = e1
  e2 = e2
  None = None
  Execs = {e1, e2}
  MaxVersion = 2
  MaxFaults = 2
  MaxStarts = 2
SYMMETRY Symmetric
INVARIANTS
  TypeOK
  OnlyIfDiscoveredAvailable
PROPERTIES
  NothingSlipsBetween
  Promise
CHECK_DEADLOCK FALSE
