SPECIFICATION Spec
CONSTANTS
  v1 = v1
  v2 = v2
  v3 = v3
  e1 = e1
  e2 = e2
  None = None
  Places <- TwoZones
  Ids = {v1, v2, v3}
  Execs = {e1, e2}
  Requests = {"delete", "stop", "start", "reboot"}
  MaxFaults = 1
  MaxStarts = 2
SYMMETRY Symmetric
INVARIANT TypeOK
PROPERTIES
  Promise
  OnlyASuccessorIsHitInstead
  ChangesAsRequested
CHECK_DEADLOCK FALSE
