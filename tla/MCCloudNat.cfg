SPECIFICATION FairSpec
CONSTANTS
  n1 = n1
  n2 = n2
  e1 = e1
  e2 = e2
  c1 = c1
  c2 = c2
  None = None
  Nats = {n1, n2}
  Configs = {c1, c2}
  Execs = {e1, e2}
  Target <- OnSameNat
  WindowsOverlap = FALSE
  LateOperations = FALSE
  EmptyListWritten = TRUE
  StopAwaitsStart = TRUE
  MaxFaults = 2
  MaxEdits = 1
INVARIANTS
  TypeOK
  RouterAsIntended
  SnapshotIsIntended
PROPERTIES
  Promise
  EventuallyAsIntended
CHECK_DEADLOCK FALSE
