SPECIFICATION Spec
CONSTANTS
  n1 = n1
  n2 = n2
  e1 = e1
  e2 = e2
  c1 = c1
  c2 = c2
  None = None
  Nats = {n1, n2}
  Configs = {c1, c2}
  Execs = {e1, e2}
  Target <- OnSiblings
  WindowsOverlap = TRUE
  LateOperations = FALSE
  EmptyListWritten = FALSE
  StopAwaitsStart = TRUE
  MaxFaults = 0
  MaxEdits = 0
INVARIANTS
  RestoredAtStop
CHECK_DEADLOCK FALSE
