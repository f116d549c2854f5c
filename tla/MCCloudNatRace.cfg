SPECIFICATION Spec
CONSTANTS
  n1 = n1
  n2 = n2
  e1 = e1
  e2 = e2
  c1 = c1
  c2 = c2
  None = None
  Nats = {n1, n2}
  Configs = {c1, c2}
  Execs = {e1, e2}
  Target <- OnSameNat
  WindowsOverlap = TRUE
  LateOperations = TRUE
  EmptyListWritten = TRUE
  StopAwaitsStart = FALSE
  MaxFaults = 1
  MaxEdits = 0
INVARIANT AbsentOrIntended
CHECK_DEADLOCK FALSE
