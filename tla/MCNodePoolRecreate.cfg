SPECIFICATION Spec
CONSTANTS
  a = a
  b = b
  c = c
  x = x
  g1 = g1
  g2 = g2
  odd = odd
  Instances = {a, b, c, x}
  Groups = {g1, g2, odd}
  ZonalGroups = {g1, g2}
  GroupOf <- MCGroupOf
  Execs = {e1, e2}
  Percentages = {0, 50, 67, 100}
  MaxFaults = 1
  MaxChurn = 1
SYMMETRY Symmetric
INVARIANTS
  TypeOK
  BlastRadius
  SuccessIsComplete
  OncePerCall
CHECK_DEADLOCK FALSE
