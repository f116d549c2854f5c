SPECIFICATION Spec
CONSTANTS
  a = a
  b = b
  c = c
  z = z
  e1 = e1
  e2 = e2
  Instances = {a, b, c, z}
  Migs <- MCMigs
  MigOf <- MCMigOf
  Execs = {e1, e2}
  Target <- OneEach
  Percentages = {0, 1, 50, 67, 100, 101}
  MaxFaults = 2
  MaxChurn = 2
SYMMETRY Symmetric
INVARIANTS
  TypeOK
  BlastRadius
  SuccessIsComplete
CHECK_DEADLOCK FALSE
