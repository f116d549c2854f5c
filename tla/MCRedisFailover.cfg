SPECIFICATION RedisSpec
CONSTANTS
  e1 = e1
  e2 = e2
  i1 = i1
  None = None
  Execs = {e1, e2}
  Instances = {i1}
  Target <- SameInstance
  Unknown = {"", "force_data_loss"}
  MaxFaults = 2
  MaxDamage = 1
  MaxStarts = 2
SYMMETRY Symmetric
INVARIANTS
  RedisTypeOK
  ModeAsRequested
PROPERTY RedisPromise
CHECK_DEADLOCK FALSE
