SPECIFICATION FairDiscoverySpec
CONSTANTS
  p = p
  q = q
  r = r
  s = s
  t = t
  a = a
  b = b
  c = c
  AllProjects = {p, q, r}
  ThreadChoices <- Threads
  PartsOf <- MCPartsOf
  PartOf <- MCPartOf
  Resources = {a, b, c}
  MaxFaults = 1
  MaxChurn = 1
INVARIANTS
  DiscoveryTypeOK
  CompleteOnReturn
  SendsNeverBlock
  LostOnlyToFailure
  NoHalfProject
CHECK_DEADLOCK FALSE
PROPERTIES
  Terminates
