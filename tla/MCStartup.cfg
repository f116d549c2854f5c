SPECIFICATION Spec
CONSTANTS
  Texts = {"a", " a", "b", " ", ""}
  Empty = ""
  Trim <- MCTrim
  Accounts = {"s"}
  None = "none"
  MaxIds = 2
  Enablings <- MCEnablings
INVARIANTS
  TypeOK
  ReadyIsComplete
  NothingIsLost
  RefreshesSeeAll
  SignalStopsAttacks
PROPERTY ServesOrDies
CHECK_DEADLOCK FALSE
