CONSTANTS
  Templates = {t1}
  Parties = {p1, p2}
  MaxMutations = 2
CHECK_DEADLOCK FALSE
SPECIFICATION Spec
INVARIANT ListsShowContracts
