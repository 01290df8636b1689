CONSTANTS
  Templates = {t1}
  Parties = {p1, p2}
  MaxMutations = 2
  PolledTemplates = {t1, t2}
  MaxPolls = 3
  MaxRuns = 2
  MaxInFlight = 3
CHECK_DEADLOCK FALSE
SPECIFICATION MCSpec
INVARIANTS PartySeesItsOwn LoadedListsCatchUp OneRunPolls
PROPERTIES DeadRunsAreSilent LoadingEnds
