CONSTANTS
  Templates = {t1, t2}
  MaxPolls = 3
  MaxRuns = 2
  MaxInFlight = 2
CHECK_DEADLOCK FALSE
SPECIFICATION Spec
PROPERTY ListMovesForward
