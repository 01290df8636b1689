CONSTANTS
  N = 3
  Kind <- ThreeKinds
  MaxCalls = 2
CHECK_DEADLOCK FALSE
SPECIFICATION CommandFairSpec
INVARIANTS RefusalIsFinal OutcomeIsTrue OneCallOneCommit OneKeyOneCommit
PROPERTIES NothingSentAfterAbort AbortWins CallsReturn
