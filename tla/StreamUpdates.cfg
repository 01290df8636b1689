CONSTANTS
  LedgerEnd = 4
  BeginExclusive = 1
  Tracked <- UpdatesTracked
  Bounded = FALSE
  Reconnect = TRUE
  MaxAttempts = 3
  Manual = FALSE
  MaxLosses = 5
  MaxUnsettled = 1
  InitialDelay = 4
  MaxDelay = 12
  Factor = 2
  JitterPercent = 25
CHECK_DEADLOCK FALSE
SPECIFICATION TimedSpec
INVARIANTS TypeOK GapFree NoReplayBehindCursor NoSocketOutlivesStream NoCallLeftHanging GivesUpAfterMaxAttempts
PROPERTIES ImplementsLedgerFeed EveryMessageArrives AbortEndsLoop DelaysGrow
