CONSTANTS
  Tests <- MCTests
  MaxPolls = 2
CHECK_DEADLOCK FALSE
SPECIFICATION FairSpec
INVARIANTS NoAdvanceLost RecordingReplays
PROPERTY SetupSettles
