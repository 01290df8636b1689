CONSTANTS
  Parties = {"alice", "bob"}
  Implements <- MCImplements
  Asked <- MCAsked
  Genesis <- MCGenesis
  MaxUpdates = 4
  MaxIntents = 2
  OwnId = {1}
  MaxCalls = 2
CHECK_DEADLOCK FALSE
SPECIFICATION Spec
INVARIANTS OneIntentOneCommit HistoryAccountsForState
