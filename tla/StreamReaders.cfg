CONSTANT LedgerEnd = 3
CHECK_DEADLOCK FALSE
SPECIFICATION Spec
INVARIANTS InOrderForEveryReader ContractsLoopSettles
PROPERTY ContractsImplementFeed
