CONSTANTS
  PageSize = 2
  Cap = 2
  Migrations = 2
  Times = 3
  MaxUpdates = 5
  Items <- SmallItems
CHECK_DEADLOCK FALSE
SPECIFICATION MCSpec
INVARIANTS YieldsHistory ArrivesAsTyped NeverSentWithHoles
PROPERTY WalkOfUserEnds
