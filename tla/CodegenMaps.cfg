CONSTANTS
  Dars <- MapDars
  EmittedFiles <- Emitted
  MaxRuns = 3
SPECIFICATION Spec
INVARIANTS
  MapsAreTyped
CHECK_DEADLOCK FALSE
