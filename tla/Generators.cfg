CONSTANTS
  Tags = {1, 2}
  Contents = {1, 2}
  Published <- MCPublished
  LastTarget = 2
  Described = {2}
  Released <- MCReleased
  Absent = Absent
  Torn = Torn
  Whole = Whole
  MaxFaults = 1
  Dars <- MCDars
  EmittedFiles <- MCEmitted
  MaxRuns = 3
CHECK_DEADLOCK FALSE
SPECIFICATION GeneratorsSpec
INVARIANTS
  IndexNeverDangles
  SuccessMeansCurrent
  FilesFitTogether
  VerifiedIsPublished
  RefreshVerifies
PROPERTY SyncedAgainVerifies
