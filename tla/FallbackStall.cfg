CONSTANTS
  N = 2
  Kind <- JsonPair
CHECK_DEADLOCK FALSE
SPECIFICATION ClientFairSpec
PROPERTY TimeoutBoundsRequest
