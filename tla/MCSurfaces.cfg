SPECIFICATION Spec
CONSTANTS
  Values = {1, 2}
  Startup = 1
  RING_SIZE = 2
  QUEUE_LENGTH = 2
  OUT_LENGTH = 2
  SMALL_MTU = 1
  MTU = 2
  RETRY_LIMIT = 2
  MaxLinks = 2
  MaxSends = 3
CHECK_DEADLOCK FALSE
INVARIANTS NoMessageOfTwoLinks SurfaceFollows AskersAreTold
