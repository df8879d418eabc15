CONSTANTS
  N = 2
  QueueSize = 1
  PreMax = 1
  Tolerance = 1
  MaxIncidents = 0
SPECIFICATION FairSpec
PROPERTY FailureEnds
CHECK_DEADLOCK FALSE
