CONSTANTS
  N = 2
  QueueSize = 1
  PreMax = 3
  Tolerance = 1
  MaxIncidents = 1
SPECIFICATION FairSpec
INVARIANTS TypeOK BoundedLead
PROPERTIES Delivered QueueIsChannels TranscodeEnds
CHECK_DEADLOCK FALSE
