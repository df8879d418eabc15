CONSTANTS
  MaxThreads = 4
  MaxJobs = 5
  MaxCalls = 2
SPECIFICATION FairSpec
INVARIANTS TypeOK EachJobOnce OwnNumber
PROPERTIES NoLostWakeup CallsReturn
CHECK_DEADLOCK FALSE
