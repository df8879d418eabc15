CONSTANTS
  MaxSends = 3
  Timeout = 2
SPECIFICATION FairSpec
INVARIANTS TypeOK RepliesFollowTheirMessage EveryMessageAccounted
PROPERTY SendReturns
CHECK_DEADLOCK FALSE
