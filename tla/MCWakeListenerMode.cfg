CONSTANTS
  Absent = Absent
  Torn = Torn
  NoObject = NoObject
  Mistyped = Mistyped
  MaxHeard = 3
  MaxRuns = 3
SPECIFICATION FairSpec
INVARIANT BootModeHonoured
CHECK_DEADLOCK FALSE
