CONSTANTS
  Absent = Absent
  Torn = Torn
  NoObject = NoObject
  Mistyped = Mistyped
  MaxHeard = 3
  MaxRuns = 3
SPECIFICATION FairSpec
INVARIANTS TypeOK OneLaunchPerRun
PROPERTY WakeIsHeard
CHECK_DEADLOCK FALSE
