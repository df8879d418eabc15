CONSTANTS
  Loops = {l1, l2, l3, l4}
  MaxStops = 4
SPECIFICATION FairSpec
INVARIANTS TypeOK FlagServed OneLoopPerOnPeriod EndsAfterOwnStop
PROPERTY StopDrains
CHECK_DEADLOCK FALSE
