CONSTANTS
  N = 2
  Hwaccels = {"none", "plain", "async", "safe"}
  MaxPackets = 3
  MaxIncidents = 1
SPECIFICATION FairSpec
INVARIANTS TypeOK ContextIsPredecessors HwaccelAlone
PROPERTIES OutputInOrder CallsReturn
CHECK_DEADLOCK FALSE
