CONSTANTS
  Threads = {t1, t2, t3}
  NoThread = NoThread
  NoClip = NoClip
  JoinSeconds = 3
  Horizon = 4
  MaxSetBacks = 1
SPECIFICATION FairSpec
INVARIANTS TypeOK OneRecorder StartHonoured
PROPERTIES ClipsKept ImplementsService
CHECK_DEADLOCK FALSE
