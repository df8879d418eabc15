CONSTANTS
  Threads = {t1, t2}
  NoThread = NoThread
  NoClip = NoClip
  JoinSeconds = 1
  Horizon = 1
  MaxSetBacks = 1
  MaxChains = 2
SPECIFICATION GuiFairSpec
INVARIANTS GuiTypeOK StoppedIsSettled
PROPERTY WindowThaws
CHECK_DEADLOCK FALSE
