CONSTANTS
  Threads = {t1, t2}
  NoThread = NoThread
  NoClip = NoClip
  JoinSeconds = 1
  Horizon = 2
  MaxSetBacks = 0
  MaxChains = 2
SPECIFICATION GuiSpec
INVARIANT SavedMeansSaved
CHECK_DEADLOCK FALSE
