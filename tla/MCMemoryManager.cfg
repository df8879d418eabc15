CONSTANTS
  MaxEntries = 4
  Absent = Absent
  Torn = Torn
  NoMemory = NoMemory
SPECIFICATION Spec
INVARIANTS TypeOK AckedIsKept ClearedStaysCleared RecentIsRecent
PROPERTY TornIsFinal
CHECK_DEADLOCK FALSE
