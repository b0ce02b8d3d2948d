SPECIFICATION Spec
CONSTANTS
  Threads = {t1, t2}
  Arrays = {a1, a2, a3}
  Unit = 2
  MaxCacheSize = 4
  Requests = {1, 3, 5}
  Starts = {0, 3}
  Null = Null
INVARIANTS TypeOK OneHolder RoomEnough OwnBytes CacheAccounts
SYMMETRY Symmetry
CHECK_DEADLOCK FALSE
