SPECIFICATION FairSpec
CONSTANTS
  ChunkSize = 1
  MaxCapacity = 2
  MaxLeaks = 1
  Threads = {t1}
  Parks = TRUE
  Outside = FALSE
  Destructors = TRUE
CHECK_DEADLOCK FALSE
INVARIANTS TypeOK CountExact CurrentExact WakerNotLost VerdictTrue
PROPERTIES Lifecycle WakeReachesExecutor
