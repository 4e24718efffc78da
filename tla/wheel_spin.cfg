SPECIFICATION FairSpec
CONSTANTS
  ChunkSize = 1
  MaxCapacity = 2
  MaxLeaks = 1
  Threads = {t1}
  Parks = FALSE
  Outside = TRUE
  Destructors = TRUE
CHECK_DEADLOCK FALSE
PROPERTIES RunnableServed CancelledRemoved
