SPECIFICATION FairSpec
CONSTANTS
  ChunkSize = 1
  MaxCapacity = 1
  MaxLeaks = 0
  Threads = {t1}
  Parks = TRUE
  Outside = FALSE
  Destructors = FALSE
CHECK_DEADLOCK FALSE
PROPERTY RunnableServed
