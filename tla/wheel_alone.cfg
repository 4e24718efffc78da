SPECIFICATION Spec
CONSTANTS
  ChunkSize = 2
  MaxCapacity = 4
  MaxLeaks = 0
  Threads = {}
  Parks = TRUE
  Outside = FALSE
  Destructors = FALSE
CHECK_DEADLOCK FALSE
INVARIANT NoneLeftRunnable
