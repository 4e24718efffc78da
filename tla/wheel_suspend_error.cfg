SPECIFICATION Spec
CONSTANTS
  ChunkSize = 1
  MaxCapacity = 2
  MaxLeaks = 1
  Threads = {}
  Parks = TRUE
  Outside = FALSE
  Destructors = FALSE
CHECK_DEADLOCK FALSE
INVARIANT SuspendErrorExact
