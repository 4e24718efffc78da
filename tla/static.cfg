SPECIFICATION Spec
CONSTANTS
  N = 2
  UintMax = 4
  StartSuspended = {1}
  Events = {0}
CHECK_DEADLOCK FALSE
INVARIANTS TypeOK SuspendedCovered CountsExact WakerNotLost DisposedClean
PROPERTY LockIsFresh
