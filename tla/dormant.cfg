SPECIFICATION Spec
CONSTANTS
  Procs = {p1, p2, p3}
  None = None
  Notifiers = {n1, n2}
  TaskKeys = {a, b}
  NoTask = NoTask
  MaxQueued = 2
  MaxLeaked = 1
INVARIANTS TypeOK MarkerExclusive WakerExclusive NotifyKept NeverLost
PROPERTIES TakeNoticed CallsComplete PollEnds PollReturnsTrue
CHECK_DEADLOCK FALSE
