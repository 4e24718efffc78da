SPECIFICATION Spec
CONSTANTS
  N = 2
  UintMax = 3
  StartSuspended = {1}
  Events = {0}
CHECK_DEADLOCK FALSE
PROPERTY ReadyMeansFinished
