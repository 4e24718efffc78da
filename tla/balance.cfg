SPECIFICATION Spec
CONSTANTS
  Wrappers = {"first", "second"}
  Keys = {0, 1, 2}
  Slots = {1, 2}
  Longest = 2
  Settings <- AllSettings
INVARIANTS  RefusedForLess BoundedLead EntriesAreWrappers TimeIsOwn
PROPERTY GroupProgress
CHECK_DEADLOCK FALSE
