\* Rewinding a directory that was empty.
CONSTANTS
  MaxSize = 1
  MaxOpens = 2
  Batch = 1
  Page = 1
  Growing = TRUE
  Shrinking = FALSE
SPECIFICATION Spec
INVARIANT
  RewindStartsFresh
CHECK_DEADLOCK FALSE
