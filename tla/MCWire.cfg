\* Two threads, an ordinary and an oversized request, four calls.
CONSTANTS
  None = None
  Threads = {t1, t2}
  Operations = {op, large}
  Oversized = {large}
  MaxId = 4
SPECIFICATION FairSpec
INVARIANTS
  FramesMatch
  InOrderOnce
PROPERTIES
  SuccessIsReal
  TimedOutIsLast
  ImplementsChannel
  LockReturned
\* The calls are bounded, and a stopped server refuses the rest.
CHECK_DEADLOCK FALSE
