\* A file of up to four bytes, buffers of up to five, chunks of two.
CONSTANTS
  Epoch = 3
  Ticks = 2
  MaxTime = 12
  MaxWord = 25
  Chunk = 2
  MaxSize = 4
  MaxBuffer = 5
  Times <- MCTimes
  Attempts <- MCAttempts
SPECIFICATION Spec
INVARIANTS
  ReadsExact
  WritesInPlace
  RefusedChangesNothing
  OnlyOwnerWrite
  TimesKept
