\* Listing a directory again after reads that failed.
CONSTANTS
  MaxSize = 2
  MaxOpens = 2
  Batch = 1
  Page = 1
  Growing = FALSE
  Shrinking = FALSE
  TooLong = {}
SPECIFICATION Spec
INVARIANT
  ListingComplete
CHECK_DEADLOCK FALSE
