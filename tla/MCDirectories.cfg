\* Directories of up to five entries, in batches and pages of different sizes.  The
\* name of the last one is too long for Windows.
CONSTANTS
  MaxSize = 5
  FuseOpens = 4
  WindowsOpens = 5
  Batch = 3
  Page = 2
  TooLong = {5}
SPECIFICATION Spec
INVARIANTS
  RepliesExact
  RepliesFollowMarker
  HandleOwned
\* The directory may have been opened as often as the bound allows.
CHECK_DEADLOCK FALSE
