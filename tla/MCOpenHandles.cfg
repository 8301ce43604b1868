\* Two contexts at a time on a directory and two files, with flushes of the volume.
CONSTANTS
  Names = {"a", "b"}
  Dirs = {"d"}
  Files = {"x", "y"}
  MaxHandles = 2
SPECIFICATION Spec
INVARIANTS
  FlushHonest
  PathsFollow
