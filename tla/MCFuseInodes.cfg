\* The inode table, alone on the remote tree or with other clients.
CONSTANTS
  None = None
  Names = {a, b}
  Objects = {x, y, z}
  Handles = {h1, h2}
  MaxNode = 4
  MaxLookups = 2
  MaxOpen = 2
  SharedLookups = 2
  SharedOpen = 1
SPECIFICATION Spec
SYMMETRY Symmetry
INVARIANTS
  PathsComplete
  SameObject
  DirsFollow
  KernelServed
  PathsSound
\* All inodes may be given out.
CHECK_DEADLOCK FALSE
