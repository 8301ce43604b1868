\* Safety of the FUSE mount: two open files or directories, one session.
CONSTANTS
  None = None
  Session = Session
  Lifecycle = Lifecycle
  Opened = {o1, o2}
SPECIFICATION Spec
SYMMETRY Symmetry
INVARIANTS
  DetachedMeansGone
  HandlesAgree
  ReportsExpected
PROPERTIES
  KeepsPromise
\* The process ends: run() returns.
CHECK_DEADLOCK FALSE
