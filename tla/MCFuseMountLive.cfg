\* Liveness of the FUSE mount, with one slot.
CONSTANTS
  None = None
  Session = Session
  Lifecycle = Lifecycle
  Opened = {o1}
SPECIFICATION FairSpec
PROPERTIES
  CallbacksReturn
  DetachResolves
  UnmountNoticed
  ServerLossEndsMount
  HandlesReturned
CHECK_DEADLOCK FALSE
