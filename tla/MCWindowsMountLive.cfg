\* Liveness of the Windows mount.  One context: no symmetry, and the threads
\* contend in the same way.
CONSTANTS
  None = None
  Dispatcher = Dispatcher
  Lifecycle = Lifecycle
  Contexts = {c1}
SPECIFICATION FairSpec
PROPERTIES
  CallbacksReturn
  DetachResolves
  ServerLossEndsMount
CHECK_DEADLOCK FALSE
