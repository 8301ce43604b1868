\* The warning of a callback that runs before Ready is rejected.
CONSTANTS
  None = None
  Dispatcher = Dispatcher
  Lifecycle = Lifecycle
  Contexts = {c1}
SPECIFICATION Spec
INVARIANT
  WarningsReachParent
CHECK_DEADLOCK FALSE
