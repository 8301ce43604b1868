\* Safety of the Windows mount: two contexts, one dispatcher.
CONSTANTS
  None = None
  Dispatcher = Dispatcher
  Lifecycle = Lifecycle
  Contexts = {c1, c2}
SPECIFICATION Spec
SYMMETRY Symmetry
INVARIANTS
  TypeOK
  NothingOpenAtDetach
  OnlyBrowsingAfterDetach
  DetachedMeansGone
  DetachOnlyOnRequest
  HandlesAgree
PROPERTIES
  KeepsPromise
\* The process ends: run() returns.
CHECK_DEADLOCK FALSE
