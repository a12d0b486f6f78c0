SPECIFICATION Spec
CONSTANTS
  Threads = {t1, t2}
  Handlers = {"closure", "typed"}
  Declares <- MCDeclares
  Shells = {s1, s2}
  Methods <- MCMethods
  Primitives = {"int"}
  Object = "Object"
  BootstrapMayFail = TRUE
  JniMayFail = TRUE
  MaxDepth = 2
  None = None
SYMMETRY MCSymmetry
INVARIANTS
  PendingIsOwn
  HandlerIsItsOwn
  RunsWhatWasCalled
PROPERTIES
  OnlyProxyBinds
CHECK_DEADLOCK FALSE
