SPECIFICATION Spec
CONSTANTS
  o1 = o1
  o2 = o2
  key = key
  counter = counter
  buffer = buffer
  Threads = {t1, t2}
  Objects <- MCObjects
  Keys = {key}
  HashOf <- MCHashOf
  States <- MCStates
  TypeOf <- MCTypeOf
  Types = {"Counter", "Buffer"}
  Reentrant = {counter}
  CleanerMayFail = TRUE
  JniMayFail = TRUE
  None = None
  NoState = NoState
  NoAnswer = NoAnswer
  Nobody = Nobody
PROPERTIES
  ImplementsObjectState
  LiveStateIsKept
  DeadIsReleased
  OperationsReturn
CHECK_DEADLOCK FALSE
