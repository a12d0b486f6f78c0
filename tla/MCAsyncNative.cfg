SPECIFICATION AsyncSpec
CONSTANTS
  onThread = onThread
  onTask = onTask
  good = good
  odd = odd
  poison = poison
  thrown = thrown
  unheard = unheard
  other = other
  Calls <- MCCalls
  TokioCalls = {onTask}
  Joining = {onThread}
  RuntimeThreads = 1
  Values <- MCValues
  Rejected = {odd}
  Panicking = {poison}
  Errors <- MCErrors
  JavaExceptions <- MCJavaExceptions
  Unknown = {unheard}
  JniMayFail = TRUE
  Unset = Unset
INVARIANTS
  DeliversTheResult
PROPERTIES
  EveryCallSettles
  WorkerEnds
CHECK_DEADLOCK FALSE
