SPECIFICATION CallSpec
CONSTANTS
  tokioTask = tokioTask
  otherTask = otherTask
  value = value
  exception = exception
  badArgument = badArgument
  Wakers <- MCWakers
  NoWaker = NoWaker
  Outcomes <- MCOutcomes
  SpawnError = SpawnError
  NoOutcome = NoOutcome
  SpawnMayFail = TRUE
  Repoll = {}
  TokioTasks = {tokioTask}
  Answers <- MCAnswers
  Refusals = {badArgument}
  UserConverts = TRUE
INVARIANTS
  OneInvocation
PROPERTIES
  StartedRuns
  CallIsDelivered
CHECK_DEADLOCK FALSE
