SPECIFICATION CallbackSpec
CONSTANTS
  event1 = event1
  event2 = event2
  Wakers = {w1, w2}
  NoWaker = NoWaker
  Outcomes <- MCOutcomes
  SpawnError = SpawnError
  NoOutcome = NoOutcome
  SpawnMayFail = TRUE
  Repoll = {}
  Events <- MCEvents
  Closed = Closed
  MaxEvents = 2
INVARIANTS
  FirstEventWins
  SendErrorMeansSettled
PROPERTIES
  EventIsDelivered
  WorkerEnds
CHECK_DEADLOCK FALSE
