SPECIFICATION JavaSpec
CONSTANTS
  w1 = w1
  w2 = w2
  w3 = w3
  good = good
  odd = odd
  poison = poison
  plain = plain
  nested = nested
  cancelled = cancelled
  Wakers <- MCWakers
  NoWaker = NoWaker
  Outcomes <- JavaOutcomes
  SpawnError = SpawnError
  NoOutcome = NoOutcome
  SpawnMayFail = TRUE
  Repoll = {"outcome"}
  Values <- MCValues
  Null = Null
  Convertible = {good}
  Panicking = {poison}
  Throwables <- MCThrowables
  Cancellations = {cancelled}
  CauseOf <- MCCauseOf
  NoThrowable = NoThrowable
  Annotations = {"i32", "Option<i32>", "String", "Option<String>"}
INVARIANTS
  NoLostWakeup
  OneOutcome
  DeliversTheCompletion
PROPERTIES
  ImplementsOneShot
  CompletedIsDelivered
CHECK_DEADLOCK FALSE
