SPECIFICATION Spec
CONSTANTS
  f = f
  g = g
  x = x
  shared = shared
  objectSlot = objectSlot
  intSlot = intSlot
  otherSlot = otherSlot
  Threads = {t1}
  Callables <- MCCallables
  Explicit = {x}
  Trampolines = {shared}
  TrampolineOf <- MCTrampolineOf
  Generic = {f, g}
  Slots <- MCSlots
  Fit <- MCFit
  MaxBatch = 2
  None = None
INVARIANTS
  RunsTheRegistered
  CheckedBatchIsUnambiguous
  AcceptedIsBound
