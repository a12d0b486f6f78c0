SPECIFICATION BoundSpec
CONSTANTS
  t1 = t1
  t2 = t2
  Threads <- MCThreads
  HostThreads = {t2}
  Guards = {g1, g2}
  MaxDepth = 2
  None = None
  Classes = {c1, c2}
  SystemClass = c1
INVARIANTS
  RacesAreHarmless
  StaysAttached
  OneClassPerWrapper
SYMMETRY Symmetry
CHECK_DEADLOCK FALSE
