SPECIFICATION Spec
CONSTANTS
  Customer = {c1, c2, c3}
  Nobody = nobody
  N = 2
INVARIANTS
  MonitorTypeOK
  NeverGreetsNobody
  LeftBehindBySignals
PROPERTIES
  OldestFirst
  EveryoneIsCalled
CHECK_DEADLOCK FALSE
