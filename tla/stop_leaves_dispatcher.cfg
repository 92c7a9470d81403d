SPECIFICATION Spec
CONSTANTS
  t1 = t1
  t2 = t2
  w1 = w1
  w2 = w2
  None = None
  Tasks = {t1}
  Workers = {w1, w2}
  MAX_TASK_ATTEMPTS = 2
  LateCalls = TRUE
  Drains = FALSE
  MaxLoops = 2
  MaxStarts = 2
  MaxRegistrations = 2
INVARIANT NoDispatcherLeft
CHECK_DEADLOCK FALSE
