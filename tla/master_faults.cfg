CONSTANTS
  None = None
  t1 = t1
  t2 = t2
  t3 = t3
  w1 = w1
  w2 = w2
  Tasks = {t1}
  Workers = {w1, w2}
  MAX_TASK_ATTEMPTS = 2
  MaxConns = 2
  Unencodable = {}
  Faults = {"crash", "silence", "shutdown", "duplicate"}
SPECIFICATION FairSpec
CHECK_DEADLOCK FALSE
INVARIANT NoOrphan
INVARIANT BusyHasTask
INVARIANT LatestGeneration
INVARIANT RunningIsHeard
PROPERTY TasksEnd
PROPERTY TasksAnswered
PROPERTY DrainCloses
