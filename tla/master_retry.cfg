CONSTANTS
  None = None
  t1 = t1
  t2 = t2
  t3 = t3
  w1 = w1
  w2 = w2
  Tasks = {t1, t2, t3}
  Workers = {w1, w2}
  MAX_TASK_ATTEMPTS = 2
  MaxConns = 2
  Unencodable = {t3}
  Faults = {"crash", "silence"}
SPECIFICATION Spec
SYMMETRY Symmetry
CHECK_DEADLOCK FALSE
INVARIANT CurrentIsRunning
INVARIANT OneTaskPerWorker
INVARIANT HolderIsWorking
PROPERTY ImplementsLifecycle
