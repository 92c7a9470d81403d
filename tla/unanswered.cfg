CONSTANTS
  None = None
  t1 = t1
  t2 = t2
  t3 = t3
  w1 = w1
  w2 = w2
  Tasks = {t1}
  Workers = {w1}
  MAX_TASK_ATTEMPTS = 1
  MaxConns = 1
  Unencodable = {}
  Faults = {"silence"}
SPECIFICATION Spec
SYMMETRY Symmetry
CHECK_DEADLOCK FALSE
INVARIANT TerminalIsRecorded
