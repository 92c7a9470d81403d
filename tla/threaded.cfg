SPECIFICATION FairSpec
CONSTANTS
  Tasks = {t1, t2}
  Workers = {w1, w2}
  MAX_TASK_ATTEMPTS = 2
  EXPECTED_WORKERS = 2
  None = None
INVARIANTS
  OneReaderPerConnection
  FailedWorkerHasNoTask
  DrainIsComplete
PROPERTIES
  MonitorSurvivesDrain
  ImplementsLifecycle
  DrainReturns
CHECK_DEADLOCK FALSE
