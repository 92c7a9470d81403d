CONSTANTS
  None = None
  t1 = t1
  t2 = t2
  t3 = t3
  c1 = c1
  c2 = c2
  c3 = c3
  Tasks = {t1, t2, t3}
  Callers = {c1, c2, c3}
  Wants <- SharedWants
  Deadlines = {c1}
  MaxClears = 1
SPECIFICATION FairSpec
CHECK_DEADLOCK FALSE
INVARIANT NoLostWakeup
INVARIANT AnswersAreFresh
PROPERTY CallsEnd
INVARIANT CancelledForCause
