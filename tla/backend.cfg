SPECIFICATION FairSpec
CONSTANTS
  c1 = c1
  c2 = c2
  c3 = c3
  Calls = {c1, c2, c3}
  max_in_flight = 1
  MaxLives = 2
INVARIANTS
  PermitsConserved
  OnlyInPool
  MetricsBalance
PROPERTY
  CallsEnd
CHECK_DEADLOCK FALSE
