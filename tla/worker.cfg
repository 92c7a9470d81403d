SPECIFICATION FairRunSpec
CONSTANTS
  MaxTasks = 2
  MaxUnread = 3
  MaxCancels = 2
  Faults = {"start", "stop", "execute", "master", "refused"}
INVARIANTS
  HandshakeInOrder
  NothingLeft
  GracefulExit
PROPERTIES
  ShutdownEnds
  LossEndsWorker
  RunEnds
CHECK_DEADLOCK FALSE
