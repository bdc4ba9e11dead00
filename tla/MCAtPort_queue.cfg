SPECIFICATION Spec
CONSTANTS
  MaxJobs = 3
  Capacity = 2
  ActionLimit = 2
  MaxChatter = 0
  Floods = FALSE
INVARIANTS
  WaitingIsChannel
  Accounted
  AcceptingHasWorker
PROPERTIES
  Implements
CHECK_DEADLOCK FALSE
