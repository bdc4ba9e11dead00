SPECIFICATION FairSpec
CONSTANTS
  MaxJobs = 1
  Capacity = 1
  ActionLimit = 1
  MaxChatter = 0
  Floods = FALSE
PROPERTIES
  CloseSparesRecovery
CHECK_DEADLOCK FALSE
