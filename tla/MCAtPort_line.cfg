SPECIFICATION FairSpec
CONSTANTS
  MaxJobs = 2
  Capacity = 1
  ActionLimit = 2
  MaxChatter = 1
  Floods = TRUE
INVARIANTS
  TypeOK
  NoForeignReply
  QuietBeforeCommand
PROPERTIES
  CloseDropsNoJob
  EveryJobAnswered
CHECK_DEADLOCK FALSE
