SPECIFICATION FairSpec
CONSTANTS
  m1 = m1
  m2 = m2
  a1 = a1
  a2 = a2
  t1 = t1
  t2 = t2
  Messages = {m1, m2}
  MaxId = 1
  NumSinks = 2
  Targets = {t1, t2}
  Off = Off
  Configs <- OneTarget
  NoModem = NoModem
  MaxAttempts = 2
  MaxRetries = 0
  Admins = {}
  MaxCrashes = 1
  DbFails = FALSE
  None = None
INVARIANTS
  TypeOK
  DeliveredTruthful
PROPERTIES
  JobsSettle
CHECK_DEADLOCK FALSE
