SPECIFICATION Spec
CONSTANTS
  m1 = m1
  m2 = m2
  a1 = a1
  a2 = a2
  t1 = t1
  t2 = t2
  Messages = {m1}
  MaxId = 1
  NumSinks = 1
  Targets = {t1, t2}
  Off = Off
  Configs <- AllConfigs
  NoModem = NoModem
  MaxAttempts = 2
  MaxRetries = 1
  Admins = {a1, a2}
  MaxCrashes = 1
  DbFails = TRUE
  None = None
INVARIANTS
  AttemptsBounded
  ClaimIsExclusive
  OpenJobsBelong
PROPERTIES
  NewMessagesQueued
SYMMETRY Symmetry
CHECK_DEADLOCK FALSE
