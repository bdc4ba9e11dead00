SPECIFICATION FairSpec
CONSTANTS
  c1 = c1
  c2 = c2
  r1 = r1
  r2 = r2
  b1 = b1
  b2 = b2
  d1 = d1
  Calls = {c1, c2}
  Deletes = {d1}
  Requests = {r1, r2}
  Bodies = {b1, b2}
  MaxId = 2
  Parts = 2
  MaxCrashes = 1
  DbFails = TRUE
  NoRow = NoRow
INVARIANTS
  TypeOK
  AtMostOnce
  AnswerMatches
  SendingIsOwned
  StatusTruthful
PROPERTIES
  ResolvedIsFinal
  OutcomeRecorded
CHECK_DEADLOCK FALSE
