SPECIFICATION Spec
CONSTANTS
  c1 = c1
  c2 = c2
  r1 = r1
  r2 = r2
  b1 = b1
  b2 = b2
  d1 = d1
  Calls = {c1}
  Deletes = {d1}
  Requests = {r1}
  Bodies = {b1}
  MaxId = 1
  Parts = 1
  MaxCrashes = 0
  DbFails = FALSE
  NoRow = NoRow
INVARIANTS
  RecordedSend
CHECK_DEADLOCK FALSE
