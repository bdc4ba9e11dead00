SPECIFICATION FairSpec
CONSTANTS
  k1 = k1
  k2 = k2
  Keys = {k1, k2}
  MaxEvents = 4
  None = None
INVARIANTS
  TypeOK
PROPERTIES
  AutoAfterStartup
  AutoConnects
CHECK_DEADLOCK FALSE
