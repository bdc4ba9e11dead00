SPECIFICATION FairSpec
CONSTANTS
  x1 = x1
  x2 = x2
  x3 = x3
  r1 = r1
  Texts = {x1, x2, x3}
  Header <- Sent
  Window = 1
  Slots = {1, 2}
  Records = {r1}
  First = "urc"
  MaxArrivals = 3
  MaxEvents = 2
  None = None
INVARIANTS
  TypeOK
  HistoryIsSound
PROPERTIES
  ArrivalsImported
CHECK_DEADLOCK FALSE
