SPECIFICATION Spec
CONSTANTS
  h1 = h1
  h2 = h2
  scan = scan
  m1 = m1
  m2 = m2
  Modems = {m1, m2}
  Parts = {"monitor", "startup"}
  Editors = {h1, h2, scan}
  Owned = {scan}
  MaxEvents = 4
  None = None
INVARIANTS
  OthersKept
  MemoryFollowsDisk
SYMMETRY Symmetry
CHECK_DEADLOCK FALSE
