SPECIFICATION FairSpec
CONSTANTS
  Configs <- Edits
  First <- Base
  Slots = {1, 2}
  ClientOps = {"disconnect", "switch"}
  PinEnabled = TRUE
  PinTries = 1
  Setup = 0
  Netdev = wwan0
  MaxEvents = 2
  None = None
INVARIANTS
  TypeOK
  DisconnectedIsOff
  CredentialsMatchSim
  PinOncePerDial
PROPERTIES
  LockIsGranted
CHECK_DEADLOCK FALSE
