SPECIFICATION FairSpec
CONSTANTS
  Threshold = 2
  Grace = 1
  Cooldown = 2
  Configs <- Edits
  First <- On
  Days = 2
  MaxEvents = 2
  None = None
INVARIANTS
  TypeOK
  ResetAtMostOnce
PROPERTIES
  ActsOnlyWhenDue
  KeepsActing
CHECK_DEADLOCK FALSE
