SPECIFICATION FairLockSpec
CONSTANTS
  NoFile = NoFile
  Proc = {p1, p2, p3}
  Managed = {p3}
  MaxStarts = 3
  MaxKills = 2
  MaxFaults = 1
CHECK_DEADLOCK FALSE
INVARIANTS
  OneInstanceInTurn
PROPERTIES
  StartsDecided
  NoLeftoverRefuses
