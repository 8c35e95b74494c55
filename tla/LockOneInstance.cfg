SPECIFICATION LockSpec
CONSTANTS
  NoFile = NoFile
  Proc = {p1, p2}
  Managed = {}
  MaxStarts = 2
  MaxKills = 0
  MaxFaults = 0
CHECK_DEADLOCK FALSE
INVARIANTS
  OneInstance
