SPECIFICATION FairSpec
CONSTANTS
  Stage = Stage
  Nothing = Nothing
  Turn = {t1, t2}
  MaxPublished = 5
  MaxFaults = 1
CHECK_DEADLOCK FALSE
INVARIANTS
  NeverStuck
  PlaysJustified
PROPERTIES
  TurnsPlayed
