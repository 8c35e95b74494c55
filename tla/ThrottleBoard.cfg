SPECIFICATION Spec
CONSTANTS
  Thread = {t1, t2}
  PacedChannel = {x, y}
  x = x
  y = y
  WindowLimit = 2
  WindowSeconds = 4
  Interval = 2
  MaxClock = 9
  MaxSends = 4
  Session = {s1, s2}
  s1 = s1
  s2 = s2
  BoardLimit = 1
  Load = {l1, l2}
  l1 = l1
  l2 = l2
  MaxSummaries = 2
  BoardRuns = 2
  BoardTroubles = 1
SYMMETRY Interchangeable
CHECK_DEADLOCK FALSE
INVARIANTS
  LimitsRespected
  NoOversleep
  BoardCurrent
