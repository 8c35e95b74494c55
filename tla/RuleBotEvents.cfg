SPECIFICATION Spec
CONSTANTS
  c = c
  n = n
  k1 = k1
  k2 = k2
  e1 = e1
  e2 = e2
  s = s
  x = x
  Nothing = Nothing
  Kind <- MCKind
  Broadcaster <- MCBroadcaster
  Bot = {b1}
  Message = {e1, e2}
  Cooldown = 2
  Uptime = 2
  MaxClock = 2
  MaxPublished = 2
  MaxFaults = 0
CHECK_DEADLOCK FALSE
INVARIANTS
  EventsAnnounced
