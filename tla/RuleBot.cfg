SPECIFICATION FairSpec
CONSTANTS
  c = c
  n = n
  k1 = k1
  k2 = k2
  e1 = e1
  e2 = e2
  s = s
  x = x
  Nothing = Nothing
  Kind <- MCKind
  Broadcaster <- MCBroadcaster
  Bot = {b1, b2}
  Message = {c, n, k1, e1, x, s}
  Cooldown = 2
  Uptime = 2
  MaxClock = 5
  MaxPublished = 2
  MaxFaults = 1
CHECK_DEADLOCK FALSE
INVARIANTS
  OneReplyPerMessage
  KeywordsOnCooldown
PROPERTIES
  CommandsSettled
