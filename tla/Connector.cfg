SPECIFICATION FairSpec
CONSTANTS
  a = a
  b = b
  u = u
  p = p
  m = m
  k = k
  kp = kp
  ch = ch
  NoKey = NoKey
  NoReply = NoReply
  KeyOf <- MCKeyOf
  Kind <- MCKind
  ChannelOf <- MCChannelOf
  Channel = {ch}
  Key = {k, kp}
  Connector = {c1, c2}
  Reply = {a, b, u, p, m}
  MaxRetries = 2
  MaxPublished = 2
  MaxFaults = 1
CHECK_DEADLOCK FALSE
INVARIANTS
  PostsBounded
  OneWorkerPerKey
  AckedIsAccounted
PROPERTIES
  ImplementsAtMostOnce
  QueueDrains
