SPECIFICATION FairSpec
CONSTANTS
  Bot = Bot
  Nothing = Nothing
  Saver = {s1, s2}
  QueueExists = TRUE
  MaxSaves = 3
  MaxChats = 2
  MaxFaults = 2
CHECK_DEADLOCK FALSE
INVARIANTS
  SettledIsFresh
  NoOlderRules
PROPERTIES
  Converges
