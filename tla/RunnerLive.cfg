SPECIFICATION FairSpec
CONSTANTS
  Drops = {d1}
  Channels = {c1}
  Callers = {}
  None = None
  HasWindow = TRUE
  HasPubSub = TRUE
PROPERTIES SleepEndsWatch ShutdownReturns
CHECK_DEADLOCK FALSE
