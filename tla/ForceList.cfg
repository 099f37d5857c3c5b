SPECIFICATION Spec
CONSTANTS
  Accounts = {a1}
  Channels = {c1, c2}
  Handlers = {h1, h2}
  None = None
  Faults = TRUE
  MaxSaves = 3
SYMMETRY Symmetry
INVARIANTS CacheFollows StoppedIsRebuilt
CHECK_DEADLOCK FALSE
