SPECIFICATION Spec
CONSTANTS
  Drops = {d1, d2}
  Channels = {c1, c2}
  Callers = {}
  None = None
  HasWindow = FALSE
  HasPubSub = TRUE
SYMMETRY Symmetry
INVARIANTS HandlesAccounted NoWatchLeftBehind PushWakesRun StrayClaims
CHECK_DEADLOCK FALSE
