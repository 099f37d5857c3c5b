SPECIFICATION FairSpec
CONSTANTS
  Callers = {c1}
  Reloader = reloader
  Restarter = restarter
  None = none
  Forced = TRUE
  Deletes = TRUE
  Faults = TRUE
  Modes = {"off", "drops_points", "points_only"}
  MaxEdits = 1
PROPERTIES SavesSettle
CHECK_DEADLOCK FALSE
