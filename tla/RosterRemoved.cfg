SPECIFICATION Spec
CONSTANTS
  Callers = {c1, c2}
  Reloader = reloader
  Restarter = restarter
  None = none
  Forced = FALSE
  Deletes = TRUE
  Faults = FALSE
  Modes = {"drops_points", "points_only"}
  MaxEdits = 0
SYMMETRY Symmetry
INVARIANTS RemovedIsGone
CHECK_DEADLOCK FALSE
