SPECIFICATION Spec
CONSTANTS
  Callers = {c1, c2}
  Reloader = reloader
  Restarter = restarter
  None = none
  Forced = FALSE
  Deletes = FALSE
  Faults = FALSE
  Modes = {"drops_points", "points_only"}
  MaxEdits = 2
SYMMETRY Symmetry
INVARIANTS FlagsFollowRow GamesApplied StoppedHasNoWork
CHECK_DEADLOCK FALSE
