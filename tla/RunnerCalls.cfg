SPECIFICATION Spec
CONSTANTS
  Drops = {d1}
  Channels = {c1}
  Callers = {r1, r2}
  None = None
  HasWindow = FALSE
  HasPubSub = FALSE
SYMMETRY Symmetry
INVARIANTS RescanWakes SwitchWakes
CHECK_DEADLOCK FALSE
