SPECIFICATION FairSpec
CONSTANTS
  Accounts = {a1}
  Callers = {c1, c2}
  Main = main
  None = none
  MaxBuilds = 4
INVARIANTS HooksFollowSlot StopDrains
PROPERTIES OneRunner ReloadsEnd
CHECK_DEADLOCK FALSE
