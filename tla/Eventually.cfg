SPECIFICATION MCSpec
CONSTANTS
  d1 = d1
  d2 = d2
  d3 = d3
  ca = ca
  cb = cb
  a1 = a1
  Drops = {d1, d2, d3}
  Camps <- MCCamps
  Facts <- MCFacts
  Required <- MCRequired
  Needs <- MCNeeds
  PlanFaults = 2
  Accounts = {a1}
  Names = {n1, n2}
  NamesOf <- MCNamesOf
  NoName = NoName
  MaxReconnect = 1
  MaxStalls = 1
  Faults = 3
  Edits = 2
  Rewards = {r1, r2}
  Campaigns = {g1}
  Kfaults = 1
  ClaimDrops = {b1}
  None = None
  Threshold = 1
  Reads = 2
  ClaimFaults = 1
  ClaimEdits = 1
INVARIANT OneWatchPath
PROPERTY WatchComesUp
PROPERTY LinkedIsGranted
PROPERTY ChosenIsGot
PROPERTY LostClaimHealed
CHECK_DEADLOCK FALSE
