SPECIFICATION MCSpec
CONSTANTS
  Accounts = {a1, a2}
  Campaigns = {g1, g2}
  Games = {h1}
  Starts <- ScanStarts
  ScanFaults = 1
  Items = {i1}
  Notes = {m1}
  CodeOf <- OneReward
  Named = {}
  ExpOf <- ExpireAt4
  EndOfCodes = 3
  CodeEvery = 1
  CodeRetry = 1
  UnavailableRetry = 2
  RemindBefore = 1
  NotifyRetry = 1
  Targets = {discord, telegram}
  RcFaults = 2
  Pairs = {p1}
  NoPair = NoPair
  Every = 9
  Retry = 4
  RetryMax = 8
  Cooldown = 3
  EndOfTime = 6
  MaxWorth = 1
  PointsFaults = 1
  Ids = {b1, k1}
  Kick = {k1}
  Flows = {f1, f2}
  Pasters = {u1, u2}
  Bare = {u2}
  LoginStarts <- OneLogin
  NoId = NoId
  NoFlow = NoFlow
  LoginFaults = 2
  Accts = {e1}
  Checks = {c1}
  Runs = {r0, r1, r2}
  Scheduled = r0
  Askers = {v1}
  NoAcct = NoAcct
  ProbeFaults = 1
  Channels = {s1, s2}
  Raids = {raid}
  NoOne = NoOne
  PointsTasks = {pt1, pt2}
  RaidTasks = {w1, w2}
  Toggles = 1
  Goroutines = {go1, go2}
  Loads = {l1}
  SubBuffer = 1
  Saves = 1
  Changes = 2
  PageFaults = 1
INVARIANTS Woken Forgotten RepeatExcused NeverTwice AnsweredIsStored FlagSeen TasksOwned NewsArrives
