SPECIFICATION MCSpec
CONSTANTS
  Accounts = {a1}
  Callers = {c1, c2}
  Titles = {title}
  NoOne = NoOne
  MaxTabs = 2
  Faults = 1
  Campaigns = {g1, g2}
  Restricted = g1
  Channels = {k1, k2}
  k1 = k1
  Facts <- TwitchFacts
  Moves = 1
  Clients = {cl1}
  Own = {drops}
  PushTopics = {raids}
  Goroutines = {u1, u2}
  MaxTopics = 3
  PushFaults = 2
  Users = {v1, v2}
  Streams = {s1}
  NoUser = NoUser
  BeatMoves = 4
  Requests = {q1, q2}
  Conns = {x1, x2, x3}
  NoConn = NoConn
  KTFaults = 2
  t1 = t1
  t2 = t2
  Casters = {t1, t2, t3}
  Offers = {o1, o2}
  KickFacts <- OfferFacts
  Open1 = o1
  Reliable = {t1}
  MaxProbe = 1
  Shifts = 1
  Ticks = 4
  WSFaults = 1
PROPERTY ReclickExcused
INVARIANTS EligibleEarns ReconnectRestores StaleCostsNothing OneFailureSuffices OpenSearchFinds NilMeansHeard
CHECK_DEADLOCK FALSE
