--------------------------- MODULE KickWatchProofs ---------------------------
(***************************************************************************)
(* Proofs about KickWatch, for any accounts, names, faults and edits.       *)
(***************************************************************************)
EXTENDS KickWatch, TLAPS

\* The functions have their domains, and a tab has its three fields.
Shape == /\ DOMAIN watch = Accounts /\ DOMAIN tabs = Names
         /\ \A n \in Names : \A t \in tabs[n] : DOMAIN t = {"acc", "own", "stalls"}

\* The account has no tab, playing or being opened.
NoTab(a) == \A n \in Names : <<a, n>> \notin opens /\ \A t \in tabs[n] : t.acc # a

(* An account whose WebSocket has not failed never came near Chrome, and the *)
(* WebSocket runs for no account where it has: wsFailed only grows.          *)
ChromeIsLater == \A a \in Accounts :
  /\ a \notin wsFailed => watch[a].pc \in {"idle", "ws", "wsDead"} /\ NoTab(a)
  /\ watch[a].pc = "ws" => a \notin wsFailed

PathsInv == Shape /\ ChromeIsLater

\* The tabs of a step that opens none are tabs of accounts that had one.
TabsStay == /\ DOMAIN tabs' = Names
            /\ \A n \in Names : \A t \in tabs'[n] :
                 DOMAIN t = {"acc", "own", "stalls"} /\ \E s \in tabs[n] : s.acc = t.acc

\* A tab stays its account's when its count of stalls or its holder changes.
LEMMA TabKeepsAccount ==
  ASSUME NEW t, DOMAIN t = {"acc", "own", "stalls"}, NEW x
  PROVE  /\ [t EXCEPT !.stalls = x].acc = t.acc /\ [t EXCEPT !.own = x].acc = t.acc
         /\ DOMAIN [t EXCEPT !.stalls = x] = {"acc", "own", "stalls"}
         /\ DOMAIN [t EXCEPT !.own = x] = {"acc", "own", "stalls"}
  OBVIOUS

\* Closing a watch opens no tab, whether the call arrives or fails.
LEMMA ClosingOpensNone == ASSUME Shape, NEW a, Closed(a) PROVE TabsStay
<1> DEFINE n == watch[a].name
           Disown(t) == [t EXCEPT !.own = FALSE]
<1>1. CASE tabs' = tabs
  BY <1>1 DEF Shape, TabsStay
<1>2. CASE tabs' = [tabs EXCEPT ![n] = @ \ Own(a, n)]
  BY <1>2 DEF Shape, TabsStay
<1>3. CASE tabs' = [tabs EXCEPT ![n] = (@ \ Own(a, n)) \union {Disown(t) : t \in Own(a, n)}]
  <2>1. ASSUME NEW m \in Names, NEW t \in Own(a, m)
        PROVE  t \in tabs[m] /\ Disown(t).acc = t.acc /\ DOMAIN Disown(t) = {"acc", "own", "stalls"}
    BY TabKeepsAccount DEF Own, Shape
  <2> HIDE DEF Disown
  <2>2. ASSUME NEW m \in Names, NEW t \in tabs'[m]
        PROVE  DOMAIN t = {"acc", "own", "stalls"} /\ \E s \in tabs[m] : s.acc = t.acc
    <3>1. CASE m = n /\ t \in {Disown(s) : s \in Own(a, n)}
      BY <2>1, <3>1
    <3>2. CASE t \in tabs[m]
      BY <3>2 DEF Shape
    <3>3. QED
      BY <1>3, <2>2, <3>1, <3>2 DEF Shape
  <2>3. QED
    BY <1>3, <2>2 DEF TabsStay, Shape
<1>4. QED
  BY <1>1, <1>2, <1>3 DEF Closed

\* A step that opens no tab and calls for none keeps the accounts without one.
LEMMA NoneOpened ==
  ASSUME NEW a \in Accounts, NoTab(a), TabsStay, opens' \subseteq opens PROVE NoTab(a)'
  BY DEF NoTab, TabsStay

\* What a step may do that neither calls Chrome nor runs a WebSocket.
LEMMA QuietStep ==
  ASSUME PathsInv, TabsStay, opens' \subseteq opens, wsFailed' = wsFailed, DOMAIN watch' = Accounts,
         \A a \in Accounts : \/ watch'[a].pc = watch[a].pc
                             \/ watch'[a].pc \in {"idle", "wsDead"}
                             \/ a \in wsFailed /\ watch'[a].pc # "ws"
  PROVE  PathsInv'
<1>1. Shape'
  BY DEF Shape, TabsStay
<1>2. ASSUME NEW a \in Accounts
      PROVE  /\ a \notin wsFailed' => watch'[a].pc \in {"idle", "ws", "wsDead"} /\ NoTab(a)'
             /\ watch'[a].pc = "ws" => a \notin wsFailed'
  BY <1>2, NoneOpened DEF PathsInv, ChromeIsLater
<1>3. QED
  BY <1>1, <1>2 DEF PathsInv, ChromeIsLater

\* Every step of the system keeps the two paths apart.
LEMMA PathsInvStep == ASSUME PathsInv, [Next]_kvars PROVE PathsInv'
<1> USE DEF docker
<1>0. ASSUME UNCHANGED tabs PROVE TabsStay
  BY <1>0 DEF PathsInv, Shape, TabsStay
<1>1. ASSUME NEW a \in Accounts, StartWS(a) PROVE PathsInv'
  <2>1. Shape'
    BY <1>1 DEF StartWS, StartWSWatch, PathsInv, Shape
  <2>2. ASSUME NEW b \in Accounts
        PROVE  /\ b \notin wsFailed' => watch'[b].pc \in {"idle", "ws", "wsDead"} /\ NoTab(b)'
               /\ watch'[b].pc = "ws" => b \notin wsFailed'
    <3>1. wsFailed \subseteq wsFailed' /\ (NoTab(b) => NoTab(b)')
      BY <1>1 DEF StartWS, MarkWSFailed, NoTab
    <3>2. CASE b = a
      BY <1>1, <3>1, <3>2 DEF StartWS, StartWSWatch, MarkWSFailed, At, PathsInv, Shape, ChromeIsLater
    <3>3. CASE b # a
      BY <1>1, <3>1, <3>3 DEF StartWS, StartWSWatch, MarkWSFailed, PathsInv, Shape, ChromeIsLater
    <3>4. QED
      BY <3>2, <3>3
  <2>3. QED
    BY <2>1, <2>2 DEF PathsInv, ChromeIsLater
<1>2. ASSUME NEW a \in Accounts, HeartbeatWS(a) PROVE PathsInv'
  <2>1. Shape'
    BY <1>2 DEF HeartbeatWS, PathsInv, Shape
  <2>2. ASSUME NEW b \in Accounts
        PROVE  /\ b \notin wsFailed' => watch'[b].pc \in {"idle", "ws", "wsDead"} /\ NoTab(b)'
               /\ watch'[b].pc = "ws" => b \notin wsFailed'
    <3>1. wsFailed \subseteq wsFailed' /\ (NoTab(b) => NoTab(b)')
      BY <1>2 DEF HeartbeatWS, MarkWSFailed, NoTab
    <3>2. QED
      BY <1>2, <3>1 DEF HeartbeatWS, MarkWSFailed, NoWatch, At, PathsInv, Shape, ChromeIsLater
  <2>3. QED
    BY <2>1, <2>2 DEF PathsInv, ChromeIsLater
<1>3. ASSUME NEW a \in Accounts, EnsureUp(a) PROVE PathsInv'
  <2>1. Shape' /\ a \in wsFailed
    BY <1>3 DEF EnsureUp, To, PathsInv, Shape, ChromeIsLater
  <2>2. ASSUME NEW b \in Accounts
        PROVE  /\ b \notin wsFailed' => watch'[b].pc \in {"idle", "ws", "wsDead"} /\ NoTab(b)'
               /\ watch'[b].pc = "ws" => b \notin wsFailed'
    <3>1. b # a => (NoTab(b) => NoTab(b)') /\ watch'[b] = watch[b]
      BY <1>3 DEF EnsureUp, To, NoTab, PathsInv, Shape
    <3>2. watch'[a].pc # "ws" /\ wsFailed' = wsFailed
      BY <1>3 DEF EnsureUp, To, NoWatch, At, PathsInv, Shape
    <3>3. QED
      BY <2>1, <3>1, <3>2 DEF PathsInv, ChromeIsLater
  <2>3. QED
    BY <2>1, <2>2 DEF PathsInv, ChromeIsLater
<1>4. ASSUME NEW a \in Accounts, Ready(a) PROVE PathsInv'
  <2>1. Shape' /\ a \in wsFailed
    BY <1>4 DEF Ready, To, PathsInv, Shape, ChromeIsLater
  <2>2. ASSUME NEW b \in Accounts
        PROVE  /\ b \notin wsFailed' => watch'[b].pc \in {"idle", "ws", "wsDead"} /\ NoTab(b)'
               /\ watch'[b].pc = "ws" => b \notin wsFailed'
    <3>1. b # a => (NoTab(b) => NoTab(b)') /\ watch'[b] = watch[b]
      BY <1>4 DEF Ready, To, NoTab, PathsInv, Shape
    <3>2. watch'[a].pc # "ws" /\ wsFailed' = wsFailed
      BY <1>4 DEF Ready, To, NoWatch, At, PathsInv, Shape
    <3>3. QED
      BY <2>1, <3>1, <3>2 DEF PathsInv, ChromeIsLater
  <2>3. QED
    BY <2>1, <2>2 DEF PathsInv, ChromeIsLater
<1>5. ASSUME NEW a \in Accounts, NEW n \in Names, OpenStreamWatch(a, n) PROVE PathsInv'
  <2>1. Shape' /\ a \in wsFailed /\ wsFailed' = wsFailed
    <3>1. a \in wsFailed /\ wsFailed' = wsFailed
      BY <1>5 DEF OpenStreamWatch, PathsInv, ChromeIsLater, NoTab
    <3>2. DOMAIN watch' = Accounts /\ DOMAIN tabs' = Names
      BY <1>5 DEF OpenStreamWatch, To, PathsInv, Shape
    <3>3. ASSUME NEW m \in Names, NEW t \in tabs'[m] PROVE DOMAIN t = {"acc", "own", "stalls"}
      BY <1>5, <3>3 DEF OpenStreamWatch, Open, PathsInv, Shape
    <3>4. QED
      BY <3>1, <3>2, <3>3 DEF Shape
  <2>2. ASSUME NEW b \in Accounts
        PROVE  /\ b \notin wsFailed' => watch'[b].pc \in {"idle", "ws", "wsDead"} /\ NoTab(b)'
               /\ watch'[b].pc = "ws" => b \notin wsFailed'
    <3>1. ASSUME b # a, NoTab(b) PROVE NoTab(b)'
      <4>1. opens' \subseteq opens
        BY <1>5 DEF OpenStreamWatch
      <4>2. ASSUME NEW m \in Names, NEW t \in tabs'[m] PROVE t.acc # b
        <5>1. \A w : Open(a, w).acc = a
          BY DEF Open
        <5>2. t \in tabs[m] \/ \E w : t = Open(a, w)
          BY <1>5, <4>2 DEF OpenStreamWatch, PathsInv, Shape
        <5>3. QED
          BY <3>1, <5>1, <5>2 DEF NoTab
      <4>3. QED
        BY <3>1, <4>1, <4>2 DEF NoTab
    <3>2. b # a => watch'[b] = watch[b]
      BY <1>5 DEF OpenStreamWatch, To, PathsInv, Shape
    <3>3. watch'[a].pc = "ws" => watch[a].pc = "ws"
      BY <1>5 DEF OpenStreamWatch, To, NoWatch, At, PathsInv, Shape
    <3>4. QED
      BY <2>1, <3>1, <3>2, <3>3 DEF PathsInv, ChromeIsLater
  <2>3. QED
    BY <2>1, <2>2 DEF PathsInv, ChromeIsLater
<1>6. ASSUME NEW a \in Accounts, WSDrop(a) PROVE PathsInv'
  <2>1. /\ DOMAIN watch' = Accounts /\ watch'[a].pc \in {"ws", "wsDead"} /\ watch[a].pc = "ws"
        /\ \A b \in Accounts \ {a} : watch'[b] = watch[b]
    BY <1>6 DEF WSDrop, PumpEnds, To, At, PathsInv, Shape
  <2>2. QED
    BY <1>0, <1>6, <2>1, QuietStep DEF WSDrop, PathsInv, Shape
<1>7. ASSUME NEW a \in Accounts, StartBrowserWatch(a) PROVE PathsInv'
  BY <1>0, <1>7, QuietStep DEF StartBrowserWatch, At, PathsInv, Shape
<1>8. ASSUME NEW a \in Accounts, Stall(a) PROVE PathsInv'
  <2> DEFINE n == watch[a].name
             Stalled(t) == [t EXCEPT !.stalls = @ + 1]
  <2>1. ASSUME NEW m \in Names, NEW t \in Own(a, m)
        PROVE  t \in tabs[m] /\ Stalled(t).acc = t.acc /\ DOMAIN Stalled(t) = {"acc", "own", "stalls"}
    BY TabKeepsAccount DEF Own, PathsInv, Shape
  <2>2. tabs' = [tabs EXCEPT ![n] = (@ \ Own(a, n)) \union {Stalled(t) : t \in Own(a, n)}]
    BY <1>8 DEF Stall
  <2> HIDE DEF Stalled
  <2>3. ASSUME NEW m \in Names, NEW t \in tabs'[m]
        PROVE  DOMAIN t = {"acc", "own", "stalls"} /\ \E s \in tabs[m] : s.acc = t.acc
    <3>1. CASE m = n /\ t \in {Stalled(s) : s \in Own(a, n)}
      BY <2>1, <3>1
    <3>2. CASE t \in tabs[m]
      BY <3>2 DEF PathsInv, Shape
    <3>3. QED
      BY <2>2, <2>3, <3>1, <3>2 DEF PathsInv, Shape
  <2>4. TabsStay
    BY <2>2, <2>3 DEF TabsStay, PathsInv, Shape
  <2>5. QED
    BY <1>8, <2>4, QuietStep DEF Stall, PathsInv, Shape
<1>9. ASSUME NEW a \in Accounts, StopWatch(a) PROVE PathsInv'
  BY <1>9, ClosingOpensNone, QuietStep DEF StopWatch, NoWatch, At, PathsInv, Shape
<1>10. ASSUME NEW a \in Accounts, Heartbeat(a) PROVE PathsInv'
  <2>1. TabsStay
    BY <1>0, <1>10, ClosingOpensNone DEF Heartbeat, PathsInv
  <2>2. QED
    BY <1>10, <2>1, QuietStep DEF Heartbeat, NoWatch, At, PathsInv, Shape
<1>11. ASSUME NEW a \in Accounts, DeleteAccount(a) PROVE PathsInv'
  BY <1>11, ClosingOpensNone, QuietStep DEF DeleteAccount, NoWatch, At, PathsInv, Shape
<1>12. ASSUME NEW a \in Accounts, Register(a) \/ Expire(a) PROVE PathsInv'
  BY <1>0, <1>12, QuietStep DEF Register, Expire, PathsInv, Shape
<1>13. CASE Candidates \/ ListManaged \/ ActiveAccounts
  BY <1>0, <1>13, QuietStep DEF Candidates, ListManaged, ActiveAccounts, PathsInv, Shape
<1>14. CASE Reap
  <2>1. TabsStay
    BY <1>14 DEF Reap, Halt, TabsStay, PathsInv, Shape
  <2>2. QED
    BY <1>14, <2>1, QuietStep DEF Reap, PathsInv, Shape
<1>15. CASE RemoveOrphans
  <2>1. TabsStay
    BY <1>15 DEF RemoveOrphans, TabsStay, PathsInv, Shape
  <2>2. QED
    BY <1>15, <2>1, QuietStep DEF RemoveOrphans, PathsInv, Shape
<1>16. CASE UNCHANGED kvars
  BY <1>0, <1>16, QuietStep DEF kvars, PathsInv, Shape
<1>17. QED
  BY <1>1, <1>2, <1>3, <1>4, <1>5, <1>6, <1>7, <1>8, <1>9, <1>10, <1>11, <1>12, <1>13, <1>14, <1>15, <1>16
  DEF Next, Watching, Reaper

(* While the WebSocket of an account runs no tab of it plays or is being     *)
(* opened, however starts, stops, deletions, leaks and the reaper's passes   *)
(* fall: Chrome is reached only past a failure, which is remembered.         *)
THEOREM OneWatchPathHolds == Spec => []OneWatchPath
<1>1. Init => PathsInv
  BY DEF Init, NoWatch, At, PathsInv, Shape, ChromeIsLater, NoTab
<1>2. PathsInv /\ [Next]_kvars => PathsInv'
  BY PathsInvStep
<1>3. PathsInv => OneWatchPath
  BY DEF PathsInv, ChromeIsLater, NoTab, OneWatchPath
<1>4. QED
  BY <1>1, <1>2, <1>3, PTL DEF Spec
=============================================================================
