---------------------------- MODULE ServicesProofs ----------------------------
(***************************************************************************)
(* The services around the runners, each for any value of its constants:    *)
(* any number of accounts, campaigns, sign-ins, tasks, pages and faults. In *)
(* every behaviour of MCSpec one component runs, so a property of a         *)
(* component is shown of its own steps (Started, Turn).                     *)
(***************************************************************************)
EXTENDS MCServices, SequenceTheorems, TLAPS

\* The component that runs starts as its module says.
LEMMA Started ==
  ASSUME MCInit
  PROVE  /\ part = "scans" => Init
         /\ part = "codes" => R!Init
         /\ part = "book" => B!Init
         /\ part = "logins" => L!Init
         /\ part = "probes" => A!Init
         /\ part = "tasks" => T!Init
         /\ part = "pages" => V!Init
BY DEF MCInit

\* A step is one of the component that runs, or leaves its state alone.
LEMMA Turn ==
  ASSUME [MCNext]_mcvars
  PROVE  /\ part' = part
         /\ part = "scans" => [Next]_scvars
         /\ part = "codes" => [R!Next]_codeVars
         /\ part = "book" => [B!Next]_bookVars
         /\ part = "logins" => [L!Next]_loginVars
         /\ part = "probes" => [A!Next]_probeVars
         /\ part = "tasks" => [T!Next]_taskVars
         /\ part = "pages" => [V!Next]_pageVars
<1>1. CASE OnScans /\ Next
  BY <1>1 DEF OnScans
<1>2. CASE OnCodes /\ R!Next
  BY <1>2 DEF OnCodes
<1>3. CASE OnBook /\ B!Next
  BY <1>3 DEF OnBook
<1>4. CASE OnLogins /\ L!Next
  BY <1>4 DEF OnLogins
<1>5. CASE OnProbes /\ A!Next
  BY <1>5 DEF OnProbes
<1>6. CASE OnTasks /\ T!Next
  BY <1>6 DEF OnTasks
<1>7. CASE OnPages /\ V!Next
  BY <1>7 DEF OnPages
<1>8. CASE UNCHANGED mcvars
  BY <1>8 DEF mcvars
<1> QED
  BY <1>1, <1>2, <1>3, <1>4, <1>5, <1>6, <1>7, <1>8 DEF MCNext

-----------------------------------------------------------------------------
(***************************************************************************)
(* FlagSeen.  Whoever runs counts as running (Counted): a flag raised stays  *)
(* where a run, or a request about to start one, will clear it (Raised).     *)
(***************************************************************************)
Probing == {"source", "skip", "probe", "probeAnew", "saveOk", "alarm", "saveFail"}
ProbeTypes == /\ asker \in [Askers -> {"rest", "changed", "start", "clear"}]
              /\ run \in [Runs -> Probing \cup {"rest", "over", "swap", "again", "clear"}]
              /\ {canaryRunning, canaryRerun} \subseteq BOOLEAN
LoopApart == Scheduled \in Runs => run[Scheduled] \in Probing \cup {"rest"}
InFlight(pcs) == \E r \in Runs \ {Scheduled} : run[r] \in Probing \cup {"over", "clear"} \cup pcs
Counted == canaryRunning => InFlight({}) \/ \E u \in Askers : asker[u] = "clear"
Raised == canaryRerun => InFlight({"swap"}) \/ \E u \in Askers : asker[u] \in {"start", "clear"}
Canary == ProbeTypes /\ LoopApart /\ Counted /\ Raised


\* FlagSeen: with no canary run and no request for one under way, no rerun is left asked
\* for that nobody will see.
THEOREM FlagSeenHolds == MCSpec => []FlagSeen
<1> USE DEF Canary, ProbeTypes, LoopApart, InFlight, Counted, Raised, Probing
<1>1. MCInit => (part = "probes" => Canary)
  BY Started DEF A!Init
<1>2. (part = "probes" => Canary) /\ [MCNext]_mcvars => (part = "probes" => Canary)'
  <2> SUFFICES ASSUME Canary, part = "probes", [A!Next]_probeVars PROVE Canary'
    BY Turn
  <2>1. ASSUME NEW c \in Checks,
               \/ \E a \in Accts : A!CheckOne(c, a)
               \/ A!VerifyWithRetry(c) \/ A!Load(c) \/ A!PersistWithMeta(c) \/ A!NotifyTransition(c)
        PROVE Canary'
    <3>1. UNCHANGED <<canaryRunning, canaryRerun, asker, run>>
      BY <2>1 DEF A!CheckOne, A!VerifyWithRetry, A!Load, A!PersistWithMeta, A!NotifyTransition, A!CheckStep,
         A!starting, A!probing
    <3>2. QED
      BY <3>1
  <2>2. ASSUME NEW u \in Askers, A!PostHealthCanary(u) PROVE Canary'
    BY <2>2 DEF A!PostHealthCanary, A!AskAt
  <2>3. ASSUME NEW u \in Askers, A!StartCanary(u) PROVE Canary'
    BY <2>3 DEF A!StartCanary, A!AskAt
  <2>4. ASSUME NEW u \in Askers, A!Spawn(u) PROVE Canary'
    BY <2>4 DEF A!Spawn, A!AskAt
  <2>5. ASSUME NEW u \in Askers, A!RerunSkippedCanary(u) PROVE Canary'
    BY <2>5 DEF A!RerunSkippedCanary, A!AskAt
  <2>6. ASSUME NEW u \in Askers, NEW a \in Accts, A!Resume(u, a) PROVE Canary'
    BY <2>6 DEF A!Resume, A!probing
  <2>7. ASSUME NEW r \in Runs, A!CanarySource(r) PROVE Canary'
    BY <2>7 DEF A!CanarySource, A!RunAt, A!Over
  <2>8. ASSUME NEW r \in Runs, A!Probe(r) PROVE Canary'
    BY <2>8 DEF A!Probe, A!RunAt
  <2>9. ASSUME NEW r \in Runs, A!Alarm(r) PROVE Canary'
    BY <2>9 DEF A!Alarm, A!RunAt
  <2>10. ASSUME NEW r \in Runs, A!SaveResult(r) PROVE Canary'
    BY <2>10 DEF A!SaveResult, A!RunAt, A!Over
  <2>11. ASSUME NEW r \in Runs, A!RunEnds(r) PROVE Canary'
    <3>1. r # Scheduled
      BY <2>11 DEF A!RunEnds
    <3>2. ASSUME NEW pc \in {"swap", "again", "rest", "clear", "source"}, A!RunAt(r, pc)
          PROVE /\ run' \in [Runs -> Probing \cup {"rest", "over", "swap", "again", "clear"}]
                /\ LoopApart' /\ run'[r] = pc /\ \A q \in Runs \ {r} : run'[q] = run[q]
                /\ asker' = asker
      BY <3>1, <3>2 DEF A!RunAt
    <3>3. CASE run[r] = "over"
      BY <2>11, <3>1, <3>2, <3>3 DEF A!RunEnds
    <3>4. CASE run[r] = "swap"
      <4>1. canaryRerun' = FALSE /\ canaryRunning' = canaryRunning /\ A!RunAt(r, IF canaryRerun THEN "again" ELSE "rest")
        BY <2>11, <3>4 DEF A!RunEnds
      <4>2. \A q \in Runs \ {r} : run'[q] = run[q]
        BY <3>2, <4>1
      <4>3. Counted'
        BY <3>2, <3>4, <4>1, <4>2
      <4>4. QED
        BY <3>2, <4>1, <4>3
    <3>5. CASE run[r] = "again"
      BY <2>11, <3>1, <3>2, <3>5 DEF A!RunEnds
    <3>6. CASE run[r] = "clear"
      BY <2>11, <3>1, <3>2, <3>6 DEF A!RunEnds
    <3>7. QED
      BY <2>11, <3>3, <3>4, <3>5, <3>6 DEF A!RunEnds
  <2>12. ASSUME NEW a \in Accts, A!Dies(a) \/ A!Pause(a) PROVE Canary'
    BY <2>12 DEF A!Dies, A!Pause, A!starting, A!probing
  <2>13. CASE A!Tick
    BY <2>13 DEF A!Tick, A!RunAt
  <2>14. CASE UNCHANGED probeVars
    BY <2>14 DEF probeVars
  <2>15. QED
    BY <2>1, <2>2, <2>3, <2>4, <2>5, <2>6, <2>7, <2>8, <2>9, <2>10, <2>11, <2>12, <2>13, <2>14 DEF A!Next
<1>3. (part = "probes" => Canary) => FlagSeen
  BY DEF FlagSeen, A!FlagSeen, A!CanaryRests
<1>4. QED
  BY <1>1, <1>2, <1>3, PTL DEF MCSpec

-----------------------------------------------------------------------------
(***************************************************************************)
(* Woken and Forgotten.  A campaign that woke somebody is on the board of    *)
(* each account with its game, or a scan that will read it is asked for or   *)
(* failed, or one that read it is in hand, or the window that will ask has a *)
(* finder other than the account (Told): a lone finder has it by itself.     *)
(* For what a scan read stays listed, and games only change at rest (Reads). *)
(***************************************************************************)
Later == {"names", "replace", "wake"}
Scanned == [pc : {"rest", "failed", "observe"} \cup Later, camps : SUBSET Campaigns, needs : BOOLEAN]
Boarded == [had : BOOLEAN, camps : SUBSET Campaigns, needs : BOOLEAN]
ScanTypes == /\ listed \in SUBSET Campaigns /\ games \in [Accounts -> SUBSET Campaigns] /\ news \in SUBSET listed
             /\ kept \in SUBSET Accounts /\ asked \in SUBSET Accounts /\ pending \in SUBSET Accounts
             /\ scan \in [Accounts -> Scanned] /\ scans \in [Accounts -> Boarded]
             /\ removal \in [Accounts -> {"never", "rest", "stop", "forget", "gone"}]
Removed == \A a \in Accounts : /\ a \in kept => removal[a] = "rest"
                               /\ removal[a] \in {"forget", "gone"} => scan[a].pc = "rest"
                               /\ removal[a] = "gone" => scans[a] = NoScan
Reads == \A a \in Accounts :
  /\ scan[a].camps \subseteq listed /\ scans[a].camps \subseteq listed
  /\ scan[a].pc = "observe" => scans[a].camps \intersect games[a] \subseteq scan[a].camps
  /\ scan[a].pc \in Later => scans[a].camps = scan[a].camps
Told(a, c) == \/ c \in scans[a].camps \/ a \in asked \/ scan[a].pc = "failed"
              \/ scan[a].pc = "observe" /\ c \in scan[a].camps
              \/ \E b \in pending : b # a
AllTold == \A a \in kept : \A c \in news \intersect games[a] : Told(a, c)
Scanning == ScanTypes /\ Removed /\ Reads /\ AllTold


\* No step of a scan, of the board's replacement or of the waker breaks what is known of them.
LEMMA NextScans ==
  ASSUME Scanning, [Next]_scvars
  PROVE  Scanning'
<1> USE DEF Scanning, Sure
\* more is asked for or listed
<1>1. ASSUME UNCHANGED <<games, kept, scan, scans, removal, pending, news>>,
             asked \subseteq asked', asked' \subseteq Accounts, listed \subseteq listed', listed' \subseteq Campaigns
      PROVE  Scanning'
  BY <1>1 DEF ScanTypes, Removed, Reads, AllTold, Told
\* a scan goes on from one of its later steps to the next
<1>2. ASSUME NEW a \in Accounts, NEW pc \in Later, scan[a].pc \in Later, At(a, pc),
             UNCHANGED <<listed, games, kept, asked, scans, removal, pending, news>>
      PROVE  Scanning'
  <2>1. scan[a] \in Scanned /\ [scan[a] EXCEPT !.pc = pc] \in Scanned
    BY <1>2 DEF ScanTypes, Scanned
  <2>2. scan' = [scan EXCEPT ![a] = [scan[a] EXCEPT !.pc = pc]]
    BY <1>2 DEF At
  <2> QED
    BY <1>2, <2>1, <2>2 DEF ScanTypes, Scanned, Removed, Reads, AllTold, Told, Later
<1>3. ASSUME NEW a \in Accounts, Scan(a) PROVE Scanning'
  <2> DEFINE new == [pc |-> "observe", camps |-> listed \intersect games[a], needs |-> a \in linkless]
             lost == [scan[a] EXCEPT !.pc = "failed"]
  <2>1. new \in Scanned /\ lost \in Scanned /\ lost.pc = "failed" /\ lost.camps = scan[a].camps
    BY DEF ScanTypes, Scanned
  <2>2. new.pc = "observe" /\ new.camps = listed \intersect games[a]
    OBVIOUS
  <2>3. scan' = [scan EXCEPT ![a] = new] \/ scan' = [scan EXCEPT ![a] = lost]
    BY <1>3 DEF Scan, At
  <2> HIDE DEF new, lost
  <2>4. PICK s \in {new, lost} : scan' = [scan EXCEPT ![a] = s]
    BY <2>3
  <2>5. /\ removal[a] \in {"rest", "stop"} /\ asked' = asked \ {a}
        /\ UNCHANGED <<listed, games, kept, scans, removal, pending, news>>
    BY <1>3 DEF Scan, Running, world, board, waking
  <2>6. ScanTypes' /\ Removed'
    BY <2>1, <2>4, <2>5 DEF ScanTypes, Removed
  <2>7. Reads'
    BY <2>1, <2>2, <2>4, <2>5 DEF ScanTypes, Reads, Later
  <2>8. ASSUME NEW b \in kept, NEW c \in news \intersect games[b], Told(b, c) PROVE Told(b, c)'
    BY <2>1, <2>2, <2>4, <2>5, <2>8 DEF ScanTypes, Told
  <2> QED
    BY <2>5, <2>6, <2>7, <2>8 DEF AllTold
<1>4. ASSUME NEW a \in Accounts, ScanFails(a) PROVE Scanning'
  <2> DEFINE s == [scan[a] EXCEPT !.pc = "rest"]
  <2>1. s \in Scanned /\ s.pc = "rest" /\ s.camps = scan[a].camps
    BY DEF ScanTypes, Scanned
  <2>2. scan' = [scan EXCEPT ![a] = s] /\ asked' = asked \cup {a}
    BY <1>4 DEF ScanFails, At
  <2> HIDE DEF s
  <2>3. UNCHANGED <<listed, games, kept, scans, removal, pending, news>>
    BY <1>4 DEF ScanFails, world, board, waking
  <2> QED
    BY <2>1, <2>2, <2>3 DEF ScanTypes, Removed, Reads, AllTold, Told, Later
<1>5. ASSUME NEW a \in Accounts, Observe(a) PROVE Scanning'
  <2> DEFINE s == [scan[a] EXCEPT !.pc = "names"]
             r == [had |-> TRUE, camps |-> scan[a].camps, needs |-> scan[a].needs]
  <2>1. /\ s \in Scanned /\ s.pc = "names" /\ s.camps = scan[a].camps
        /\ r \in Boarded /\ r.camps = scan[a].camps
    BY DEF ScanTypes, Scanned, Boarded, Later
  <2>2. scan' = [scan EXCEPT ![a] = s] /\ scans' = [scans EXCEPT ![a] = r]
    BY <1>5 DEF Observe, At
  <2> HIDE DEF s, r
  <2>3. /\ scan[a].pc = "observe"
        /\ UNCHANGED <<listed, games, kept, asked, removal, pending, news>>
    BY <1>5 DEF Observe, world, waking
  <2>4. ScanTypes' /\ Removed' /\ Reads'
    BY <2>1, <2>2, <2>3 DEF ScanTypes, Removed, Reads, Later
  <2>5. ASSUME NEW b \in kept, NEW c \in news \intersect games[b], Told(b, c) PROVE Told(b, c)'
    BY <2>1, <2>2, <2>3, <2>5 DEF ScanTypes, Reads, Told
  <2> QED
    BY <2>3, <2>4, <2>5 DEF AllTold
<1>6. ASSUME NEW a \in Accounts, WakerOnScan(a) PROVE Scanning'
  <2> DEFINE s == [scan[a] EXCEPT !.pc = "rest"]
             new == ResultCampaigns(scan[a]) \ seen
  <2>1. s \in Scanned /\ s.pc = "rest" /\ s.camps = scan[a].camps
    BY DEF ScanTypes, Scanned
  <2>2. /\ scan[a].pc = "wake" /\ scan' = [scan EXCEPT ![a] = s]
        /\ UNCHANGED <<listed, games, kept, asked, scans, removal>>
    BY <1>6 DEF WakerOnScan, At, world, board
  <2> HIDE DEF s
  <2>3. new \subseteq scans[a].camps
    BY <2>2 DEF Reads, Later, ResultCampaigns
  <2>4. \/ UNCHANGED <<pending, news>>
        \/ pending' = pending \cup {a} /\ news' = news \cup new
    BY <1>6 DEF WakerOnScan
  <2> HIDE DEF new
  <2>5. ScanTypes' /\ Removed' /\ Reads'
    BY <2>1, <2>2, <2>3, <2>4 DEF ScanTypes, Removed, Reads, Later
  <2>6. ASSUME NEW b \in kept, NEW c \in news' \intersect games[b], c \in news => Told(b, c) PROVE Told(b, c)'
    BY <2>1, <2>2, <2>3, <2>4, <2>6 DEF ScanTypes, Told
  <2> QED
    BY <2>2, <2>5, <2>6 DEF AllTold
<1>7. CASE Fire
  <2>1. /\ pending' = {} /\ asked' = asked \cup {a \in Accounts \ Except(pending) : Running(a)}
        /\ UNCHANGED <<listed, games, kept, scan, scans, removal, news>>
    BY <1>7 DEF Fire, world, board
  <2>2. ASSUME NEW a \in kept, NEW b \in pending, b # a PROVE a \in asked'
    <3>1. a \notin Except(pending)
      BY <2>2 DEF Except
    <3>2. a \in Accounts /\ Running(a)
      BY DEF ScanTypes, Removed, Running
    <3> QED
      BY <2>1, <3>1, <3>2
  <2>3. ScanTypes' /\ Removed' /\ Reads'
    BY <2>1 DEF ScanTypes, Removed, Reads
  <2> QED
    BY <2>1, <2>2, <2>3 DEF AllTold, Told
<1>8. ASSUME NEW a \in Accounts, DeleteAccount(a) PROVE Scanning'
  BY <1>8 DEF DeleteAccount, RemoveAt, board, waking, ScanTypes, Removed, Reads, AllTold, Told
<1>9. ASSUME NEW a \in Accounts, AccountStopped(a) PROVE Scanning'
  BY <1>9 DEF AccountStopped, RemoveAt, world, board, waking, ScanTypes, Removed, Reads, AllTold, Told
<1>10. ASSUME NEW a \in Accounts, Forget(a) PROVE Scanning'
  <2>1. NoScan \in Boarded /\ NoScan.camps = {}
    BY DEF NoScan, Boarded
  <2>2. /\ removal[a] = "forget" /\ removal' = [removal EXCEPT ![a] = "gone"]
        /\ scans' = [scans EXCEPT ![a] = NoScan]
        /\ UNCHANGED <<listed, games, kept, asked, scan, pending, news>>
    BY <1>10 DEF Forget, RemoveAt, world, waking
  <2>3. ScanTypes' /\ Removed' /\ Reads'
    BY <2>1, <2>2 DEF ScanTypes, Removed, Reads, Later
  <2> QED
    BY <2>2, <2>3 DEF ScanTypes, Removed, AllTold, Told
<1>11. ASSUME NEW a \in Accounts, AccountAdded(a) PROVE Scanning'
  BY <1>11 DEF AccountAdded, RemoveAt, ScanTypes, Removed, Reads, AllTold, Told
<1>12. ASSUME NEW a \in Accounts, GamesSaved(a) PROVE Scanning'
  <2>1. PICK c \in Campaigns : games' = [games EXCEPT ![a] = IF c \in @ THEN @ \ {c} ELSE @ \union {c}]
    BY <1>12 DEF GamesSaved
  <2>2. /\ scan[a].pc = "rest" /\ asked' = asked \cup {a}
        /\ UNCHANGED <<listed, kept, scan, scans, removal, pending, news>>
    BY <1>12 DEF GamesSaved, board, waking
  <2> QED
    BY <2>1, <2>2 DEF ScanTypes, Removed, Reads, AllTold, Told, Later
<1>13. ASSUME NEW a \in Accounts, StoreTwitchGameIDs(a) \/ Replace(a) PROVE Scanning'
  BY <1>13, <1>2 DEF StoreTwitchGameIDs, Replace, Later, world, board, waking
<1>14. ASSUME NEW a \in Accounts, RecheckLinks(a) \/ ClearLinks(a) \/ Link(a) \/ ScanDue(a) PROVE Scanning'
  <2>1. UNCHANGED <<listed, games, kept, scan, scans, removal, pending, news>>
    BY <1>14 DEF RecheckLinks, ClearLinks, Link, ScanDue, world, board, waking
  <2>2. asked \subseteq asked' /\ asked' \subseteq Accounts
    BY <1>14 DEF RecheckLinks, ClearLinks, Link, ScanDue, ScanTypes
  <2> QED
    BY <1>1, <2>1, <2>2 DEF ScanTypes
<1>15. ASSUME NEW game \in Games, LookUpTwitchGameIDs(game) \/ RetryDue(game) PROVE Scanning'
  BY <1>15, <1>1 DEF LookUpTwitchGameIDs, RetryDue, world, board, waking, ScanTypes
<1>16. ASSUME NEW c \in Campaigns, Publish(c) PROVE Scanning'
  BY <1>16, <1>1 DEF Publish, board, waking, ScanTypes
<1>17. CASE UNCHANGED scvars
  BY <1>17, <1>1 DEF scvars, world, board, waking, ScanTypes
<1>18. QED
  BY <1>3, <1>4, <1>5, <1>6, <1>7, <1>8, <1>9, <1>10, <1>11, <1>12, <1>13, <1>14, <1>15, <1>16, <1>17 DEF Next


\* What is known of the scans and the board holds throughout (Scanning).
THEOREM ScansHold == MCSpec => [](part = "scans" => Scanning)
<1>1. MCInit => (part = "scans" => Scanning)
  <2> SUFFICES ASSUME Init PROVE Scanning
    BY Started
  <2>1. Rest \in Scanned /\ Rest.camps = {} /\ NoScan \in Boarded /\ NoScan.camps = {} /\ Rest.pc = "rest"
    BY DEF Rest, NoScan, Scanned, Boarded
  <2> QED
    BY <2>1, ScansAssumption DEF Init, Scanning, ScanTypes, Removed, Reads, AllTold, Later
<1>2. (part = "scans" => Scanning) /\ [MCNext]_mcvars => (part = "scans" => Scanning)'
  BY Turn, NextScans
<1>3. QED
  BY <1>1, <1>2, PTL DEF MCSpec


\* Woken: with no wake window open, an account whose game has a new campaign, and that is
\* not asked to scan or scanning, has it among the campaigns it scanned.
THEOREM WokenHolds == MCSpec => []Woken
<1>1. (part = "scans" => Scanning) => Woken
  BY DEF Woken, EveryoneWoken, Scanning, AllTold, Told
<1>2. QED
  BY <1>1, ScansHold, PTL


\* Forgotten: once an account's removal is done, the board names it neither as one that queues a
\* campaign nor as one that has to be linked.
THEOREM ForgottenHolds == MCSpec => []Forgotten
<1>1. (part = "scans" => Scanning) => Forgotten
  <2>1. NoScan.camps = {} /\ ~NoScan.had
    BY DEF NoScan
  <2> QED
    BY <2>1 DEF Forgotten, ForgottenStays, Scanning, Removed, BoardGames, NeedsLink
<1>2. QED
  BY <1>1, ScansHold, PTL

-----------------------------------------------------------------------------
(***************************************************************************)
(* RepeatExcused.  What a target took is marked in the row, excused, or about *)
(* to be marked (Recorded); so a notice the sweep still has to send, of whose *)
(* row it holds a copy without the mark, was taken by nobody unexcused        *)
(* (Ahead). The copies are of different rewards (Apart).                      *)
(***************************************************************************)
CodeRow == [code : BOOLEAN, exp : Nat, seen : BOOLEAN, notified : BOOLEAN, reminded : BOOLEAN,
            skipped : BOOLEAN, closed : BOOLEAN]
Entry == [key : R!Keys, row : CodeRow]
Sweep == [pc : {"rest", "list", "next", "send", "mark"}, at : Nat, todo : SUBSET Entry, cur : SUBSET Entry,
          kind : {"new", "reminder"}]
CodeTypes == codeRows \in [R!Keys -> CodeRow] /\ sweep \in Sweep /\ clock \in Nat /\ completed \subseteq Items
Took(k, kind) == \E t \in Targets : <<k, kind, t>> \in sent
Excused(k, kind) == Took(k, kind) => <<k, kind>> \in excused
Marked(k, kind) == \/ kind = "new" /\ codeRows[k].notified
                   \/ kind = "reminder" /\ codeRows[k].reminded
Recorded == \A k \in R!Keys : \A kind \in {"new", "reminder"} :
              \/ Excused(k, kind) \/ Marked(k, kind)
              \/ sweep.pc = "mark" /\ kind = sweep.kind /\ \E x \in sweep.cur : x.key = k
Apart == /\ \A x, y \in sweep.todo : x.key = y.key => x = y
         /\ sweep.pc \in {"send", "mark"} => \E x \in sweep.cur : sweep.cur = {x} /\ \A y \in sweep.todo : y.key # x.key
         /\ sweep.pc = "next" => sweep.cur = {}
         /\ sweep.pc \in {"rest", "list"} => sweep.todo = {} /\ sweep.cur = {}
Ahead == /\ \A x \in sweep.todo : /\ R!Needs(x.row, sweep.at) \in {"new", "reminder", "skip"}
                                  /\ Excused(x.key, R!Needs(x.row, sweep.at))
         /\ sweep.pc = "send" => \A x \in sweep.cur : Excused(x.key, sweep.kind)
Notices == sent \subseteq R!Keys \X {"new", "reminder"} \X Targets
Codes == CodeTypes /\ Notices /\ Recorded /\ Apart /\ Ahead /\ R!RepeatExcused

\* What the sweep sends of a row is what the row has no mark of.
LEMMA NeedIsUnmarked ==
  ASSUME NEW row \in CodeRow, NEW at \in Nat
  PROVE  /\ R!Needs(row, at) \in {"none", "skip", "new", "reminder"}
         /\ R!Needs(row, at) = "new" => ~row.notified
         /\ R!Needs(row, at) = "reminder" => ~row.reminded
BY DEF R!Needs, CodeRow

\* A step that sends nothing, takes back no mark and no excuse, and leaves the sweep
\* at rest or where it was, keeps the books.
LEMMA SameNotices ==
  ASSUME Codes, UNCHANGED <<sent, again>>, excused \subseteq excused',
         CodeTypes',
         \A k \in R!Keys, kind \in {"new", "reminder"} : Marked(k, kind) => Marked(k, kind)',
         \/ UNCHANGED sweep
         \/ /\ sweep'.pc \in {"rest", "list"} /\ sweep'.todo = {} /\ sweep'.cur = {}
            /\ sweep.pc = "mark" => \A x \in sweep.cur : <<x.key, sweep.kind>> \in excused'
  PROVE  Codes'
<1> USE DEF Codes
<1>1. \A k, kind : Excused(k, kind) => Excused(k, kind)'
  BY DEF Excused, Took
<1>2. R!RepeatExcused' /\ Notices'
  BY DEF R!RepeatExcused, Notices
<1>3. CASE UNCHANGED sweep
  <2>1. Apart' /\ Recorded'
    BY <1>1, <1>3 DEF Apart, Recorded
  <2>2. Ahead'
    BY <1>1, <1>3 DEF Ahead, R!Needs, R!Expired, R!Near
  <2> QED
    BY <1>2, <2>1, <2>2
<1>4. CASE /\ sweep'.pc \in {"rest", "list"} /\ sweep'.todo = {} /\ sweep'.cur = {}
           /\ sweep.pc = "mark" => \A x \in sweep.cur : <<x.key, sweep.kind>> \in excused'
  <2>1. Apart' /\ Ahead'
    BY <1>4 DEF Apart, Ahead
  <2>2. Recorded'
    <3> SUFFICES ASSUME NEW k \in R!Keys, NEW kind \in {"new", "reminder"} PROVE Excused(k, kind)' \/ Marked(k, kind)'
      BY DEF Recorded
    <3>1. CASE sweep.pc = "mark" /\ kind = sweep.kind /\ \E x \in sweep.cur : x.key = k
      BY <1>4, <3>1 DEF Excused
    <3> QED
      BY <1>1, <3>1 DEF Recorded
  <2> QED
    BY <1>2, <2>1, <2>2
<1> QED
  BY <1>3, <1>4

\* Row for row, no mark of r is taken back in s.
Stays(r, s) == s \in [R!Keys -> CodeRow] /\ \A k \in R!Keys : (r[k].notified => s[k].notified) /\ (r[k].reminded => s[k].reminded)
\* A mark set is set, and takes no other back.
LEMMA MarksStay ==
  ASSUME NEW r \in [R!Keys -> CodeRow], NEW k \in R!Keys
  PROVE  /\ Stays(r, R!MarkRewardCodeNotified(r, k)) /\ R!MarkRewardCodeNotified(r, k)[k].notified
         /\ Stays(r, R!MarkRewardCodeReminded(r, k)) /\ R!MarkRewardCodeReminded(r, k)[k].reminded
         /\ Stays(r, R!MarkRewardCodeReminded(R!MarkRewardCodeNotified(r, k), k))
         /\ R!MarkRewardCodeReminded(R!MarkRewardCodeNotified(r, k), k)[k].notified
<1>1. ASSUME NEW s \in [R!Keys -> CodeRow]
      PROVE  /\ R!MarkRewardCodeNotified(s, k) \in [R!Keys -> CodeRow] /\ R!MarkRewardCodeReminded(s, k) \in [R!Keys -> CodeRow]
             /\ R!MarkRewardCodeNotified(s, k)[k].notified /\ R!MarkRewardCodeReminded(s, k)[k].reminded
             /\ Stays(s, R!MarkRewardCodeNotified(s, k)) /\ Stays(s, R!MarkRewardCodeReminded(s, k))
  <2>1. R!MarkRewardCodeNotified(s, k) \in [R!Keys -> CodeRow] /\ R!MarkRewardCodeReminded(s, k) \in [R!Keys -> CodeRow]
    BY DEF R!MarkRewardCodeNotified, R!MarkRewardCodeReminded, CodeRow
  <2>2. R!MarkRewardCodeNotified(s, k)[k].notified /\ \A q \in R!Keys : R!MarkRewardCodeNotified(s, k)[q].reminded = s[q].reminded
    BY DEF R!MarkRewardCodeNotified, CodeRow
  <2>3. R!MarkRewardCodeReminded(s, k)[k].reminded /\ \A q \in R!Keys : R!MarkRewardCodeReminded(s, k)[q].notified = s[q].notified
    BY DEF R!MarkRewardCodeReminded, CodeRow
  <2>4. \A q \in R!Keys \ {k} : R!MarkRewardCodeNotified(s, k)[q] = s[q] /\ R!MarkRewardCodeReminded(s, k)[q] = s[q]
    BY DEF R!MarkRewardCodeNotified, R!MarkRewardCodeReminded, CodeRow
  <2> QED
    BY <2>1, <2>2, <2>3, <2>4 DEF Stays
<1> HIDE DEF R!MarkRewardCodeNotified, R!MarkRewardCodeReminded
<1> QED
  BY <1>1 DEF Stays


\* No step of the reward code sweep breaks what is known of its rows and notices.
LEMMA NextCodes ==
  ASSUME Codes, [R!Next]_codeVars
  PROVE  Codes'
<1> USE DEF Codes
<1>0. /\ R!Resting \in Sweep /\ R!Resting.pc = "rest" /\ R!Resting.todo = {} /\ R!Resting.cur = {}
      /\ [R!Resting EXCEPT !.pc = "list"] \in Sweep /\ [R!Resting EXCEPT !.pc = "list"].pc = "list"
      /\ [R!Resting EXCEPT !.pc = "list"].todo = {} /\ [R!Resting EXCEPT !.pc = "list"].cur = {}
  BY DEF R!Resting, R!Never, Sweep
<1>1. CASE R!ReadRefused \/ R!ReadFails \/ R!ListFails \/ R!NoTarget
  <2>1. /\ UNCHANGED <<sent, again, excused, codeRows, clock, completed>> /\ sweep.pc = "rest"
        /\ sweep' = [R!Resting EXCEPT !.pc = "list"]
    BY <1>1, Zenon DEF R!ReadRefused, R!ReadFails, R!ListFails, R!NoTarget, R!ReadDue, R!observed, R!twitchside
  <2> QED
    BY <1>0, <2>1, SameNotices DEF CodeTypes, Marked
<1>2. CASE R!ReadRewardCodes
  <2>1. /\ UNCHANGED <<sent, again, excused, clock, completed>> /\ sweep.pc = "rest"
        /\ sweep' = [R!Resting EXCEPT !.pc = "list"]
    BY <1>2 DEF R!ReadRewardCodes, R!ReadDue, R!observed, R!twitchside
  <2>2. PICK notes, items, read, stored : /\ stored \subseteq R!RewardReads(notes, items, read) /\ R!Save(stored)
                                          /\ notes \subseteq recent /\ items \subseteq completed /\ read \subseteq items
    BY <1>2 DEF R!ReadRewardCodes, R!RewardNotices, R!InventoryRewards, R!Lookups
  <2>3. \A rc \in stored : rc.code \in BOOLEAN /\ rc.exp \in Nat
    <3> SUFFICES ASSUME NEW rc \in R!RewardReads(notes, items, read) PROVE rc.code \in BOOLEAN /\ rc.exp \in Nat
      BY <2>2
    <3>1. read \subseteq Items
      BY <2>2 DEF CodeTypes
    <3>2. CASE \E i \in items : rc = R!Read(i, R!Fits(i, notes, items, read), IF i \in read THEN ExpOf[i] ELSE R!Never)
      BY <3>1, <3>2, CodesAssumption DEF R!Read, R!Fits, R!Never
    <3>3. CASE \E n \in notes : rc = R!Read(n, TRUE, R!Never)
      BY <3>3 DEF R!Read, R!Never
    <3> QED
      BY <3>2, <3>3 DEF R!RewardReads
  <2>4. \A k \in R!Keys : \/ codeRows'[k] = codeRows[k]
                          \/ \E rc \in stored : codeRows'[k] = R!UpsertRewardCode(codeRows[k], rc)
    BY <2>2 DEF R!Save
  <2>5. ASSUME NEW k \in R!Keys
        PROVE  codeRows'[k] \in CodeRow /\ codeRows'[k].notified = codeRows[k].notified /\ codeRows'[k].reminded = codeRows[k].reminded
    <3>1. ASSUME NEW row \in CodeRow, NEW rc \in stored
          PROVE  LET up == R!UpsertRewardCode(row, rc)
                 IN up \in CodeRow /\ up.notified = row.notified /\ up.reminded = row.reminded
      BY <2>3 DEF R!UpsertRewardCode, CodeRow
    <3> QED
      BY <2>4, <3>1 DEF CodeTypes
  <2>6. codeRows' \in [R!Keys -> CodeRow]
    BY <2>2, <2>5 DEF R!Save
  <2> QED
    BY <1>0, <2>1, <2>5, <2>6, SameNotices DEF CodeTypes, Marked
<1>3. CASE R!ListOpen
  <2>1. sweep.pc = "list" /\ UNCHANGED <<codeRows, sent, again, excused, clock, completed>>
    BY <1>3 DEF R!ListOpen, R!Keep, R!observed, R!twitchside
  <2>2. CASE sweep' = R!Resting
    BY <1>0, <2>1, <2>2, SameNotices DEF CodeTypes, Marked
  <2>3. CASE sweep' # R!Resting
    <3> DEFINE todo == {[key |-> k, row |-> codeRows[k]] : k \in {q \in R!ListOpenRewardCodes : R!Needs(codeRows[q], clock) # "none"}}
    <3>1. sweep' = [R!Resting EXCEPT !.pc = "next", !.at = clock, !.todo = todo]
      BY <1>3, <2>3 DEF R!ListOpen
    <3>2. \A x \in todo : x \in Entry /\ x.row = codeRows[x.key] /\ R!Needs(x.row, clock) # "none"
      BY DEF CodeTypes, Entry, R!ListOpenRewardCodes
    <3>3. \A x, y \in todo : x.key = y.key => x = y
      OBVIOUS
    <3> HIDE DEF todo
    <3>4. sweep' \in Sweep /\ sweep'.pc = "next" /\ sweep'.at = clock /\ sweep'.todo = todo /\ sweep'.cur = {}
      BY <3>1, <3>2 DEF R!Resting, R!Never, Sweep, CodeTypes
    <3>5. ASSUME NEW x \in todo
          PROVE  /\ R!Needs(x.row, clock) \in {"new", "reminder", "skip"}
                 /\ Excused(x.key, R!Needs(x.row, clock))
      <4> DEFINE need == R!Needs(x.row, clock)
      <4>1. x.row \in CodeRow /\ x.key \in R!Keys /\ clock \in Nat /\ x.row = codeRows[x.key] /\ need # "none"
        BY <3>2 DEF Entry, CodeTypes
      <4>2. /\ need \in {"new", "reminder", "skip"}
            /\ need = "new" => ~x.row.notified
            /\ need = "reminder" => ~x.row.reminded
        BY <4>1, NeedIsUnmarked
      <4> HIDE DEF need
      <4>3. ~Marked(x.key, need)
        BY <4>1, <4>2 DEF Marked
      <4>4. CASE need \in {"new", "reminder"}
        BY <2>1, <4>1, <4>3, <4>4 DEF Recorded, need
      <4>5. CASE need = "skip"
        BY <4>5 DEF Excused, Took, Notices, need
      <4> QED
        BY <4>2, <4>4, <4>5 DEF need
    <3>6. CodeTypes' /\ Notices' /\ Apart' /\ R!RepeatExcused'
      BY <2>1, <3>3, <3>4 DEF CodeTypes, Notices, Apart, R!RepeatExcused
    <3>7. Recorded'
      BY <2>1, <3>4 DEF Recorded, Excused, Took, Marked
    <3>8. Ahead'
      BY <2>1, <3>4, <3>5 DEF Ahead, Excused, Took, R!Needs, R!Expired, R!Near
    <3> QED
      BY <3>6, <3>7, <3>8
  <2> QED
    BY <2>2, <2>3
<1>4. CASE R!SweepNext
  <2>1. sweep.pc = "next" /\ UNCHANGED <<sent, again, excused, clock, completed>>
    BY <1>4 DEF R!SweepNext, R!Keep, R!observed, R!twitchside
  <2>2. CASE sweep.todo = {}
    BY <1>0, <1>4, <2>1, <2>2, SameNotices DEF R!SweepNext, CodeTypes, Marked
  <2>3. CASE sweep.todo # {}
    <3>1. PICK x \in sweep.todo : x = CHOOSE y \in sweep.todo : TRUE
      BY <2>3
    <3> DEFINE need == R!Needs(x.row, sweep.at)
               rest == [sweep EXCEPT !.todo = @ \ {x}]
               send == [rest EXCEPT !.pc = "send", !.cur = {x}, !.kind = need]
    <3>2. \/ sweep' = rest /\ R!Skip(x.key)
          \/ sweep' = send /\ need # "skip" /\ UNCHANGED codeRows
      BY <1>4, <2>3, <3>1 DEF R!SweepNext
    <3>3. x \in Entry /\ need \in {"new", "reminder", "skip"} /\ Excused(x.key, need)
      BY DEF Ahead, CodeTypes, Sweep
    <3> HIDE DEF need
    <3>4. /\ rest \in Sweep /\ rest.todo = sweep.todo \ {x} /\ rest.pc = "next" /\ rest.at = sweep.at /\ rest.cur = sweep.cur
          /\ need # "skip" => send \in Sweep
          /\ send.todo = sweep.todo \ {x} /\ send.pc = "send" /\ send.at = sweep.at /\ send.cur = {x} /\ send.kind = need
      BY <2>1, <3>3 DEF CodeTypes, Sweep
    <3> HIDE DEF rest, send
    <3>5. /\ codeRows' \in [R!Keys -> CodeRow]
          /\ \A k \in R!Keys : codeRows'[k].notified = codeRows[k].notified /\ codeRows'[k].reminded = codeRows[k].reminded
      <4>1. CASE codeRows' = codeRows
        BY <4>1 DEF CodeTypes
      <4>2. CASE codeRows' = [codeRows EXCEPT ![x.key].skipped = TRUE]
        BY <4>2 DEF CodeTypes, CodeRow
      <4> QED
        BY <3>2, <4>1, <4>2 DEF R!Skip, R!MarkRewardCodeNotifySkipped
    <3>6. /\ sweep' \in Sweep /\ sweep'.todo = sweep.todo \ {x} /\ sweep'.at = sweep.at
          /\ \/ sweep'.pc = "next" /\ sweep'.cur = {}
             \/ sweep'.pc = "send" /\ sweep'.cur = {x} /\ sweep'.kind = need
      BY <2>1, <3>2, <3>4 DEF Apart
    <3>7. CodeTypes' /\ Notices' /\ R!RepeatExcused'
      BY <2>1, <3>5, <3>6 DEF CodeTypes, Notices, R!RepeatExcused
    <3>8. Recorded'
      BY <2>1, <3>5, <3>6 DEF Recorded, Excused, Took, Marked
    <3>9. Apart'
      BY <3>6 DEF Apart
    <3>10. Ahead'
      BY <2>1, <3>3, <3>6 DEF Ahead, Excused, Took, R!Needs, R!Expired, R!Near
    <3> QED
      BY <3>7, <3>8, <3>9, <3>10
  <2> QED
    BY <2>2, <2>3
<1>5. CASE R!Notify
  <2>1. PICK x \in sweep.cur :
          /\ sweep.pc = "send" /\ UNCHANGED <<codeRows, clock, completed>>
          /\ \E got \in SUBSET Targets : R!Deliver(x, got)
          /\ \/ sweep' = [sweep EXCEPT !.pc = "mark"] /\ excused' = excused
             \/ sweep' = R!Resting /\ excused' = excused \cup R!Notice(x)
    <3>1. PICK x \in sweep.cur : /\ sweep.pc = "send" /\ UNCHANGED codeRows /\ R!Keep
          /\ \E answer \in R!MultiNotify :
               /\ R!Deliver(x, {t \in Targets : answer[t].took})
               /\ \/ sweep' = [sweep EXCEPT !.pc = "mark"] /\ excused' = excused
                  \/ sweep' = R!Resting /\ excused' = excused \cup R!Notice(x)
      BY <1>5, Zenon DEF R!Notify
    <3>2. PICK answer : /\ R!Deliver(x, {t \in Targets : answer[t].took})
               /\ \/ sweep' = [sweep EXCEPT !.pc = "mark"] /\ excused' = excused
                  \/ sweep' = R!Resting /\ excused' = excused \cup R!Notice(x)
      BY <3>1
    <3>3. {t \in Targets : answer[t].took} \in SUBSET Targets
      OBVIOUS
    <3> QED
      BY <3>1, <3>2, <3>3 DEF R!Keep, R!twitchside
  <2>2. PICK got \in SUBSET Targets : R!Deliver(x, got)
    BY <2>1
  <2> DEFINE them == {<<x.key, sweep.kind, t>> : t \in got}
  <2>3. sent' = sent \cup them /\ again' = again \cup (sent \cap them)
    BY <2>2 DEF R!Deliver
  <2>4. sweep.cur = {x} /\ x \in Entry /\ sweep.kind \in {"new", "reminder"} /\ (\A y \in sweep.todo : y.key # x.key)
    BY <2>1 DEF Apart, CodeTypes, Sweep
  <2>5. Excused(x.key, sweep.kind)
    BY <2>1 DEF Ahead
  <2>6. excused \subseteq excused' /\ (sent \cap them # {} => <<x.key, sweep.kind>> \in excused)
    <3>1. sent \cap them # {} => Took(x.key, sweep.kind)
      BY DEF Took
    <3> QED
      BY <2>1, <2>5, <3>1 DEF Excused
  <2>7. Notices'
    BY <2>3, <2>4 DEF Notices, Entry
  <2>8. R!RepeatExcused'
    <3>1. ASSUME NEW y \in them PROVE y[1] = x.key /\ y[2] = sweep.kind
      OBVIOUS
    <3> HIDE DEF them
    <3> QED
      BY <2>3, <2>6, <3>1 DEF R!RepeatExcused
  <2>9. \A k, kind : (k # x.key \/ kind # sweep.kind) /\ Excused(k, kind) => Excused(k, kind)'
    BY <2>3, <2>6 DEF Excused, Took
  <2>10. CASE sweep' = [sweep EXCEPT !.pc = "mark"]
    <3>1. /\ sweep' \in Sweep /\ sweep'.pc = "mark" /\ sweep'.todo = sweep.todo /\ sweep'.cur = {x}
          /\ sweep'.kind = sweep.kind /\ sweep'.at = sweep.at
      BY <2>4, <2>10 DEF CodeTypes, Sweep
    <3>2. CodeTypes' /\ Apart'
      BY <2>1, <2>4, <3>1 DEF CodeTypes, Apart
    <3>3. Recorded'
      BY <2>1, <2>9, <3>1 DEF Recorded, Marked
    <3>4. Ahead'
      BY <2>4, <2>9, <3>1 DEF Ahead, R!Needs, R!Expired, R!Near
    <3> QED
      BY <2>7, <2>8, <3>2, <3>3, <3>4
  <2>11. CASE sweep' = R!Resting /\ excused' = excused \cup R!Notice(x)
    <3>1. CodeTypes' /\ Apart' /\ Ahead'
      BY <1>0, <2>1, <2>11 DEF CodeTypes, Apart, Ahead
    <3>2. Recorded'
      BY <1>0, <2>1, <2>9, <2>11 DEF Recorded, Marked, Excused, R!Notice
    <3> QED
      BY <2>7, <2>8, <3>1, <3>2
  <2> QED
    BY <2>1, <2>10, <2>11
<1>6. CASE R!Mark
  <2>1. PICK x \in sweep.cur :
          /\ sweep.pc = "mark" /\ sweep' = [sweep EXCEPT !.pc = "next", !.cur = {}] /\ UNCHANGED <<sent, again, clock, completed>>
          /\ \/ /\ excused' = excused
                /\ codeRows' = IF sweep.kind = "reminder" THEN R!MarkRewardCodeReminded(codeRows, x.key)
                               ELSE IF R!Near(x.row, sweep.at) THEN R!MarkRewardCodeReminded(R!MarkRewardCodeNotified(codeRows, x.key), x.key)
                               ELSE R!MarkRewardCodeNotified(codeRows, x.key)
             \/ sweep.kind = "new" /\ excused' = excused /\ codeRows' = R!MarkRewardCodeNotified(codeRows, x.key)
             \/ excused' = excused \cup R!Notice(x) /\ UNCHANGED codeRows
    BY <1>6 DEF R!Mark, R!Keep, R!twitchside
  <2>2. sweep.cur = {x} /\ x \in Entry /\ x.key \in R!Keys /\ sweep.kind \in {"new", "reminder"}
    BY <2>1 DEF Apart, CodeTypes, Sweep, Entry
  <2>3. /\ sweep' \in Sweep /\ sweep'.pc = "next" /\ sweep'.todo = sweep.todo /\ sweep'.cur = {} /\ sweep'.at = sweep.at
    BY <2>1 DEF CodeTypes, Sweep
  <2>4. /\ excused \subseteq excused' /\ codeRows' \in [R!Keys -> CodeRow]
        /\ \A k \in R!Keys : (codeRows[k].notified => codeRows'[k].notified) /\ (codeRows[k].reminded => codeRows'[k].reminded)
    BY <2>1, <2>2, MarksStay DEF CodeTypes, Stays
  <2>5. \/ <<x.key, sweep.kind>> \in excused'
        \/ sweep.kind = "new" /\ codeRows'[x.key].notified
        \/ sweep.kind = "reminder" /\ codeRows'[x.key].reminded
    <3>1. CASE excused' = excused \cup R!Notice(x)
      BY <3>1 DEF R!Notice
    <3> QED
      BY <2>1, <2>2, <3>1, MarksStay DEF CodeTypes, Stays
  <2>6. CodeTypes' /\ Notices' /\ R!RepeatExcused' /\ Apart'
    BY <2>1, <2>3, <2>4 DEF CodeTypes, Notices, R!RepeatExcused, Apart
  <2>7. \A k, kind : Excused(k, kind) => Excused(k, kind)'
    BY <2>1, <2>4 DEF Excused, Took
  <2>8. Recorded'
    BY <2>1, <2>2, <2>3, <2>4, <2>5, <2>7 DEF Recorded, Marked, Excused
  <2>9. Ahead'
    BY <2>3, <2>7 DEF Ahead, R!Needs, R!Expired, R!Near
  <2> QED
    BY <2>6, <2>8, <2>9
<1>7. CASE R!Restart
  <2>1. /\ UNCHANGED <<sent, again, codeRows, clock, completed>> /\ sweep' = R!Resting /\ excused \subseteq excused'
        /\ sweep.pc = "mark" => \A x \in sweep.cur : R!Notice(x) \subseteq excused'
    BY <1>7 DEF R!Restart, R!twitchside
  <2> QED
    BY <1>0, <2>1, SameNotices DEF CodeTypes, Marked, R!Notice
<1>8. ASSUME NEW k \in R!Keys, R!PutRewardCode(k) PROVE Codes'
  <2>1. UNCHANGED <<sent, again, excused, clock, completed, sweep>> /\ codeRows' = [codeRows EXCEPT ![k].closed = TRUE]
    BY <1>8 DEF R!PutRewardCode, R!Keep, R!observed, R!SetClosed, R!twitchside
  <2>2. /\ codeRows' \in [R!Keys -> CodeRow]
        /\ \A q \in R!Keys : codeRows'[q].notified = codeRows[q].notified /\ codeRows'[q].reminded = codeRows[q].reminded
    BY <2>1 DEF CodeTypes, CodeRow
  <2> QED
    BY <2>1, <2>2, SameNotices DEF CodeTypes, Marked
<1>9. CASE R!SetNotify \/ R!Twitch \/ R!Tick \/ UNCHANGED codeVars
  <2>1. UNCHANGED <<sent, again, excused, codeRows, sweep>> /\ clock' \in Nat /\ completed' \subseteq Items
    BY <1>9 DEF R!SetNotify, R!Twitch, R!Tick, R!observed, R!twitchside, codeVars, CodeTypes
  <2> QED
    BY <2>1, SameNotices DEF CodeTypes, Marked
<1> QED
  BY <1>1, <1>2, <1>3, <1>4, <1>5, <1>6, <1>7, <1>8, <1>9 DEF R!Next

\* RepeatExcused: a notice goes to a target a second time only when its first
\* delivery could not be recorded, or another target failed.
THEOREM RepeatExcusedHolds == MCSpec => []RepeatExcused
<1>1. MCInit => (part = "codes" => Codes)
  <2> SUFFICES ASSUME R!Init PROVE Codes
    BY Started
  <2>1. R!NoRow \in CodeRow
    BY DEF R!NoRow, R!Never, CodeRow
  <2>2. R!Resting \in Sweep /\ R!Resting.pc = "rest" /\ R!Resting.todo = {} /\ R!Resting.cur = {}
    BY DEF R!Resting, R!Never, Sweep
  <2> QED
    BY <2>1, <2>2 DEF R!Init, Codes, CodeTypes, Notices, Recorded, Excused, Took, Apart, Ahead, R!RepeatExcused
<1>2. (part = "codes" => Codes) /\ [MCNext]_mcvars => (part = "codes" => Codes)'
  BY Turn, NextCodes
<1>3. (part = "codes" => Codes) => RepeatExcused
  BY DEF Codes, RepeatExcused
<1>4. QED
  BY <1>1, <1>2, <1>3, PTL DEF MCSpec

-----------------------------------------------------------------------------
(***************************************************************************)
(* NeverTwice.  A pair read since the click is in the cache with a time that *)
(* is the click's second or later (Fresh), and in the copy of a pass that    *)
(* has yet to come to it (Listed), unless it is the one being read: the next *)
(* read of it waits for its time.  A failed read's wait is one of those the  *)
(* assumption is about, for each failure is a fault (Failures).              *)
(***************************************************************************)
Row == [had : BOOLEAN, known : BOOLEAN, bal : Nat, checked : Nat,
        err : {"none", "failed", "unavailable"}, failures : Nat]
PassType == [pc : {"rest", "next", "fetch", "store"}, todo : SUBSET Pairs, snap : [Pairs -> Row],
         pair : Pairs \cup {NoPair}, forced : BOOLEAN, answer : {"none", "ok", "unavailable", "failed"},
         bal : Nat, changed : BOOLEAN]
Learned == [pc : {"rest", "get", "put"}, pair : Pairs \cup {NoPair}, bal : Nat, changed : BOOLEAN]
BookTypes == /\ book \in [Pairs -> Row] /\ pass \in PassType /\ since \in [Pairs -> 0..2]
             /\ worth \in [Pairs -> Nat] /\ assigned \in SUBSET Pairs
             /\ hook \in Learned
             /\ tick \in Nat /\ pbFaults \in 0..PointsFaults
             /\ hook.pc # "rest" => hook.pair \in Pairs
             /\ pass.pc \in {"fetch", "store"} => pass.pair \in Pairs \ pass.todo
Clicked == lastManual \in Nat /\ dueBefore = B!Second(lastManual) /\ lastManual <= tick
Reading(p) == pass.pc \in {"fetch", "store"} /\ pass.pair = p
Held(b) == b.had /\ b.checked >= dueBefore
BookFresh == \A p \in Pairs : since[p] > 0 /\ ~Reading(p) => Held(book[p])
Listed == pass.pc # "rest" => \A p \in pass.todo : since[p] > 0 => Held(pass.snap[p])
Failed(b) == b.err = "failed" => b.failures \in 1..pbFaults
Failures == /\ \A p \in Pairs : Failed(book[p]) /\ Failed(pass.snap[p])
            /\ pass.pc = "store" /\ pass.answer = "failed" /\ pass.snap[pass.pair].err = "failed"
                 => pass.snap[pass.pair].failures < pbFaults
            /\ pass.pc = "store" /\ pass.answer = "failed" => pbFaults > 0
Book == BookTypes /\ Clicked /\ BookFresh /\ Listed /\ Failures /\ B!NeverTwice


\* The time as it is stored, in whole seconds, never passes the clock and never goes back.
LEMMA Seconds ==
  ASSUME NEW t \in Nat
  PROVE  /\ B!Second(t) \in Nat /\ B!Second(t) <= t
         /\ \A u \in 0..t : B!Second(u) <= B!Second(t)
BY Z3 DEF B!Second

\* No step of the points refresher breaks what is known of its pass, its book and its button.
LEMMA NextBook ==
  ASSUME Book, [B!Next]_bookVars
  PROVE  Book'
<1> USE BookAssumption DEF Book
<1> DEFINE Now == B!Second(tick)
<1>0. Now \in Nat /\ Now >= dueBefore /\ dueBefore \in Nat
  BY Seconds DEF BookTypes, Clicked
<1> HIDE DEF Now
<1> USE <1>0
<1>1. CASE B!Pass
  <2>1. pass.pc = "rest" /\ UNCHANGED <<worth, assigned, tick, dueBefore, lastManual, hook>>
    BY <1>1 DEF B!Pass, B!Quiet
  <2> DEFINE pruned == B!PrunePointsBalances(book)
             cut == [p \in Pairs |-> IF p \in assigned THEN since[p] ELSE 0]
             begun == [B!Idle EXCEPT !.pc = "next", !.todo = B!PointsTargets, !.snap = pruned, !.changed = pruned # book]
             blind == [B!Idle EXCEPT !.pc = "next", !.todo = B!PointsTargets, !.snap = book]
  <2>2. /\ B!NoBalance \in Row /\ ~B!NoBalance.had /\ B!NoBalance.err = "none"
        /\ pruned \in [Pairs -> Row] /\ \A p \in Pairs : pruned[p] = IF p \in assigned THEN book[p] ELSE B!NoBalance
    BY DEF B!NoBalance, Row, B!PrunePointsBalances, BookTypes
  <2>3. \/ book' = pruned /\ since' = cut /\ pass' = begun /\ pbFaults' = pbFaults
        \/ book' = pruned /\ since' = cut /\ pass' = B!Idle /\ B!Fault
        \/ book' = book /\ since' = since /\ pass' = blind /\ B!Fault
    BY <1>1, Zenon DEF B!Pass, B!Pruned, B!EndPass
  <2> HIDE DEF pruned
  <2>4. /\ B!Idle \in PassType /\ B!Idle.pc = "rest" /\ \A p \in Pairs : B!Idle.snap[p] = B!NoBalance
        /\ begun \in PassType /\ begun.pc = "next" /\ begun.todo = B!PointsTargets /\ begun.snap = pruned
        /\ blind \in PassType /\ blind.pc = "next" /\ blind.todo = B!PointsTargets /\ blind.snap = book
    BY <2>2 DEF B!Idle, PassType, BookTypes, B!PointsTargets
  <2> HIDE DEF begun, blind
  <2>5. \/ book' = book /\ since' = since
        \/ book' = pruned /\ since' = cut
    BY <2>3
  <2>6. \/ pbFaults' = pbFaults
        \/ pbFaults < PointsFaults /\ pbFaults' = pbFaults + 1
    BY <2>3 DEF B!Fault
  <2>7. /\ pass' \in PassType
        /\ \/ pass'.pc = "rest" /\ \A p \in Pairs : pass'.snap[p] = B!NoBalance
           \/ pass'.pc = "next" /\ pass'.todo \subseteq assigned /\ pass'.snap = book'
    BY <2>3, <2>4 DEF B!PointsTargets
  <2>8. book' \in [Pairs -> Row] /\ since' \in [Pairs -> 0..2]
    BY <2>2, <2>5 DEF BookTypes
  <2>9. BookTypes'
    BY <2>1, <2>6, <2>7, <2>8 DEF BookTypes
  <2>10. \A p \in Pairs : since'[p] > 0 => since'[p] = since[p] /\ book'[p] = book[p]
    BY <2>2, <2>5 DEF BookTypes
  <2>11. BookFresh'
    BY <2>1, <2>8, <2>10 DEF BookFresh, Held, Reading
  <2>12. Listed'
    BY <2>1, <2>7, <2>8, <2>10 DEF Listed, BookFresh, Held, Reading, BookTypes
  <2>13. \A p \in Pairs : Failed(book[p])' 
    BY <2>2, <2>5, <2>6 DEF Failures, Failed, BookTypes
  <2>14. Failures'
    BY <2>2, <2>7, <2>8, <2>13 DEF Failures, Failed
  <2> QED
    BY <2>1, <2>9, <2>10, <2>11, <2>12, <2>14 DEF Clicked, B!NeverTwice, BookTypes
<1>2. CASE B!PassNext
  <2>1. /\ pass.pc = "next"
        /\ UNCHANGED <<worth, assigned, tick, dueBefore, lastManual, hook, book, pbFaults>>
    BY <1>2 DEF B!PassNext, B!Quiet
  <2>2. CASE pass.todo = {}
    <3>1. pass' = B!Idle /\ UNCHANGED since
      BY <1>2, <2>2 DEF B!PassNext, B!EndPass
    <3>2. B!NoBalance \in Row /\ B!NoBalance.err = "none"
      BY DEF B!NoBalance, Row
    <3> QED
      BY <2>1, <3>1, <3>2 DEF BookTypes, PassType, Clicked, BookFresh, Listed, Failures, Failed, Held, Reading, B!Idle, B!NeverTwice
  <2>3. CASE pass.todo # {}
    <3>1. PICK p \in pass.todo : p = CHOOSE q \in pass.todo : TRUE
      BY <2>3
    <3> DEFINE b == pass.snap[p]
               rest == [pass EXCEPT !.todo = @ \ {p}]
               read == [rest EXCEPT !.pc = "fetch", !.pair = p, !.forced = B!Forced(b)]
    <3>2. p \in Pairs /\ b \in Row
      BY DEF BookTypes, PassType
    <3>3. /\ rest \in PassType /\ rest.pc = "next" /\ rest.todo = pass.todo \ {p} /\ rest.snap = pass.snap
          /\ read \in PassType /\ read.pc = "fetch" /\ read.todo = pass.todo \ {p} /\ read.snap = pass.snap /\ read.pair = p
      BY <2>1, <3>2 DEF BookTypes, PassType, B!Forced, Row
    <3>4. \/ pass' = rest /\ since' = since
          \/ /\ pass' = read /\ since' = [since EXCEPT ![p] = IF @ = 2 THEN 2 ELSE @ + 1]
             /\ ~(b.had /\ ~B!Forced(b) /\ tick < B!NextAt(b))
      BY <1>2, <2>3, <3>1 DEF B!PassNext
    <3> HIDE DEF b, rest, read
    <3>5. /\ pass' \in PassType /\ pass'.todo = pass.todo \ {p} /\ pass'.snap = pass.snap /\ pass'.pc \in {"next", "fetch"}
          /\ pass'.pc = "fetch" => pass'.pair = p
          /\ pass'.pc = "next" => since' = since
      BY <3>3, <3>4
    <3>8. since' \in [Pairs -> 0..2] /\ \A q \in Pairs \ {p} : since'[q] = since[q]
      BY <3>2, <3>4 DEF BookTypes
    <3>9. BookTypes' /\ Clicked'
      BY <2>1, <3>2, <3>5, <3>8 DEF BookTypes, Clicked
    <3>11. Listed'
      BY <2>1, <3>2, <3>5, <3>8 DEF Listed, Held, BookTypes, PassType
    <3>12. Failures'
      BY <2>1, <3>5 DEF Failures, Failed
    <3>10. BookFresh'
      BY <2>1, <3>2, <3>5, <3>8 DEF BookFresh, Held, Reading
    <3>6. ASSUME since[p] > 0, ~(b.had /\ ~B!Forced(b) /\ tick < B!NextAt(b)) PROVE tick >= B!Second(lastManual) + Retry
      <4>1. b.had /\ b.checked >= dueBefore
        BY <2>1, <3>6 DEF Listed, Held, b
      <4>2. B!NextAt(b) \in Nat /\ B!NextAt(b) >= b.checked + Retry
        <5>1. b.err = "failed" => B!Backoff(b.failures) \in Retry..RetryMax
          BY <3>2 DEF Failures, Failed, BookTypes, b
        <5> QED
          BY <3>2, <5>1 DEF B!NextAt, Row
      <4>3. tick >= B!NextAt(b)
        BY <3>2, <3>6, <4>1, <4>2 DEF B!Forced, BookTypes, Row
      <4> QED
        BY <3>2, <4>1, <4>2, <4>3 DEF Clicked, BookTypes, Row
    <3>7. B!NeverTwice'
      BY <2>1, <3>2, <3>4, <3>6 DEF B!NeverTwice, BookTypes
    <3> QED
      BY <3>7, <3>9, <3>10, <3>11, <3>12
  <2> QED
    BY <2>2, <2>3
<1>3. CASE B!FetchPointsBalance
  <2>1. PICK answer \in {"ok", "unavailable", "failed"} :
          /\ pass.pc = "fetch"
          /\ pass' = [pass EXCEPT !.pc = "store", !.answer = answer, !.bal = IF answer = "ok" THEN worth[pass.pair] ELSE 0]
          /\ IF answer = "ok" THEN pbFaults' = pbFaults ELSE pbFaults < PointsFaults /\ pbFaults' = pbFaults + 1
          /\ UNCHANGED <<worth, assigned, tick, dueBefore, lastManual, hook, book, since>>
    BY <1>3 DEF B!FetchPointsBalance, B!Quiet, B!Fault
  <2>2. /\ pass' \in PassType /\ pass'.pc = "store" /\ pass'.answer = answer
        /\ pass'.todo = pass.todo /\ pass'.snap = pass.snap /\ pass'.pair = pass.pair
    BY <2>1 DEF BookTypes, PassType
  <2> QED
    BY <2>1, <2>2 DEF BookTypes, Clicked, BookFresh, Listed, Failures, Failed, Held, Reading, B!NeverTwice
<1>4. CASE B!FetchStore
  <2> DEFINE p == pass.pair
             prev == pass.snap[p]
             failures == IF pass.answer # "failed" THEN 0
                         ELSE IF prev.had /\ prev.err = "failed" THEN prev.failures + 1 ELSE 1
             row == IF pass.answer = "ok" THEN [B!NoBalance EXCEPT !.had = TRUE, !.known = TRUE, !.bal = pass.bal, !.checked = Now]
                    ELSE [book[p] EXCEPT !.had = TRUE, !.checked = Now, !.err = pass.answer, !.failures = failures]
  <2>1. /\ pass.pc = "store" /\ p \in Pairs /\ p \notin pass.todo
        /\ UNCHANGED <<worth, assigned, tick, dueBefore, lastManual, hook>>
    BY <1>4 DEF B!FetchStore, B!Quiet, BookTypes
  <2>2. \E ch \in BOOLEAN : pass' = [pass EXCEPT !.pc = "next", !.pair = NoPair, !.forced = FALSE, !.answer = "none", !.bal = 0, !.changed = ch]
    BY <1>4 DEF B!FetchStore, BookTypes, PassType
  <2>3. /\ pass' \in PassType /\ pass'.pc = "next" /\ pass'.todo = pass.todo /\ pass'.snap = pass.snap
    <3>1. PICK ch \in BOOLEAN : pass' = [pass EXCEPT !.pc = "next", !.pair = NoPair, !.forced = FALSE, !.answer = "none", !.bal = 0, !.changed = ch]
      BY <2>2
    <3> QED
      BY <3>1 DEF BookTypes, PassType
  <2>4. \/ book' = [book EXCEPT ![p] = row] /\ UNCHANGED <<since, pbFaults>>
        \/ /\ pbFaults < PointsFaults /\ pbFaults' = pbFaults + 1 /\ UNCHANGED book
           /\ since' = [since EXCEPT ![p] = 0]
    BY <1>4, <2>1 DEF B!FetchStore, B!UpsertPointsBalance, B!UpsertPointsBalanceError, B!Fault, BookTypes, Row, Now
  <2>5. row \in Row /\ row.had /\ row.checked = Now /\ (row.err = "failed" => row.failures \in 1..pbFaults)
    <3>1. failures \in Nat /\ (pass.answer = "failed" => failures \in 1..pbFaults)
      BY <2>1 DEF BookTypes, PassType, Row, Failures, Failed
    <3>2. pass.answer \in {"none", "ok", "unavailable", "failed"} /\ pass.bal \in Nat /\ book[p] \in Row
      BY <2>1 DEF BookTypes, PassType
    <3> HIDE DEF failures
    <3> QED
      BY <3>1, <3>2 DEF Row, B!NoBalance
  <2> HIDE DEF row
  <2> QED
    <3>1. book' \in [Pairs -> Row] /\ since' \in [Pairs -> 0..2] /\ pbFaults' \in pbFaults..PointsFaults
      BY <2>1, <2>4, <2>5 DEF BookTypes
    <3>2. \A q \in Pairs \ {p} : book'[q] = book[q] /\ since'[q] = since[q]
      BY <2>1, <2>4 DEF BookTypes
    <3>3. since'[p] > 0 => book'[p] = row /\ since'[p] = since[p]
      BY <2>1, <2>4 DEF BookTypes
    <3>4. book'[p] \in {row, book[p]} /\ since'[p] \in {0, since[p]}
      BY <2>1, <2>4 DEF BookTypes
    <3> HIDE DEF p
    <3>5. BookTypes'
      BY <2>1, <2>3, <3>1 DEF BookTypes
    <3>6. BookFresh'
      BY <2>1, <2>3, <2>5, <3>2, <3>3 DEF BookFresh, Held, Reading, p
    <3>7. Listed'
      BY <2>1, <2>3, <3>2, <3>3 DEF Listed, Held, BookTypes, PassType
    <3>8. Failures'
      <4>1. pbFaults' \in Nat /\ pbFaults \in Nat /\ pbFaults <= pbFaults'
        BY <3>1 DEF BookTypes
      <4>3. \A q \in Pairs : Failed(book[q])'
        BY <2>5, <3>2, <3>4, <4>1 DEF Failures, Failed, BookTypes, Row
      <4>4. \A q \in Pairs : Failed(pass.snap[q])'
        <5>1. \A q \in Pairs : pass.snap[q] \in Row /\ Failed(pass.snap[q])
          BY DEF Failures, BookTypes, PassType
        <5> QED
          BY <2>3, <4>1, <5>1 DEF Failed, Row
      <4> QED
        BY <2>3, <4>3, <4>4 DEF Failures, Failed
    <3> QED
      BY <2>1, <3>2, <3>4, <3>5, <3>6, <3>7, <3>8 DEF Clicked, B!NeverTwice
<1>5. ASSUME NEW p \in Pairs, B!ClaimChannelPoints(p) PROVE Book'
  <2>1. worth' \in [Pairs -> Nat] /\ hook' = [B!Unlearned EXCEPT !.pc = "get", !.pair = p, !.bal = worth'[p]]
    BY <1>5 DEF B!ClaimChannelPoints, BookTypes
  <2>2. UNCHANGED <<book, pass, since, assigned, tick, dueBefore, lastManual, pbFaults>>
    BY <1>5 DEF B!ClaimChannelPoints, B!Others, B!asked
  <2>3. hook' \in Learned /\ hook'.pair = p
    BY <2>1 DEF B!Unlearned, Learned
  <2>4. BookTypes' /\ Clicked'
    BY <2>1, <2>2, <2>3 DEF BookTypes, Clicked
  <2>5. BookFresh' /\ Listed' /\ Failures' /\ B!NeverTwice'
    BY <2>2 DEF BookFresh, Listed, Failures, Failed, Held, Reading, B!NeverTwice
  <2> QED
    BY <2>4, <2>5
<1>6. CASE B!PointsBalanceHook
  <2>1. \/ \E ch \in BOOLEAN : hook' = [hook EXCEPT !.pc = "put", !.changed = ch]
        \/ hook' = B!Unlearned
    BY <1>6 DEF B!PointsBalanceHook, B!News
  <2>2. UNCHANGED <<worth, book, pass, since, assigned, tick, dueBefore, lastManual, pbFaults>> /\ hook.pc = "get"
    BY <1>6 DEF B!PointsBalanceHook, B!Others, B!asked
  <2> QED
    <3>1. ASSUME NEW ch \in BOOLEAN
          PROVE  LET h == [hook EXCEPT !.pc = "put", !.changed = ch]
                 IN h \in Learned /\ h.pair = hook.pair
      BY DEF BookTypes, Learned
    <3>2. B!Unlearned \in Learned /\ B!Unlearned.pc = "rest"
      BY DEF B!Unlearned, Learned
    <3>3. hook' \in Learned /\ (hook'.pc # "rest" => hook'.pair = hook.pair)
      BY <2>1, <3>1, <3>2
    <3>4. hook.pair \in Pairs
      BY <2>2 DEF BookTypes
    <3> QED
      BY <2>2, <3>3, <3>4 DEF BookTypes, Clicked, BookFresh, Listed, Failures, Failed, Held, Reading, B!NeverTwice
<1>7. CASE B!Record
  <2> DEFINE row == [B!NoBalance EXCEPT !.had = TRUE, !.known = TRUE, !.bal = hook.bal, !.checked = Now]
  <2>1. /\ hook.pc = "put" /\ hook' = B!Unlearned /\ book' = [book EXCEPT ![hook.pair] = row]
        /\ UNCHANGED <<worth, pass, since, assigned, tick, dueBefore, lastManual, pbFaults>>
    BY <1>7 DEF B!Record, B!Others, B!asked, B!UpsertPointsBalance, Now
  <2>5. hook.bal \in Nat /\ Now \in Nat
    BY <1>0 DEF BookTypes, Learned
  <2>2. row \in Row /\ row.had /\ row.checked = Now /\ row.err = "none"
    BY <2>5 DEF Row, B!NoBalance
  <2>3. hook'.pc = "rest" /\ hook'.bal = 0 /\ hook'.pair = NoPair
    BY <2>1 DEF B!Unlearned, Learned
  <2> HIDE DEF row
  <2> QED
    <3>1. hook' \in Learned
      BY <2>1 DEF B!Unlearned, Learned
    <3>2. /\ book' \in [Pairs -> Row]
          /\ \A q \in Pairs : book'[q] = IF q = hook.pair THEN row ELSE book[q]
      BY <2>1, <2>2 DEF BookTypes
    <3>3. BookTypes' /\ Clicked'
      BY <2>1, <2>3, <3>1, <3>2 DEF BookTypes, Clicked
    <3> QED
      BY <2>1, <2>2, <3>2, <3>3 DEF BookFresh, Listed, Failures, Failed, Held, Reading, B!NeverTwice
<1>8. CASE B!PostPointsRefresh
  <2>1. /\ lastManual' = tick /\ dueBefore' = B!Second(tick) /\ since' = [p \in Pairs |-> 0]
        /\ UNCHANGED <<worth, book, hook, pass, assigned, tick, pbFaults>>
    BY <1>8 DEF B!PostPointsRefresh, B!Cut
  <2> QED
    <3>1. BookTypes' /\ Failures'
      BY <2>1 DEF BookTypes, Failures, Failed
    <3>2. \A p \in Pairs : since'[p] = 0
      BY <2>1
    <3>3. Clicked'
      BY <2>1 DEF BookTypes, Clicked
    <3>4. BookFresh' /\ Listed' /\ B!NeverTwice'
      BY <3>1, <3>2 DEF BookTypes, PassType, BookFresh, Listed, B!NeverTwice
    <3> QED
      BY <3>1, <3>3, <3>4
<1>9. CASE B!Save
  BY <1>9 DEF B!Save, B!Fault, B!asked, BookTypes, Clicked, BookFresh, Listed, Failures, Failed, Held, Reading, B!NeverTwice
<1>10. CASE B!Tick
  BY <1>10 DEF B!Tick, B!asked, BookTypes, Clicked, BookFresh, Listed, Failures, Failed, Held, Reading, B!NeverTwice
<1>11. CASE B!PageLoads \/ UNCHANGED bookVars
  BY <1>11 DEF B!PageLoads, B!asked, bookVars, BookTypes, Clicked, BookFresh, Listed, Failures, Failed, Held, Reading, B!NeverTwice
<1>12. QED
  BY <1>1, <1>2, <1>3, <1>4, <1>5, <1>6, <1>7, <1>8, <1>9, <1>10, <1>11 DEF B!Next


\* NeverTwice: after a click a pair is read a second time only when the retry's wait has passed
\* since the second of the click, though a pass was reading it when the click came.
THEOREM NeverTwiceHolds == MCSpec => []NeverTwice
<1>1. MCInit => (part = "book" => Book)
  <2> SUFFICES ASSUME B!Init PROVE Book
    BY Started
  <2>1. B!NoBalance \in Row /\ B!NoBalance.err = "none" /\ B!NoBalance.had = FALSE
    BY DEF B!NoBalance, Row
  <2>2. B!Idle \in PassType /\ B!Idle.pc = "rest" /\ B!Idle.snap = [p \in Pairs |-> B!NoBalance]
    BY <2>1 DEF B!Idle, PassType
  <2>3. B!Unlearned \in Learned /\ B!Unlearned.pc = "rest"
    BY DEF B!Unlearned, Learned
  <2>4. book \in [Pairs -> Row] /\ since \in [Pairs -> 0..2] /\ worth \in [Pairs -> Nat]
    BY <2>1 DEF B!Init
  <2>5. BookTypes
    BY <2>2, <2>3, <2>4, BookAssumption DEF B!Init, BookTypes
  <2>6. \A p \in Pairs : since[p] = 0 /\ book[p].err = "none" /\ pass.snap[p] = B!NoBalance
    BY <2>1, <2>2 DEF B!Init
  <2>7. Clicked
    BY <2>3, BookAssumption DEF B!Init, Clicked, B!Second
  <2>8. BookFresh /\ Listed /\ Failures /\ B!NeverTwice
    BY <2>1, <2>2, <2>6 DEF B!Init, BookTypes, BookFresh, Listed, Failures, Failed, B!NeverTwice
  <2> QED
    BY <2>5, <2>7, <2>8 DEF Book
<1>2. (part = "book" => Book) /\ [MCNext]_mcvars => (part = "book" => Book)'
  BY Turn, NextBook
<1>3. (part = "book" => Book) => NeverTwice
  BY DEF Book, NeverTwice
<1>4. QED
  BY <1>1, <1>2, <1>3, PTL DEF MCSpec

-----------------------------------------------------------------------------
(***************************************************************************)
(* AnsweredIsStored.  A flow not cancelled is the account's registered one    *)
(* (Superseding), so that a paste which cancels it leaves no flow that would  *)
(* store (Alone), and none begins for an account that owes a paste its        *)
(* session (Promised). For Kick, a stored session is applied and a paused     *)
(* account idles, or a registration, a rebuild or a load that will bring this *)
(* about is under way, or the last one failed to read (Applying).             *)
(***************************************************************************)
Login == [by : {"none"} \cup Flows \cup Pasters, old : BOOLEAN]
Polling == [pc : {"rest", "asking", "poll", "stored", "apply"}, id : Ids \cup {NoId}, cancelled : BOOLEAN]
Pasting == [pc : {"rest", "resolve", "cancel", "put", "apply", "register"}, id : Ids \cup {NoId}, alone : BOOLEAN]
Loading == [pc : {"rest", "build", "get", "refresh", "put", "settle"}, id : Ids \cup {NoId}, on : BOOLEAN, sess : Login]
LoginTypes == /\ acct \in SUBSET Ids /\ changed \in SUBSET Ids /\ sessions \in [Ids -> Login]
              /\ spare \in SUBSET Ids /\ paused \in SUBSET Ids /\ ran \in [Ids -> {"none"} \cup Flows \cup Pasters]
              /\ channels \in [Ids -> {"none"} \cup Flows \cup Pasters] /\ told \in [Ids -> {"none"} \cup Pasters]
              /\ twitchFlows \in [Ids -> Flows \cup {NoFlow}] /\ flow \in [Flows -> Polling]
              /\ paste \in [Pasters -> Pasting] /\ load \in Loading
Whose == /\ \A f \in Flows : flow[f].pc # "rest" => flow[f].id \in Ids \ Kick
         /\ \A u \in Pasters : /\ paste[u].pc \in {"cancel", "put", "apply"} => paste[u].id \in Ids \ Kick
                               /\ paste[u].pc = "register" => paste[u].id \in Ids
         /\ load.pc \in {"refresh", "put"} => load.id \in Ids \ Kick
         /\ load.pc \in {"build", "get", "settle"} => load.id \in Ids
         /\ load.pc = "rest" => load.id = NoId
Superseding == \A f \in Flows : flow[f].pc \notin {"rest", "asking"} /\ ~flow[f].cancelled => twitchFlows[flow[f].id] = f
Stores(f, a) == flow[f].pc = "poll" /\ ~flow[f].cancelled /\ flow[f].id = a
Alone == \A u \in Pasters : paste[u].pc = "put" /\ paste[u].alone => \A f \in Flows : ~Stores(f, paste[u].id)
Promised == \A a \in Ids : told[a] # "none" => a \in acct \ Kick /\ \A f \in Flows : ~Stores(f, a)
Registering(a) == \E u \in Pasters : paste[u].pc = "register" /\ paste[u].id = a
Applied(a) == IF a \in paused THEN ran[a] = "none"
              ELSE sessions[a] # L!NoSession =>
                     ran[a] = sessions[a].by /\ (sessions[a].by \notin Bare => channels[a] = sessions[a].by)
Applies(a) == \/ Registering(a) \/ a \in changed \/ a \in unread
              \/ load.id = a /\ load.pc = "build"
              \/ load.id = a /\ load.pc = "get" /\ a \notin paused
              \/ /\ load.id = a /\ load.pc = "settle" /\ a \notin paused
                 /\ load.sess.by = sessions[a].by /\ load.sess # L!NoSession
              \/ load.id # a /\ Applied(a)
Applying == \A a \in Kick \cap acct : Applies(a)
LoginInv == LoginTypes /\ Whose /\ Superseding /\ Alone /\ Promised /\ Applying /\ L!AnsweredIsStored

\* What most steps leave alone: a Kick account's session, what its runner and the
\* registry have of it, and a registration or rebuild that will bring it there.
KickStays == /\ \A a \in Kick \cap Ids : sessions'[a] = sessions[a] /\ ran'[a] = ran[a] /\ channels'[a] = channels[a]
             /\ changed \subseteq changed' /\ unread \subseteq unread' /\ Kick \cap acct' \subseteq acct
             /\ \A a \in Kick \cap Ids : a \in changed' \/ (a \in paused' <=> a \in paused)
             /\ \A a \in Kick : Registering(a) => Registering(a)' \/ a \in changed'
\* A Kick account's stored session stays applied, or on its way, in a step that leaves it alone.
LEMMA KickKept ==
  ASSUME LoginInv, KickStays, LoginTypes',
         \/ UNCHANGED load
         \/ load'.id \notin Kick \cap Ids /\ load.id \notin Kick \cap Ids
  PROVE  Applying'
BY DEF LoginInv, LoginTypes, Applying, Applies, Applied, KickStays


\* No step of a sign-in, of a poll or of a rebuild breaks what is known of the sessions.
LEMMA NextLogins ==
  ASSUME LoginInv, [L!Next]_loginVars
  PROVE  LoginInv'
<1> USE LoginsAssumption DEF LoginInv
<1>0. /\ L!NoSession \in Login /\ L!NoSession.by = "none"
      /\ L!NoWork \in Polling /\ L!NoWork.pc = "rest" /\ L!NoWork.id = NoId
      /\ L!NoPaste \in Pasting /\ L!NoPaste.pc = "rest" /\ L!NoPaste.id = NoId
      /\ L!NoLoad \in Loading /\ L!NoLoad.pc = "rest" /\ L!NoLoad.id = NoId
  BY DEF L!NoSession, L!Session, L!None, L!NoWork, L!NoPaste, L!NoLoad, Login, Polling, Pasting, Loading
<1> USE <1>0
\* a step of a flow that stores nothing
<1>A. ASSUME NEW f \in Flows, NEW w \in Polling, flow' = [flow EXCEPT ![f] = w],
             \/ w.pc = "rest"
             \/ w.pc = "asking" /\ w.id \in Ids \ Kick
             \/ w.pc \in {"stored", "apply"} /\ flow[f].pc \notin {"rest", "asking"} /\ w.id = flow[f].id /\ (w.cancelled <=> flow[f].cancelled)
      PROVE  /\ flow' \in [Flows -> Polling] /\ (\A e \in Flows : flow'[e].pc # "rest" => flow'[e].id \in Ids \ Kick)
             /\ \A e \in Flows : flow'[e].pc \notin {"rest", "asking"} /\ ~flow'[e].cancelled => twitchFlows[flow'[e].id] = e
             /\ \A e \in Flows, a \in Ids : Stores(e, a)' => Stores(e, a)
  BY <1>A DEF LoginTypes, Whose, Superseding, Stores
\* the registered flow of an account is cancelled
<1>B. ASSUME NEW a \in Ids, L!CancelTwitchFlow(a)
      PROVE  /\ flow' \in [Flows -> Polling] /\ twitchFlows' \in [Ids -> Flows \cup {NoFlow}]
             /\ (\A e \in Flows : flow'[e].pc # "rest" => flow'[e].id \in Ids \ Kick)
             /\ Superseding' /\ (\A e \in Flows, b \in Ids : Stores(e, b)' => Stores(e, b))
             /\ \A e \in Flows : ~Stores(e, a)'
  <2>1. /\ twitchFlows' = [twitchFlows EXCEPT ![a] = NoFlow]
        /\ flow' = [e \in Flows |-> IF e = twitchFlows[a] /\ flow[e].pc # "rest" THEN [flow[e] EXCEPT !.cancelled = TRUE] ELSE flow[e]]
    BY <1>B DEF L!CancelTwitchFlow
  <2>2. ASSUME NEW e \in Flows
        PROVE  /\ flow'[e] \in Polling /\ flow'[e].pc = flow[e].pc /\ flow'[e].id = flow[e].id
               /\ flow'[e].cancelled <=> flow[e].cancelled \/ (e = twitchFlows[a] /\ flow[e].pc # "rest")
    BY <2>1 DEF LoginTypes, Polling
  <2>3. flow' \in [Flows -> Polling] /\ twitchFlows' \in [Ids -> Flows \cup {NoFlow}]
    BY <2>1, <2>2 DEF LoginTypes
  <2>4. \A e \in Flows : flow[e].pc \notin {"rest", "asking"} /\ ~flow'[e].cancelled => flow[e].id # a /\ ~flow[e].cancelled
    BY <2>2 DEF Superseding
  <2> QED
    BY <2>1, <2>2, <2>3, <2>4 DEF LoginTypes, Whose, Superseding, Stores
\* a step of one paste
<1>C. ASSUME NEW u \in Pasters, NEW m \in Pasting, paste' = [paste EXCEPT ![u] = m]
      PROVE  paste' \in [Pasters -> Pasting] /\ paste'[u] = m /\ \A v \in Pasters \ {u} : paste'[v] = paste[v]
  BY <1>C DEF LoginTypes
<1>1. ASSUME NEW f \in Flows, L!TwitchFlowBegins(f), ~(L!Gone(f) /\ UNCHANGED <<twitchFlows, told, paste>>) PROVE LoginInv'
  <2>0. PICK a : a = flow[f].id
    OBVIOUS
  <2> DEFINE begun == [flow[f] EXCEPT !.pc = "poll"]
  <2>1. /\ flow[f].pc = "asking" /\ a \in Ids \ Kick /\ twitchFlows' = [twitchFlows EXCEPT ![a] = f]
        /\ flow' = [e \in Flows |-> IF e = f THEN begun
                                    ELSE IF e = twitchFlows[a] /\ flow[e].pc # "rest" THEN [flow[e] EXCEPT !.cancelled = TRUE] ELSE flow[e]]
        /\ told' = [told EXCEPT ![a] = "none"]
        /\ paste' = [u \in Pasters |-> IF paste[u].id = a THEN [paste[u] EXCEPT !.alone = FALSE] ELSE paste[u]]
        /\ UNCHANGED <<acct, spare, sessions, paused, changed, load, ran, unread, channels, refreshed>>
    BY <1>1, <2>0 DEF L!TwitchFlowBegins, L!loading, L!rowed, L!None, Whose
  <2>2. begun \in Polling /\ begun.pc = "poll" /\ begun.id = a
    BY <2>0, <2>1 DEF Polling, LoginTypes
  <2> HIDE DEF begun
  <2>3. ASSUME NEW e \in Flows \ {f}
        PROVE  /\ flow'[e] \in Polling /\ flow'[e].pc = flow[e].pc /\ flow'[e].id = flow[e].id
               /\ flow'[e].cancelled <=> flow[e].cancelled \/ (e = twitchFlows[a] /\ flow[e].pc # "rest")
    BY <2>1 DEF LoginTypes, Polling
  <2>4. ASSUME NEW u \in Pasters
        PROVE  /\ paste'[u] \in Pasting /\ paste'[u].pc = paste[u].pc /\ paste'[u].id = paste[u].id
               /\ paste'[u].alone => paste[u].alone /\ paste[u].id # a
    BY <2>1 DEF LoginTypes, Pasting
  <2>5. flow'[f] = begun /\ flow' \in [Flows -> Polling] /\ paste' \in [Pasters -> Pasting]
    BY <2>1, <2>2, <2>3, <2>4
  <2>6. /\ twitchFlows' \in [Ids -> Flows \cup {NoFlow}] /\ told' \in [Ids -> {"none"} \cup Pasters]
        /\ told'[a] = "none" /\ (\A b \in Ids \ {a} : told'[b] = told[b] /\ twitchFlows'[b] = twitchFlows[b]) /\ twitchFlows'[a] = f
    BY <2>1 DEF LoginTypes
  <2>7. LoginTypes'
    BY <2>1, <2>5, <2>6 DEF LoginTypes
  <2>8. Whose'
    BY <2>1, <2>2, <2>3, <2>4, <2>5 DEF Whose
  <2>9. Superseding'
    <3> SUFFICES ASSUME NEW e \in Flows, flow'[e].pc \notin {"rest", "asking"}, ~flow'[e].cancelled PROVE twitchFlows'[flow'[e].id] = e
      BY DEF Superseding
    <3>1. CASE e = f
      BY <2>2, <2>5, <2>6, <3>1
    <3>2. CASE e # f
      <4>1. flow[e].pc \notin {"rest", "asking"} /\ ~flow[e].cancelled /\ e # twitchFlows[a] /\ flow'[e].id = flow[e].id
        BY <2>3, <3>2
      <4>2. twitchFlows[flow[e].id] = e /\ flow[e].id \in Ids \ {a}
        BY <4>1 DEF Superseding, Whose
      <4> QED
        BY <2>6, <4>1, <4>2
    <3> QED
      BY <3>1, <3>2
  <2>10. \A e \in Flows, b \in Ids \ {a} : Stores(e, b)' => Stores(e, b)
    BY <2>2, <2>3, <2>5 DEF Stores
  <2>11. Alone'
    BY <2>4, <2>8, <2>10 DEF Alone, Whose
  <2>12. Promised'
    BY <2>1, <2>6, <2>10 DEF Promised
  <2>13. Applying'
    <3>1. KickStays
      BY <2>1, <2>4 DEF KickStays, Registering
    <3> QED
      BY <2>1, <2>7, <3>1, KickKept
  <2>14. L!AnsweredIsStored'
    BY <2>1, <2>6 DEF L!AnsweredIsStored, L!None, LoginTypes
  <2> QED
    BY <2>7, <2>8, <2>9, <2>11, <2>12, <2>13, <2>14
<1>2. ASSUME NEW f \in Flows, L!PollTwitch(f) PROVE LoginInv'
  <2>1. flow[f].pc = "poll" /\ UNCHANGED <<acct, spare, twitchFlows, paste, paused, changed, load, ran, unread, channels, told, refreshed>>
    BY <1>2 DEF L!PollTwitch, L!loading, L!rowed, L!owed
  <2>2. flow[f].id \in Ids \ Kick /\ flow[f] \in Polling
    BY <2>1 DEF Whose, LoginTypes
  <2> DEFINE stored == [flow[f] EXCEPT !.pc = "stored"]
  <2>3. stored \in Polling /\ stored.pc = "stored" /\ stored.id = flow[f].id /\ (stored.cancelled <=> flow[f].cancelled)
    BY <2>2 DEF Polling
  <2>4. \/ ~flow[f].cancelled /\ sessions' = [sessions EXCEPT ![flow[f].id] = L!Session(f)] /\ flow' = [flow EXCEPT ![f] = stored]
        \/ flow' = [flow EXCEPT ![f] = L!NoWork] /\ UNCHANGED sessions
    BY <1>2, <2>2 DEF L!PollTwitch, L!UpsertSession, L!Poll, L!Gone, LoginTypes
  <2> HIDE DEF stored
  <2>5. /\ flow' \in [Flows -> Polling] /\ (\A e \in Flows : flow'[e].pc # "rest" => flow'[e].id \in Ids \ Kick)
        /\ \A e \in Flows : flow'[e].pc \notin {"rest", "asking"} /\ ~flow'[e].cancelled => twitchFlows[flow'[e].id] = e
        /\ \A e \in Flows, a \in Ids : Stores(e, a)' => Stores(e, a)
    <3>1. PICK w \in Polling : /\ flow' = [flow EXCEPT ![f] = w]
                               /\ \/ w.pc = "rest"
                                  \/ w.pc \in {"stored", "apply"} /\ flow[f].pc \notin {"rest", "asking"} /\ w.id = flow[f].id /\ (w.cancelled <=> flow[f].cancelled)
      BY <2>1, <2>3, <2>4
    <3> QED
      BY <1>A, <3>1
  <2>6. L!Session(f) \in Login
    BY DEF L!Session, Login
  <2>7. /\ sessions' \in [Ids -> Login] /\ \A b \in Ids : b # flow[f].id => sessions'[b] = sessions[b]
        /\ sessions' = sessions \/ Stores(f, flow[f].id)
    BY <2>1, <2>2, <2>4, <2>6 DEF LoginTypes, Stores
  <2>8. LoginTypes' /\ Whose' /\ Superseding'
    BY <2>1, <2>5, <2>7 DEF LoginTypes, Whose, Superseding
  <2>9. Alone' /\ Promised'
    BY <2>1, <2>5 DEF Alone, Promised, Whose
  <2>10. KickStays
    BY <2>1, <2>2, <2>7 DEF KickStays, Registering
  <2>11. Applying'
    BY <2>1, <2>8, <2>10, KickKept
  <2>12. L!AnsweredIsStored'
    BY <2>1, <2>2, <2>7 DEF L!AnsweredIsStored, L!None, Promised, LoginTypes
  <2> QED
    BY <2>8, <2>9, <2>11, <2>12
<1>3. ASSUME NEW f \in Flows, L!FlowStored(f) \/ L!FlowApplied(f) PROVE LoginInv'
  <2>1. /\ flow[f].pc \notin {"rest", "asking"} /\ changed \subseteq changed'
        /\ UNCHANGED <<acct, spare, sessions, twitchFlows, paste, paused, load, ran, unread, channels, told, refreshed>>
    BY <1>3 DEF L!FlowStored, L!FlowApplied, L!loading, L!rowed, L!owed, L!AccountChanged
  <2>2. flow[f].id \in Ids \ Kick /\ flow[f] \in Polling
    BY <2>1 DEF Whose, LoginTypes
  <2> DEFINE applied == [flow[f] EXCEPT !.pc = "apply"]
  <2>3. applied \in Polling /\ applied.pc = "apply" /\ applied.id = flow[f].id /\ (applied.cancelled <=> flow[f].cancelled)
    BY <2>2 DEF Polling
  <2>4. flow' = [flow EXCEPT ![f] = L!NoWork] \/ flow' = [flow EXCEPT ![f] = applied]
    BY <1>3, <2>2 DEF L!FlowStored, L!FlowApplied, L!Gone, LoginTypes
  <2>5. changed' \in SUBSET Ids
    BY <1>3, <2>2 DEF L!FlowStored, L!FlowApplied, L!loading, L!AccountChanged, LoginTypes
  <2> HIDE DEF applied
  <2>6. /\ flow' \in [Flows -> Polling] /\ (\A e \in Flows : flow'[e].pc # "rest" => flow'[e].id \in Ids \ Kick)
        /\ \A e \in Flows : flow'[e].pc \notin {"rest", "asking"} /\ ~flow'[e].cancelled => twitchFlows[flow'[e].id] = e
        /\ \A e \in Flows, a \in Ids : Stores(e, a)' => Stores(e, a)
    <3>1. PICK w \in Polling : /\ flow' = [flow EXCEPT ![f] = w]
                               /\ \/ w.pc = "rest"
                                  \/ w.pc \in {"stored", "apply"} /\ flow[f].pc \notin {"rest", "asking"} /\ w.id = flow[f].id /\ (w.cancelled <=> flow[f].cancelled)
      BY <2>1, <2>3, <2>4
    <3> QED
      BY <1>A, <3>1
  <2>7. LoginTypes' /\ Whose' /\ Superseding'
    BY <2>1, <2>5, <2>6 DEF LoginTypes, Whose, Superseding
  <2>8. Alone' /\ Promised'
    BY <2>1, <2>6 DEF Alone, Promised, Whose
  <2>9. KickStays
    BY <2>1 DEF KickStays, Registering
  <2>10. Applying'
    BY <2>1, <2>7, <2>9, KickKept
  <2>11. L!AnsweredIsStored'
    BY <2>1 DEF L!AnsweredIsStored
  <2> QED
    BY <2>7, <2>8, <2>10, <2>11
<1>4. ASSUME NEW u \in Pasters, L!TwitchAndroidLogin(u) \/ L!PasteApply(u) PROVE LoginInv'
  <2>1. /\ UNCHANGED <<acct, spare, sessions, twitchFlows, flow, paused, load, ran, unread, channels, told, refreshed>>
        /\ changed \subseteq changed' /\ paste[u].pc \in {"rest", "apply"}
    BY <1>4 DEF L!TwitchAndroidLogin, L!PasteApply, L!loading, L!rowed, L!owed, L!AccountChanged
  <2>2. PICK m \in Pasting : /\ paste' = [paste EXCEPT ![u] = m] /\ m.pc \in {"rest", "resolve", "cancel"}
                             /\ m.pc = "cancel" => m.id \in Ids \ Kick
    <3>1. CASE L!TwitchAndroidLogin(u)
      <4>1. PICK a \in {NoId} \cup (acct \cap L!Twitch) :
              paste' = [paste EXCEPT ![u] = [L!NoPaste EXCEPT !.pc = IF a = NoId THEN "resolve" ELSE "cancel", !.id = a]]
        BY <3>1 DEF L!TwitchAndroidLogin
      <4> DEFINE m == [L!NoPaste EXCEPT !.pc = IF a = NoId THEN "resolve" ELSE "cancel", !.id = a]
      <4>2. m \in Pasting /\ m.pc \in {"rest", "resolve", "cancel"} /\ (m.pc = "cancel" => m.id \in Ids \ Kick)
        BY DEF L!NoPaste, Pasting, L!Twitch, LoginTypes
      <4> HIDE DEF m
      <4> QED
        BY <4>1, <4>2 DEF m
    <3>2. CASE L!PasteApply(u)
      BY <3>2 DEF L!PasteApply, L!PasteEnds
    <3> QED
      BY <1>4, <3>1, <3>2
  <2>3. paste' \in [Pasters -> Pasting] /\ paste'[u] = m /\ \A v \in Pasters \ {u} : paste'[v] = paste[v]
    BY <1>C, <2>2
  <2>4. changed' \in SUBSET Ids
    <3>1. changed' = changed \/ (paste[u].pc = "apply" /\ changed' = changed \cup {paste[u].id})
      BY <1>4 DEF L!TwitchAndroidLogin, L!PasteApply, L!loading, L!AccountChanged
    <3> QED
      BY <3>1 DEF LoginTypes, Whose
  <2>5. LoginTypes' /\ Whose' /\ Superseding'
    BY <2>1, <2>2, <2>3, <2>4 DEF LoginTypes, Whose, Superseding
  <2>6. Alone' /\ Promised'
    BY <2>1, <2>2, <2>3 DEF Alone, Promised, Stores
  <2>7. KickStays
    BY <2>1, <2>3 DEF KickStays, Registering
  <2>8. Applying'
    BY <2>1, <2>5, <2>7, KickKept
  <2>9. L!AnsweredIsStored'
    BY <2>1 DEF L!AnsweredIsStored
  <2> QED
    BY <2>5, <2>6, <2>8, <2>9
<1>5. ASSUME NEW u \in Pasters, L!PasteResolve(u) PROVE LoginInv'
  <2>1. /\ UNCHANGED <<sessions, twitchFlows, flow, paused, changed, load, ran, unread, channels, told, refreshed>>
        /\ paste[u].pc = "resolve" /\ spare' \in SUBSET Ids
    BY <1>5 DEF L!PasteResolve, L!loading, L!rowed, L!owed, LoginTypes
  <2>2. PICK a : /\ \/ acct' = acct /\ L!PasteEnds(u)
                    \/ acct' = acct /\ a \in acct \ Kick /\ L!Resolved(u, a)
                    \/ acct' = acct \cup {a} /\ a \in Ids \ Kick /\ L!Resolved(u, a)
    <3>1. CASE L!TwitchAccountForUser # {} /\ L!Resolved(u, CHOOSE x \in L!TwitchAccountForUser : TRUE) /\ UNCHANGED acct
      BY <3>1 DEF L!TwitchAccountForUser, L!Twitch
    <3>2. CASE /\ spare \cap L!Twitch # {}
               /\ \E x \in {CHOOSE y \in spare \cap L!Twitch : TRUE} : acct' = acct \cup {x} /\ L!Resolved(u, x)
      BY <3>2 DEF L!Twitch
    <3>3. CASE L!PasteEnds(u) /\ UNCHANGED acct
      BY <3>3
    <3> QED
      BY <1>5, <3>1, <3>2, <3>3 DEF L!PasteResolve
  <2>3. PICK m \in Pasting : /\ paste' = [paste EXCEPT ![u] = m] /\ m.pc \in {"rest", "cancel"}
                             /\ m.pc = "cancel" => m.id \in Ids \ Kick
    <3>1. CASE L!PasteEnds(u)
      BY <3>1 DEF L!PasteEnds
    <3>2. CASE a \in Ids \ Kick /\ L!Resolved(u, a)
      <4> DEFINE m == [paste[u] EXCEPT !.pc = "cancel", !.id = a]
      <4>1. m \in Pasting /\ m.pc = "cancel" /\ m.id = a
        BY <3>2 DEF LoginTypes, Pasting
      <4>2. paste' = [paste EXCEPT ![u] = m]
        BY <3>2 DEF L!Resolved, LoginTypes
      <4> HIDE DEF m
      <4> QED
        BY <3>2, <4>1, <4>2
    <3> QED
      BY <2>2, <3>1, <3>2 DEF LoginTypes
  <2>4. paste' \in [Pasters -> Pasting] /\ paste'[u] = m /\ \A v \in Pasters \ {u} : paste'[v] = paste[v]
    BY <1>C, <2>3
  <2>5. acct' \in SUBSET Ids /\ acct \subseteq acct' /\ Kick \cap acct' \subseteq acct
    BY <2>2 DEF LoginTypes
  <2>6. LoginTypes' /\ Whose' /\ Superseding'
    BY <2>1, <2>3, <2>4, <2>5 DEF LoginTypes, Whose, Superseding
  <2>7. Alone' /\ Promised'
    BY <2>1, <2>3, <2>4, <2>5 DEF Alone, Promised, Stores
  <2>8. KickStays
    BY <2>1, <2>4, <2>5 DEF KickStays, Registering
  <2>9. Applying'
    BY <2>1, <2>6, <2>8, KickKept
  <2>10. L!AnsweredIsStored'
    BY <2>1, <2>5, Zenon DEF L!AnsweredIsStored, Promised, L!None
  <2> QED
    BY <2>6, <2>7, <2>9, <2>10
<1>6. ASSUME NEW u \in Pasters, L!PasteCancels(u) PROVE LoginInv'
  <2>0. PICK a : a = paste[u].id
    OBVIOUS
  <2> DEFINE m == [paste[u] EXCEPT !.pc = "put"]
  <2>1. /\ UNCHANGED <<acct, spare, sessions, paused, changed, load, ran, unread, channels, told, refreshed>>
        /\ paste[u].pc = "cancel" /\ L!CancelTwitchFlow(a)
    BY <1>6, <2>0 DEF L!PasteCancels, L!loading, L!rowed, L!owed
  <2>2. a \in Ids \ Kick /\ m \in Pasting /\ m.pc = "put" /\ m.id = a
    BY <2>0, <2>1 DEF LoginTypes, Whose, Pasting
  <2>3. paste' = [paste EXCEPT ![u] = m]
    BY <1>6 DEF L!PasteCancels, L!PasteAt, LoginTypes
  <2> HIDE DEF m
  <2>4. paste' \in [Pasters -> Pasting] /\ paste'[u] = m /\ \A v \in Pasters \ {u} : paste'[v] = paste[v]
    BY <1>C, <2>2, <2>3
  <2>5. /\ flow' \in [Flows -> Polling] /\ twitchFlows' \in [Ids -> Flows \cup {NoFlow}]
        /\ (\A e \in Flows : flow'[e].pc # "rest" => flow'[e].id \in Ids \ Kick)
        /\ Superseding' /\ (\A e \in Flows, b \in Ids : Stores(e, b)' => Stores(e, b))
        /\ \A e \in Flows : ~Stores(e, a)'
    BY <1>B, <2>1, <2>2
  <2>6. LoginTypes' /\ Whose'
    BY <2>1, <2>2, <2>4, <2>5 DEF LoginTypes, Whose
  <2>7. Alone'
    BY <2>2, <2>4, <2>5, <2>6 DEF Alone, Whose
  <2>8. Promised'
    BY <2>1, <2>5 DEF Promised
  <2>9. KickStays
    BY <2>1, <2>4 DEF KickStays, Registering
  <2>10. Applying'
    BY <2>1, <2>6, <2>9, KickKept
  <2>11. L!AnsweredIsStored'
    BY <2>1 DEF L!AnsweredIsStored
  <2> QED
    BY <2>5, <2>6, <2>7, <2>8, <2>10, <2>11
<1>7. ASSUME NEW u \in Pasters, L!PastePut(u) PROVE LoginInv'
  <2> DEFINE a == paste[u].id
             m == [paste[u] EXCEPT !.pc = "apply"]
             owner == IF paste[u].alone THEN u ELSE "none"
  <2>1. /\ UNCHANGED <<acct, spare, twitchFlows, flow, paused, changed, load, ran, unread, channels>> /\ paste[u].pc = "put"
    BY <1>7 DEF L!PastePut, L!loading, L!rowed
  <2>2. a \in Ids \ Kick /\ m \in Pasting /\ m.pc = "apply" /\ m.id = a
    BY <2>1 DEF LoginTypes, Whose, Pasting
  <2>3. \/ /\ a \in acct /\ sessions' = [sessions EXCEPT ![a] = L!Session(u)] /\ paste' = [paste EXCEPT ![u] = m]
           /\ told' = [told EXCEPT ![a] = owner] /\ refreshed' = refreshed \ {a}
        \/ paste' = [paste EXCEPT ![u] = L!NoPaste] /\ UNCHANGED <<sessions, told, refreshed>>
    BY <1>7 DEF L!PastePut, L!Puts, L!UpsertSession, L!AndroidLogin, L!PasteAt, L!PasteEnds, L!None, L!owed, LoginTypes
  <2> HIDE DEF m
  <2>4. /\ paste' \in [Pasters -> Pasting] /\ paste'[u] \in {m, L!NoPaste}
        /\ \A v \in Pasters \ {u} : paste'[v] = paste[v]
    BY <1>C, <2>2, <2>3
  <2>5. L!Session(u) \in Login /\ L!Session(u).by = u
    BY DEF L!Session, Login
  <2>6. Alone'
    BY <2>1, <2>2, <2>4 DEF Alone, Stores
  <2>7. paste[u].alone => \A e \in Flows : ~Stores(e, a)
    BY <2>1 DEF Alone
  <2> HIDE DEF a
  <2>8. /\ sessions' \in [Ids -> Login] /\ told' \in [Ids -> {"none"} \cup Pasters]
        /\ \A b \in Ids \ {a} : sessions'[b] = sessions[b] /\ told'[b] = told[b]
        /\ \/ a \in acct /\ sessions'[a].by = u /\ told'[a] = owner
           \/ sessions'[a] = sessions[a] /\ told'[a] = told[a] /\ refreshed' = refreshed
        /\ refreshed \subseteq refreshed' \cup {a}
    BY <2>2, <2>3, <2>5 DEF LoginTypes
  <2>9. LoginTypes' /\ Whose' /\ Superseding'
    BY <2>1, <2>2, <2>4, <2>8 DEF LoginTypes, Whose, Superseding
  <2>10. Promised'
    BY <2>1, <2>2, <2>7, <2>8 DEF Promised, Stores
  <2>11. KickStays
    BY <2>1, <2>2, <2>4, <2>8 DEF KickStays, Registering
  <2>12. Applying'
    BY <2>1, <2>9, <2>11, KickKept
  <2>13. L!AnsweredIsStored'
    BY <2>1, <2>2, <2>8 DEF L!AnsweredIsStored, L!None, LoginTypes
  <2> QED
    BY <2>6, <2>9, <2>10, <2>12, <2>13
<1>8. ASSUME NEW u \in Pasters, L!KickSession(u) PROVE LoginInv'
  <2>1. /\ UNCHANGED <<acct, spare, twitchFlows, flow, paused, changed, load, ran, unread, channels, told, refreshed>>
        /\ paste[u].pc = "rest"
    BY <1>8 DEF L!KickSession, L!loading, L!rowed, L!owed
  <2>2. PICK a \in acct \cap Kick : /\ sessions' = [sessions EXCEPT ![a] = L!Session(u)]
                                   /\ paste' = [paste EXCEPT ![u] = [L!NoPaste EXCEPT !.pc = "register", !.id = a]]
    BY <1>8 DEF L!KickSession, L!UpsertSession
  <2> DEFINE m == [L!NoPaste EXCEPT !.pc = "register", !.id = a]
  <2>3. m \in Pasting /\ m.pc = "register" /\ m.id = a /\ a \in Ids
    BY DEF L!NoPaste, Pasting, LoginTypes
  <2> HIDE DEF m
  <2>4. paste' \in [Pasters -> Pasting] /\ paste'[u] = m /\ \A v \in Pasters \ {u} : paste'[v] = paste[v]
    BY <1>C, <2>2, <2>3 DEF m
  <2>5. sessions' \in [Ids -> Login] /\ \A b \in Ids \ {a} : sessions'[b] = sessions[b]
    BY <2>2 DEF LoginTypes, L!Session, Login
  <2>6. LoginTypes' /\ Whose' /\ Superseding'
    BY <2>1, <2>3, <2>4, <2>5 DEF LoginTypes, Whose, Superseding
  <2>7. Alone' /\ Promised'
    BY <2>1, <2>3, <2>4 DEF Alone, Promised, Stores
  <2>8. Applying'
    BY <2>1, <2>3, <2>4, <2>5 DEF Applying, Applies, Applied, Registering, LoginTypes
  <2>9. L!AnsweredIsStored'
    BY <2>1, <2>3, <2>5 DEF L!AnsweredIsStored, L!None, Promised, LoginTypes
  <2> QED
    BY <2>6, <2>7, <2>8, <2>9
<1>9. ASSUME NEW u \in Pasters, L!PersistKickSession(u) PROVE LoginInv'
  <2> DEFINE a == paste[u].id
  <2>1. /\ UNCHANGED <<acct, spare, sessions, twitchFlows, flow, paused, load, ran, unread, told, refreshed>>
        /\ paste[u].pc = "register" /\ changed' = changed \cup {a}
        /\ channels' = [channels EXCEPT ![a] = IF u \in Bare THEN "none" ELSE u] /\ paste' = [paste EXCEPT ![u] = L!NoPaste]
    BY <1>9 DEF L!PersistKickSession, L!PasteEnds, L!AccountChanged, L!List, L!None, L!rowed, L!owed
  <2>2. a \in Ids
    BY <2>1 DEF Whose
  <2>3. paste' \in [Pasters -> Pasting] /\ paste'[u] = L!NoPaste /\ \A v \in Pasters \ {u} : paste'[v] = paste[v]
    BY <1>C, <2>1
  <2>4. /\ channels' \in [Ids -> {"none"} \cup Flows \cup Pasters] /\ \A b \in Ids \ {a} : channels'[b] = channels[b]
    BY <2>1, <2>2 DEF LoginTypes
  <2>5. LoginTypes' /\ Whose' /\ Superseding'
    BY <2>1, <2>2, <2>3, <2>4 DEF LoginTypes, Whose, Superseding
  <2>6. Alone' /\ Promised'
    BY <2>1, <2>3 DEF Alone, Promised, Stores
  <2>7. Applying'
    <3> SUFFICES ASSUME NEW b \in Kick \cap acct PROVE Applies(b)'
      BY <2>1 DEF Applying
    <3>1. CASE b = a
      BY <2>1, <3>1 DEF Applies
    <3>2. CASE b # a
      <4>1. Applies(b) /\ b \in Ids
        BY DEF Applying, LoginTypes
      <4>2. Registering(b) => Registering(b)'
        BY <2>1, <2>3, <3>2 DEF Registering
      <4> QED
        BY <2>1, <2>4, <3>2, <4>1, <4>2 DEF Applies, Applied, L!NoSession, L!Session
    <3> QED
      BY <3>1, <3>2
  <2>8. L!AnsweredIsStored'
    BY <2>1 DEF L!AnsweredIsStored
  <2> QED
    BY <2>5, <2>6, <2>7, <2>8
\* a load leaves the sign-ins alone
<1>D. ASSUME UNCHANGED <<acct, twitchFlows, flow, paste, told>> PROVE Superseding' /\ Alone' /\ Promised'
  BY <1>D DEF Superseding, Alone, Promised, Stores
\* a load that leaves every other account's registry entry and runner alone
<1>E. ASSUME NEW a, UNCHANGED <<acct, sessions, paste, paused, changed>>, unread \subseteq unread', load.id = a,
             load' \in Loading, load'.id \in {a, NoId}, \A b \in Ids \ {a} : ran'[b] = ran[b] /\ channels'[b] = channels[b],
             a \in Kick \cap acct => Applies(a)'
      PROVE  Applying'
  <2> SUFFICES ASSUME NEW b \in Kick \cap acct, b # a PROVE Applies(b)'
    BY <1>E DEF Applying
  <2>1. Applies(b) /\ b \in Ids /\ b # NoId
    BY DEF Applying, LoginTypes
  <2> QED
    BY <1>E, <2>1 DEF Applies, Applied, Registering, L!NoSession, L!Session
\* the runner of a settled load, and the registry
<1>F. ASSUME NEW a \in Ids, NEW s \in Login, L!Settle(a, s)
      PROVE  /\ load' = L!NoLoad /\ ran' \in [Ids -> {"none"} \cup Flows \cup Pasters] /\ ran'[a] = s.by
             /\ channels' \in [Ids -> {"none"} \cup Flows \cup Pasters]
             /\ \A b \in Ids \ {a} : ran'[b] = ran[b] /\ channels'[b] = channels[b]
             /\ a \in Kick /\ s # L!NoSession /\ s.by \notin Bare => channels'[a] = s.by
             /\ a \notin Kick \/ s = L!NoSession => channels' = channels
  <2>1. s.by \in {"none"} \cup Flows \cup Pasters
    BY DEF Login
  <2> QED
    BY <1>F, <2>1 DEF L!Settle, LoginTypes
<1>10. ASSUME NEW a \in Ids, L!ReloadAccount(a) PROVE LoginInv'
  <2>1. /\ a \in changed /\ load.pc = "rest" /\ changed' = changed \ {a}
        /\ UNCHANGED <<acct, spare, sessions, twitchFlows, flow, paste, paused, told, refreshed>>
    BY <1>10 DEF L!ReloadAccount, L!signing, L!rowed, L!owed
  <2>2. \/ /\ a \notin acct /\ unread' = unread \ {a} /\ load' = L!NoLoad
           /\ ran' \in [Ids -> {"none"} \cup Flows \cup Pasters] /\ channels' = channels
           /\ \A b \in Ids \ {a} : ran'[b] = ran[b]
        \/ /\ unread' = unread \ {a} /\ UNCHANGED <<ran, channels>>
           /\ load' = [pc |-> "build", id |-> a, on |-> a \notin paused, sess |-> L!NoSession]
        \/ unread' = unread \cup {a} /\ UNCHANGED <<load, ran, channels>>
    BY <1>10, <1>F DEF L!ReloadAccount, L!Unread
  <2>3. load' \in Loading
    <3> DEFINE new == [pc |-> "build", id |-> a, on |-> a \notin paused, sess |-> L!NoSession]
    <3>1. new \in Loading
      BY ZenonT(30) DEF Loading
    <3>2. load' \in {L!NoLoad, new, load}
      BY <2>2
    <3> HIDE DEF new
    <3> QED
      BY <3>1, <3>2 DEF LoginTypes
  <2>4. ran' \in [Ids -> {"none"} \cup Flows \cup Pasters] /\ channels' = channels
    BY <2>2 DEF LoginTypes
  <2>5. LoginTypes'
    BY <2>1, <2>3, <2>4 DEF LoginTypes
  <2>6. Whose'
    BY <2>1, <2>2 DEF Whose
  <2>7. Applying'
    <3> SUFFICES ASSUME NEW b \in Kick \cap acct PROVE Applies(b)'
      BY <2>1 DEF Applying
    <3>1. Applies(b) /\ b \in Ids /\ b # NoId /\ load.id = NoId
      BY <2>1 DEF Applying, LoginTypes, Whose
    <3>2. CASE b = a
      BY <2>1, <2>2, <3>2 DEF Applies
    <3>3. CASE b # a
      <4>1. load'.id # b
        BY <2>2, <3>1, <3>3
      <4>2. channels'[b] = channels[b] /\ ran'[b] = ran[b] /\ (b \in unread <=> b \in unread')
        BY <2>2, <2>4, <3>1, <3>3
      <4> QED
        BY <2>1, <3>1, <3>3, <4>1, <4>2 DEF Applies, Applied, Registering, L!NoSession, L!Session
    <3> QED
      BY <3>2, <3>3
  <2>8. L!AnsweredIsStored'
    BY <2>1 DEF L!AnsweredIsStored
  <2> QED
    BY <1>D, <2>1, <2>5, <2>6, <2>7, <2>8
<1>G. CASE L!Build
  <2>0. PICK a : a = load.id
    OBVIOUS
  <2>1. /\ load.pc = "build" /\ UNCHANGED <<acct, spare, sessions, twitchFlows, flow, paste, paused, changed, told, refreshed>>
        /\ unread' = unread \/ unread' = unread \cup {a}
    BY <1>G, <2>0 DEF L!Build, L!Unread, L!signing, L!rowed, L!owed
  <2>2. a \in Ids /\ load \in Loading /\ load.on \in BOOLEAN
    BY <2>0, <2>1 DEF Whose, LoginTypes, Loading
  <2>3. \/ load' = [load EXCEPT !.pc = "get"] /\ UNCHANGED <<ran, channels>> /\ (a \in unread' \/ a \notin acct \/ a \notin paused)
        \/ L!Settle(a, L!NoSession) /\ (a \in unread' \/ a \notin acct \/ a \in paused)
    BY <1>G, <2>0 DEF L!Build, L!Built, L!Unread
  <2>4. /\ load' \in Loading /\ load'.id \in {a, NoId} /\ load'.pc \in {"get", "rest"}
        /\ load'.pc = "get" => load'.id = a
        /\ load'.pc = "rest" => load'.id = NoId /\ ran'[a] = "none"
        /\ ran' \in [Ids -> {"none"} \cup Flows \cup Pasters] /\ channels' = channels
        /\ \A b \in Ids \ {a} : ran'[b] = ran[b] /\ channels'[b] = channels[b]
    <3>1. CASE load' = [load EXCEPT !.pc = "get"] /\ UNCHANGED <<ran, channels>>
      BY <2>0, <2>2, <3>1 DEF LoginTypes, Loading
    <3>2. CASE L!Settle(a, L!NoSession)
      BY <1>F, <2>2, <3>2
    <3> QED
      BY <2>3, <3>1, <3>2
  <2>5. LoginTypes' /\ Whose'
    BY <2>1, <2>2, <2>4 DEF LoginTypes, Whose
  <2>6. load'.pc = "get" => a \in unread' \/ a \notin acct \/ a \notin paused
    BY <1>F, <2>2, <2>3
  <2>7. load'.pc = "rest" => a \in unread' \/ a \notin acct \/ a \in paused
    BY <2>2, <2>3 DEF Loading
  <2>8. a \in Kick \cap acct => Applies(a)'
    BY <2>1, <2>2, <2>4, <2>6, <2>7 DEF Applies, Applied
  <2>9. Applying'
    BY <1>E, <2>0, <2>1, <2>2, <2>4, <2>8
  <2>10. L!AnsweredIsStored'
    BY <2>1 DEF L!AnsweredIsStored
  <2> QED
    BY <1>D, <2>1, <2>5, <2>9, <2>10
<1>H. CASE L!AcquireSession
  <2>0. PICK a, s : a = load.id /\ s = sessions[a]
    OBVIOUS
  <2> DEFINE To(pc) == load' = [load EXCEPT !.pc = pc, !.sess = s] /\ UNCHANGED <<ran, channels>>
  <2>1. /\ load.pc = "get" /\ UNCHANGED <<acct, spare, sessions, twitchFlows, flow, paste, paused, changed, told, refreshed>>
        /\ unread' = unread \/ unread' = unread \cup {a}
    BY <1>H, <2>0 DEF L!AcquireSession, L!Unread, L!signing, L!rowed, L!owed
  <2>2. a \in Ids /\ load \in Loading /\ s \in Login
    BY <2>0, <2>1 DEF Whose, LoginTypes, Loading
  <2>3. \/ L!Settle(a, L!NoSession) /\ (s = L!NoSession \/ a \in unread')
        \/ a \notin Kick /\ To("refresh")
        \/ s # L!NoSession /\ To("settle")
    BY <1>H, <2>0 DEF L!AcquireSession, L!Unread, L!Twitch
  <2>4. /\ load' \in Loading /\ load'.id \in {a, NoId} /\ load'.pc \in {"refresh", "settle", "rest"}
        /\ load'.pc = "refresh" => load'.id = a /\ a \notin Kick
        /\ load'.pc = "settle" => load'.id = a /\ load'.sess = s /\ s # L!NoSession
        /\ load'.pc = "rest" => load'.id = NoId /\ (s = L!NoSession \/ a \in unread')
        /\ ran' \in [Ids -> {"none"} \cup Flows \cup Pasters] /\ channels' = channels
        /\ \A b \in Ids \ {a} : ran'[b] = ran[b] /\ channels'[b] = channels[b]
    <3>1. CASE a \notin Kick /\ To("refresh")
      BY <2>0, <2>2, <3>1 DEF LoginTypes, Loading
    <3>2. CASE s # L!NoSession /\ To("settle")
      BY <2>0, <2>2, <3>2 DEF LoginTypes, Loading
    <3>3. CASE L!Settle(a, L!NoSession) /\ (s = L!NoSession \/ a \in unread')
      BY <1>F, <2>2, <3>3
    <3> QED
      BY <2>3, <3>1, <3>2, <3>3
  <2> HIDE DEF To
  <2>5. LoginTypes' /\ Whose'
    BY <2>1, <2>2, <2>4 DEF LoginTypes, Whose
  <2>8. a \in Kick \cap acct => Applies(a)'
    <3> SUFFICES ASSUME a \in Kick \cap acct PROVE Applies(a)'
      OBVIOUS
    <3>1. Registering(a) \/ a \in changed \/ a \in unread \/ a \notin paused
      BY <2>0, <2>1 DEF Applying, Applies
    <3>2. s = sessions'[a]
      BY <2>0, <2>1
    <3> QED
      BY <2>1, <2>2, <2>4, <3>1, <3>2 DEF Applies, Applied, Registering, L!NoSession, L!Session
  <2>9. Applying'
    BY <1>E, <2>0, <2>1, <2>2, <2>4, <2>8
  <2>10. L!AnsweredIsStored'
    BY <2>1 DEF L!AnsweredIsStored
  <2> QED
    BY <1>D, <2>1, <2>5, <2>9, <2>10
<1>11. CASE L!RefreshSession
  <2>1. /\ load.pc = "refresh" /\ UNCHANGED <<changed, unread, acct, spare, sessions, twitchFlows, flow, paste, paused, told, refreshed>>
    BY <1>11 DEF L!RefreshSession, L!signing, L!rowed, L!owed
  <2>2. load.id \in Ids \ Kick /\ load \in Loading /\ load.sess \in Login
    BY <2>1 DEF Whose, LoginTypes, Loading
  <2>3. PICK s \in Login : \/ load' = [load EXCEPT !.pc = "put", !.sess = s] /\ UNCHANGED <<ran, channels>>
                           \/ load' = L!NoLoad /\ ran' = [ran EXCEPT ![load.id] = s.by] /\ channels' = channels
    <3>1. CASE load' = [load EXCEPT !.pc = "put", !.sess = L!Refresh(@)] /\ UNCHANGED <<ran, channels>>
      <4>1. L!Refresh(load.sess) \in Login
        BY <2>2 DEF L!Refresh, L!Revalidate, Login
      <4>2. load' = [load EXCEPT !.pc = "put", !.sess = L!Refresh(load.sess)]
        BY <2>2, <3>1 DEF Loading
      <4> QED
        BY <3>1, <4>1, <4>2
    <3>2. CASE \E s \in {load.sess, L!NoSession} : L!Settle(load.id, s)
      BY <2>2, <3>2 DEF L!Settle
    <3> QED
      BY <1>11, <3>1, <3>2 DEF L!RefreshSession
  <2>4. /\ load' \in Loading /\ load'.pc \in {"put", "rest"} /\ load'.id \notin Kick \cap Ids
        /\ load'.pc = "put" => load'.id \in Ids \ Kick
        /\ load'.pc = "rest" => load'.id = NoId
    BY <2>2, <2>3 DEF Loading
  <2>5. ran' \in [Ids -> {"none"} \cup Flows \cup Pasters] /\ (\A b \in Kick \cap Ids : ran'[b] = ran[b]) /\ channels' = channels
    BY <2>2, <2>3 DEF LoginTypes, Login
  <2>6. LoginTypes' /\ Whose'
    BY <2>1, <2>4, <2>5 DEF LoginTypes, Whose
  <2>7. KickStays
    BY <2>1, <2>5 DEF KickStays, Registering
  <2>8. Applying'
    BY <2>2, <2>4, <2>6, <2>7, KickKept
  <2>9. L!AnsweredIsStored'
    BY <2>1 DEF L!AnsweredIsStored
  <2> QED
    BY <1>D, <2>1, <2>6, <2>8, <2>9
<1>12. CASE L!RefreshedPut
  <2>1. /\ load.pc = "put" /\ load' = [load EXCEPT !.pc = "settle"]
        /\ UNCHANGED <<acct, spare, twitchFlows, flow, paste, paused, changed, ran, unread, channels, told>>
        /\ \/ sessions' = [sessions EXCEPT ![load.id] = load.sess] /\ refreshed' = refreshed \cup {load.id}
           \/ UNCHANGED <<sessions, refreshed>>
    BY <1>12 DEF L!RefreshedPut, L!UpsertSession, L!signing, L!rowed
  <2>2. load.id \in Ids \ Kick /\ load.sess \in Login
    BY <2>1 DEF Whose, LoginTypes, Loading
  <2>3. load' \in Loading /\ load'.pc = "settle" /\ load'.id = load.id
    BY <2>1 DEF LoginTypes, Loading
  <2>4. sessions' \in [Ids -> Login] /\ \A b \in Ids : sessions'[b] = sessions[b] \/ (b = load.id /\ b \in refreshed')
    BY <2>1, <2>2 DEF LoginTypes
  <2>5. LoginTypes' /\ Whose'
    BY <2>1, <2>2, <2>3, <2>4 DEF LoginTypes, Whose
  <2>6. KickStays
    BY <2>1, <2>2, <2>4 DEF KickStays, Registering
  <2>7. Applying'
    BY <2>2, <2>3, <2>5, <2>6, KickKept
  <2>8. L!AnsweredIsStored'
    BY <2>1, <2>4 DEF L!AnsweredIsStored, L!None, LoginTypes
  <2> QED
    BY <1>D, <2>1, <2>5, <2>7, <2>8
<1>13. CASE L!LoadSettles
  <2>0. PICK a, s : a = load.id /\ s = load.sess
    OBVIOUS
  <2>1. /\ load.pc = "settle" /\ L!Settle(a, s)
        /\ UNCHANGED <<acct, spare, sessions, twitchFlows, flow, paste, paused, changed, unread, told, refreshed>>
    BY <1>13, <2>0 DEF L!LoadSettles, L!signing, L!rowed, L!owed
  <2>2. a \in Ids /\ s \in Login
    BY <2>0, <2>1 DEF Whose, LoginTypes, Loading
  <2>3. /\ load' = L!NoLoad /\ ran' \in [Ids -> {"none"} \cup Flows \cup Pasters] /\ ran'[a] = s.by
        /\ channels' \in [Ids -> {"none"} \cup Flows \cup Pasters]
        /\ \A b \in Ids \ {a} : ran'[b] = ran[b] /\ channels'[b] = channels[b]
        /\ a \in Kick /\ s # L!NoSession /\ s.by \notin Bare => channels'[a] = s.by
    BY <1>F, <2>1, <2>2
  <2>4. LoginTypes' /\ Whose'
    BY <2>1, <2>3 DEF LoginTypes, Whose
  <2>5. a \in Kick \cap acct => Applies(a)'
    <3> SUFFICES ASSUME a \in Kick \cap acct PROVE Applies(a)'
      OBVIOUS
    <3>1. \/ Registering(a) \/ a \in changed \/ a \in unread
          \/ a \notin paused /\ s.by = sessions[a].by /\ s # L!NoSession
      BY <2>0, <2>1 DEF Applying, Applies
    <3>2. load'.id # a
      BY <2>2, <2>3
    <3> QED
      BY <2>1, <2>2, <2>3, <3>1, <3>2 DEF Applies, Applied, Registering, L!NoSession, L!Session
  <2>6. Applying'
    BY <1>E, <2>0, <2>1, <2>2, <2>3, <2>5
  <2>7. L!AnsweredIsStored'
    BY <2>1 DEF L!AnsweredIsStored
  <2> QED
    BY <1>D, <2>1, <2>4, <2>6, <2>7
<1>14. ASSUME NEW a \in Ids, L!Expires(a) PROVE LoginInv'
  <2>1. /\ a \notin Kick /\ sessions' = [sessions EXCEPT ![a] = [sessions[a] EXCEPT !.old = TRUE]]
        /\ UNCHANGED <<acct, spare, twitchFlows, flow, paste, paused, changed, load, ran, unread, channels, told, refreshed>>
    BY <1>14 DEF L!Expires, L!UpsertSession, L!Twitch, L!signing, L!loading, L!rowed, L!owed
  <2>2. sessions' \in [Ids -> Login] /\ \A b \in Ids : sessions'[b].by = sessions[b].by /\ (b # a => sessions'[b] = sessions[b])
    BY <2>1 DEF LoginTypes, Login
  <2>3. LoginTypes' /\ Whose'
    BY <2>1, <2>2 DEF LoginTypes, Whose
  <2>4. KickStays
    BY <2>1, <2>2 DEF KickStays, Registering
  <2>5. Applying'
    BY <2>1, <2>3, <2>4, KickKept
  <2>6. L!AnsweredIsStored'
    BY <2>1, <2>2 DEF L!AnsweredIsStored, LoginTypes
  <2> QED
    BY <1>D, <2>1, <2>3, <2>5, <2>6
<1>15. ASSUME NEW a \in Ids, L!Rebuild(a) PROVE LoginInv'
  <2>1. /\ changed' = changed \cup {a}
        /\ UNCHANGED <<acct, spare, sessions, twitchFlows, flow, paste, paused, load, ran, unread, channels, told, refreshed>>
    BY <1>15 DEF L!Rebuild, L!AccountChanged, L!signing, L!rowed, L!owed
  <2>2. LoginTypes' /\ Whose'
    BY <2>1 DEF LoginTypes, Whose
  <2>3. KickStays
    BY <2>1 DEF KickStays, Registering
  <2>4. Applying'
    BY <2>1, <2>2, <2>3, KickKept
  <2>5. L!AnsweredIsStored'
    BY <2>1 DEF L!AnsweredIsStored
  <2> QED
    BY <1>D, <2>1, <2>2, <2>4, <2>5
<1>16. ASSUME NEW a \in Ids, L!DeleteAccount(a) PROVE LoginInv'
  <2>1. /\ L!CancelTwitchFlow(a) /\ UNCHANGED <<acct, spare, sessions, paste, paused, changed, load, ran, unread, channels, told, refreshed>>
    BY <1>16 DEF L!DeleteAccount, L!loading, L!owed
  <2>2. /\ flow' \in [Flows -> Polling] /\ twitchFlows' \in [Ids -> Flows \cup {NoFlow}]
        /\ (\A e \in Flows : flow'[e].pc # "rest" => flow'[e].id \in Ids \ Kick)
        /\ Superseding' /\ (\A e \in Flows, b \in Ids : Stores(e, b)' => Stores(e, b))
    BY <1>B, <2>1
  <2>3. LoginTypes' /\ Whose'
    BY <2>1, <2>2 DEF LoginTypes, Whose
  <2>4. Alone' /\ Promised'
    BY <2>1, <2>2 DEF Alone, Promised, Whose
  <2>5. KickStays
    BY <2>1 DEF KickStays, Registering
  <2>6. Applying'
    BY <2>1, <2>3, <2>5, KickKept
  <2>7. L!AnsweredIsStored'
    BY <2>1 DEF L!AnsweredIsStored
  <2> QED
    BY <2>2, <2>3, <2>4, <2>6, <2>7
<1>17. ASSUME NEW a \in Ids, L!PurgeAccount(a) PROVE LoginInv'
  <2>1. UNCHANGED <<spare, twitchFlows, flow, paste, load, ran, unread, channels, refreshed>>
    BY <1>17 DEF L!PurgeAccount, L!signing
  <2>2. \/ UNCHANGED <<acct, paused, sessions, told, changed>>
        \/ /\ acct' = acct \ {a} /\ sessions' = [sessions EXCEPT ![a] = L!NoSession] /\ told' = [told EXCEPT ![a] = "none"]
           /\ changed' = changed \cup {a} /\ paused' = paused \ {a}
    BY <1>17 DEF L!PurgeAccount, L!UpsertSession, L!AccountChanged, L!None
  <2>3. /\ sessions' \in [Ids -> Login] /\ told' \in [Ids -> {"none"} \cup Pasters] /\ changed \subseteq changed'
        /\ acct' \subseteq acct /\ changed' \in SUBSET Ids /\ paused' \in SUBSET Ids
        /\ (told' = told /\ acct' = acct) \/ (told'[a] = "none" /\ a \notin acct')
        /\ \A b \in Ids \ {a} : sessions'[b] = sessions[b] /\ told'[b] = told[b] /\ (b \in acct' <=> b \in acct)
    BY <2>2 DEF LoginTypes
  <2>4. LoginTypes' /\ Whose' /\ Superseding'
    BY <2>1, <2>3 DEF LoginTypes, Whose, Superseding
  <2>5. Alone' /\ Promised'
    BY <2>1, <2>3 DEF Alone, Promised, Stores
  <2>6. Applying'
    BY <2>1, <2>2, <2>3 DEF Applying, Applies, Applied, Registering, LoginTypes, L!NoSession, L!Session
  <2>7. L!AnsweredIsStored'
    BY <2>1, <2>2, <2>3 DEF L!AnsweredIsStored, L!None, LoginTypes
  <2> QED
    BY <2>4, <2>5, <2>6, <2>7
<1>18. CASE UNCHANGED loginVars
  BY <1>18 DEF loginVars, LoginTypes, Whose, Superseding, Alone, Promised, Stores, Applying, Applies, Applied, Registering,
     L!NoSession, L!Session, L!AnsweredIsStored
\* a flow that is asked for, or that Twitch gave no code for
<1>20. ASSUME NEW f \in Flows,
              \/ \E a \in acct : L!TwitchDeviceStart(f, a)
              \/ L!TwitchFlowBegins(f) /\ L!Gone(f) /\ UNCHANGED <<twitchFlows, told, paste>>
       PROVE LoginInv'
  <2>1. UNCHANGED <<acct, spare, sessions, twitchFlows, paste, paused, changed, load, ran, unread, channels, told, refreshed>>
    BY <1>20 DEF L!TwitchDeviceStart, L!TwitchFlowBegins, L!loading, L!rowed, L!owed
  <2>2. /\ flow' \in [Flows -> Polling] /\ (\A e \in Flows : flow'[e].pc # "rest" => flow'[e].id \in Ids \ Kick)
        /\ \A e \in Flows : flow'[e].pc \notin {"rest", "asking"} /\ ~flow'[e].cancelled => twitchFlows[flow'[e].id] = e
        /\ \A e \in Flows, a \in Ids : Stores(e, a)' => Stores(e, a)
    <3>1. CASE \E a \in acct : L!TwitchDeviceStart(f, a)
      <4>1. PICK a \in Ids \ Kick : flow' = [flow EXCEPT ![f] = [L!NoWork EXCEPT !.pc = "asking", !.id = a]]
        BY <3>1 DEF L!TwitchDeviceStart, L!Twitch, LoginTypes
      <4> DEFINE w == [L!NoWork EXCEPT !.pc = "asking", !.id = a]
      <4>2. w \in Polling /\ w.pc = "asking" /\ w.id = a
        BY DEF L!NoWork, Polling
      <4> HIDE DEF w
      <4> QED
        BY <1>A, <4>1, <4>2 DEF w
    <3>2. CASE L!Gone(f)
      <4>1. flow' = [flow EXCEPT ![f] = L!NoWork]
        BY <3>2 DEF L!Gone
      <4>2. L!NoWork \in Polling /\ L!NoWork.pc = "rest"
        BY DEF L!NoWork, Polling
      <4> QED
        BY <1>A, <4>1, <4>2
    <3> QED
      BY <1>20, <3>1, <3>2
  <2>3. LoginTypes' /\ Whose' /\ Superseding'
    BY <2>1, <2>2 DEF LoginTypes, Whose, Superseding
  <2>4. Alone' /\ Promised'
    BY <2>1, <2>2 DEF Alone, Promised, Whose
  <2>5. KickStays
    BY <2>1 DEF KickStays, Registering
  <2>6. Applying'
    BY <2>1, <2>3, <2>5, KickKept
  <2>7. L!AnsweredIsStored'
    BY <2>1 DEF L!AnsweredIsStored
  <2> QED
    BY <2>3, <2>4, <2>6, <2>7
<1>21. ASSUME NEW a \in Ids, L!SetAccountEnabled(a) PROVE LoginInv'
  <2>1. /\ changed' = changed \cup {a} /\ (paused' = paused \ {a} \/ paused' = paused \cup {a})
        /\ UNCHANGED <<acct, spare, sessions, twitchFlows, flow, paste, load, ran, unread, channels, told, refreshed>>
    BY <1>21 DEF L!SetAccountEnabled, L!AccountChanged, L!signing, L!owed
  <2>2. LoginTypes' /\ Whose'
    BY <2>1 DEF LoginTypes, Whose
  <2>3. KickStays
    BY <2>1 DEF KickStays, Registering
  <2>4. Applying'
    BY <2>1, <2>2, <2>3, KickKept
  <2>5. L!AnsweredIsStored'
    BY <2>1 DEF L!AnsweredIsStored
  <2> QED
    BY <1>D, <2>1, <2>2, <2>4, <2>5
<1>19. ASSUME L!Next PROVE LoginInv'
  <2>1. ASSUME NEW f \in Flows, \/ (\E a \in acct : L!TwitchDeviceStart(f, a)) \/ L!TwitchFlowBegins(f) \/ L!PollTwitch(f)
                                \/ L!FlowStored(f) \/ L!FlowApplied(f)
        PROVE LoginInv'
    <3>1. CASE L!TwitchFlowBegins(f)
      BY <1>1, <1>20, <3>1
    <3> QED
      BY <1>2, <1>3, <1>20, <2>1, <3>1
  <2>2. ASSUME NEW u \in Pasters, \/ L!TwitchAndroidLogin(u) \/ L!PasteResolve(u) \/ L!PasteCancels(u) \/ L!PastePut(u)
                                  \/ L!PasteApply(u) \/ L!KickSession(u) \/ L!PersistKickSession(u)
        PROVE LoginInv'
    BY <1>4, <1>5, <1>6, <1>7, <1>8, <1>9, <2>2
  <2>3. ASSUME NEW a \in Ids, \/ L!ReloadAccount(a) \/ L!Expires(a) \/ L!Rebuild(a)
                              \/ L!SetAccountEnabled(a) \/ L!DeleteAccount(a) \/ L!PurgeAccount(a)
        PROVE LoginInv'
    BY <1>10, <1>14, <1>15, <1>16, <1>17, <1>21, <2>3
  <2> QED
    BY <1>19, <1>11, <1>12, <1>13, <1>G, <1>H, <2>1, <2>2, <2>3 DEF L!Next
<1> QED
  BY <1>18, <1>19

\* AnsweredIsStored: what a paste has stored stays the account's session until a later
\* sign-in, and the runner of a Kick account that is not paused gets the session stored,
\* the registry its channels, unless a read of the last rebuild failed.
THEOREM AnsweredIsStoredHolds == MCSpec => []AnsweredIsStored
<1>1. MCInit => (part = "logins" => LoginInv)
  <2> SUFFICES ASSUME L!Init PROVE LoginInv
    BY Started
  <2>1. /\ L!NoSession \in Login /\ L!NoWork \in Polling /\ L!NoWork.pc = "rest"
        /\ L!NoPaste \in Pasting /\ L!NoPaste.pc = "rest"
        /\ L!NoLoad \in Loading /\ L!NoLoad.pc = "rest" /\ L!NoLoad.id = NoId
    BY DEF L!NoSession, L!Session, L!None, L!NoWork, L!NoPaste, L!NoLoad, Login, Polling, Pasting, Loading
  <2>2. LoginTypes /\ Whose
    BY <2>1, LoginsAssumption DEF L!Init, L!None, LoginTypes, Whose
  <2>3. /\ \A f \in Flows : flow[f].pc = "rest"
        /\ \A u \in Pasters : paste[u].pc = "rest"
        /\ \A a \in Ids : told[a] = "none" /\ ran[a] = "none" /\ sessions[a] = L!NoSession
        /\ load.pc = "rest" /\ load.id = NoId /\ unread = {} /\ paused = {} /\ changed = {} /\ acct \subseteq Ids
    BY <2>1, LoginsAssumption DEF L!Init, L!None
  <2>4. Superseding /\ Alone /\ Promised /\ L!AnsweredIsStored
    BY <2>3 DEF L!None, Superseding, Alone, Promised, Stores, L!AnsweredIsStored
  <2>5. Applying
    <3> SUFFICES ASSUME NEW a \in Kick \cap acct PROVE load.id # a /\ Applied(a)
      BY DEF Applying, Applies
    <3>1. a \in Ids /\ load.id # a
      BY <2>3, LoginsAssumption
    <3> QED
      BY <2>3, <3>1 DEF Applied
  <2> QED
    BY <2>2, <2>4, <2>5 DEF LoginInv
<1>2. (part = "logins" => LoginInv) /\ [MCNext]_mcvars => (part = "logins" => LoginInv)'
  BY Turn, NextLogins
<1>3. LoginInv => L!KickSettles
  BY DEF LoginInv, LoginTypes, L!KickSettles, L!Settled, L!None, Applying, Applies, Applied, Registering
<1>4. (part = "logins" => LoginInv) => AnsweredIsStored
  BY <1>3 DEF LoginInv, AnsweredIsStored
<1>5. QED
  BY <1>1, <1>2, <1>4, PTL DEF MCSpec

-----------------------------------------------------------------------------
(***************************************************************************)
(* TasksOwned.  A goroutine that is not stopping anything names no task      *)
(* (AtRest), and a claimer or a join under way is of a task the runner or a  *)
(* stopping goroutine names (Claimers, Joining): the claimer Run is about to *)
(* start is the runner's, or a push that has taken it waits for it to end,   *)
(* which it cannot before it has started (Starting). The runner's tasks are  *)
(* those of its watch (Lives), for what Run read of the watch before it      *)
(* starts one is still so, or a push has ended the watch (StillSo).          *)
(***************************************************************************)
Mover == [pc : {"idle", "points", "raids", "cancel", "wait"}, ch : Channels \cup {NoOne},
          p : PointsTasks \cup {NoOne}, w : RaidTasks \cup {NoOne},
          start : PointsTasks \cup RaidTasks \cup {NoOne}, then : {"idle", "points", "raids"}]
Claimer == [pc : {"made", "claim", "sleep", "ended"}, ch : Channels \cup {NoOne}, cancelled : BOOLEAN]
Raider == [ch : Channels \cup {NoOne}, cancelled : BOOLEAN, joins : [Raids -> {"none", "delay", "join"}]]
TaskTypes == /\ watched \in Channels \cup {NoOne}
             /\ points \in PointsTasks \cup {NoOne} /\ raids \in RaidTasks \cup {NoOne}
             /\ pt \in [PointsTasks -> Claimer] /\ rt \in [RaidTasks -> Raider]
             /\ g \in [{"run", "push"} -> Mover]
AtRest == \A u \in {"run", "push"} :
            g[u].pc \in {"idle", "points", "raids"} => g[u].p = NoOne /\ g[u].w = NoOne /\ g[u].start = NoOne
PushStops == g["push"].pc \in {"idle", "cancel", "wait"} /\ g["push"].start = NoOne /\ g["push"].then = "idle"
Claimers == \A p \in PointsTasks : pt[p].pc \in {"claim", "sleep"} => p \in {points, g["run"].p, g["push"].p}
Joining == \A w \in RaidTasks : T!Done(w) \/ w \in {raids, g["run"].w, g["push"].w}
Starting == g["run"].start \in PointsTasks
              => pt[g["run"].start].pc = "made" /\ g["run"].start \in {points, g["push"].p}
Lives == /\ points # NoOne => watched # NoOne /\ pt[points].ch = watched
         /\ raids # NoOne => watched # NoOne /\ rt[raids].ch = watched
StillSo == /\ g["run"].pc # "idle" => watched \in {NoOne, g["run"].ch}
           /\ g["run"].pc = "raids" \/ g["run"].then = "raids" => g["run"].ch # NoOne
Tasks == TaskTypes /\ AtRest /\ PushStops /\ Claimers /\ Joining /\ Starting /\ Lives /\ StillSo

\* No step of the run loop, of the push or of a task breaks who owns the tasks.
LEMMA NextTasks ==
  ASSUME Tasks, [T!Next]_taskVars
  PROVE  Tasks'
<1> USE TasksAssumption DEF Tasks
<1>0. /\ T!Free \in Mover /\ T!Free.pc = "idle" /\ T!Free.p = NoOne /\ T!Free.w = NoOne /\ T!Free.start = NoOne
      /\ T!Free.then = "idle"
      /\ T!Over \in Claimer /\ T!Over.pc = "ended"
  BY DEF T!Free, T!At, T!Over, Mover, Claimer
<1> USE <1>0
\* what a step of one goroutine leaves of the other
<1>A. ASSUME NEW u \in {"run", "push"}, NEW m \in Mover, T!Goto(u, m)
      PROVE  g' \in [{"run", "push"} -> Mover] /\ g'[u] = m /\ \A v \in {"run", "push"} \ {u} : g'[v] = g[v]
  BY <1>A DEF T!Goto, TaskTypes
\* a goroutine done goes on with what it read
<1>B. ASSUME NEW u \in {"run", "push"}, T!Then(u)
      PROVE  \E m \in Mover : /\ T!Goto(u, m) /\ m.pc = g[u].then
                              /\ m.p = NoOne /\ m.w = NoOne /\ m.start = NoOne /\ m.then = "idle"
                              /\ m.pc # "idle" => m.ch = g[u].ch
  <2> DEFINE m == T!At(g[u].then, g[u].ch, NoOne, NoOne, NoOne, "idle")
  <2>1. g[u].then \in {"idle", "points", "raids"} /\ g[u].ch \in Channels \cup {NoOne}
    BY DEF TaskTypes, Mover
  <2>2. m \in Mover /\ m.pc = g[u].then /\ m.p = NoOne /\ m.w = NoOne /\ m.start = NoOne /\ m.then = "idle" /\ m.ch = g[u].ch
    BY <2>1 DEF Mover, T!At
  <2>3. CASE g[u].then = "idle"
    BY <1>B, <2>3 DEF T!Then
  <2>4. CASE g[u].then # "idle"
    <3>1. T!Goto(u, m)
      BY <1>B, <2>4 DEF T!Then
    <3> HIDE DEF m
    <3> QED
      BY <2>2, <3>1
  <2> QED
    BY <2>3, <2>4
<1>C. ASSUME NEW pc \in {"points", "raids", "cancel"}, NEW c \in Channels \cup {NoOne}, NEW p \in PointsTasks \cup {NoOne},
             NEW w \in RaidTasks \cup {NoOne}, NEW t \in {"idle", "raids"}
      PROVE  /\ T!At(pc, c, p, w, NoOne, t) \in Mover
             /\ T!At(pc, c, p, w, NoOne, t).pc = pc /\ T!At(pc, c, p, w, NoOne, t).ch = c
             /\ T!At(pc, c, p, w, NoOne, t).p = p /\ T!At(pc, c, p, w, NoOne, t).w = w
             /\ T!At(pc, c, p, w, NoOne, t).start = NoOne /\ T!At(pc, c, p, w, NoOne, t).then = t
  BY DEF T!At, Mover
<1>1. CASE T!BeginWatch
  <2>1. PICK c \in Channels : /\ watched' = c /\ watched = NoOne /\ g["run"] = T!Free
                              /\ T!Goto("run", T!At("points", c, NoOne, NoOne, NoOne, "raids"))
                              /\ UNCHANGED <<points, raids, pt, rt>>
    BY <1>1 DEF T!BeginWatch
  <2>2. PICK m \in Mover : /\ T!Goto("run", m) /\ m.pc = "points" /\ m.ch = c /\ m.p = NoOne /\ m.w = NoOne
                           /\ m.start = NoOne /\ m.then = "raids"
    BY <1>C, <2>1
  <2>3. /\ g' \in [{"run", "push"} -> Mover] /\ g'["run"] = m /\ g'["push"] = g["push"]
    BY <1>A, <2>2
  <2>4. TaskTypes' /\ AtRest' /\ PushStops' /\ Starting' /\ Lives' /\ StillSo'
    BY <2>1, <2>2, <2>3 DEF TaskTypes, AtRest, PushStops, Starting, Lives, StillSo
  <2>5. Claimers' /\ Joining'
    BY <2>1, <2>2, <2>3 DEF Claimers, Joining, T!Done
  <2> QED
    BY <2>4, <2>5
<1>D. ASSUME T!Then("run"), g["run"].pc \in {"points", "raids"}, UNCHANGED <<watched, points, raids, pt, rt>>
      PROVE  Tasks'
  <2>2. PICK m \in Mover : /\ T!Goto("run", m) /\ m.pc = g["run"].then
                           /\ m.p = NoOne /\ m.w = NoOne /\ m.start = NoOne /\ m.then = "idle"
                           /\ m.pc # "idle" => m.ch = g["run"].ch
    BY <1>B, <1>D
  <2>3. g' \in [{"run", "push"} -> Mover] /\ g'["run"] = m /\ g'["push"] = g["push"]
    BY <1>A, <2>2
  <2>4. m.pc \in {"idle", "points", "raids"}
    BY <2>2 DEF TaskTypes, Mover
  <2>5. TaskTypes' /\ AtRest' /\ PushStops' /\ Starting' /\ Lives'
    BY <1>D, <2>2, <2>3 DEF TaskTypes, AtRest, PushStops, Starting, Lives
  <2>6. StillSo'
    BY <1>D, <2>2, <2>3 DEF StillSo
  <2>7. Claimers' /\ Joining'
    BY <1>D, <2>2, <2>3 DEF Claimers, Joining, T!Done, AtRest
  <2> QED
    BY <2>5, <2>6, <2>7
<1>2. CASE T!StartPoints
  <2>0. g["run"].pc = "points" /\ UNCHANGED <<watched, raids, rt>>
    BY <1>2 DEF T!StartPoints
  <2>1. CASE pointsOn /\ T!HandleLive
    <3> DEFINE new == [T!Over EXCEPT !.pc = "made", !.ch = g["run"].ch]
               m(p) == [g["run"] EXCEPT !.pc = "cancel", !.p = points, !.start = p]
    <3>1. PICK p \in PointsTasks : /\ p \in T!NewPt /\ points' = p /\ pt' = [pt EXCEPT ![p] = new]
                                   /\ T!Goto("run", m(p))
      BY <1>2, <2>1 DEF T!StartPoints, T!NewPt
    <3>2. new \in Claimer /\ new.pc = "made" /\ new.ch = g["run"].ch
      BY DEF T!Over, Claimer, TaskTypes, Mover
    <3>3. m(p) \in Mover /\ m(p).pc = "cancel" /\ m(p).p = points /\ m(p).start = p /\ m(p).w = g["run"].w
          /\ m(p).ch = g["run"].ch /\ m(p).then = g["run"].then
      BY DEF Mover, TaskTypes
    <3> HIDE DEF new, m
    <3>4. /\ g' \in [{"run", "push"} -> Mover] /\ g'["run"] = m(p) /\ g'["push"] = g["push"]
      BY <1>A, <3>1, <3>3
    <3>5. pt' \in [PointsTasks -> Claimer] /\ pt'[p] = new /\ \A q \in PointsTasks \ {p} : pt'[q] = pt[q]
      BY <3>1, <3>2 DEF TaskTypes
    <3>6. TaskTypes' /\ AtRest' /\ PushStops' /\ Starting'
      BY <2>0, <3>1, <3>2, <3>3, <3>4, <3>5 DEF TaskTypes, AtRest, PushStops, Starting
    <3>7. Lives' /\ StillSo'
      BY <2>0, <2>1, <3>1, <3>2, <3>3, <3>4, <3>5 DEF Lives, StillSo, T!HandleLive
    <3>8. Claimers' /\ Joining'
      BY <2>0, <3>1, <3>2, <3>3, <3>4, <3>5 DEF Claimers, Joining, T!Done, AtRest
    <3> QED
      BY <3>6, <3>7, <3>8
  <2>2. CASE ~(pointsOn /\ T!HandleLive)
    BY <1>2, <1>D, <2>0, <2>2 DEF T!StartPoints
  <2> QED
    BY <2>1, <2>2
<1>3. CASE T!StartRaids
  <2>0. g["run"].pc = "raids" /\ UNCHANGED <<watched, points, pt>>
    BY <1>3 DEF T!StartRaids
  <2>1. CASE follow /\ watched = g["run"].ch
    <3> DEFINE new == T!RaidTask(watched)
               m(w) == [g["run"] EXCEPT !.pc = "cancel", !.w = raids, !.start = w]
    <3>1. PICK w \in RaidTasks : /\ raids' = w /\ rt' = [rt EXCEPT ![w] = new] /\ T!Done(w) /\ T!Goto("run", m(w))
      BY <1>3, <2>1 DEF T!StartRaids, T!NewRt
    <3>2. new \in Raider /\ new.ch = watched /\ \A r \in Raids : new.joins[r] = "none"
      BY DEF T!RaidTask, T!NoJoins, Raider, TaskTypes
    <3>3. m(w) \in Mover /\ m(w).pc = "cancel" /\ m(w).w = raids /\ m(w).start = w /\ m(w).p = g["run"].p
          /\ m(w).ch = g["run"].ch /\ m(w).then = g["run"].then
      BY DEF Mover, TaskTypes
    <3> HIDE DEF new, m
    <3>4. /\ g' \in [{"run", "push"} -> Mover] /\ g'["run"] = m(w) /\ g'["push"] = g["push"]
      BY <1>A, <3>1, <3>3
    <3>5. rt' \in [RaidTasks -> Raider] /\ rt'[w] = new /\ \A v \in RaidTasks \ {w} : rt'[v] = rt[v]
      BY <3>1, <3>2 DEF TaskTypes
    <3>6. TaskTypes' /\ AtRest' /\ PushStops' /\ Starting'
      BY <2>0, <3>1, <3>2, <3>3, <3>4, <3>5 DEF TaskTypes, AtRest, PushStops, Starting
    <3>7. Lives' /\ StillSo'
      BY <2>0, <2>1, <3>1, <3>2, <3>3, <3>4, <3>5 DEF Lives, StillSo
    <3>8. Claimers' /\ Joining'
      BY <2>0, <3>1, <3>2, <3>3, <3>4, <3>5 DEF Claimers, Joining, T!Done, AtRest
    <3> QED
      BY <3>6, <3>7, <3>8
  <2>2. CASE ~(follow /\ watched = g["run"].ch)
    BY <1>3, <1>D, <2>0, <2>2 DEF T!StartRaids
  <2> QED
    BY <2>1, <2>2
<1>4. CASE T!SyncPoints \/ T!SyncRaids
  <2>1. /\ g["run"] = T!Free /\ UNCHANGED <<watched, pt, rt>>
        /\ \/ /\ UNCHANGED <<points, raids>> /\ watched # NoOne
              /\ T!Goto("run", T!At("points", watched, NoOne, NoOne, NoOne, "idle"))
           \/ points' = NoOne /\ UNCHANGED raids /\ T!Goto("run", T!At("cancel", watched, points, NoOne, NoOne, "idle"))
           \/ /\ UNCHANGED <<points, raids>> /\ watched # NoOne
              /\ T!Goto("run", T!At("raids", watched, NoOne, NoOne, NoOne, "idle"))
           \/ raids' = NoOne /\ UNCHANGED points /\ T!Goto("run", T!At("cancel", watched, NoOne, raids, NoOne, "idle"))
    BY <1>4 DEF T!SyncPoints, T!SyncRaids
  <2>2. /\ watched \in Channels \cup {NoOne} /\ points \in PointsTasks \cup {NoOne} /\ raids \in RaidTasks \cup {NoOne}
    BY DEF TaskTypes
  <2>3. PICK m \in Mover : /\ T!Goto("run", m) /\ m.start = NoOne /\ m.ch = watched /\ m.then = "idle"
                           /\ \/ /\ UNCHANGED <<points, raids>> /\ m.pc \in {"points", "raids"} /\ m.p = NoOne /\ m.w = NoOne
                                 /\ watched # NoOne
                              \/ points' = NoOne /\ UNCHANGED raids /\ m.pc = "cancel" /\ m.p = points /\ m.w = NoOne
                              \/ raids' = NoOne /\ UNCHANGED points /\ m.pc = "cancel" /\ m.w = raids /\ m.p = NoOne
    BY <1>C, <2>1, <2>2
  <2>4. g' \in [{"run", "push"} -> Mover] /\ g'["run"] = m /\ g'["push"] = g["push"]
    BY <1>A, <2>3
  <2>5. TaskTypes' /\ AtRest' /\ PushStops' /\ Starting' /\ Lives' /\ StillSo'
    BY <2>1, <2>3, <2>4 DEF TaskTypes, AtRest, PushStops, Starting, Lives, StillSo
  <2>6. Claimers' /\ Joining'
    BY <2>1, <2>3, <2>4 DEF Claimers, Joining, T!Done
  <2> QED
    BY <2>5, <2>6
<1>5. ASSUME NEW u \in {"run", "push"}, g[u] = T!Free, T!StopWatch(u) PROVE Tasks'
  <2>1. /\ watched' = NoOne /\ points' = NoOne /\ raids' = NoOne /\ UNCHANGED <<pt, rt>>
        /\ T!Goto(u, T!At("cancel", NoOne, points, raids, NoOne, "idle"))
    BY <1>5 DEF T!StopWatch
  <2>2. PICK m \in Mover : /\ T!Goto(u, m) /\ m.pc = "cancel" /\ m.p = points /\ m.w = raids
                           /\ m.start = NoOne /\ m.then = "idle"
    BY <1>C, <2>1 DEF TaskTypes
  <2>3. g' \in [{"run", "push"} -> Mover] /\ g'[u] = m /\ \A v \in {"run", "push"} \ {u} : g'[v] = g[v]
    BY <1>A, <2>2
  <2>4. TaskTypes' /\ AtRest' /\ PushStops' /\ Starting' /\ Lives' /\ StillSo'
    BY <1>5, <2>1, <2>2, <2>3 DEF TaskTypes, AtRest, PushStops, Starting, Lives, StillSo
  <2>5. Claimers' /\ Joining'
    BY <1>5, <2>1, <2>2, <2>3 DEF Claimers, Joining, T!Done
  <2> QED
    BY <2>4, <2>5
<1>6. ASSUME NEW u \in {"run", "push"}, T!Cancel(u) PROVE Tasks'
  <2>1. g[u].pc = "cancel" /\ T!Goto(u, [g[u] EXCEPT !.pc = "wait"]) /\ UNCHANGED <<watched, points, raids>>
    BY <1>6 DEF T!Cancel
  <2>2. [g[u] EXCEPT !.pc = "wait"] \in Mover
    BY DEF TaskTypes, Mover
  <2>3. g' \in [{"run", "push"} -> Mover] /\ g'[u] = [g[u] EXCEPT !.pc = "wait"] /\ \A v \in {"run", "push"} \ {u} : g'[v] = g[v]
    BY <1>A, <2>1, <2>2
  <2>4. pt' \in [PointsTasks -> Claimer] /\ \A p \in PointsTasks : pt'[p].pc = pt[p].pc /\ pt'[p].ch = pt[p].ch
    <3>1. CASE g[u].p = NoOne
      BY <1>6, <3>1 DEF T!Cancel, TaskTypes
    <3>2. CASE g[u].p # NoOne
      <4>1. g[u].p \in PointsTasks /\ pt' = [pt EXCEPT ![g[u].p].cancelled = TRUE]
        BY <1>6, <3>2 DEF T!Cancel, TaskTypes, Mover
      <4>2. pt[g[u].p] \in Claimer
        BY <4>1 DEF TaskTypes
      <4> DEFINE new == [pt[g[u].p] EXCEPT !.cancelled = TRUE]
      <4>3. new \in Claimer /\ new.pc = pt[g[u].p].pc /\ new.ch = pt[g[u].p].ch
        BY <4>2, ZenonT(40) DEF Claimer
      <4>4. pt' = [pt EXCEPT ![g[u].p] = new]
        BY <4>1
      <4> HIDE DEF new
      <4> QED
        BY <4>1, <4>3, <4>4 DEF TaskTypes
    <3> QED
      BY <3>1, <3>2
  <2>5. rt' \in [RaidTasks -> Raider] /\ \A w \in RaidTasks : rt'[w].joins = rt[w].joins /\ rt'[w].ch = rt[w].ch
    <3>1. CASE g[u].p # NoOne
      BY <1>6, <3>1 DEF T!Cancel, TaskTypes
    <3>2. CASE g[u].p = NoOne
      <4>1. g[u].w \in RaidTasks /\ rt' = [rt EXCEPT ![g[u].w].cancelled = TRUE]
        BY <1>6, <3>2 DEF T!Cancel, TaskTypes, Mover
      <4>2. rt[g[u].w] \in Raider
        BY <4>1 DEF TaskTypes
      <4> DEFINE new == [rt[g[u].w] EXCEPT !.cancelled = TRUE]
      <4>3. new \in Raider /\ new.joins = rt[g[u].w].joins /\ new.ch = rt[g[u].w].ch
        BY <4>2, ZenonT(40) DEF Raider
      <4>4. rt' = [rt EXCEPT ![g[u].w] = new]
        BY <4>1
      <4> HIDE DEF new
      <4> QED
        BY <4>1, <4>3, <4>4 DEF TaskTypes
    <3> QED
      BY <3>1, <3>2
  <2>6. \A v \in {"run", "push"} : /\ g'[v].p = g[v].p /\ g'[v].w = g[v].w /\ g'[v].start = g[v].start
                                   /\ g'[v].then = g[v].then /\ g'[v].ch = g[v].ch
                                   /\ \/ g'[v].pc = g[v].pc
                                      \/ g[v].pc = "cancel" /\ g'[v].pc = "wait"
    BY <2>1, <2>3 DEF TaskTypes, Mover
  <2>7. TaskTypes' /\ AtRest' /\ PushStops' /\ Starting'
    BY <2>1, <2>3, <2>4, <2>5, <2>6 DEF TaskTypes, AtRest, PushStops, Starting
  <2>8. Lives' /\ StillSo'
    BY <2>1, <2>4, <2>5, <2>6 DEF Lives, StillSo, TaskTypes
  <2>9. Claimers' /\ Joining'
    BY <2>1, <2>4, <2>5, <2>6 DEF Claimers, Joining, T!Done
  <2> QED
    BY <2>7, <2>8, <2>9
<1>7. ASSUME NEW u \in {"run", "push"}, T!Wait(u) PROVE Tasks'
  <2>1. /\ g[u].pc = "wait" /\ UNCHANGED <<watched, points, raids, pt, rt>> /\ T!Waited(u)
    BY <1>7 DEF T!Wait
  <2>2. PICK m \in Mover : /\ T!Goto(u, m) /\ m.pc = "cancel" /\ m.ch = g[u].ch /\ m.start = g[u].start /\ m.then = g[u].then
                           /\ \/ g[u].p # NoOne /\ m.p = NoOne /\ m.w = g[u].w
                              \/ g[u].p = NoOne /\ m.p = NoOne /\ m.w = NoOne
    <3> DEFINE m1 == [g[u] EXCEPT !.pc = "cancel", !.p = NoOne]
               m2 == [g[u] EXCEPT !.pc = "cancel", !.w = NoOne]
    <3>1. /\ m1 \in Mover /\ m1.pc = "cancel" /\ m1.ch = g[u].ch /\ m1.start = g[u].start /\ m1.then = g[u].then
          /\ m1.p = NoOne /\ m1.w = g[u].w
      BY DEF TaskTypes, Mover
    <3>2. /\ m2 \in Mover /\ m2.pc = "cancel" /\ m2.ch = g[u].ch /\ m2.start = g[u].start /\ m2.then = g[u].then
          /\ m2.p = g[u].p /\ m2.w = NoOne
      BY DEF TaskTypes, Mover
    <3>3. \/ g[u].p # NoOne /\ T!Goto(u, m1)
          \/ g[u].p = NoOne /\ T!Goto(u, m2)
      BY <1>7 DEF T!Wait
    <3> HIDE DEF m1, m2
    <3> QED
      BY <3>1, <3>2, <3>3
  <2>3. g' \in [{"run", "push"} -> Mover] /\ g'[u] = m /\ \A v \in {"run", "push"} \ {u} : g'[v] = g[v]
    BY <1>A, <2>2
  <2>4. /\ g[u].p # NoOne => pt[g[u].p].pc = "ended"
        /\ g[u].p = NoOne => T!Done(g[u].w)
    BY <2>1 DEF T!Waited
  <2>5. TaskTypes' /\ AtRest' /\ PushStops'
    BY <2>1, <2>2, <2>3 DEF TaskTypes, AtRest, PushStops
  <2>6. Starting'
    BY <2>1, <2>2, <2>3, <2>4 DEF Starting, PushStops
  <2>7. Lives' /\ StillSo'
    BY <2>1, <2>2, <2>3 DEF Lives, StillSo
  <2>8. Claimers'
    BY <2>1, <2>2, <2>3, <2>4 DEF Claimers
  <2>9. Joining'
    BY <2>1, <2>2, <2>3, <2>4 DEF Joining, T!Done
  <2> QED
    BY <2>5, <2>6, <2>7, <2>8, <2>9
<1>8. ASSUME NEW u \in {"run", "push"}, T!Stopped(u) PROVE Tasks'
  <2>1. /\ g[u].pc = "cancel" /\ g[u].p = NoOne /\ g[u].w = NoOne /\ T!Then(u)
        /\ UNCHANGED <<watched, points, raids, rt>>
        /\ pt' = [p \in PointsTasks |-> IF p = g[u].start THEN [pt[p] EXCEPT !.pc = "claim"] ELSE pt[p]]
    BY <1>8 DEF T!Stopped
  <2>2. PICK m \in Mover : /\ T!Goto(u, m) /\ m.pc = g[u].then
                           /\ m.p = NoOne /\ m.w = NoOne /\ m.start = NoOne /\ m.then = "idle"
                           /\ m.pc # "idle" => m.ch = g[u].ch
    BY <1>B, <2>1
  <2>3. g' \in [{"run", "push"} -> Mover] /\ g'[u] = m /\ \A v \in {"run", "push"} \ {u} : g'[v] = g[v]
    BY <1>A, <2>2
  <2>4. m.pc \in {"idle", "points", "raids"}
    BY <2>2 DEF TaskTypes, Mover
  <2>5. \A p \in PointsTasks : [pt[p] EXCEPT !.pc = "claim"] \in Claimer /\ [pt[p] EXCEPT !.pc = "claim"].ch = pt[p].ch
    BY DEF TaskTypes, Claimer
  <2>6. pt' \in [PointsTasks -> Claimer] /\ \A p \in PointsTasks : pt'[p].ch = pt[p].ch /\ (p # g[u].start => pt'[p] = pt[p])
    BY <2>1, <2>5 DEF TaskTypes
  <2>7. TaskTypes' /\ AtRest' /\ PushStops'
    BY <2>1, <2>2, <2>3, <2>4, <2>6 DEF TaskTypes, AtRest, PushStops
  <2>8. Starting'
    BY <2>1, <2>2, <2>3, <2>6 DEF Starting, PushStops
  <2>9. Lives' /\ StillSo'
    BY <2>1, <2>2, <2>3, <2>6 DEF Lives, StillSo, TaskTypes
  <2>10. Claimers'
    BY <2>1, <2>2, <2>3, <2>6 DEF Claimers, Starting, PushStops
  <2>11. Joining'
    BY <2>1, <2>2, <2>3 DEF Joining, T!Done
  <2> QED
    BY <2>7, <2>8, <2>9, <2>10, <2>11
<1>9. ASSUME NEW p \in PointsTasks, T!PointsLoop(p) \/ T!ClaimPoints(p) PROVE Tasks'
  <2>1. UNCHANGED <<watched, points, raids, rt, g>>
    BY <1>9 DEF T!PointsLoop, T!ClaimPoints
  <2>2. /\ pt' \in [PointsTasks -> Claimer] /\ \A q \in PointsTasks : pt'[q].ch = pt[q].ch /\ (q # p => pt'[q] = pt[q])
        /\ pt[p].pc \in {"claim", "sleep"}
    BY <1>9 DEF T!PointsLoop, T!ClaimPoints, TaskTypes, Claimer
  <2>3. TaskTypes' /\ AtRest' /\ PushStops' /\ Starting'
    BY <2>1, <2>2 DEF TaskTypes, AtRest, PushStops, Starting
  <2>4. Lives' /\ StillSo'
    BY <2>1, <2>2 DEF Lives, StillSo, TaskTypes
  <2>5. Claimers' /\ Joining'
    BY <2>1, <2>2 DEF Claimers, Joining, T!Done
  <2> QED
    BY <2>3, <2>4, <2>5
<1>10. ASSUME NEW w \in RaidTasks, NEW r \in Raids, NEW st \in {"none", "delay", "join"},
              UNCHANGED <<watched, points, raids, pt, g>>, rt' = [rt EXCEPT ![w].joins[r] = st],
              w = raids \/ ~T!Done(w)
       PROVE Tasks'
  <2>1. /\ rt' \in [RaidTasks -> Raider]
        /\ \A v \in RaidTasks : rt'[v].ch = rt[v].ch /\ (v # w => rt'[v] = rt[v])
    BY <1>10 DEF TaskTypes, Raider
  <2>2. TaskTypes' /\ AtRest' /\ PushStops' /\ Starting'
    BY <1>10, <2>1 DEF TaskTypes, AtRest, PushStops, Starting
  <2>3. Lives' /\ StillSo'
    BY <1>10, <2>1 DEF Lives, StillSo, TaskTypes
  <2>4. Claimers' /\ Joining'
    BY <1>10, <2>1 DEF Claimers, Joining, T!Done
  <2> QED
    BY <2>2, <2>3, <2>4
<1>11. ASSUME NEW w \in RaidTasks, NEW r \in Raids, T!JoinRaid(w, r) PROVE Tasks'
  <2>1. PICK st \in {"none", "join"} : T!Joins(w, r, st) /\ rt[w].joins[r] # "none"
    BY <1>11 DEF T!JoinRaid
  <2> QED
    BY <1>10, <2>1 DEF T!Joins, T!Done
<1>12. CASE T!RaidPush
  <2>1. PICK c \in topicsOn : \E m \in T!RaidMessages : T!OnRaid(c, m.id)
    BY <1>12 DEF T!RaidPush
  <2>2. PICK r \in Raids : T!OnRaid(c, r)
    BY <2>1 DEF T!RaidMessages
  <2> QED
    BY <1>10, <2>2 DEF T!OnRaid, TaskTypes
<1>13. CASE T!Toggle \/ UNCHANGED taskVars
  BY <1>13 DEF T!Toggle, taskVars, TaskTypes, AtRest, PushStops, Claimers, Joining, T!Done, Starting, Lives, StillSo
<1> QED
  BY <1>1, <1>2, <1>3, <1>4, <1>5, <1>6, <1>7, <1>8, <1>9, <1>11, <1>12, <1>13 DEF T!Next, T!Movers, T!EndWatch, T!DispatchPlayback

\* TasksOwned: a claim or a raid join under way is of the task of the live watch,
\* on its channel, or a goroutine is still stopping that task.
THEOREM TasksOwnedHolds == MCSpec => []TasksOwned
<1>1. MCInit => (part = "tasks" => Tasks)
  <2> SUFFICES ASSUME T!Init PROVE Tasks
    BY Started
  <2>1. /\ T!Free \in Mover /\ T!Free.pc = "idle" /\ T!Free.p = NoOne /\ T!Free.w = NoOne /\ T!Free.start = NoOne
        /\ T!Free.then = "idle"
        /\ T!Over \in Claimer /\ T!Over.pc = "ended"
        /\ T!RaidTask(NoOne) \in Raider /\ \A r \in Raids : T!RaidTask(NoOne).joins[r] = "none"
    BY DEF T!Free, T!At, T!Over, T!RaidTask, T!NoJoins, Mover, Claimer, Raider
  <2>2. TaskTypes /\ AtRest /\ PushStops /\ Starting /\ Lives /\ StillSo
    BY <2>1, TasksAssumption DEF T!Init, T!Movers, TaskTypes, AtRest, PushStops, Starting, Lives, StillSo
  <2>3. Claimers /\ Joining
    BY <2>1 DEF T!Init, Claimers, Joining, T!Done
  <2> QED
    BY <2>2, <2>3 DEF Tasks
<1>2. (part = "tasks" => Tasks) /\ [MCNext]_mcvars => (part = "tasks" => Tasks)'
  BY Turn, NextTasks
<1>3. (part = "tasks" => Tasks) => TasksOwned
  BY TasksAssumption DEF Tasks, Claimers, Joining, Lives, TasksOwned, T!TasksOwned, T!Live, T!Stopping, T!Movers
<1>4. QED
  BY <1>1, <1>2, <1>3, PTL DEF MCSpec

-----------------------------------------------------------------------------
(***************************************************************************)
(* NewsArrives.  While the stream is open, the newest name is on its way to   *)
(* the page, an announcement to be made or buffered or a request made since,  *)
(* or such a request has failed (NameComes). The newest state is on its way   *)
(* to an event (StateComes), and the state of the last event to the page, or  *)
(* a request made since has failed (EventComes). Nothing carries a name or a state not written yet (Past).    *)
(***************************************************************************)
As == [name : Nat, state : Nat]
Event == {[kind |-> "accounts"], [kind |-> "log"]} \cup [kind : {"runner"}, as : As]
Reporting == [pc : {"rest", "changed", "row", "publish"}, as : As]
Request == [pc : {"rest", "asked", "rows", "answered"}, as : As]
PageTypes == /\ name \in Nat /\ state \in Nat /\ untold \in Nat
             /\ report \in [Goroutines -> Reporting] /\ loads \in [Loads -> Request]
             /\ held \in SUBSET As /\ (\A e, f \in held : e = f)
             /\ buf \in Seq(Event) /\ subbed \in BOOLEAN
             /\ es \in {"connecting", "subscribed", "open", "waiting"}
             /\ given \in As /\ unanswered \in As /\ said \in [last : Nat, most : Nat]
Old(one) == one.name <= name /\ one.state <= state
Buffered == {buf[j] : j \in 1..Len(buf)}
Past == /\ \A goroutine \in Goroutines : Old(report[goroutine].as)
        /\ \A i \in Loads : Old(loads[i].as)
        /\ \A e \in held : Old(e)
        /\ \A e \in Buffered : e.kind = "runner" => Old(e.as)
        /\ Old(given) /\ Old(unanswered) /\ said.last <= said.most /\ said.most <= state
Cut == es # "open" \/ ~subbed
NameComes == \/ Cut \/ untold > 0 \/ given.name = name \/ unanswered.name = name
             \/ \E e \in Buffered : e.kind = "accounts"
             \/ \E i \in Loads : loads[i].pc # "rest" /\ loads[i].as.name = name
StateComes == \/ said.most = state
              \/ \E r \in Goroutines : \/ report[r].pc = "changed"
                                       \/ report[r].pc \in {"row", "publish"} /\ report[r].as.state = state
EventComes == \/ said.last # state \/ Cut \/ given.state = state \/ unanswered.state = state
              \/ \E e \in held : e.state = state
              \/ \E e \in Buffered : e.kind = "runner" /\ e.as.state = state
              \/ \E i \in Loads : \/ loads[i].pc = "rows"
                                  \/ loads[i].pc \in {"asked", "answered"} /\ loads[i].as.state = state
Pages == PageTypes /\ Past /\ NameComes /\ StateComes /\ EventComes

\* What is sent is buffered after what was, or the subscriber is dropped.
LEMMA Sending ==
  ASSUME buf \in Seq(Event), subbed \in BOOLEAN, NEW e \in Event, NEW es1 \in Seq(Event), Len(es1) = 1, es1[1] = e, V!SendLocked(es1)
  PROVE  /\ buf' \in Seq(Event) /\ subbed' \in BOOLEAN /\ Buffered' \subseteq Buffered \cup {e}
         /\ subbed' => subbed /\ Buffered' = Buffered \cup {e}
<1>1. CASE buf' = buf \o es1 /\ (subbed' => subbed)
  <2>1. /\ Len(buf) \in Nat /\ Len(buf') = Len(buf) + 1 /\ buf' \in Seq(Event) /\ buf'[Len(buf) + 1] = e
        /\ \A j \in 1..Len(buf) : buf'[j] = buf[j]
    <3>1. /\ buf \o es1 \in Seq(Event) /\ Len(buf \o es1) = Len(buf) + 1
          /\ \A j \in 1..(Len(buf) + 1) : (buf \o es1)[j] = IF j <= Len(buf) THEN buf[j] ELSE es1[j - Len(buf)]
      BY ConcatProperties
    <3>2. Len(buf) \in Nat
      OBVIOUS
    <3> QED
      BY <1>1, <3>1, <3>2
  <2>2. Buffered' = Buffered \cup {e}
    <3>1. ASSUME NEW j \in 1..(Len(buf) + 1) PROVE buf'[j] \in Buffered \cup {e}
      <4>1. j \in 1..Len(buf) \/ j = Len(buf) + 1
        BY <2>1
      <4> QED
        BY <2>1, <4>1 DEF Buffered
    <3>2. ASSUME NEW j \in 1..Len(buf) PROVE buf[j] \in Buffered'
      <4>1. j \in 1..Len(buf') /\ buf'[j] = buf[j]
        BY <2>1
      <4> QED
        BY <4>1 DEF Buffered
    <3>3. e \in Buffered'
      <4>1. Len(buf) + 1 \in 1..Len(buf')
        BY <2>1
      <4> QED
        BY <2>1, <4>1 DEF Buffered
    <3> QED
      BY <2>1, <3>1, <3>2, <3>3 DEF Buffered
  <2> QED
    BY <1>1, <2>1, <2>2 DEF V!SendLocked
<1>2. CASE buf' = buf /\ ~subbed'
  BY <1>2 DEF Buffered, V!SendLocked
<1> QED
  BY <1>1, <1>2 DEF V!SendLocked

\* What an event taken off the buffer was, and what stays.
LEMMA Taking ==
  ASSUME buf \in Seq(Event), buf # <<>>, buf' = Tail(buf)
  PROVE  /\ Head(buf) \in Event /\ Head(buf) \in Buffered /\ buf' \in Seq(Event) /\ Buffered = Buffered' \cup {Head(buf)}
<1>1. /\ Len(buf) \in Nat /\ Len(buf) > 0 /\ Head(buf) = buf[1] /\ buf' \in Seq(Event) /\ Len(buf') = Len(buf) - 1
      /\ \A j \in 1..Len(buf') : buf'[j] = buf[j + 1]
  OBVIOUS
<1>2. 1 \in 1..Len(buf) /\ Head(buf) \in Buffered /\ Head(buf) \in Event
  BY <1>1 DEF Buffered
<1>3. ASSUME NEW j \in 1..Len(buf) PROVE buf[j] \in Buffered' \cup {Head(buf)}
  <2>1. CASE j = 1
    BY <1>1, <2>1
  <2>2. CASE j # 1
    <3>1. j - 1 \in 1..Len(buf') /\ buf'[j - 1] = buf[j]
      BY <1>1, <2>2
    <3> QED
      BY <3>1 DEF Buffered
  <2> QED
    BY <2>1, <2>2
<1>4. ASSUME NEW j \in 1..Len(buf') PROVE buf'[j] \in Buffered
  <2>1. j + 1 \in 1..Len(buf) /\ buf'[j] = buf[j + 1]
    BY <1>1
  <2> QED
    BY <2>1 DEF Buffered
<1> QED
  BY <1>1, <1>2, <1>3, <1>4 DEF Buffered

\* A request made is a free one's.
LEMMA Asking ==
  ASSUME PageTypes, Past, NEW i \in V!Free, V!Ask(i)
  PROVE  /\ loads' \in [Loads -> Request] /\ (\A k \in Loads \ {i} : loads'[k] = loads[k])
         /\ i \in Loads /\ loads[i].pc = "rest" /\ loads'[i].pc = "asked"
         /\ loads'[i].as.name = name /\ loads'[i].as.state = state
<1> DEFINE new == [pc |-> "asked", as |-> V!At(name, state)]
<1>1. new \in Request /\ new.pc = "asked" /\ new.as.name = name /\ new.as.state = state
  BY DEF V!At, Request, As, PageTypes
<1>2. loads' = [loads EXCEPT ![i] = new]
  BY DEF V!Ask
<1> HIDE DEF new
<1> QED
  BY <1>1, <1>2 DEF V!Free, PageTypes

\* Names and states only grow.
LEMMA Growing ==
  ASSUME name \in Nat, state \in Nat, name' \in {name, name + 1}, state' \in {state, state + 1}
  PROVE  \A one \in As : Old(one) => Old(one)'
<1> SUFFICES ASSUME NEW one \in As, Old(one) PROVE Old(one)'
  OBVIOUS
<1>1. one.name \in Nat /\ one.state \in Nat
  BY DEF As
<1> QED
  BY <1>1 DEF Old


\* The newer of two names or states written is written too, and is the newest if one of them is.
LEMMA Newest ==
  ASSUME NEW a \in Nat, NEW b \in Nat, NEW c \in Nat, a <= c, b <= c
  PROVE  V!Larger(a, b) \in Nat /\ V!Larger(a, b) <= c /\ (a = c \/ b = c => V!Larger(a, b) = c)
BY DEF V!Larger


\* No step of a publisher, of the hub or of the page breaks what is on its way to the page.
LEMMA NextPages ==
  ASSUME Pages, [V!Next]_pageVars
  PROVE  Pages'
<1> USE DEF Pages
<1>0. name \in Nat /\ state \in Nat /\ untold \in Nat
  BY DEF PageTypes
<1>A. /\ \A r \in Goroutines : report[r].as \in As
      /\ \A i \in Loads : loads[i].as \in As
      /\ \A e \in Buffered : e \in Event /\ (e.kind = "runner" => e.as \in As)
      /\ held \subseteq As /\ given \in As /\ unanswered \in As
  <2>1. Buffered \subseteq Event
    BY DEF PageTypes, Buffered
  <2>2. \A e \in Event : e.kind = "runner" => e.as \in As
    BY DEF Event
  <2> QED
    BY <2>1, <2>2 DEF PageTypes, Reporting, Request
<1>1. CASE V!Flush
  <2> DEFINE e == CHOOSE f \in held : TRUE
             sent1 == [i \in 1..1 |-> [kind |-> "runner", as |-> e]]
  <2>1. /\ held # {} /\ V!SendLocked(sent1) /\ held' = {}
        /\ UNCHANGED <<name, state, untold, report, loads, es, given, unanswered, said>>
    BY <1>1 DEF V!Flush, V!rows, V!page
  <2>2. e \in held /\ held = {e} /\ e \in As
    BY <2>1 DEF PageTypes
  <2> HIDE DEF e
  <2>3. [kind |-> "runner", as |-> e] \in Event /\ sent1 \in Seq(Event) /\ Len(sent1) = 1 /\ sent1[1] = [kind |-> "runner", as |-> e]
    BY <2>2 DEF Event
  <2> HIDE DEF sent1
  <2>4. /\ buf' \in Seq(Event) /\ subbed' \in BOOLEAN /\ Buffered' \subseteq Buffered \cup {[kind |-> "runner", as |-> e]}
        /\ subbed' => subbed /\ Buffered' = Buffered \cup {[kind |-> "runner", as |-> e]}
    BY <2>1, <2>3, Sending DEF PageTypes
  <2> QED
    <3>1. PageTypes' /\ StateComes'
      BY <2>1, <2>4 DEF PageTypes, StateComes
    <3>2. Past'
      BY <2>1, <2>2, <2>4 DEF Past, Old
    <3>3. NameComes'
      BY <2>1, <2>4 DEF Cut, NameComes
    <3>4. EventComes'
      <4>1. CASE \E f \in held : f.state = state
        <5>1. e.state = state
          BY <2>2, <4>1
        <5>2. subbed' => \E f \in Buffered' : f.kind = "runner" /\ f.as.state = state
          <6> DEFINE f == [kind |-> "runner", as |-> e]
          <6>1. f.kind = "runner" /\ f.as.state = state
            BY <5>1
          <6> HIDE DEF f
          <6> QED
            BY <2>4, <6>1 DEF f
        <5> QED
          BY <2>1, <5>2 DEF Cut, EventComes
      <4>2. CASE ~\E f \in held : f.state = state
        BY <2>1, <2>4, <4>2 DEF Cut, EventComes
      <4> QED
        BY <4>1, <4>2
    <3> QED
      BY <3>1, <3>2, <3>3, <3>4
<1>2. CASE V!Save
  <2>1. /\ name' = name + 1 /\ untold' = untold + 1 /\ UNCHANGED <<state, report, held, buf, subbed, loads, es, given, unanswered, said>>
    BY <1>2 DEF V!Save, V!hub, V!page
  <2>2. Buffered' = Buffered
    BY <2>1 DEF Buffered
  <2>3. PageTypes' /\ NameComes' /\ StateComes' /\ EventComes'
    BY <1>0, <2>1, <2>2 DEF PageTypes, Cut, NameComes, StateComes, EventComes
  <2>4. \A one \in As : Old(one) => Old(one)'
    BY <1>0, <2>1, Growing
  <2>5. Past'
    BY <1>A, <2>1, <2>2, <2>4 DEF Past
  <2> QED
    BY <2>3, <2>5
<1>3. CASE V!Tell
  <2>1. /\ untold > 0 /\ untold' = untold - 1 /\ V!SendLocked(<<[kind |-> "accounts"]>>)
        /\ UNCHANGED <<name, state, report, held, loads, es, given, unanswered, said>>
    BY <1>3 DEF V!Tell, V!page
  <2>2. /\ [kind |-> "accounts"] \in Event /\ <<[kind |-> "accounts"]>> \in Seq(Event)
        /\ Len(<<[kind |-> "accounts"]>>) = 1 /\ <<[kind |-> "accounts"]>>[1] = [kind |-> "accounts"]
    BY DEF Event
  <2>3. /\ buf' \in Seq(Event) /\ subbed' \in BOOLEAN /\ Buffered' \subseteq Buffered \cup {[kind |-> "accounts"]}
        /\ subbed' => subbed /\ Buffered' = Buffered \cup {[kind |-> "accounts"]}
    BY <2>1, <2>2, Sending DEF PageTypes
  <2> QED
    BY <1>0, <2>1, <2>3 DEF PageTypes, Past, Old, Cut, NameComes, StateComes, EventComes
<1>4. CASE V!Hook
  <2>1. V!SendLocked(<<[kind |-> "log"]>>) /\ UNCHANGED <<name, state, untold, report, held, loads, es, given, unanswered, said>>
    BY <1>4 DEF V!Hook, V!page
  <2>2. /\ [kind |-> "log"] \in Event /\ <<[kind |-> "log"]>> \in Seq(Event)
        /\ Len(<<[kind |-> "log"]>>) = 1 /\ <<[kind |-> "log"]>>[1] = [kind |-> "log"]
    BY DEF Event
  <2>3. /\ buf' \in Seq(Event) /\ subbed' \in BOOLEAN /\ Buffered' \subseteq Buffered \cup {[kind |-> "log"]}
        /\ subbed' => subbed /\ Buffered' = Buffered \cup {[kind |-> "log"]}
    BY <2>1, <2>2, Sending DEF PageTypes
  <2> QED
    BY <2>1, <2>3 DEF PageTypes, Past, Old, Cut, NameComes, StateComes, EventComes
<1>5. ASSUME NEW r \in Goroutines, V!Move(r) \/ V!Snapshot(r) \/ V!OnChange(r) PROVE Pages'
  <2>1. /\ UNCHANGED <<name, untold, held, buf, subbed, loads, es, given, unanswered, said>> /\ state' \in {state, state + 1}
        /\ Buffered' = Buffered
    BY <1>5 DEF V!Move, V!Snapshot, V!OnChange, V!rows, V!hub, V!page, Buffered
  <2>2. /\ report' \in [Goroutines -> Reporting] /\ (\A q \in Goroutines \ {r} : report'[q] = report[q])
        /\ report'[r].as.name \in Nat /\ report'[r].as.state \in Nat
        /\ report'[r].as.name <= name /\ report'[r].as.state <= state
        /\ \/ report'[r].pc = "changed" /\ state' = state + 1
           \/ report'[r].pc = "row" /\ state' = state /\ report'[r].as.state = state
           \/ /\ report'[r].pc = "publish" /\ state' = state /\ report[r].pc = "row"
              /\ report'[r].as.state = report[r].as.state
    <3>1. CASE V!Move(r)
      BY <1>0, <3>1 DEF V!Move, PageTypes, Reporting, Past, Old, As
    <3>2. CASE V!Snapshot(r)
      BY <1>0, <3>2 DEF V!Snapshot, V!rows, V!At, PageTypes, Reporting, As
    <3>3. CASE V!OnChange(r)
      BY <1>0, <3>3 DEF V!OnChange, V!rows, V!At, PageTypes, Reporting, Past, Old, As
    <3> QED
      BY <1>5, <3>1, <3>2, <3>3
  <2>3. PageTypes' /\ NameComes' /\ StateComes'
    <3>1. PageTypes'
      BY <1>0, <2>1, <2>2 DEF PageTypes
    <3>2. NameComes'
      BY <2>1, <2>2 DEF Cut, NameComes
    <3>3. StateComes'
      BY <1>0, <2>1, <2>2 DEF PageTypes, StateComes
    <3> QED
      BY <3>1, <3>2, <3>3
  <2>6. \A one \in As : Old(one) => Old(one)'
    BY <1>0, <2>1, Growing
  <2>7. Old(report[r].as)'
    BY <1>0, <2>1, <2>2 DEF Old
  <2>8. said'.most <= state'
    BY <1>0, <2>1 DEF PageTypes, Past
  <2>4. Past'
    BY <1>A, <2>1, <2>2, <2>6, <2>7, <2>8 DEF Past
  <2>5. EventComes'
    <3>1. CASE state' = state
      BY <2>1, <3>1 DEF Cut, EventComes
    <3>2. CASE state' = state + 1
      BY <1>0, <2>1, <3>2 DEF PageTypes, Past, EventComes
    <3> QED
      BY <2>1, <3>1, <3>2
  <2> QED
    BY <2>3, <2>4, <2>5
<1>6. ASSUME NEW r \in Goroutines, V!PublishRunner(r) PROVE Pages'
  <2> DEFINE s == report[r].as.state
  <2>1. /\ UNCHANGED <<name, state, untold, buf, subbed, loads, es, given, unanswered>> /\ Buffered' = Buffered
        /\ report[r].pc = "publish" /\ held' = {report[r].as} /\ report' = [report EXCEPT ![r] = V!Rest]
        /\ said' = [last |-> s, most |-> V!Larger(said.most, s)]
    BY <1>6 DEF V!PublishRunner, V!PublishKeyed, V!rows, V!page, Buffered
  <2>2. report[r].as \in As /\ s \in Nat /\ Old(report[r].as) /\ said.most \in Nat /\ said.most <= state /\ s <= state
    BY DEF PageTypes, Reporting, As, Past, Old
  <2>3. V!Rest \in Reporting /\ V!Rest.pc = "rest" /\ V!Rest.as.name = 0 /\ V!Rest.as.state = 0
    BY DEF V!Rest, V!At, Reporting, As
  <2>4. /\ said' \in [last : Nat, most : Nat] /\ said'.last = s /\ said'.most \in Nat
        /\ said'.last <= said'.most /\ said'.most <= state /\ (s = state \/ said.most = state => said'.most = state)
    BY <1>0, <2>1, <2>2 DEF V!Larger
  <2>5. report' \in [Goroutines -> Reporting] /\ report'[r] = V!Rest /\ (\A q \in Goroutines \ {r} : report'[q] = report[q])
    BY <2>1, <2>3 DEF PageTypes
  <2>6. PageTypes' /\ NameComes'
    BY <2>1, <2>2, <2>4, <2>5 DEF PageTypes, Cut, NameComes
  <2>7. Past'
    BY <1>0, <2>1, <2>2, <2>3, <2>4, <2>5 DEF Past, Old
  <2>8. StateComes'
    BY <2>1, <2>4, <2>5 DEF StateComes
  <2>9. EventComes'
    BY <2>1, <2>4 DEF EventComes
  <2> QED
    BY <2>6, <2>7, <2>8, <2>9
<1>7. ASSUME NEW i \in Loads, V!ListAllAccounts(i) \/ V!Snapshots(i) PROVE Pages'
  <2>1. UNCHANGED <<name, state, untold, report, held, buf, subbed, es, given, unanswered, said>> /\ Buffered' = Buffered
    BY <1>7 DEF V!ListAllAccounts, V!Snapshots, V!rows, V!hub, Buffered
  <2>2. /\ loads' \in [Loads -> Request] /\ (\A k \in Loads \ {i} : loads'[k] = loads[k])
        /\ loads'[i].as.name <= name /\ loads'[i].as.state <= state
        /\ \/ loads[i].pc = "asked" /\ loads'[i].pc = "rows" /\ loads'[i].as.name = name
           \/ /\ loads[i].pc = "rows" /\ loads'[i].pc = "answered" /\ loads'[i].as.name = loads[i].as.name
              /\ loads'[i].as.state = state
    <3>1. CASE V!ListAllAccounts(i)
      BY <1>0, <3>1 DEF V!ListAllAccounts, V!At, PageTypes, Request, As
    <3>2. CASE V!Snapshots(i)
      BY <1>0, <3>2 DEF V!Snapshots, V!At, PageTypes, Request, Past, Old, As
    <3> QED
      BY <1>7, <3>1, <3>2
  <2>3. PageTypes' /\ StateComes' /\ Past'
    BY <2>1, <2>2 DEF PageTypes, StateComes, Past, Old
  <2>4. NameComes'
    BY <2>1, <2>2 DEF Cut, NameComes
  <2>5. EventComes'
    BY <2>1, <2>2 DEF Cut, EventComes
  <2> QED
    BY <2>3, <2>4, <2>5
\* the newer of two that were written was written, and is the newest if one of them is
<1>E. ASSUME NEW a \in As, NEW b \in As, Old(a), Old(b)
      PROVE  /\ V!Newer(a, b) \in As /\ V!Newer(a, b).name <= name /\ V!Newer(a, b).state <= state
             /\ (b.name = name \/ a.name = name => V!Newer(a, b).name = name)
             /\ (b.state = state \/ a.state = state => V!Newer(a, b).state = state)
  <2>1. /\ a.name \in Nat /\ a.state \in Nat /\ b.name \in Nat /\ b.state \in Nat
        /\ a.name <= name /\ a.state <= state /\ b.name <= name /\ b.state <= state
    BY <1>E DEF Old, As
  <2>2. V!Newer(a, b) = [name |-> V!Larger(a.name, b.name), state |-> V!Larger(a.state, b.state)]
    BY DEF V!Newer, V!At
  <2>3. /\ V!Larger(a.name, b.name) \in Nat /\ V!Larger(a.name, b.name) <= name
        /\ (a.name = name \/ b.name = name => V!Larger(a.name, b.name) = name)
    BY <1>0, <2>1, Newest
  <2>4. /\ V!Larger(a.state, b.state) \in Nat /\ V!Larger(a.state, b.state) <= state
        /\ (a.state = state \/ b.state = state => V!Larger(a.state, b.state) = state)
    BY <1>0, <2>1, Newest
  <2> QED
    BY <2>2, <2>3, <2>4 DEF As
\* what the page is given is never older than what it was
<1>8. ASSUME NEW one \in As, Old(one), V!Show(one)
      PROVE  /\ given' \in As /\ given'.name <= name /\ given'.state <= state
             /\ (one.name = name \/ given.name = name => given'.name = name)
             /\ (one.state = state \/ given.state = state => given'.state = state)
  BY <1>8, <1>A, <1>E DEF V!Show, Past
<1>9. ASSUME NEW i \in Loads, V!Answered(i) PROVE Pages'
  <2>1. /\ UNCHANGED <<name, state, untold, report, held, buf, subbed, es, unanswered, said>> /\ Buffered' = Buffered
        /\ loads[i].pc = "answered" /\ V!Show(loads[i].as) /\ loads' = [loads EXCEPT ![i] = V!Rest]
    BY <1>9 DEF V!Answered, V!rows, V!hub, Buffered
  <2>2. V!Rest \in Request /\ V!Rest.pc = "rest" /\ V!Rest.as.name = 0 /\ V!Rest.as.state = 0
    BY DEF V!Rest, V!At, Request, As
  <2>3. loads' \in [Loads -> Request] /\ loads'[i] = V!Rest /\ (\A k \in Loads \ {i} : loads'[k] = loads[k])
    BY <2>1, <2>2 DEF PageTypes
  <2>4. loads[i].as \in As /\ Old(loads[i].as)
    BY DEF PageTypes, Request, Past
  <2>5. /\ given' \in As /\ given'.name <= name /\ given'.state <= state
        /\ (loads[i].as.name = name \/ given.name = name => given'.name = name)
        /\ (loads[i].as.state = state \/ given.state = state => given'.state = state)
    BY <1>8, <2>1, <2>4
  <2>6. PageTypes' /\ StateComes'
    BY <2>1, <2>3, <2>5 DEF PageTypes, StateComes
  <2>7. Past'
    BY <1>0, <2>1, <2>2, <2>3, <2>5 DEF Past, Old
  <2>8. NameComes' /\ EventComes'
    BY <2>1, <2>3, <2>5 DEF Cut, NameComes, EventComes
  <2> QED
    BY <2>6, <2>7, <2>8
<1>14. ASSUME NEW i \in Loads, V!Quiets(i) PROVE Pages'
  <2>1. /\ UNCHANGED <<name, state, untold, report, held, buf, subbed, es, given, said>> /\ Buffered' = Buffered
        /\ loads[i].pc = "asked" /\ unanswered' = V!Newer(unanswered, loads[i].as) /\ loads' = [loads EXCEPT ![i] = V!Rest]
    BY <1>14 DEF V!Quiets, V!rows, V!hub, Buffered
  <2>2. V!Rest \in Request /\ V!Rest.pc = "rest" /\ V!Rest.as.name = 0 /\ V!Rest.as.state = 0
    BY DEF V!Rest, V!At, Request, As
  <2>3. loads' \in [Loads -> Request] /\ loads'[i] = V!Rest /\ (\A k \in Loads \ {i} : loads'[k] = loads[k])
    BY <2>1, <2>2 DEF PageTypes
  <2>4. loads[i].as \in As /\ Old(loads[i].as) /\ unanswered \in As /\ Old(unanswered)
    BY DEF PageTypes, Request, Past
  <2>5. /\ unanswered' \in As /\ unanswered'.name <= name /\ unanswered'.state <= state
        /\ (loads[i].as.name = name \/ unanswered.name = name => unanswered'.name = name)
        /\ (loads[i].as.state = state \/ unanswered.state = state => unanswered'.state = state)
    BY <1>E, <2>1, <2>4
  <2>6. PageTypes' /\ StateComes'
    BY <2>1, <2>3, <2>5 DEF PageTypes, StateComes
  <2>7. Past'
    BY <1>0, <2>1, <2>2, <2>3, <2>5 DEF Past, Old
  <2>8. NameComes' /\ EventComes'
    BY <2>1, <2>3, <2>5 DEF Cut, NameComes, EventComes
  <2> QED
    BY <2>6, <2>7, <2>8
<1>10. CASE V!Subscribe \/ V!OnError
  <2>1. /\ UNCHANGED <<name, state, untold, report, held, loads, given, unanswered, said>> /\ buf' = <<>>
        /\ es' \in {"subscribed", "waiting"} /\ subbed' \in BOOLEAN
    BY <1>10 DEF V!Subscribe, V!OnError, V!rows
  <2>2. Buffered' = {} /\ buf' \in Seq(Event)
    BY <2>1 DEF Buffered
  <2> QED
    BY <2>1, <2>2 DEF PageTypes, Past, Old, Cut, NameComes, StateComes, EventComes
<1>11. CASE V!OnOpen
  <2>1. PICK i \in V!Free : V!Ask(i)
    BY <1>11 DEF V!OnOpen
  <2>2. UNCHANGED <<name, state, untold, report, held, buf, subbed, given, unanswered, said>> /\ Buffered' = Buffered /\ es' = "open"
    BY <1>11 DEF V!OnOpen, V!rows, V!hub, Buffered
  <2>3. /\ loads' \in [Loads -> Request] /\ (\A k \in Loads \ {i} : loads'[k] = loads[k])
        /\ i \in Loads /\ loads[i].pc = "rest" /\ loads'[i].pc = "asked"
        /\ loads'[i].as.name = name /\ loads'[i].as.state = state
    BY <2>1, Asking
  <2> QED
    BY <1>0, <2>2, <2>3 DEF PageTypes, Past, Old, NameComes, StateComes, EventComes
<1>12. CASE V!OnEvent
  <2>1. /\ UNCHANGED <<name, state, untold, report, held, subbed, es, unanswered, said>> /\ buf # <<>> /\ buf' = Tail(buf)
        /\ \/ Head(buf).kind = "accounts" /\ (\E i \in V!Free : V!Ask(i)) /\ UNCHANGED given
           \/ Head(buf).kind = "runner" /\ V!Show(Head(buf).as) /\ UNCHANGED loads
           \/ Head(buf).kind = "log" /\ UNCHANGED <<loads, given>>
    BY <1>12 DEF V!OnEvent, V!rows
  <2>2. PICK top \in Event : top = Head(buf) /\ top \in Buffered /\ buf' \in Seq(Event) /\ Buffered = Buffered' \cup {top}
    BY <2>1, Taking DEF PageTypes
  <2>3. CASE top.kind = "accounts"
    <3>1. PICK i \in V!Free : V!Ask(i)
      BY <2>1, <2>2, <2>3
    <3>2. /\ loads' \in [Loads -> Request] /\ (\A k \in Loads \ {i} : loads'[k] = loads[k])
          /\ i \in Loads /\ loads[i].pc = "rest" /\ loads'[i].pc = "asked"
          /\ loads'[i].as.name = name /\ loads'[i].as.state = state
      BY <3>1, Asking
    <3>3. /\ given' = given /\ \A e \in Buffered : e.kind = "runner" => e \in Buffered'
      BY <2>1, <2>2, <2>3
    <3>4. PageTypes'
      BY <2>1, <2>2, <3>2, <3>3 DEF PageTypes
    <3>5. Past'
      BY <1>0, <2>1, <2>2, <3>2, <3>3 DEF PageTypes, Past, Old
    <3>6. NameComes' /\ StateComes'
      BY <2>1, <2>2, <2>3, <3>2, <3>3 DEF PageTypes, NameComes, StateComes
    <3>7. EventComes'
      BY <2>1, <2>2, <3>2, <3>3 DEF PageTypes, EventComes
    <3> QED
      BY <3>4, <3>5, <3>6, <3>7
  <2>4. CASE top.kind = "runner"
    <3>1. top.as \in As /\ Old(top.as) /\ V!Show(top.as) /\ UNCHANGED loads
      BY <2>1, <2>2, <2>4 DEF Event, Past
    <3>2. /\ given' \in As /\ given'.name <= name /\ given'.state <= state
          /\ (given.name = name => given'.name = name)
          /\ (top.as.state = state \/ given.state = state => given'.state = state)
      BY <1>8, <3>1
    <3> QED
      BY <2>1, <2>2, <2>4, <3>1, <3>2 DEF PageTypes, Past, Old, Cut, NameComes, StateComes, EventComes
  <2>5. CASE top.kind = "log"
    <3>1. UNCHANGED <<loads, given>>
      BY <2>1, <2>2, <2>5
    <3> QED
      BY <2>1, <2>2, <2>5, <3>1 DEF PageTypes, Past, Old, Cut, NameComes, StateComes, EventComes
  <2> QED
    BY <2>1, <2>2, <2>3, <2>4, <2>5
<1>13. CASE V!Push \/ V!Reconnect \/ UNCHANGED pageVars
  <2>1. /\ UNCHANGED <<name, state, untold, report, held, buf, subbed, loads, given, unanswered, said>> /\ Buffered' = Buffered
        /\ es' \in {es, "connecting"}
    BY <1>13 DEF V!Push, V!Reconnect, pageVars, V!rows, V!hub, V!page, Buffered
  <2> QED
    BY <2>1 DEF PageTypes, Past, Old, Cut, NameComes, StateComes, EventComes
<1> QED
  BY <1>1, <1>2, <1>3, <1>4, <1>5, <1>6, <1>7, <1>9, <1>10, <1>11, <1>12, <1>13, <1>14 DEF V!Next

\* NewsArrives: with nothing on its way to a page whose stream is open, the page was
\* given the newest name, and the newest state unless an older one was published last,
\* or a request it made since has failed.
THEOREM NewsArrivesHolds == MCSpec => []NewsArrives
<1>1. MCInit => (part = "pages" => Pages)
  <2> SUFFICES ASSUME V!Init PROVE Pages
    BY Started
  <2>1. V!At(0, 0) \in As /\ V!Rest \in Reporting /\ V!Rest \in Request /\ V!Rest.as = V!At(0, 0) /\ V!Rest.pc = "rest"
    BY DEF V!At, V!Rest, As, Reporting, Request
  <2>2. buf \in Seq(Event) /\ Buffered = {}
    BY DEF V!Init, Buffered
  <2>3. V!At(0, 0).name = 0 /\ V!At(0, 0).state = 0
    BY DEF V!At
  <2> QED
    <3>1. PageTypes
      BY <2>1, <2>2 DEF V!Init, PageTypes
    <3>2. Past
      BY <2>1, <2>2, <2>3 DEF V!Init, Past, Old
    <3>3. NameComes /\ StateComes /\ EventComes
      BY DEF V!Init, Cut, NameComes, StateComes, EventComes
    <3> QED
      BY <3>1, <3>2, <3>3 DEF Pages
<1>2. (part = "pages" => Pages) /\ [MCNext]_mcvars => (part = "pages" => Pages)'
  BY Turn, NextPages
<1>3. (part = "pages" => Pages) => NewsArrives
  <2> SUFFICES ASSUME Pages, V!Quiet PROVE name \in {given.name, unanswered.name} /\ (state \in {given.state, unanswered.state} \/ said.last < said.most)
    BY DEF NewsArrives, V!NewsArrives
  <2>1. Buffered = {} /\ (\A i \in Loads : loads[i].pc = "rest")
    BY DEF V!Quiet, V!Free, Buffered
  <2>2. said.last = said.most \/ said.last < said.most
    BY DEF Pages, PageTypes, Past
  <2> QED
    BY <2>1, <2>2 DEF Pages, PageTypes, V!Quiet, NameComes, StateComes, EventComes, Cut
<1>4. QED
  BY <1>1, <1>2, <1>3, PTL DEF MCSpec
===============================================================================
