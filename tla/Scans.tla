--------------------------------- MODULE Scans ---------------------------------
(***************************************************************************)
(* What becomes of a runner's scan: the board keeps the latest one of each   *)
(* account for the pages, the collector stores its rows and asks Twitch for  *)
(* missing game names, and the campaign waker has the other accounts of the  *)
(* platform scan for a campaign that is new.                                 *)
(* source: src/internal/collect/collector.go, board.go, derive.go,          *)
(*  src/internal/runner/wake.go, link.go, src/internal/api/runners.go,      *)
(*  src/internal/store/drop_states.go, account_scans.go, src/cmd/miner/     *)
(*  roster.go                                                               *)
(***************************************************************************)
EXTENDS Naturals

CONSTANTS Accounts, Campaigns, Games, \* accounts of one platform, campaigns, games in use
          Starts,        \* at first: accounts there are, those not linked, games not named by a campaign
          ScanFaults     \* bound: failed calls, edits, deletions
ASSUME ScansAssumption == \A s \in Starts : s.accounts \subseteq Accounts

VARIABLES listed, games, linkless, kept, \* what the platform lists; each account's games, as campaigns;
                         \* accounts the platform has not linked; accounts not deleted
          scan, asked, fresh, \* each runner's scan; Rescan asked; built and not scanned since
          scans, linked, \* Board
          rows, scanRow, \* drop_states; account_scans
          seen, seeded, pending, news, \* CampaignWaker; campaigns some account woke the others for
          idTried, named, lookup, \* Collector's lookups; games with a Twitch name; the batch under way
          missed, \* games Twitch said it does not know
          recheck, removal, \* the two API handlers
          scFaults
world == <<listed, games, linkless, kept>>
waking == <<seen, seeded, pending, news>>
looking == <<idTried, named, lookup, missed>>
store == <<rows, scanRow>>
board == <<scans, linked>>
scvars == <<world, scan, asked, fresh, board, store, waking, looking, recheck, removal, scFaults>>

Rest == [pc |-> "rest", camps |-> {}, needs |-> FALSE]
NoScan == [had |-> FALSE, camps |-> {}, needs |-> FALSE]
NoRow == [err |-> FALSE, current |-> TRUE]
Fault == scFaults < ScanFaults /\ scFaults' = scFaults + 1
Sure == UNCHANGED scFaults

Init == /\ listed \in {{}, Campaigns} /\ games = [a \in Accounts |-> Campaigns]
        /\ \E s \in Starts : /\ kept = s.accounts /\ linkless = s.linkless /\ named = Games \ s.games
                              /\ removal = [a \in Accounts |-> IF a \in s.accounts THEN "rest" ELSE "never"]
        /\ scan = [a \in Accounts |-> Rest] /\ asked = kept /\ fresh = kept
        /\ scans = [a \in Accounts |-> NoScan] /\ linked = {}
        /\ rows = [a \in Accounts |-> {}] /\ scanRow = [a \in Accounts |-> NoRow]
        /\ seen = {} /\ seeded = {} /\ pending = {} /\ news = {}
        /\ idTried = {} /\ lookup = {} /\ missed = {} /\ recheck = [a \in Accounts |-> "rest"]
        /\ scFaults = 0
-----------------------------------------------------------------------------
(* One scan: what the runner reads, and OnScan in the runner's goroutine.    *)
At(a, pc) == scan' = [scan EXCEPT ![a].pc = pc]
Running(a) == a \in kept /\ removal[a] \in {"rest", "stop"}
Scan(a) == /\ scan[a].pc = "rest" /\ a \in asked /\ Running(a)
           /\ asked' = asked \ {a}
           /\ \/ /\ scan' = [scan EXCEPT ![a] = [pc |-> "observe", camps |-> listed \intersect games[a], needs |-> a \in linkless]]
                 /\ Sure
              \/ Fault /\ At(a, "failed")
           /\ UNCHANGED <<world, fresh, board, store, waking, looking, recheck, removal>>
\* a failed scan is recorded and tried again
ScanFails(a) == /\ scan[a].pc = "failed" /\ At(a, "rest") /\ asked' = asked \union {a}
                /\ scanRow' = [scanRow EXCEPT ![a].err = TRUE]
                /\ UNCHANGED <<world, fresh, board, rows, waking, looking, recheck, removal>> /\ Sure
Observe(a) == /\ scan[a].pc = "observe" /\ At(a, "names")
              /\ scans' = [scans EXCEPT ![a] = [had |-> TRUE, camps |-> scan[a].camps, needs |-> scan[a].needs]]
              /\ linked' = linked \ {a}
              /\ UNCHANGED <<world, asked, fresh, store, waking, looking, recheck, removal>> /\ Sure
\* the lookup of games no campaign has named goes on in the background
StoreTwitchGameIDs(a) ==
  /\ scan[a].pc = "names" /\ At(a, "replace")
  /\ LET due == (Games \ named) \ idTried
     IN idTried' = idTried \union due /\ lookup' = lookup \union due
  /\ UNCHANGED <<world, asked, fresh, board, store, waking, named, missed, recheck, removal>> /\ Sure
LookUpTwitchGameIDs(g) ==
  /\ g \in lookup /\ lookup' = lookup \ {g}
  /\ \/ named' = named \union {g} /\ UNCHANGED <<idTried, missed>> /\ Sure \* found and saved
     \/ missed' = missed \union {g} /\ UNCHANGED <<named, idTried>> /\ Sure
     \/ UNCHANGED <<named, idTried, missed>> /\ Fault \* the save failed
     \/ idTried' = idTried \ {g} /\ UNCHANGED <<named, missed>> /\ Fault \* the call failed
  /\ UNCHANGED <<world, scan, asked, fresh, board, store, waking, recheck, removal>>
RetryDue(g) == /\ g \in idTried \ (named \union lookup) /\ idTried' = idTried \ {g} /\ missed' = missed \ {g} \* twitchIDRetry passes
               /\ UNCHANGED <<world, scan, asked, fresh, board, store, waking, named, lookup, recheck, removal>> /\ Sure
\* Replace swaps the account's rows in one transaction; the account's own delete takes them along
Derive(s) == s.camps
ReplaceRows(a, camps) == rows' = [rows EXCEPT ![a] = camps]
PutAccountScan(a, r) == scanRow' = [scanRow EXCEPT ![a] = r]
Replace(a) ==
  /\ scan[a].pc = "replace" /\ At(a, "wake")
  /\ \/ /\ a \in kept /\ ReplaceRows(a, Derive(scan[a])) /\ Sure
        /\ PutAccountScan(a, NoRow)
     \/ /\ UNCHANGED rows /\ PutAccountScan(a, [err |-> TRUE, current |-> FALSE])
        /\ IF a \in kept THEN Fault ELSE Sure
  /\ UNCHANGED <<world, asked, fresh, board, waking, looking, recheck, removal>>
-----------------------------------------------------------------------------
(* CampaignWaker.                                                            *)
ResultCampaigns(s) == s.camps
WakerOnScan(a) ==
  /\ scan[a].pc = "wake" /\ At(a, "rest")
  /\ LET new == ResultCampaigns(scan[a]) \ seen
         wakes == a \in seeded /\ new # {}
     IN /\ seen' = seen \union new /\ seeded' = seeded \union {a}
        /\ pending' = IF wakes THEN pending \union {a} ELSE pending
        /\ news' = IF wakes THEN news \union new ELSE news
  /\ fresh' = fresh \ {a}
  /\ UNCHANGED <<world, asked, board, store, looking, recheck, removal>> /\ Sure
ExceptSome(finders) == {CHOOSE a \in finders : TRUE} \* mutant: one finder speaks for all
Except(finders) == IF \A a, b \in finders : a = b THEN finders ELSE {}
\* the window is over: RescanPlatform asks every running unit but one
Fire == /\ pending # {} /\ pending' = {}
        /\ asked' = asked \union {a \in Accounts \ Except(pending) : Running(a)}
        /\ UNCHANGED <<world, scan, fresh, board, store, seen, seeded, news, looking, recheck, removal>> /\ Sure
-----------------------------------------------------------------------------
(* What Board.Games shows, and the handlers: "I linked it", and the delete   *)
(* of an account.                                                            *)
NeedsLink(a) == scans[a].had /\ scans[a].needs /\ a \notin linked
BoardGames == [campaigns |-> UNION {scans[a].camps : a \in Accounts}, needsLink |-> {a \in Accounts : NeedsLink(a)},
               queuedBy |-> {a \in Accounts : scans[a].camps # {}}]
RecheckLinks(a) == /\ recheck[a] = "rest" /\ Running(a) /\ asked' = asked \union {a} /\ NeedsLink(a)
                   /\ recheck' = [recheck EXCEPT ![a] = IF a \in linkless THEN "rest" ELSE "clear"]
                   /\ UNCHANGED <<world, scan, fresh, board, store, waking, looking, removal>> /\ Sure
ClearLinks(a) == /\ recheck[a] = "clear" /\ recheck' = [recheck EXCEPT ![a] = "rest"] /\ linked' = linked \union {a}
                 /\ UNCHANGED <<world, scan, asked, fresh, scans, store, waking, looking, removal>> /\ Sure
RemoveAt(a, pc) == removal' = [removal EXCEPT ![a] = pc]
DeleteAccount(a) == /\ a \in kept /\ Fault /\ kept' = kept \ {a} /\ RemoveAt(a, "stop")
                    /\ rows' = [rows EXCEPT ![a] = {}]
                    /\ UNCHANGED <<listed, games, linkless, scan, asked, fresh, board, scanRow, waking, looking, recheck>>
StopsLater(a) == \* mutant: the collector forgets before the runner has stopped
  /\ removal[a] = "stop" /\ RemoveAt(a, "forget")
  /\ UNCHANGED <<world, scan, asked, fresh, board, store, waking, looking, recheck>> /\ Sure
\* ReloadAccount waits for the unit, so no OnScan is under way any more
AccountStopped(a) == /\ removal[a] = "stop" /\ scan[a].pc = "rest" /\ RemoveAt(a, "forget")
                     /\ UNCHANGED <<world, scan, asked, fresh, board, store, waking, looking, recheck>> /\ Sure
Forget(a) == /\ removal[a] = "forget" /\ RemoveAt(a, "gone") /\ scans' = [scans EXCEPT ![a] = NoScan] /\ linked' = linked \ {a}
             /\ UNCHANGED <<world, scan, asked, fresh, store, waking, looking, recheck>> /\ Sure
\* an account added later; its id is new, so the waker does not know it
AccountAdded(a) == /\ removal[a] = "gone" /\ recheck[a] = "rest" /\ RemoveAt(a, "rest") /\ kept' = kept \union {a}
                   /\ asked' = asked \union {a} /\ fresh' = fresh \union {a}
                   /\ seeded' = seeded \ {a} /\ linked' = linked \ {a}
                   /\ scanRow' = [scanRow EXCEPT ![a] = NoRow]
                   /\ UNCHANGED <<listed, games, linkless, scan, scans, rows, seen, pending, news, looking, recheck>> /\ Sure
-----------------------------------------------------------------------------
(* The platform, the user, the runners' own clocks.                          *)
Publish(c) == /\ c \notin listed /\ listed' = listed \union {c} /\ fresh' = {}
              /\ UNCHANGED <<games, linkless, kept, scan, asked, board, store, waking, looking, recheck, removal>> /\ Sure
Link(a) == /\ linkless' = linkless \ {a} /\ a \in linkless
           /\ UNCHANGED <<listed, games, kept, scan, asked, fresh, board, store, waking, looking, recheck, removal>> /\ Sure
\* the account's games are saved and its runner rebuilt
GamesSaved(a) == \E c \in Campaigns :
  /\ Running(a) /\ scan[a].pc = "rest" /\ Fault
  /\ games' = [games EXCEPT ![a] = IF c \in @ THEN @ \ {c} ELSE @ \union {c}]
  /\ asked' = asked \union {a} /\ fresh' = fresh \union {a}
  /\ UNCHANGED <<listed, linkless, kept, scan, board, store, waking, looking, recheck, removal>>
ScanDue(a) == /\ Running(a) /\ a \notin asked /\ asked' = asked \union {a}
              /\ UNCHANGED <<world, scan, fresh, board, store, waking, looking, recheck, removal>> /\ Sure

Next == \/ \E a \in Accounts : \/ Scan(a) \/ ScanFails(a) \/ Observe(a) \/ StoreTwitchGameIDs(a) \/ Replace(a) \/ WakerOnScan(a)
                               \/ RecheckLinks(a) \/ ClearLinks(a) \/ DeleteAccount(a) \/ AccountStopped(a) \/ Forget(a) \/ AccountAdded(a)
                               \/ Link(a) \/ GamesSaved(a) \/ ScanDue(a)
        \/ \E g \in Games : LookUpTwitchGameIDs(g) \/ RetryDue(g)
        \/ \E c \in Campaigns : Publish(c)
        \/ Fire
Spec == Init /\ [][Next]_scvars
-----------------------------------------------------------------------------
TypeOK == /\ listed \subseteq Campaigns /\ kept \subseteq Accounts /\ pending \subseteq Accounts /\ seeded \subseteq Accounts
          /\ \A a \in Accounts : scan[a].pc \in {"rest", "observe", "failed", "names", "replace", "wake"}
          /\ \A a \in Accounts : scans[a].camps \subseteq Campaigns /\ rows[a] \subseteq Campaigns
          /\ lookup \subseteq idTried /\ idTried \subseteq Games /\ named \subseteq Games

(* wake.go "wakes the other accounts on a platform when one account's scan      *)
(* finds a campaign no account there listed before": with no window open and no *)
(* scan asked for or under way, every account with that game has it.            *)
EveryoneWoken == pending = {} =>
  \A a \in kept : a \notin asked /\ scan[a].pc = "rest" => news \intersect games[a] \subseteq scans[a].camps
(* collector.go Forget "drops an account's board scan ... after the account is  *)
(* deleted": no scan still in hand brings it back.                              *)
ForgottenStays == \A a \in Accounts : removal[a] = "gone" => a \notin BoardGames.queuedBy \union BoardGames.needsLink
(* wake.go "a start or a runner rebuild wakes nobody": but an account stays     *)
(* seeded through a rebuild, and the one with a longer games list finds more.   *)
FreshWakesNobody == \A a \in Accounts : pending' = pending \union {a} /\ pending' # pending => a \notin fresh
RebuildWakesNobody == [][FreshWakesNobody]_pending
(* board.go ClearLinks "hides accountID's link needs until its next scan": one   *)
(* that was under way, and read the platform before the link, shows them again. *)
StaysHidden == \A a \in Accounts : a \in linked /\ NeedsLink(a)' => a \in linkless
HiddenTillRescan == [][StaysHidden]_board
(* collector.go lookUpTwitchGameIDs "a miss waits twitchIDRetry; an error        *)
(* retries on the next scan": an error of the store waits like a miss.           *)
ErrorRetries == idTried \subseteq named \union lookup \union missed
=============================================================================
