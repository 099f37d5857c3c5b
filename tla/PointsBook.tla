------------------------------ MODULE PointsBook ------------------------------
(***************************************************************************)
(* The cached channel-points balances of one account: the refresher's pass  *)
(* reads due pairs, "Refresh now" makes them all due, the claim loop of the *)
(* runner records what it learns, and the page loads the cache when it is   *)
(* told of a change.                                                        *)
(* source: src/internal/points/refresher.go, src/internal/store/            *)
(*  points_balances.go, src/internal/store/gen/points_balances.sql.go,      *)
(*  src/internal/platform/twitch/community_points.go, src/cmd/miner/        *)
(*  points.go, src/internal/api/points.go                                   *)
(***************************************************************************)
EXTENDS Naturals, FiniteSets

CONSTANTS Pairs,          \* the account with each Force watch channel
          NoPair,
          Every, Retry, RetryMax, Cooldown, \* in ticks of half a second
          EndOfTime, MaxWorth, PointsFaults \* bounds: clock; balance; failed calls and edits

VARIABLES worth,         \* Twitch's balances
          assigned, reading, \* the Force watch assignment; account enabled with points on
          book,          \* points_balances
          tick,          \* the clock; a second is two ticks
          dueBefore, lastManual, wake, \* Refresher
          pass, hook,    \* the pass under way; the claim loop's balance on its way
          page, stalePage, \* the page; whether it was told of a change
          since,         \* reads of each pair since the last refresh was asked for that are not lost
          pbFaults
asked == <<dueBefore, lastManual, wake>>
shownPage == <<page, stalePage>>
pbvars == <<worth, assigned, reading, book, tick, asked, pass, hook, shownPage, since, pbFaults>>

Unlearned == [pc |-> "rest", pair |-> NoPair, bal |-> 0, changed |-> FALSE]
NoBalance == [had |-> FALSE, known |-> FALSE, bal |-> 0, checked |-> 0, err |-> "none", failures |-> 0]
Idle == [pc |-> "rest", todo |-> {}, snap |-> [p \in Pairs |-> NoBalance], pair |-> NoPair,
         forced |-> FALSE, answer |-> "none", bal |-> 0, changed |-> FALSE]
Fault == pbFaults < PointsFaults /\ pbFaults' = pbFaults + 1
Second(t) == t - (t % 2)
Whole(t) == t \* mutant: the time as it is
Cut(t) == Second(t)
-----------------------------------------------------------------------------
(* The store and the page's view of it.                                      *)
UpsertPointsBalance(b, p, bal) ==
  [b EXCEPT ![p] = [NoBalance EXCEPT !.had = TRUE, !.known = TRUE, !.bal = bal, !.checked = Second(tick)]]
UpsertPointsBalanceError(b, p, code, failures) ==
  [b EXCEPT ![p].had = TRUE, ![p].checked = Second(tick), ![p].err = code, ![p].failures = failures]
PrunePointsBalances(b) == [p \in Pairs |-> IF p \in assigned THEN b[p] ELSE NoBalance]

PointsBalance(b) == [bal |-> IF b.known THEN {b.bal} ELSE {},
                     status |-> IF b.had /\ b.err = "unavailable" THEN "unavailable"
                                ELSE IF ~reading THEN "off" ELSE IF ~b.had THEN "pending"
                                ELSE IF b.err = "failed" THEN "error" ELSE "ok"]
Counted(view) == {p \in DOMAIN view : view[p].status # "unavailable"}
ReadOf(view) == {p \in Counted(view) : view[p].status \in {"ok", "error"}}
SumState(view) == IF ReadOf(view) # {} /\ \A p \in ReadOf(view) : view[p].status = "error" THEN "failed"
                  ELSE IF \E p \in Counted(view) : view[p].bal # {} THEN "ok"
                  ELSE IF \E p \in Counted(view) : view[p].status = "pending" THEN "pending" ELSE "none"
ForcePoints == [p \in assigned |-> PointsBalance(book[p])]
GetPoints == [rows |-> ForcePoints, tile |-> SumState(ForcePoints)]

Init == /\ worth = [p \in Pairs |-> 0] /\ assigned = Pairs /\ reading = TRUE
        /\ book = [p \in Pairs |-> NoBalance] /\ tick = 2
        /\ dueBefore = 0 /\ lastManual = 0 /\ wake = FALSE
        /\ pass = Idle /\ hook = Unlearned
        /\ page = GetPoints /\ stalePage = FALSE
        /\ since = [p \in Pairs |-> 0] /\ pbFaults = 0
-----------------------------------------------------------------------------
(* A pass: it prunes, lists targets and cache, and works through the targets *)
(* by the cache it read.                                                     *)
Backoff(failures) == LET d == Retry * 2 ^ (failures - 1) IN IF d < RetryMax THEN d ELSE RetryMax
NextAt(b) == b.checked + IF b.err = "failed" THEN Backoff(b.failures) ELSE Every
Forced(b) == b.had /\ b.checked < dueBefore
PointsTargets == IF reading THEN assigned ELSE {}
Quiet == UNCHANGED <<worth, assigned, reading, tick, dueBefore, lastManual, hook, page>>
\* OnChange
Publish(changed) == stalePage' = (stalePage \/ changed)
EndPass(changed) == pass' = Idle /\ Publish(changed)
\* what was read of a channel no longer assigned is lost with its row
Pruned == since' = [p \in Pairs |-> IF p \in assigned THEN since[p] ELSE 0]
Pass ==
  /\ pass.pc = "rest"
  /\ wake' \in {FALSE, wake} \* a wake, or the tick
  /\ \/ LET kept == PrunePointsBalances(book)
        IN /\ book' = kept /\ Pruned /\ UNCHANGED <<stalePage, pbFaults>>
           /\ pass' = [Idle EXCEPT !.pc = "next", !.todo = PointsTargets, !.snap = kept, !.changed = kept # book]
     \/ Fault /\ book' = PrunePointsBalances(book) /\ Pruned /\ EndPass(book' # book) \* a list failed
     \/ /\ Fault /\ UNCHANGED <<book, stalePage, since>> \* the prune failed
        /\ pass' = [Idle EXCEPT !.pc = "next", !.todo = PointsTargets, !.snap = book]
  /\ Quiet
PassNext ==
  /\ pass.pc = "next"
  /\ IF pass.todo = {} THEN EndPass(pass.changed) /\ UNCHANGED since
     ELSE LET p == CHOOSE q \in pass.todo : TRUE
              b == pass.snap[p]
              rest == [pass EXCEPT !.todo = @ \ {p}]
          IN /\ UNCHANGED stalePage
             /\ IF b.had /\ ~Forced(b) /\ tick < NextAt(b)
                THEN pass' = rest /\ UNCHANGED since
                ELSE /\ pass' = [rest EXCEPT !.pc = "fetch", !.pair = p, !.forced = Forced(b)]
                     /\ since' = [since EXCEPT ![p] = IF @ = 2 THEN 2 ELSE @ + 1]
  /\ UNCHANGED <<book, wake, pbFaults>> /\ Quiet
\* the answers of ChannelPointsContext
FetchPointsBalance == \E answer \in {"ok", "unavailable", "failed"} :
  /\ pass.pc = "fetch"
  /\ pass' = [pass EXCEPT !.pc = "store", !.answer = answer, !.bal = IF answer = "ok" THEN worth[pass.pair] ELSE 0]
  /\ IF answer = "ok" THEN UNCHANGED pbFaults ELSE Fault
  /\ UNCHANGED <<book, wake, stalePage, since>> /\ Quiet
\* whether the outcome is news against prev
News(prev, answer, bal) == ~prev.had \/ IF answer = "ok" THEN ~prev.known \/ prev.bal # bal \/ prev.err # "none"
                                        ELSE prev.err # answer
FetchStore ==
  /\ pass.pc = "store"
  /\ LET prev == pass.snap[pass.pair]
         failures == IF pass.answer # "failed" THEN 0
                     ELSE IF prev.had /\ prev.err = "failed" THEN prev.failures + 1 ELSE 1
         next == [pass EXCEPT !.pc = "next", !.pair = NoPair, !.forced = FALSE, !.answer = "none", !.bal = 0]
         changed(news) == [next EXCEPT !.changed = @ \/ news \/ pass.forced]
     IN \/ /\ book' = IF pass.answer = "ok" THEN UpsertPointsBalance(book, pass.pair, pass.bal)
                      ELSE UpsertPointsBalanceError(book, pass.pair, pass.answer, failures)
           /\ pass' = changed(News(prev, pass.answer, pass.bal)) /\ UNCHANGED <<since, pbFaults>>
        \/ /\ Fault /\ pass' = changed(FALSE) /\ UNCHANGED book \* the write failed: the read is lost
           /\ since' = [since EXCEPT ![pass.pair] = 0]
  /\ UNCHANGED <<wake, stalePage>> /\ Quiet
-----------------------------------------------------------------------------
(* The claim loop: it claims a bonus or only reads the balance, and records  *)
(* it when the channel is still assigned.                                    *)
Others == UNCHANGED <<assigned, reading, tick, asked, pass, page, since, pbFaults>>
ClaimChannelPoints(p) ==
  /\ hook.pc = "rest" /\ reading
  /\ \/ worth[p] < MaxWorth /\ worth' = [worth EXCEPT ![p] = @ + 1]
     \/ UNCHANGED worth
  /\ hook' = [Unlearned EXCEPT !.pc = "get", !.pair = p, !.bal = worth'[p]]
  /\ UNCHANGED <<book, stalePage>> /\ Others
PointsBalanceHook ==
  /\ hook.pc = "get"
  /\ hook' = IF hook.pair \in assigned
             THEN [hook EXCEPT !.pc = "put", !.changed = News(book[hook.pair], "ok", hook.bal)]
             ELSE Unlearned
  /\ UNCHANGED <<worth, book, stalePage>> /\ Others
Record == /\ hook.pc = "put" /\ hook' = Unlearned
          /\ book' = UpsertPointsBalance(book, hook.pair, hook.bal) /\ Publish(hook.changed)
          /\ UNCHANGED worth /\ Others

\* RefreshNow: a click; within Cooldown it does nothing
PostPointsRefresh ==
  /\ lastManual = 0 \/ tick >= lastManual + Cooldown
  /\ lastManual' = tick /\ dueBefore' = Cut(tick) /\ wake' = TRUE
  /\ since' = [p \in Pairs |-> 0]
  /\ UNCHANGED <<worth, assigned, reading, book, tick, pass, hook, shownPage, pbFaults>>
PageLoads == /\ stalePage /\ page' = GetPoints /\ stalePage' = FALSE
             /\ UNCHANGED <<worth, assigned, reading, book, tick, asked, pass, hook, since, pbFaults>>
\* a save of the account or of the list; the page that made it loads again
Save == /\ Fault
        /\ \/ reading' = ~reading /\ UNCHANGED assigned
           \/ \E p \in Pairs : /\ assigned' = IF p \in assigned THEN assigned \ {p} ELSE assigned \union {p}
                               /\ UNCHANGED reading
        /\ stalePage' = TRUE
        /\ UNCHANGED <<worth, book, tick, asked, pass, hook, page, since>>
Tick == /\ tick < EndOfTime /\ tick' = tick + 1
        /\ UNCHANGED <<worth, assigned, reading, book, asked, pass, hook, shownPage, since, pbFaults>>

Next == \/ Pass \/ PassNext \/ FetchPointsBalance \/ FetchStore
        \/ (\E p \in Pairs : ClaimChannelPoints(p)) \/ PointsBalanceHook \/ Record
        \/ PostPointsRefresh \/ PageLoads \/ Save \/ Tick
Spec == Init /\ [][Next]_pbvars
-----------------------------------------------------------------------------
TypeOK == /\ worth \in [Pairs -> 0..MaxWorth] /\ assigned \subseteq Pairs /\ {reading, wake, stalePage} \subseteq BOOLEAN
          /\ \A p \in Pairs : book[p].err \in {"none", "failed", "unavailable"} /\ book[p].checked \in 0..EndOfTime
          /\ pass.pc \in {"rest", "next", "fetch", "store"} /\ hook.pc \in {"rest", "get", "put"}
          /\ since \in [Pairs -> 0..2] /\ pbFaults \in 0..PointsFaults

(* refresher.go:136 "Pairs a pass in flight reads after the call count as     *)
(* read, so a running pass and the woken one never read a pair twice": from a *)
(* click on, a pair is read once until its time comes again, though the store *)
(* keeps whole seconds and the click has a time within one.                   *)
NeverTwice == \A p \in Pairs : since[p] = 2 => tick >= Second(lastManual) + Retry
(* refresher.go:135 "RefreshNow makes every current pair due": once the pass  *)
(* it woke is over, every pair was read since.                                *)
RefreshReadsAll == lastManual # 0 /\ ~wake /\ pass.pc = "rest" /\ reading /\ pbFaults = 0
                     => \A p \in assigned : since[p] > 0
(* refresher.go:55 OnChange is "called after a pass or Record changed a cached *)
(* balance or error state": with nothing under way, the page has the cache's. *)
PageIsCache == pass.pc = "rest" /\ hook.pc = "rest" /\ ~stalePage => page = GetPoints
(* points.go:81 "a balance the claim loop learned on one of a's Force watch    *)
(* channels goes into the cache": it is not put back to what it was before.    *)
NotLess == \A p \in Pairs : book[p].known /\ book'[p].known => book'[p].bal >= book[p].bal
NeverBack == [][NotLess]_book
=============================================================================
