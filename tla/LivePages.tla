------------------------------ MODULE LivePages ------------------------------
(***************************************************************************)
(* How an open page learns of a change: the event hub (Publish, the flush of *)
(* coalesced runner events, the drop of a subscriber whose buffer is full),  *)
(* the /api/events stream, and the page's live store, which refetches on     *)
(* opening a stream and on an event and reconnects when the stream ends.     *)
(* One account, one page. A name is the number of the save that wrote it, a  *)
(* runner's state the number of its change.                                  *)
(* source: src/internal/api/events.go, src/internal/log/log.go,             *)
(*  src/web/src/lib/stores/live.svelte.ts, src/cmd/miner/{roster,main}.go,   *)
(*  src/internal/api/{accounts,runners}.go                                  *)
(***************************************************************************)
EXTENDS Naturals, Sequences

CONSTANTS Goroutines,        \* the runner's goroutines that report a change
          Loads,             \* bound: requests for the runner list under way at once
          SubBuffer,         \* subBuffer (64)
          Saves, Changes,    \* bounds: saves of the account row, changes of the runner
          PageFaults         \* bound: streams cut, requests failed

VARIABLES name, state,       \* the account row's; the runner's
          untold, logging,   \* saves not published yet; a log line on its way to the hub
          report,            \* changed() under way in a goroutine
          pending,           \* Hub.pending: the coalesced runner event
          buf, subbed,       \* the subscriber's channel; it is one of Hub.subs
          es, load,          \* the page's EventSource; its GET /api/runners requests
          shown, given,      \* the runner the page shows; the newest it was ever given
          said,              \* the states the runner events carried: the last one, the newest
          unanswered,        \* history: the newest there was when a request was made that failed
          pageFaults
rows == <<name, state, untold, logging>>
hub == <<pending, buf, subbed>>
page == <<es, load, shown, given>>
lpvars == <<rows, report, hub, page, said, unanswered, pageFaults>>

At(n, s) == [name |-> n, state |-> s]
Rest == [pc |-> "rest", as |-> At(0, 0)]
Fault == pageFaults < PageFaults /\ pageFaults' = pageFaults + 1
Larger(a, b) == IF a > b THEN a ELSE b
Init == /\ name = 0 /\ state = 0 /\ untold = 0 /\ logging = FALSE
        /\ report = [g \in Goroutines |-> Rest] /\ load = [i \in Loads |-> Rest]
        /\ pending = {} /\ buf = <<>> /\ subbed = FALSE
        /\ es = "connecting" /\ shown = At(0, 0) /\ given = At(0, 0)
        /\ said = [last |-> 0, most |-> 0] /\ unanswered = At(0, 0) /\ pageFaults = 0
-----------------------------------------------------------------------------
(* Hub.sendLocked: a subscriber with no room is dropped and its channel      *)
(* closed; what is already in the channel is still read from it.             *)
\* mutant: a full subscriber misses the events and stays
SkipFull(es1) == /\ buf' = IF subbed /\ Len(buf) + Len(es1) <= SubBuffer THEN buf \o es1 ELSE buf
                 /\ UNCHANGED subbed
SendLocked(es1) ==
  LET room == Len(buf) + Len(es1) <= SubBuffer
  IN  /\ buf' = IF subbed /\ room THEN buf \o es1 ELSE buf
      /\ subbed' = (subbed /\ room)
PublishKeyed(e) == pending' = {e} /\ UNCHANGED <<buf, subbed>>
Flush == /\ pending # {} /\ SendLocked([i \in 1..1 |-> [kind |-> "runner", as |-> CHOOSE e \in pending : TRUE]])
         /\ pending' = {} /\ UNCHANGED <<rows, report, page, said, unanswered, pageFaults>>

(* A handler saves the row, then publishes that the accounts changed.        *)
Save == /\ name < Saves /\ name' = name + 1 /\ untold' = untold + 1
        /\ UNCHANGED <<state, logging, report, hub, page, said, unanswered, pageFaults>>
Tell == /\ untold > 0 /\ untold' = untold - 1 /\ SendLocked(<<[kind |-> "accounts"]>>)
        /\ UNCHANGED <<name, state, logging, report, pending, page, said, unanswered, pageFaults>>

(* setState and changed(): the runner moves, a snapshot is taken outside its *)
(* lock, OnChange reads the row, and the event carries both.                 *)
Move(g) == /\ report[g].pc = "rest" /\ state < Changes /\ state' = state + 1
           /\ report' = [report EXCEPT ![g].pc = "changed"]
           /\ UNCHANGED <<name, untold, logging, hub, page, said, unanswered, pageFaults>>
Snapshot(g) == /\ report[g].pc = "changed"
               /\ report' = [report EXCEPT ![g] = [pc |-> "row", as |-> At(0, state)]]
               /\ UNCHANGED <<rows, hub, page, said, unanswered, pageFaults>>
OnChange(g) == /\ report[g].pc = "row"
               /\ report' = [report EXCEPT ![g] = [pc |-> "publish", as |-> At(name, @.as.state)]]
               /\ UNCHANGED <<rows, hub, page, said, unanswered, pageFaults>>
PublishRunner(g) == /\ report[g].pc = "publish" /\ PublishKeyed(report[g].as)
                    /\ LET s == report[g].as.state IN said' = [last |-> s, most |-> Larger(said.most, s)]
                    /\ report' = [report EXCEPT ![g] = Rest]
                    /\ UNCHANGED <<rows, page, unanswered, pageFaults>>

(* Ring.Push keeps the line under its lock and calls the hook outside it.    *)
Push == /\ ~logging /\ logging' = TRUE
        /\ UNCHANGED <<name, state, untold, report, hub, page, said, unanswered, pageFaults>>
Hook == /\ logging /\ logging' = FALSE /\ SendLocked(<<[kind |-> "log"]>>)
        /\ UNCHANGED <<name, state, untold, report, pending, page, said, unanswered, pageFaults>>
-----------------------------------------------------------------------------
(* GET /api/runners: the rows are read, then the pool's snapshots. A request *)
(* that fails, on its way or at the rows, is swallowed, and not made again.  *)
Ask(i) == load' = [load EXCEPT ![i] = [pc |-> "asked", as |-> At(name, state)]]
ListAllAccounts(i) == /\ load[i].pc = "asked" /\ load' = [load EXCEPT ![i] = [pc |-> "rows", as |-> At(name, 0)]]
                      /\ UNCHANGED <<rows, report, hub, es, shown, given, said, unanswered, pageFaults>>
Snapshots(i) == /\ load[i].pc = "rows"
                /\ load' = [load EXCEPT ![i] = [pc |-> "answered", as |-> At(@.as.name, state)]]
                /\ UNCHANGED <<rows, report, hub, es, shown, given, said, unanswered, pageFaults>>
Newer(a, b) == At(Larger(a.name, b.name), Larger(a.state, b.state))
Show(as) == shown' = as /\ given' = Newer(given, as)
Answered(i) == /\ load[i].pc = "answered" /\ Show(load[i].as) /\ load' = [load EXCEPT ![i] = Rest]
               /\ UNCHANGED <<rows, report, hub, es, said, unanswered, pageFaults>>
Quiets(i) == /\ load[i].pc = "asked" /\ Fault /\ load' = [load EXCEPT ![i] = Rest]
             /\ unanswered' = Newer(unanswered, load[i].as)
             /\ UNCHANGED <<rows, report, hub, es, shown, given, said>>
Free == {i \in Loads : load[i].pc = "rest"}

(* The stream: the handler subscribes before it answers, and the page        *)
(* refetches when the answer opens the stream.                               *)
Subscribe == /\ es = "connecting" /\ es' = "subscribed" /\ subbed' = TRUE /\ buf' = <<>>
             /\ UNCHANGED <<rows, report, pending, load, shown, given, said, unanswered, pageFaults>>
OnOpen == /\ es = "subscribed" /\ es' = "open" /\ \E i \in Free : Ask(i)
          /\ UNCHANGED <<rows, report, hub, shown, given, said, unanswered, pageFaults>>
OnEvent == /\ es = "open" /\ buf # <<>> /\ buf' = Tail(buf)
           /\ \/ Head(buf).kind = "accounts" /\ (\E i \in Free : Ask(i)) /\ UNCHANGED <<shown, given>>
              \/ Head(buf).kind = "runner" /\ Show(Head(buf).as) /\ UNCHANGED load
              \/ Head(buf).kind = "log" /\ UNCHANGED <<load, shown, given>>
           /\ UNCHANGED <<rows, report, pending, subbed, es, said, unanswered, pageFaults>>
(* The stream ends: the server closed the channel, or the connection broke.  *)
OnError == /\ es = "open" /\ es' = "waiting"
           /\ \/ ~subbed /\ buf = <<>> /\ UNCHANGED pageFaults
              \/ Fault
           /\ subbed' = FALSE /\ buf' = <<>>
           /\ UNCHANGED <<rows, report, pending, load, shown, given, said, unanswered>>
Reconnect == /\ es = "waiting" /\ es' = "connecting"
             /\ UNCHANGED <<rows, report, hub, load, shown, given, said, unanswered, pageFaults>>

Next == \/ Flush \/ Save \/ Tell \/ Push \/ Hook
        \/ \E g \in Goroutines : Move(g) \/ Snapshot(g) \/ OnChange(g) \/ PublishRunner(g)
        \/ \E i \in Loads : ListAllAccounts(i) \/ Snapshots(i) \/ Answered(i) \/ Quiets(i)
        \/ Subscribe \/ OnOpen \/ OnEvent \/ OnError \/ Reconnect
Spec == Init /\ [][Next]_lpvars
-----------------------------------------------------------------------------
TypeOK == /\ name \in 0..Saves /\ state \in 0..Changes /\ untold \in 0..Saves /\ said.most \in 0..Changes
          /\ \A g \in Goroutines : report[g].pc \in {"rest", "changed", "row", "publish"}
          /\ \A i \in Loads : load[i].pc \in {"rest", "asked", "rows", "answered"}
          /\ Len(buf) <= SubBuffer /\ es \in {"connecting", "subscribed", "open", "waiting"}
          /\ subbed \in BOOLEAN /\ logging \in BOOLEAN

(* Everything published and read, with the page's stream open.               *)
Quiet == /\ untold = 0 /\ pending = {} /\ es = "open" /\ subbed /\ buf = <<>> /\ Free = Loads
         /\ \A g \in Goroutines : report[g].pc = "rest"

(* When nothing is on its way to a page whose stream is open, the page has   *)
(* been given the newest name, and the newest state as well: no event is     *)
(* lost between a save and a page, by a full buffer, a broken stream, an     *)
(* event coalesced away or a change between the refetch and the subscription *)
(* (unless a request made since then failed; and the newest state, unless a  *)
(* snapshot was published after a newer one).                                *)
NewsArrives == Quiet => /\ name \in {given.name, unanswered.name}
                        /\ state \in {given.state, unanswered.state} \/ said.last < said.most

(* live.svelte.ts:106 "the client reports unreachable and 401 itself": a page *)
(* that does not say it is unreachable, its stream open, has the newest name. *)
NewestGiven == Quiet => given.name = name
(* roster.go:477: "Read the row fresh so a rename shows".                    *)
RenameShows == Quiet => shown.name = name
(* The page shows the runner as it is.                                       *)
StateShows == Quiet => shown.state = state
=============================================================================
