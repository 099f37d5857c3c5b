------------------------------ MODULE KickWatch ------------------------------
(***************************************************************************)
(* A Kick account's watch: the viewer WebSocket, the Chrome sidecar it      *)
(* falls back to in auto mode, the containers the registry starts on demand *)
(* and the reaper that stops idle ones and removes orphans.                 *)
(* source: src/internal/platform/kick/{backend,sidecars,wswatch}.go,        *)
(* src/internal/auth/browser/sidecar/{server,browser,kick_watch}.go,        *)
(* src/internal/auth/browser/client.go, src/internal/dockerctl/dockerctl.go *)
(***************************************************************************)
EXTENDS Naturals, FiniteSets

CONSTANTS Accounts, Names, NoName,
          NamesOf,      \* the names an account's display name may give
          MaxReconnect, \* wsMaxReconnect
          MaxStalls,    \* maxWatchStalls
          Faults,       \* bound: failing calls, dropped connections, stalls, and passes
                        \* of the reaper that meet a watch's container
          Edits         \* bound: accounts added, deleted, renamed, watches stopped, idle spells

VARIABLES live,     \* accounts of the roster
          reg,      \* sidecarRegistry.byAcc: the container's name, NoName for an account it has not
          active,   \* lastActive: "never", "stale" (older than idleGrace), "fresh"
          box,      \* docker: "absent", "stopped", "running"
          label,    \* the account label of a managed container
          tabs,     \* open watch tabs of a container; own: its handle is the account's watch
          opens,    \* StartWatch calls the sidecar is serving: <<account, name>>
          watch,    \* the account's watch, as its runner and the backend see it
          wsFailed, \* accounts whose WebSocket died (auto mode)
          reaper,   \* the reaper's pass
          kFaults, kEdits

kvars == <<live, reg, active, box, label, tabs, opens, watch, wsFailed, reaper, kFaults, kEdits>>
docker == <<box, label, tabs, opens>>

\* watch.pc: idle, ws (its loop runs), wsDead, inspect, wait (for the server
\* to answer), open (StartWatch is called), chrome (a tab plays)
At(pc, name, attempt) == [pc |-> pc, name |-> name, attempt |-> attempt]
NoWatch == At("idle", NoName, 0)
Resting == [pc |-> "rest", cands |-> {}, listed |-> {}, keep |-> {}]
Open(a, own) == [acc |-> a, own |-> own, stalls |-> 0]

Init == /\ live \in SUBSET Accounts /\ reg \in [Accounts -> Names \union {NoName}]
        /\ \A a \in Accounts : IF a \in live THEN reg[a] \in NamesOf[a] ELSE reg[a] = NoName
        /\ active = [a \in Accounts |-> "never"]
        /\ \E left \in SUBSET Names : \* containers an earlier process created
             /\ box = [n \in Names |-> IF n \in left THEN "stopped" ELSE "absent"]
             /\ label \in [Names -> {{}} \union {{a} : a \in Accounts}]
             /\ \A n \in Names : IF n \in left THEN \E a \in Accounts : label[n] = {a} /\ n \in NamesOf[a]
                                                ELSE label[n] = {}
        /\ tabs = [n \in Names |-> {}] /\ opens = {}
        /\ watch = [a \in Accounts |-> NoWatch] /\ wsFailed = {} /\ reaper = Resting
        /\ kFaults = 0 /\ kEdits = 0

Fault == kFaults < Faults /\ kFaults' = kFaults + 1
Edit  == kEdits < Edits /\ kEdits' = kEdits + 1
To(a, pc) == watch' = [watch EXCEPT ![a] = At(pc, @.name, @.attempt)]
Touch(a)  == active' = [active EXCEPT ![a] = "fresh"]
-----------------------------------------------------------------------------
MarkWSForgot(a) == UNCHANGED wsFailed
MarkWSFailed(a) == wsFailed' = wsFailed \union {a}

(* StartWatch in auto mode: the WebSocket first, Chrome once it has failed.  *)
StartWSWatch(a) == watch' = [watch EXCEPT ![a] = At("ws", NoName, 0)]
StartWS(a) ==
  /\ a \in live \ wsFailed /\ watch[a].pc = "idle"
  /\ \/ StartWSWatch(a) /\ UNCHANGED <<wsFailed, kFaults>>
     \/ Fault /\ MarkWSFailed(a)
        /\ watch' = [watch EXCEPT ![a] = At("inspect", reg[a], 0)]
  /\ UNCHANGED <<live, reg, active, docker, reaper, kEdits>>

PumpEnds(a) == watch[a].pc = "ws" /\ Fault \* a read or a write fails
\* runWSLoop: a dropped connection is redialled, MaxReconnect times in all
WSDrop(a) ==
  /\ PumpEnds(a)
  /\ \/ watch[a].attempt < MaxReconnect /\ watch' = [watch EXCEPT ![a] = At("ws", @.name, @.attempt + 1)]
     \/ To(a, "wsDead")
  /\ UNCHANGED <<live, reg, active, docker, wsFailed, reaper, kEdits>>
HeartbeatWS(a) ==
  /\ watch[a].pc = "wsDead" /\ MarkWSFailed(a)
  /\ watch' = [watch EXCEPT ![a] = NoWatch]
  /\ UNCHANGED <<live, reg, active, docker, reaper, kFaults, kEdits>>

StartBrowserWatch(a) ==
  /\ a \in live \intersect wsFailed /\ watch[a].pc = "idle"
  /\ watch' = [watch EXCEPT ![a] = At("inspect", reg[a], 0)]
  /\ UNCHANGED <<live, reg, active, docker, wsFailed, reaper, kFaults, kEdits>>

CreateAndStart(n, a) == /\ box' = [box EXCEPT ![n] = "running"]
                        /\ label' = IF box[n] = "absent" THEN [label EXCEPT ![n] = {a}] ELSE label
\* ensureUp: create when absent, start when stopped, then wait for the server
\* of the name StartWatch dialled. lastActive is bumped at its end. A failed
\* inspection is taken as up.
EnsureUp(a) ==
  LET n == reg[a]
      Call == To(a, "open") /\ opens' = opens \union {<<a, watch[a].name>>}
  IN
  /\ watch[a].pc = "inspect"
  /\ \/ box[n] = "running" /\ Touch(a) /\ Call /\ UNCHANGED <<box, label, tabs, kFaults>>
     \/ Fault /\ Touch(a) /\ Call /\ UNCHANGED <<box, label, tabs>>
     \/ /\ box[n] # "running"
        /\ CreateAndStart(n, a)
        /\ To(a, "wait") /\ UNCHANGED <<active, tabs, opens, kFaults>>
     \/ Fault /\ watch' = [watch EXCEPT ![a] = NoWatch] /\ UNCHANGED <<active, docker>>
  /\ UNCHANGED <<live, reg, wsFailed, reaper, kEdits>>
Ready(a) ==
  LET n == watch[a].name IN
  /\ watch[a].pc = "wait"
  /\ IF box[n] = "running"
     THEN Touch(a) /\ To(a, "open") /\ opens' = opens \union {<<a, n>>}
     ELSE watch' = [watch EXCEPT ![a] = NoWatch] /\ UNCHANGED <<active, opens>>  \* 30 s deadline
  /\ UNCHANGED <<live, reg, box, label, tabs, wsFailed, reaper, kFaults, kEdits>>

\* OpenStreamWatch in the sidecar: it runs on the tab's context, so it goes on
\* when the caller has left; no one holds the handle of that tab.
OpenStreamWatch(a, n) ==
  /\ <<a, n>> \in opens /\ opens' = opens \ {<<a, n>>}
  /\ LET waiting == watch[a].pc = "open" /\ watch[a].name = n
         up      == box[n] = "running"
     IN \/ /\ up /\ tabs' = [tabs EXCEPT ![n] = @ \union {Open(a, waiting)}]
           /\ IF waiting THEN Touch(a) /\ To(a, "chrome") ELSE UNCHANGED <<active, watch>>
           /\ UNCHANGED kFaults
        \/ /\ IF up THEN Fault ELSE UNCHANGED kFaults
           /\ watch' = IF waiting THEN [watch EXCEPT ![a] = NoWatch] ELSE watch
           /\ UNCHANGED <<tabs, active>>
  /\ UNCHANGED <<live, reg, box, label, wsFailed, reaper, kEdits>>

\* the player of the watched tab stops advancing; each probe counts a stall
Own(a, n) == {t \in tabs[n] : t.acc = a /\ t.own}
Stall(a) ==
  LET n == watch[a].name IN
  /\ watch[a].pc = "chrome" /\ Own(a, n) # {} /\ Fault
  /\ tabs' = [tabs EXCEPT ![n] = (@ \ Own(a, n)) \union {[t EXCEPT !.stalls = @ + 1] : t \in Own(a, n)}]
  /\ UNCHANGED <<live, reg, active, box, label, opens, watch, wsFailed, reaper, kEdits>>
ProbeNoStalls(t) == TRUE
EvalWatchAlive(t) == t.stalls <= MaxStalls
WatchAlive(a, n) == box[n] = "running" /\ \E t \in Own(a, n) : EvalWatchAlive(t)

\* StopWatch of the handle the backend holds: the tab closes, or the call
\* fails and the tab plays on with no holder; a StartWatch under way is left.
Closed(a) ==
  LET n == watch[a].name IN
  IF watch[a].pc # "chrome" THEN UNCHANGED <<tabs, kFaults>>
  ELSE \/ tabs' = [tabs EXCEPT ![n] = @ \ Own(a, n)] /\ UNCHANGED kFaults
       \/ Fault /\ tabs' = [tabs EXCEPT ![n] = (@ \ Own(a, n)) \union {[t EXCEPT !.own = FALSE] : t \in Own(a, n)}]
Heartbeat(a) ==
  LET n == watch[a].name IN
  /\ watch[a].pc = "chrome" /\ (active[a] # "fresh" \/ ~WatchAlive(a, n))
  /\ IF WatchAlive(a, n) THEN Touch(a) /\ UNCHANGED <<watch, tabs, kFaults>>
     ELSE watch' = [watch EXCEPT ![a] = NoWatch] /\ Closed(a) /\ UNCHANGED active  \* the runner stops the watch
  /\ UNCHANGED <<live, reg, box, label, opens, wsFailed, reaper, kEdits>>
StopWatch(a) == \* the runner leaves the channel, or its context ends
  /\ watch[a].pc \in {"ws", "wait", "open", "chrome"} /\ Edit
  /\ watch' = [watch EXCEPT ![a] = NoWatch] /\ Closed(a)
  /\ UNCHANGED <<live, reg, active, box, label, opens, wsFailed, reaper>>
-----------------------------------------------------------------------------
(* The roster: an account is added or deleted (its runner ends; the registry *)
(* keeps it) or built again under the name it has then.                      *)
DeleteAccount(a) ==
  /\ a \in live /\ Edit /\ live' = live \ {a}
  /\ watch' = [watch EXCEPT ![a] = NoWatch] /\ Closed(a)
  /\ UNCHANGED <<reg, active, box, label, opens, wsFailed, reaper>>
Register(a) == \* register keeps lastActive; the build registers before it runs
  /\ a \in live \/ reg[a] = NoName
  /\ Edit /\ live' = live \union {a}
  /\ \E n \in NamesOf[a] \ {reg[a]} : reg' = [reg EXCEPT ![a] = n]
  /\ UNCHANGED <<active, docker, watch, wsFailed, reaper, kFaults>>
Expire(a) == \* idleGrace without a beat
  /\ active[a] = "fresh" /\ watch[a].pc # "chrome" /\ Edit /\ active' = [active EXCEPT ![a] = "stale"]
  /\ UNCHANGED <<live, reg, docker, watch, wsFailed, reaper, kFaults>>
-----------------------------------------------------------------------------
(* The reaper's minute: reapOnce, then sweepOrphans, which lists the         *)
(* containers before it reads which accounts are registered.                 *)
Halt(n, to) == /\ box' = [box EXCEPT ![n] = to] /\ tabs' = [tabs EXCEPT ![n] = {}]
Candidates == /\ reaper.pc = "rest"
              /\ reaper' = [reaper EXCEPT !.pc = "reap",
                              !.cands = {reg[a] : a \in {b \in Accounts : active[b] = "stale"}}]
              /\ UNCHANGED <<live, reg, active, docker, watch, wsFailed, kFaults, kEdits>>
Reap == /\ reaper.pc = "reap"
        /\ \E n \in reaper.cands :
             /\ reaper' = [reaper EXCEPT !.cands = @ \ {n}]
             /\ \/ box[n] = "running" /\ Halt(n, "stopped")
                   /\ IF \E a \in Accounts : watch[a].name = n THEN Fault ELSE UNCHANGED kFaults
                \/ box[n] # "running" /\ UNCHANGED <<box, tabs, kFaults>>
                \/ Fault /\ UNCHANGED <<box, tabs>>
        /\ UNCHANGED <<live, reg, active, label, opens, watch, wsFailed, kEdits>>
Listed == {n \in Names : box[n] # "absent"}
ListManaged == /\ reaper.pc = "reap" /\ reaper.cands = {}
               /\ reaper' = [reaper EXCEPT !.pc = "list", !.listed = Listed]
               /\ UNCHANGED <<live, reg, active, docker, watch, wsFailed, kFaults, kEdits>>
\* the registry's keys: every account ever registered
ActiveAccounts == /\ reaper.pc = "list"
                  /\ reaper' = [reaper EXCEPT !.pc = "remove", !.keep = {a \in Accounts : reg[a] # NoName}]
                  /\ UNCHANGED <<live, reg, active, docker, watch, wsFailed, kFaults, kEdits>>
RemoveOrphans ==
  LET orphans == {n \in reaper.listed : label[n] \intersect reaper.keep = {}} IN
  /\ reaper.pc = "remove" /\ reaper' = Resting
  /\ box' = [n \in Names |-> IF n \in orphans THEN "absent" ELSE box[n]] \* Remove
  /\ tabs' = [n \in Names |-> IF n \in orphans THEN {} ELSE tabs[n]]
  /\ label' = [n \in Names |-> IF n \in orphans THEN {} ELSE label[n]]
  /\ UNCHANGED <<live, reg, active, opens, watch, wsFailed, kFaults, kEdits>>

Watching(a) == \/ StartWS(a) \/ HeartbeatWS(a) \/ StartBrowserWatch(a) \/ EnsureUp(a) \/ Ready(a)
               \/ Heartbeat(a) \/ \E n \in Names : OpenStreamWatch(a, n)
Reaper == Candidates \/ Reap \/ ListManaged \/ ActiveAccounts \/ RemoveOrphans
Next == \/ \E a \in Accounts : \/ Watching(a) \/ WSDrop(a) \/ Stall(a) \/ StopWatch(a)
                               \/ DeleteAccount(a) \/ Register(a) \/ Expire(a)
        \/ Reaper
Fair == /\ WF_kvars(Reaper)
        /\ \A a \in Accounts : SF_kvars(Watching(a))
Spec == Init /\ [][Next]_kvars /\ Fair
-----------------------------------------------------------------------------
Working(a) == watch[a].pc \in {"wait", "open", "chrome"}

(* Kick credits one watch of an account: while its WebSocket loop runs, no   *)
(* tab of the account plays or is being opened, whatever was stopped, leaked *)
(* or cancelled before (wswatch.go: the paths are mutually exclusive).       *)
OneWatchPath == \A a \in Accounts : watch[a].pc = "ws" =>
                  \A n \in Names : <<a, n>> \notin opens /\ \A t \in tabs[n] : t.acc # a

(* When failures, edits and idle spells are over, every account of the       *)
(* roster has a watch that counts: its WebSocket, or a tab that plays in a   *)
(* running container, whatever the reaper stopped or removed meanwhile.      *)
Credited(a) == \/ watch[a].pc = "ws"
               \/ watch[a].pc = "chrome" /\ \E t \in Own(a, watch[a].name) : t.stalls <= MaxStalls
WatchComesUp == \A a \in Accounts : <>[](a \in live => Credited(a))

(* The registry "stops every controllable container whose account has been   *)
(* idle": the container of a watch that starts or plays is left running.     *)
ReaperSparesWatch == [][\A a \in Accounts : Working(a) /\ box[watch[a].name] = "running"
                          => box'[watch[a].name] # "stopped"]_kvars

(* "A managed container whose account is still active is spared."            *)
SweepSparesLive == [][\A n \in Names : box[n] # "absent" /\ box'[n] = "absent"
                        => label[n] \intersect live = {}]_kvars

(* "the caller should keep at most one watch tab per Kick account."          *)
OneTab == \A n \in Names, a \in Accounts : Cardinality({t \in tabs[n] : t.acc = a}) <= 1

(* activeAccounts snapshots "the live Kick roster": the container of an      *)
(* account that is deleted is removed in the end.                            *)
DeletedIsSwept == \A n \in Names, a \in Accounts :
                    [](label[n] = {a} /\ a \notin live => <>(label[n] # {a} \/ a \in live))
=============================================================================
