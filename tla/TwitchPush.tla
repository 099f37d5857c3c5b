------------------------------ MODULE TwitchPush ------------------------------
(***************************************************************************)
(* The PubSub socket of one Twitch account: the client the backend starts   *)
(* lazily and closes on a new login, its run loop (dial, LISTEN, pump, back *)
(* off), and the topics goroutines of the runner add and remove while it    *)
(* runs. A topic is in the client's set under one lock and on the wire      *)
(* under another, so what Twitch sends is what the frames said, not the set.*)
(* source: src/internal/platform/twitch/{pubsub,backend,browser_backend}.go *)
(***************************************************************************)
EXTENDS Naturals, FiniteSets

CONSTANTS Clients,  \* PubSub clients the account may ever have
          Own,      \* the account's own topics: drop events, notifications
          Channels, \* channels a watch may subscribe
          Callers,  \* goroutines calling into the backend
          NoOne,
          MaxTopics, \* PubSubMaxTopics
          PushFaults \* bound: lost sockets, failed dials and logins

Topics == Own \union Channels
VARIABLES browser,  \* the account goes through the BrowserBackend
          token,    \* the token Twitch accepts: one per login
          reg,      \* Backend.pubsub, BrowserBackend.pubsubs[account]
          cl,       \* the clients
          wanted,   \* channels the goroutines asked the client to listen to
          raced,    \* topics with an add under way while a remove still is
          call,     \* the call each goroutine is in
          pushFaults
pvars == <<browser, token, reg, cl, wanted, raced, call, pushFaults>>

\* run: the run loop; conn: p.conn is set; up: that socket is open; edge: what
\* Twitch sends on it; snap: the topics of the LISTEN being written
Fresh(t) == [run |-> "new", topics |-> {}, conn |-> FALSE, up |-> FALSE, edge |-> {},
             snap |-> {}, tok |-> t, cancel |-> ~browser, stopped |-> FALSE, closed |-> FALSE]
Unused == [run |-> "unused", topics |-> {}, conn |-> FALSE, up |-> FALSE, edge |-> {},
           snap |-> {}, tok |-> 0, cancel |-> FALSE, stopped |-> FALSE, closed |-> FALSE]
\* on: the frame's socket is still the client's; t: its topic; tok: the session's token
Idle == [pc |-> "idle", c |-> NoOne, t |-> {}, on |-> FALSE, tok |-> 0]
Init == /\ browser \in BOOLEAN /\ token = 1 /\ reg = NoOne
        /\ cl = [c \in Clients |-> Unused] /\ wanted = {} /\ raced = {}
        /\ call = [u \in Callers |-> Idle] /\ pushFaults = 0

Fault == pushFaults < PushFaults /\ pushFaults' = pushFaults + 1
Set(c, rec) == cl' = [cl EXCEPT ![c] = rec]
Ret(u) == call' = [call EXCEPT ![u] = Idle]
\* frames held for a lost socket go nowhere
Orphan(c) == [u \in Callers |-> IF call[u].c = c THEN [call[u] EXCEPT !.on = FALSE] ELSE call[u]]
Lost(rec) == [rec EXCEPT !.up = FALSE, !.edge = {}]
-----------------------------------------------------------------------------
(* The backend: listing campaigns ensures a client, a watch subscribes its   *)
(* channel, a login or a refresh tears the client down (browser), a removed  *)
(* account closes it.                                                        *)
EnsurePubSub(u) == /\ call[u] = Idle /\ reg = NoOne
                   /\ call' = [call EXCEPT ![u] = [Idle EXCEPT !.pc = "resolve", !.tok = token]]
                   /\ UNCHANGED <<browser, token, reg, cl, wanted, raced, pushFaults>>
ResolveUserID(u) ==
  /\ call[u].pc = "resolve"
  /\ Ret(u)
  /\ \/ UNCHANGED <<reg, cl>> \* the request failed, or another goroutine was first
     \/ /\ reg = NoOne
        /\ \E c \in Clients : cl[c] = Unused /\ reg' = c /\ Set(c, Fresh(call[u].tok))
  /\ UNCHANGED <<browser, token, wanted, raced, pushFaults>>

\* mutant: nothing to do while the socket is down
AddIfUp(u, t) ==
  LET c == reg
      rec == cl[c]
      dup == t \in rec.topics
  IN /\ call[u] = Idle /\ c # NoOne /\ (dup \/ Cardinality(rec.topics) < MaxTopics)
     /\ Set(c, IF rec.conn THEN [rec EXCEPT !.topics = @ \union {t}] ELSE rec)
     /\ call' = IF dup \/ ~rec.conn THEN call
                ELSE [call EXCEPT ![u] = [pc |-> "listen", c |-> c, t |-> {t}, on |-> rec.up, tok |-> 0]]
     /\ raced' = IF \E v \in Callers : call[v].pc = "unlisten" /\ call[v].t = {t}
                 THEN raced \union {t} ELSE raced
     /\ wanted' = wanted \union {t}
     /\ UNCHANGED <<browser, token, reg, pushFaults>>
AddTopic(u, t) ==
  LET c == reg
      rec == cl[c]
      dup == t \in rec.topics
  IN /\ call[u] = Idle /\ c # NoOne /\ (dup \/ Cardinality(rec.topics) < MaxTopics)
     /\ Set(c, [rec EXCEPT !.topics = @ \union {t}])
     /\ call' = IF dup \/ ~rec.conn THEN call
                ELSE [call EXCEPT ![u] = [pc |-> "listen", c |-> c, t |-> {t}, on |-> rec.up, tok |-> 0]]
     /\ raced' = IF \E v \in Callers : call[v].pc = "unlisten" /\ call[v].t = {t}
                 THEN raced \union {t} ELSE raced
     /\ wanted' = wanted \union {t}
     /\ UNCHANGED <<browser, token, reg, pushFaults>>
RemoveTopic(u, t) ==
  LET c == reg
      rec == cl[c]
  IN /\ call[u] = Idle /\ c # NoOne /\ t \in rec.topics
     /\ Set(c, [rec EXCEPT !.topics = @ \ {t}])
     /\ call' = IF ~rec.conn THEN call
                ELSE [call EXCEPT ![u] = [pc |-> "unlisten", c |-> c, t |-> {t}, on |-> rec.up, tok |-> 0]]
     /\ wanted' = wanted \ {t}
     /\ UNCHANGED <<browser, token, reg, raced, pushFaults>>
SubscribeChannel(u) == \E t \in Channels : AddTopic(u, t)
UnsubscribeChannel(u) == \E t \in Channels : RemoveTopic(u, t)

Accepted(c) == cl[c].tok = token
WriteListen(c, on, ts) == IF on /\ Accepted(c) THEN cl[c].edge \union ts ELSE cl[c].edge
ListenFrame(u) == /\ call[u].pc = "listen" /\ Ret(u)
                  /\ LET c == call[u].c IN
                       Set(c, [cl[c] EXCEPT !.edge = WriteListen(c, call[u].on, call[u].t)])
                  /\ UNCHANGED <<browser, token, reg, wanted, raced, pushFaults>>
UnlistenFrame(u) == /\ call[u].pc = "unlisten" /\ Ret(u)
                    /\ LET c == call[u].c IN
                         Set(c, [cl[c] EXCEPT !.edge = IF call[u].on THEN @ \ call[u].t ELSE @])
                    /\ UNCHANGED <<browser, token, reg, wanted, raced, pushFaults>>

\* a client that has no cancel yet, and no socket, goes on
CloseClient(c) == LET rec == IF cl[c].conn THEN Lost(cl[c]) ELSE cl[c] IN
                  Set(c, [rec EXCEPT !.closed = TRUE, !.stopped = @ \/ rec.cancel])
Close == /\ reg # NoOne
         /\ CloseClient(reg) /\ reg' = NoOne
         /\ call' = Orphan(reg) /\ raced' = {} /\ wanted' = {}
InvalidateAuth == /\ browser /\ Close /\ UNCHANGED <<browser, token, pushFaults>>
CloseTwitchBackend == /\ ~browser /\ Close /\ UNCHANGED <<browser, token, pushFaults>>
\* a refresh or a new login: the account's old token stops working
NewLogin == /\ Fault /\ token' = token + 1
            /\ IF browser /\ reg # NoOne THEN Close ELSE UNCHANGED <<reg, cl, wanted, raced, call>>
            /\ UNCHANGED browser
-----------------------------------------------------------------------------
(* The run loop of client c.                                                 *)
Keep == UNCHANGED <<browser, token, reg, wanted, raced>>
Launch(c) == /\ cl[c].run = "new"
             /\ Set(c, [cl[c] EXCEPT !.cancel = TRUE, !.topics = @ \union Own, !.run = "loop"])
             /\ UNCHANGED <<call, pushFaults>> /\ Keep
Run(c) == /\ cl[c].run = "loop"
          /\ Set(c, IF cl[c].stopped THEN Unused ELSE [cl[c] EXCEPT !.run = "dial"])
          /\ UNCHANGED <<call, pushFaults>> /\ Keep
\* p.conn and the snapshot are one step; until then the dialled socket is nobody's
DialAndPump(c) ==
  /\ cl[c].run = "dial" /\ UNCHANGED call
  /\ \/ /\ Fault \/ (cl[c].stopped /\ UNCHANGED pushFaults)
        /\ Set(c, [cl[c] EXCEPT !.run = "loop"]) /\ UNCHANGED raced
     \/ /\ UNCHANGED pushFaults
        /\ raced' = IF c = reg THEN {} ELSE raced
        /\ Set(c, [cl[c] EXCEPT !.run = "listen", !.conn = TRUE, !.up = TRUE,
                                !.edge = {}, !.snap = cl[c].topics])
  /\ UNCHANGED <<browser, token, reg, wanted>>
Listen(c) ==
  /\ cl[c].run = "listen" /\ UNCHANGED <<call, pushFaults>>
  /\ Set(c, IF cl[c].up
            THEN [cl[c] EXCEPT !.run = "pump", !.snap = {},
                               !.edge = WriteListen(c, TRUE, cl[c].snap)]
            ELSE [cl[c] EXCEPT !.run = "loop", !.snap = {}])
  /\ Keep
\* a stopped client no longer pings
Drop(c) == /\ cl[c].up /\ (Fault \/ (cl[c].stopped /\ UNCHANGED pushFaults))
           /\ Set(c, Lost(cl[c])) /\ call' = Orphan(c) /\ Keep
ReadFails(c) == /\ cl[c].run = "pump" /\ ~cl[c].up
                /\ Set(c, [cl[c] EXCEPT !.run = "loop", !.conn = FALSE])
                /\ UNCHANGED <<call, pushFaults>> /\ Keep

CallStep(u) == \/ EnsurePubSub(u) \/ ResolveUserID(u) \/ SubscribeChannel(u)
               \/ UnsubscribeChannel(u) \/ ListenFrame(u) \/ UnlistenFrame(u)
RunStep(c) == Launch(c) \/ Run(c) \/ DialAndPump(c) \/ Listen(c) \/ Drop(c) \/ ReadFails(c)
Next == \/ \E u \in Callers : CallStep(u)
        \/ \E c \in Clients : RunStep(c)
        \/ InvalidateAuth \/ CloseTwitchBackend \/ NewLogin
Spec == Init /\ [][Next]_pvars
-----------------------------------------------------------------------------
TypeOK ==
  /\ browser \in BOOLEAN /\ token \in 1..PushFaults + 1 /\ reg \in Clients \union {NoOne}
  /\ \A c \in Clients : /\ cl[c].run \in {"unused", "new", "loop", "dial", "listen", "pump"}
                        /\ {cl[c].topics, cl[c].edge, cl[c].snap} \subseteq SUBSET Topics
  /\ wanted \union raced \subseteq Channels /\ pushFaults \in 0..PushFaults
  /\ \A u \in Callers : call[u].pc \in {"idle", "resolve", "listen", "unlisten"}

Quiet(c) == cl[c].run = "pump" /\ cl[c].up /\ \A u \in Callers : call[u].c # c
(* Whatever was asked for while the socket was up, down, or being dialled, Twitch *)
(* sends once the socket stands and no frame is on its way: dialAndPump takes *)
(* its LISTEN list and publishes the socket in one step, so every AddTopic is *)
(* in the list or has the socket. An add that overlaps a remove of the same   *)
(* topic is FramesInOrder's; a token Twitch no longer takes ReconnectSubscribes's.*)
ReconnectRestores == reg # NoOne /\ Quiet(reg) /\ Accepted(reg)
                       => (Own \union wanted) \ raced \subseteq cl[reg].edge

(* pubsub.go: the client "re-subscribes its topic set on every reconnect".   *)
(* The direct backend keeps one client through a login, with the token it    *)
(* was built with.                                                           *)
ReconnectSubscribes == reg # NoOne /\ Quiet(reg) /\ raced = {} => cl[reg].topics \subseteq cl[reg].edge

(* pubsub.go: the topic set and the frames agree: the frames of an add and a *)
(* remove of one topic go out in the other order than the set changed.       *)
FramesInOrder == reg # NoOne /\ Quiet(reg) /\ Accepted(reg) => cl[reg].topics \subseteq cl[reg].edge

(* pubsub.go: Close "stops the Run loop and closes the WebSocket connection".*)
ClosedStops == \A c \in Clients : cl[c].closed => cl[c].run # "pump" \/ ~cl[c].up
===============================================================================
