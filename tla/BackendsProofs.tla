--------------------------- MODULE BackendsProofs ---------------------------
(***************************************************************************)
(* The platform backends, each for any value of its constants: any number   *)
(* of calls, connections, clients, topics, campaigns and faults. In every   *)
(* behaviour of MCSpec one component runs, so a property of a component is  *)
(* shown of its own steps (Started, Turn).                                  *)
(***************************************************************************)
EXTENDS MCBackends, FiniteSetTheorems, SequenceTheorems, TLAPS

\* The component that runs starts as its module says, and the probe always does.
LEMMA Started ==
  ASSUME MCInit
  PROVE  /\ Init
         /\ part = "catalogue" => K!Init
         /\ part = "push" => H!Init
         /\ part = "beats" => B!Init
         /\ part = "wire" => X!Init
         /\ part = "kick" => O!Init
         /\ part = "tabs" => T!Init
BY DEF MCInit

\* A step is one of the component that runs, or leaves its state alone.
LEMMA Turn ==
  ASSUME [MCNext]_mcvars
  PROVE  /\ part' = part
         /\ [Next]_wpvars
         /\ part = "catalogue" => [K!Next]_catalogueVars
         /\ part = "push" => [H!Next]_pushVars
         /\ part = "beats" => [B!Next]_beatVars
         /\ part = "wire" => [X!Next]_wireVars
         /\ part = "kick" => [O!Next]_kickVars
         /\ IF part = "tabs" THEN [T!Next]_tabVars ELSE UNCHANGED tabVars
<1>1. CASE OnProbe /\ Next
  BY <1>1 DEF OnProbe
<1>2. CASE OnTabs /\ T!Next
  BY <1>2 DEF OnTabs
<1>3. CASE OnCatalogue /\ K!Next
  BY <1>3 DEF OnCatalogue
<1>4. CASE OnPush /\ H!Next
  BY <1>4 DEF OnPush
<1>5. CASE OnBeats /\ B!Next
  BY <1>5 DEF OnBeats
<1>6. CASE OnWire /\ X!Next
  BY <1>6 DEF OnWire
<1>7. CASE OnKick /\ O!Next
  BY <1>7 DEF OnKick
<1>8. CASE UNCHANGED mcvars
  BY <1>8 DEF mcvars
<1> QED
  BY <1>1, <1>2, <1>3, <1>4, <1>5, <1>6, <1>7, <1>8 DEF MCNext

-----------------------------------------------------------------------------
\* While nothing is wrong the connection kept works, and so does every one a call waits on.
Calls == /\ req \in [Requests -> [pc : {"rest", "dial", "trip", "body"}, conn : Conns \union {NoConn}]]
         /\ calm \in BOOLEAN /\ pooled \in Conns \union {NoConn}
KeptWorks == calm /\ pooled # NoConn => pooled \in up \ ended
Wires == Calls /\ KeptWorks /\ X!OneFailureSuffices

(* A request that got no answer, with no other waiting for one, is the last  *)
(* until something breaks again: it empties the pool, though what it closes  *)
(* may be a connection of another, and what is kept from then on was dialled *)
(* since.                                                                    *)
THEOREM OneFailureSufficesHolds == MCSpec => []OneFailureSuffices
<1> DEFINE IInv == part = "wire" => Wires
<1>1. MCInit => IInv
  BY Started, SMT DEF X!Init, X!Idle, Wires, Calls, KeptWorks, X!OneFailureSuffices
<1>2. IInv /\ [MCNext]_mcvars => IInv'
  <2> SUFFICES ASSUME Wires, [X!Next]_wireVars PROVE Wires'
    BY Turn
  <2> USE DEF Wires, Calls, KeptWorks, X!OneFailureSuffices, X!Usable
  <2>1. ASSUME NEW r \in Requests, X!ConnFor(r) PROVE Wires'
    <3> DEFINE p == [pc |-> "trip", conn |-> pooled]
               d == [req[r] EXCEPT !.pc = "dial"]
    <3>1. UNCHANGED <<pooled, up, ended, calm>>
      BY <2>1 DEF X!ConnFor
    <3>2. CASE pooled # NoConn /\ req' = [req EXCEPT ![r] = p]
      <4>1. p \in [pc : {"rest", "dial", "trip", "body"}, conn : Conns \union {NoConn}] /\ p.conn = pooled
        OBVIOUS
      <4> HIDE DEF p
      <4>2. req' \in [Requests -> [pc : {"rest", "dial", "trip", "body"}, conn : Conns \union {NoConn}]]
            /\ req'[r].conn = pooled /\ \A q \in Requests \ {r} : req'[q] = req[q]
        BY <3>2, <4>1
      <4> QED
        BY <3>1, <3>2, <4>2
    <3>3. CASE req' = [req EXCEPT ![r] = d]
      <4>1. d \in [pc : {"rest", "dial", "trip", "body"}, conn : Conns \union {NoConn}] /\ d.pc = "dial"
        OBVIOUS
      <4> HIDE DEF d
      <4>2. req' \in [Requests -> [pc : {"rest", "dial", "trip", "body"}, conn : Conns \union {NoConn}]]
            /\ req'[r].pc = "dial" /\ \A q \in Requests \ {r} : req'[q] = req[q]
        BY <3>3, <4>1
      <4> QED
        BY <3>1, <4>2
    <3> QED
      BY <2>1, <3>2, <3>3 DEF X!ConnFor
  <2>2. ASSUME NEW r \in Requests, X!Dialled(r) PROVE Wires'
    BY <2>2, SMT DEF X!Dialled
  <2>3. ASSUME NEW r \in Requests, X!TripFails(r) PROVE Wires'
    BY <2>3, SMT DEF X!TripFails, X!CloseConn, X!Idle
  <2>4. ASSUME NEW r \in Requests, X!DialFails(r) \/ X!RoundTrip(r) \/ X!ReadAll(r) \/ X!BodyFails(r)
        PROVE Wires'
    BY <2>4, SMT DEF X!DialFails, X!RoundTrip, X!ReadAll, X!BodyFails, X!Idle
  <2>5. ASSUME NEW k \in Conns, X!Ends(k) PROVE Wires'
    <3>1. CASE k \in X!Used
      BY <2>5, <3>1 DEF X!Ends
    <3>2. CASE k \notin X!Used
      <4>1. k # pooled /\ \A r \in Requests : req[r].conn # k
        BY <3>2 DEF X!Used
      <4>2. up' = up \ {k} /\ calm' = calm /\ UNCHANGED <<pooled, req, ended>>
        BY <2>5, <3>2 DEF X!Ends
      <4> QED
        BY <4>1, <4>2
    <3> QED
      BY <3>1, <3>2
  <2>6. CASE X!Ages \/ UNCHANGED wireVars
    BY <2>6, SMT DEF X!Ages, wireVars
  <2>7. QED
    BY <2>1, <2>2, <2>3, <2>4, <2>5, <2>6 DEF X!Next
<1>3. IInv => OneFailureSuffices
  BY DEF Wires, OneFailureSuffices
<1>4. QED
  BY <1>1, <1>2, <1>3, PTL DEF MCSpec

-----------------------------------------------------------------------------
(***************************************************************************)
(* StaleCostsNothing.  A path ends in error only past a lost request or a   *)
(* void URL: a send that fails resolves again (Resolved), and a URL just    *)
(* resolved is live unless Twitch moved since; nor can Twitch refuse a      *)
(* handle's token for the client it names, which Start registered (Bound).  *)
(***************************************************************************)
Bound == handle.ch # {} => handle.by \in bound
Resolved == beat.calm /\ beat.pc = "again" => beat.via.live
IsBeat(b) ==
  /\ b = [pc |-> b.pc, path |-> b.path, via |-> b.via, calm |-> b.calm, came |-> b.came]
  /\ b.path \in B!Paths /\ b.came = [p \in B!Paths |-> b.came[p]]
Beats == IsBeat(beat) /\ Bound /\ Resolved /\ B!StaleCostsNothing

\* How a path ends is told of that path alone, and the next send is of no fresh URL.
LEMMA PathEnding ==
  ASSUME NEW c, NEW how, NEW b, IsBeat(b),
         b.calm => how # "err" /\ \A p \in B!Paths : b.came[p] # "err"
  PROVE  LET e == B!PathEnds(b, c, how)
         IN  /\ IsBeat(e) /\ e.calm = b.calm /\ e.pc # "again"
             /\ e.calm => \A p \in B!Paths : e.came[p] # "err"
BY DEF B!PathEnds, B!Take, B!Paths, IsBeat

\* Whatever broadcasts follow each other, a beat that Twitch refuses for a stale URL is
\* sent again under the live one before the runner hears of it.
THEOREM StaleCostsNothingHolds == MCSpec => []StaleCostsNothing
<1> USE DEF Beats, Bound, Resolved, B!StaleCostsNothing
<1>1. MCInit => (part = "beats" => Beats)
  BY Started DEF B!Init, B!NoBeat, B!NoHandle, IsBeat, B!Paths
<1>2. (part = "beats" => Beats) /\ [MCNext]_mcvars => (part = "beats" => Beats)'
  <2> SUFFICES ASSUME Beats, part = "beats", [B!Next]_beatVars PROVE Beats'
    BY Turn
  <2>1. ASSUME NEW c \in Streams, NEW a \in B!Answers, B!Start(c, a) PROVE Beats'
    BY <2>1 DEF B!Start, B!Bind, B!NoHandle, IsBeat
  <2>2. ASSUME NEW c \in Streams, NEW a \in B!Answers, B!Resolve(c, a) PROVE Beats'
    <3> DEFINE p == beat.path
               lost == IF p = "play" THEN ~B!ResolvePlaylistURL(a) ELSE ~B!ResolveSpadeURL(a)
               b == [beat EXCEPT !.calm = @ /\ ~lost]
    <3>1. IsBeat(b) /\ b.path = p /\ b.pc = beat.pc /\ b.calm = (beat.calm /\ ~lost) /\ b.came = beat.came
      BY DEF IsBeat
    <3>2. handle.ch = {c} /\ UNCHANGED <<handle, bound>>
      BY <2>2 DEF B!Resolve, B!held
    <3>3. CASE ~lost /\ B!Resolves(p, c)
      <4>1. beat' = [b EXCEPT !.via = B!URL(handle.b), !.pc = IF @ = "retry" THEN "again" ELSE "send"]
        BY <2>2, <3>3 DEF B!Resolve
      <4> QED
        BY <3>1, <3>2, <4>1 DEF IsBeat, B!URL
    <3>4. CASE ~(~lost /\ B!Resolves(p, c))
      <4> DEFINE how == IF p = "play" /\ onAir[c] = 0 THEN "off" ELSE "err"
      <4>1. beat' = B!PathEnds(b, c, how)
        BY <2>2, <3>4 DEF B!Resolve
      <4>2. ~lost => how # "err"
        BY <3>2, <3>4 DEF B!Resolves, B!ProfileForToken
      <4> HIDE DEF lost, b, how
      <4>3. b.calm => how # "err" /\ \A q \in B!Paths : b.came[q] # "err"
        BY <3>1, <4>2
      <4>4. IsBeat(beat') /\ beat'.pc # "again" /\ (beat'.calm => \A q \in B!Paths : beat'.came[q] # "err")
        BY <3>1, <4>1, <4>3, PathEnding, Zenon
      <4> QED
        BY <3>2, <4>4
    <3> QED
      BY <3>3, <3>4
  <2>3. ASSUME NEW c \in Streams, NEW a \in B!Answers, B!Send(c, a) PROVE Beats'
    <3> DEFINE lost == IF beat.path = "play" THEN ~B!SendPlaylistWatch(a) ELSE ~B!SendSpadeBeacon(a)
               b == [beat EXCEPT !.calm = @ /\ ~lost]
    <3>1. IsBeat(b) /\ b.path = beat.path /\ b.calm = (beat.calm /\ ~lost) /\ b.came = beat.came
      BY DEF IsBeat
    <3>2. UNCHANGED <<handle, bound>>
      BY <2>3 DEF B!Send, B!held
    <3>3. CASE ~(beat.via.live /\ ~lost) /\ beat.pc = "send"
      <4>1. beat' = [b EXCEPT !.pc = "retry", !.via = B!NoURL]
        BY <2>3, <3>3 DEF B!Send, B!Retry
      <4> QED
        BY <3>1, <3>2, <4>1 DEF IsBeat
    <3>4. CASE ~(~(beat.via.live /\ ~lost) /\ beat.pc = "send")
      <4>1. PICK how : beat' = B!PathEnds(b, c, how) /\ (beat.calm /\ ~lost => how # "err")
        BY <2>3, <3>4 DEF B!Send
      <4> HIDE DEF lost, b
      <4>2. b.calm => how # "err" /\ \A q \in B!Paths : b.came[q] # "err"
        BY <3>1, <4>1
      <4>3. IsBeat(beat') /\ beat'.pc # "again" /\ (beat'.calm => \A q \in B!Paths : beat'.came[q] # "err")
        BY <3>1, <4>1, <4>2, PathEnding, Zenon
      <4> QED
        BY <3>2, <4>3
    <3> QED
      BY <3>3, <3>4
  <2>4. ASSUME NEW c \in Streams, B!Heartbeat(c) PROVE Beats'
    BY <2>4 DEF B!Heartbeat, B!Take, B!NoBeat, B!Paths, B!held, IsBeat
  <2>5. ASSUME NEW c, NEW p, B!Void(p, c) PROVE Beats'
    BY <2>5 DEF B!Void, B!held, IsBeat
  <2>6. ASSUME NEW c \in Streams, NEW n \in 0 .. 2, B!Broadcast(c, n) PROVE Beats'
    BY <2>5, <2>6 DEF B!Broadcast
  <2>7. ASSUME NEW c \in Streams, NEW p \in B!Paths, B!Expires(p, c) PROVE Beats'
    BY <2>5, <2>7 DEF B!Expires
  <2>8. CASE B!Stop \/ \E s \in B!Session : B!Login(s)
    BY <2>8 DEF B!Stop, B!Login, B!NoBeat, B!NoHandle, B!Paths, IsBeat
  <2>9. CASE UNCHANGED beatVars
    BY <2>9 DEF beatVars, IsBeat
  <2> QED
    BY <2>1, <2>2, <2>3, <2>4, <2>6, <2>7, <2>8, <2>9 DEF B!Next
<1>3. (part = "beats" => Beats) => StaleCostsNothing
  BY DEF StaleCostsNothing
<1> QED
  BY <1>1, <1>2, <1>3, PTL DEF MCSpec

-----------------------------------------------------------------------------
(***************************************************************************)
(* ReconnectRestores.  A topic asked for that no removal raced is sent, or  *)
(* is in the LISTEN the new socket writes first, or in a frame an add still *)
(* holds for that socket (Restored).  No frame outlives the socket it was   *)
(* made for (Sockets), and a removal's frame still under way is of a topic  *)
(* nobody wants, or raced (Removals).                                       *)
(***************************************************************************)
Client == [run : {"unused", "new", "loop", "dial", "listen", "pump"}, topics : SUBSET H!Topics,
           conn : BOOLEAN, up : BOOLEAN, edge : SUBSET H!Topics, snap : SUBSET H!Topics,
           tok : Nat, cancel : BOOLEAN, stopped : BOOLEAN, closed : BOOLEAN]
Held == [pc : {"idle", "resolve", "listen", "unlisten"}, c : Clients \cup {NoOne},
         t : SUBSET H!Topics, on : BOOLEAN, tok : Nat]
PushTypes ==
  /\ browser \in BOOLEAN /\ token \in Nat /\ reg \in Clients \cup {NoOne}
  /\ cl \in [Clients -> Client] /\ pushCall \in [Goroutines -> Held]
  /\ \A u \in Goroutines : pushCall[u].pc \in {"listen", "unlisten"} => pushCall[u].c # NoOne
  /\ wanted \subseteq PushTopics /\ raced \subseteq PushTopics

Sockets ==
  /\ \A c \in Clients : cl[c].up => cl[c].conn /\ cl[c].run \in {"listen", "pump"}
  /\ \A u \in Goroutines : pushCall[u].on => pushCall[u].c # NoOne /\ cl[pushCall[u].c].up
Registered ==
  /\ reg = NoOne => wanted = {}
  /\ reg # NoOne =>
       /\ cl[reg].run # "unused" /\ ~cl[reg].stopped /\ cl[reg].tok =< token
       /\ wanted \subseteq cl[reg].topics /\ cl[reg].topics \subseteq Own \cup wanted
       /\ cl[reg].run # "new" => Own \subseteq cl[reg].topics
  /\ \A u \in Goroutines : pushCall[u].tok =< token
Due == (Own \cup wanted) \ raced
Removals ==
  \A u \in Goroutines : pushCall[u].pc = "unlisten" =>
    /\ \E x \in PushTopics : pushCall[u].t = {x}
    /\ pushCall[u].on /\ pushCall[u].c = reg => pushCall[u].t \cap Due = {}
Frame(x) == \E u \in Goroutines : /\ pushCall[u].pc = "listen" /\ pushCall[u].c = reg
                                  /\ pushCall[u].on /\ x \in pushCall[u].t
Restored ==
  reg # NoOne /\ cl[reg].up /\ H!Accepted(reg) =>
    \A x \in Due : \/ x \in cl[reg].edge
                   \/ cl[reg].run = "listen" /\ x \in cl[reg].snap
                   \/ Frame(x)
Push == PushTypes /\ Sockets /\ Registered /\ Removals /\ Restored

\* No step of a caller, of a client's loop or of Twitch breaks what is known of the topics.
LEMMA NextPush ==
  ASSUME Push, [H!Next]_pushVars
  PROVE  Push'
<1> USE DEF Push, PushTypes
<1>0. Own \cap PushTopics = {} /\ NoOne \notin Clients
  BY BackendsAssumption
<1> USE <1>0
<1>1. ASSUME NEW u \in Goroutines, H!EnsurePubSub(u) PROVE Push'
  <2>1. PushTypes'
    BY <1>1 DEF H!EnsurePubSub, H!Idle, Held
  <2>2. Sockets'
    BY <1>1, <2>1 DEF H!EnsurePubSub, H!Idle, Client, Held, Sockets
  <2>3. Registered'
    BY <1>1, <2>1 DEF H!EnsurePubSub, H!Idle, Client, Held, Registered
  <2>4. Removals'
    BY <1>1, <2>1 DEF H!EnsurePubSub, H!Idle, Client, Held, Removals, Due, Registered, Sockets
  <2>5. Restored'
    BY <1>1, <2>1 DEF H!EnsurePubSub, H!Idle, Client, Held, Restored, Due, Frame, H!Accepted, Sockets, Registered, Removals
  <2> QED
    BY <2>1, <2>2, <2>3, <2>4, <2>5
<1>2. ASSUME NEW u \in Goroutines, H!ResolveUserID(u) PROVE Push'
  <2>0. /\ pushCall' \in [Goroutines -> Held]
        /\ \A v \in Goroutines : pushCall'[v].pc \in {"listen", "unlisten"} => pushCall'[v].c # NoOne
    BY <1>2 DEF H!ResolveUserID, H!Ret, H!Idle, Held
  <2>1. PushTypes'
    <3>1. CASE UNCHANGED <<reg, cl>>
      BY <1>2, <2>0, <3>1 DEF H!ResolveUserID
    <3>2. ASSUME NEW c \in Clients, reg' = c, H!Set(c, H!Fresh(pushCall[u].tok)) PROVE PushTypes'
      <4>1. H!Fresh(pushCall[u].tok) \in Client
        BY DEF H!Fresh, Client, Held
      <4> QED
        BY <1>2, <2>0, <3>2, <4>1 DEF H!ResolveUserID, H!Set
    <3> QED
      BY <1>2, <3>1, <3>2 DEF H!ResolveUserID
  <2>2. Sockets'
    BY <1>2, <2>1 DEF H!ResolveUserID, H!Fresh, H!Unused, H!Set, H!Ret, H!Idle, Client, Held, Sockets
  <2>3. Registered'
    BY <1>2, <2>1 DEF H!ResolveUserID, H!Fresh, H!Unused, H!Set, H!Ret, H!Idle, Client, Held, Registered
  <2>4. Removals'
    BY <1>2, <2>1 DEF H!ResolveUserID, H!Fresh, H!Unused, H!Set, H!Ret, H!Idle, Client, Held, Removals, Due, Registered, Sockets
  <2>5. Restored'
    BY <1>2, <2>1 DEF H!ResolveUserID, H!Fresh, H!Unused, H!Set, H!Ret, H!Idle, Client, Held, Restored, Due, Frame, H!Accepted, Sockets, Registered, Removals
  <2> QED
    BY <2>1, <2>2, <2>3, <2>4, <2>5
<1>3. ASSUME NEW u \in Goroutines, NEW x \in PushTopics, H!AddTopic(u, x) PROVE Push'
  <2>0. [cl[reg] EXCEPT !.topics = @ \union {x}] \in Client
    BY <1>3 DEF H!AddTopic, Client, H!Topics
  <2>1. PushTypes'
    <3>1. cl' \in [Clients -> Client]
      BY <1>3, <2>0 DEF H!AddTopic, H!Set
    <3>2. [pc |-> "listen", c |-> reg, t |-> {x}, on |-> cl[reg].up, tok |-> 0] \in Held
      BY <1>3 DEF H!AddTopic, Client, Held, H!Topics
    <3> QED
      BY <1>3, <3>1, <3>2 DEF H!AddTopic
  <2>2. Sockets'
    BY <1>3, <2>1 DEF H!AddTopic, H!Set, H!Idle, Client, Held, Sockets
  <2>3. Registered'
    BY <1>3, <2>1 DEF H!AddTopic, H!Set, H!Idle, Client, Held, Registered
  <2>4. Removals'
    <3>1. /\ \A v \in Goroutines : pushCall'[v].pc = "unlisten" => pushCall'[v] = pushCall[v]
          /\ wanted' = wanted \cup {x} /\ raced \subseteq raced' /\ reg' = reg
      BY <1>3, <2>1 DEF H!AddTopic, Held
    <3>2. \A v \in Goroutines : pushCall[v].pc = "unlisten" /\ pushCall[v].t = {x} => x \in raced'
      BY <1>3 DEF H!AddTopic
    <3> QED
      BY <3>1, <3>2 DEF Removals, Due
  <2>5. Restored'
    BY <1>3, <2>1 DEF H!AddTopic, H!Set, H!Idle, Client, Held, Restored, Due, Frame, H!Accepted, Sockets, Registered, Removals
  <2> QED
    BY <2>1, <2>2, <2>3, <2>4, <2>5
<1>4. ASSUME NEW u \in Goroutines, NEW x \in PushTopics, H!RemoveTopic(u, x) PROVE Push'
  <2>0. [cl[reg] EXCEPT !.topics = @ \ {x}] \in Client
    BY <1>4 DEF H!RemoveTopic, Client, H!Topics
  <2>1. PushTypes'
    <3>1. cl' \in [Clients -> Client]
      BY <1>4, <2>0 DEF H!RemoveTopic, H!Set
    <3>2. [pc |-> "unlisten", c |-> reg, t |-> {x}, on |-> cl[reg].up, tok |-> 0] \in Held
      BY <1>4 DEF H!RemoveTopic, Client, Held, H!Topics
    <3> QED
      BY <1>4, <3>1, <3>2 DEF H!RemoveTopic
  <2>2. Sockets'
    BY <1>4, <2>1 DEF H!RemoveTopic, H!Set, H!Idle, Client, Held, Sockets
  <2>3. Registered'
    BY <1>4, <2>1 DEF H!RemoveTopic, H!Set, H!Idle, Client, Held, Registered
  <2>4. Removals'
    <3>1. /\ \A v \in Goroutines : pushCall'[v].pc = "unlisten" => pushCall'[v] = pushCall[v] \/ pushCall'[v].t = {x}
          /\ wanted' = wanted \ {x} /\ raced' = raced /\ reg' = reg
      BY <1>4, <2>1 DEF H!RemoveTopic, Held
    <3> QED
      BY <3>1 DEF Removals, Due
  <2>5. Restored'
    BY <1>4, <2>1 DEF H!RemoveTopic, H!Set, H!Idle, Client, Held, Restored, Due, Frame, H!Accepted, Sockets, Registered, Removals
  <2> QED
    BY <2>1, <2>2, <2>3, <2>4, <2>5
<1>5. ASSUME NEW u \in Goroutines, H!ListenFrame(u) PROVE Push'
  <2>0. /\ pushCall[u].c \in Clients
        /\ [cl[pushCall[u].c] EXCEPT !.edge = H!WriteListen(pushCall[u].c, pushCall[u].on, pushCall[u].t)] \in Client
    <3>1. pushCall[u].c \in Clients /\ pushCall[u].t \in SUBSET H!Topics
      BY <1>5 DEF H!ListenFrame, Held
    <3>2. H!WriteListen(pushCall[u].c, pushCall[u].on, pushCall[u].t) \in SUBSET H!Topics
      BY <3>1 DEF H!WriteListen, Client
    <3> QED
      BY <3>1, <3>2 DEF Client
  <2>1. PushTypes'
    <3>1. cl' \in [Clients -> Client]
      BY <1>5, <2>0 DEF H!ListenFrame, H!Set
    <3> QED
      BY <1>5, <3>1 DEF H!ListenFrame, H!Ret, H!Idle, Held
  <2> DEFINE f == pushCall[u]
  <2>a. /\ f.pc = "listen" /\ pushCall' = [pushCall EXCEPT ![u] = H!Idle]
        /\ cl' = [cl EXCEPT ![f.c].edge = H!WriteListen(f.c, f.on, f.t)]
        /\ UNCHANGED <<browser, token, reg, wanted, raced>>
    BY <1>5, <2>0 DEF H!ListenFrame, H!Ret, H!Set
  <2>b. \A c \in Clients :
          /\ cl'[c].run = cl[c].run /\ cl'[c].topics = cl[c].topics /\ cl'[c].conn = cl[c].conn
          /\ cl'[c].up = cl[c].up /\ cl'[c].snap = cl[c].snap /\ cl'[c].tok = cl[c].tok
          /\ cl'[c].stopped = cl[c].stopped /\ cl[c].edge \subseteq cl'[c].edge
          /\ c = f.c /\ f.on /\ H!Accepted(c) => f.t \subseteq cl'[c].edge
    BY <2>0, <2>a DEF Client, H!WriteListen
  <2>c. \A v \in Goroutines : v # u => pushCall'[v] = pushCall[v]
    BY <2>a
  <2>d. pushCall'[u].pc = "idle" /\ ~pushCall'[u].on /\ pushCall'[u].tok = 0
    BY <2>a DEF H!Idle
  <2>2. Sockets'
    BY <2>0, <2>a, <2>b, <2>c, <2>d DEF Sockets, Held
  <2>3. Registered'
    BY <2>0, <2>a, <2>b, <2>c, <2>d DEF Registered, Held
  <2>4. Removals'
    BY <2>0, <2>a, <2>b, <2>c, <2>d DEF Removals, Due
  <2>5. Restored'
    BY <2>0, <2>a, <2>b, <2>c, <2>d DEF Restored, Due, Frame, H!Accepted
  <2> QED
    BY <2>1, <2>2, <2>3, <2>4, <2>5
<1>6. ASSUME NEW u \in Goroutines, H!UnlistenFrame(u) PROVE Push'
  <2>0. /\ pushCall[u].c \in Clients
        /\ [cl[pushCall[u].c] EXCEPT !.edge = IF pushCall[u].on THEN @ \ pushCall[u].t ELSE @] \in Client
    <3>1. pushCall[u].c \in Clients
      BY <1>6 DEF H!UnlistenFrame, Held
    <3>2. \A ts : cl[pushCall[u].c].edge \ ts \in SUBSET H!Topics
      BY <3>1 DEF Client
    <3> QED
      BY <3>1, <3>2 DEF Client
  <2>1. PushTypes'
    <3>1. cl' \in [Clients -> Client]
      BY <1>6, <2>0 DEF H!UnlistenFrame, H!Set
    <3> QED
      BY <1>6, <3>1 DEF H!UnlistenFrame, H!Ret, H!Idle, Held
  <2> DEFINE f == pushCall[u]
  <2>a. /\ f.pc = "unlisten" /\ pushCall' = [pushCall EXCEPT ![u] = H!Idle]
        /\ cl' = [cl EXCEPT ![f.c].edge = IF f.on THEN cl[f.c].edge \ f.t ELSE cl[f.c].edge]
        /\ UNCHANGED <<browser, token, reg, wanted, raced>>
    BY <1>6, <2>0 DEF H!UnlistenFrame, H!Ret, H!Set
  <2>b. \A c \in Clients :
          /\ cl'[c].run = cl[c].run /\ cl'[c].topics = cl[c].topics /\ cl'[c].conn = cl[c].conn
          /\ cl'[c].up = cl[c].up /\ cl'[c].snap = cl[c].snap /\ cl'[c].tok = cl[c].tok
          /\ cl'[c].stopped = cl[c].stopped /\ cl[c].edge \ f.t \subseteq cl'[c].edge
          /\ ~(c = f.c /\ f.on) => cl'[c].edge = cl[c].edge
    BY <2>0, <2>a DEF Client
  <2>c. \A v \in Goroutines : v # u => pushCall'[v] = pushCall[v]
    BY <2>a
  <2>d. pushCall'[u].pc = "idle" /\ ~pushCall'[u].on /\ pushCall'[u].tok = 0
    BY <2>a DEF H!Idle
  <2>e. f.on /\ f.c = reg => f.t \cap Due = {}
    BY <2>a DEF Removals
  <2>2. Sockets'
    BY <2>0, <2>a, <2>b, <2>c, <2>d DEF Sockets, Held
  <2>3. Registered'
    BY <2>0, <2>a, <2>b, <2>c, <2>d DEF Registered, Held
  <2>4. Removals'
    BY <2>0, <2>a, <2>b, <2>c, <2>d DEF Removals, Due
  <2>5. Restored'
    <3>1. ASSUME NEW x, Frame(x) PROVE Frame(x)'
      BY <2>a, <2>c, <3>1 DEF Frame
    <3>2. \A x \in Due : reg # NoOne /\ x \in cl[reg].edge => x \in cl'[reg].edge
      BY <2>b, <2>e
    <3>3. Due' = Due /\ reg' = reg /\ browser' = browser /\ token' = token
      BY <2>a DEF Due
    <3> QED
      BY <2>b, <3>1, <3>2, <3>3 DEF Restored, H!Accepted
  <2> QED
    BY <2>1, <2>2, <2>3, <2>4, <2>5
<1>7. ASSUME H!Close, UNCHANGED browser, token' \in Nat, token =< token' PROVE Push'
  <2>0. /\ pushCall' \in [Goroutines -> Held]
        /\ \A v \in Goroutines : pushCall'[v].pc = pushCall[v].pc /\ pushCall'[v].c = pushCall[v].c
    BY <1>7 DEF H!Close, H!Orphan, Held
  <2>1. PushTypes'
    <3> DEFINE old == IF cl[reg].conn THEN H!Lost(cl[reg]) ELSE cl[reg]
               rec == [old EXCEPT !.closed = TRUE, !.stopped = old.stopped \/ old.cancel]
    <3>1. rec \in Client
      BY <1>7 DEF H!Close, H!Lost, Client
    <3>2. cl' \in [Clients -> Client]
      <4>1. cl' = [cl EXCEPT ![reg] = rec]
        BY <1>7 DEF H!Close, H!CloseClient, H!Set
      <4> HIDE DEF rec
      <4> QED
        BY <3>1, <4>1
    <3> QED
      BY <1>7, <2>0, <3>2 DEF H!Close
  <2>2. Sockets'
    BY <1>7, <2>1 DEF H!Close, H!CloseClient, H!Set, H!Orphan, H!Lost, Client, Held, Sockets
  <2>3. Registered'
    BY <1>7, <2>1 DEF H!Close, H!CloseClient, H!Set, H!Orphan, H!Lost, Client, Held, Registered
  <2>4. Removals'
    BY <1>7, <2>1 DEF H!Close, H!CloseClient, H!Set, H!Orphan, H!Lost, Client, Held, Removals, Due, Registered, Sockets
  <2>5. Restored'
    BY <1>7, <2>1 DEF H!Close, H!CloseClient, H!Set, H!Orphan, H!Lost, Client, Held, Restored, Due, Frame, H!Accepted, Sockets, Registered, Removals
  <2> QED
    BY <2>1, <2>2, <2>3, <2>4, <2>5
<1>8. ASSUME NEW c \in Clients, H!Launch(c) PROVE Push'
  <2>0. [cl[c] EXCEPT !.cancel = TRUE, !.topics = @ \union Own, !.run = "loop"] \in Client
    BY ZenonT(40) DEF Client, H!Topics
  <2>1. PushTypes'
    BY <1>8, <2>0 DEF H!Launch, H!Set, H!Keep
  <2>2. Sockets'
    BY <1>8, <2>1 DEF H!Launch, H!Set, H!Keep, Client, Held, Sockets
  <2>3. Registered'
    BY <1>8, <2>1 DEF H!Launch, H!Set, H!Keep, Client, Held, Registered
  <2>4. Removals'
    BY <1>8, <2>1 DEF H!Launch, H!Set, H!Keep, Client, Held, Removals, Due, Registered, Sockets
  <2>5. Restored'
    BY <1>8, <2>1 DEF H!Launch, H!Set, H!Keep, Client, Held, Restored, Due, Frame, H!Accepted, Sockets, Registered, Removals
  <2> QED
    BY <2>1, <2>2, <2>3, <2>4, <2>5
<1>9. ASSUME NEW c \in Clients, H!Run(c) PROVE Push'
  <2>0. H!Unused \in Client /\ [cl[c] EXCEPT !.run = "dial"] \in Client
    BY DEF Client, H!Topics, H!Unused
  <2>1. PushTypes'
    BY <1>9, <2>0 DEF H!Run, H!Set, H!Keep
  <2>2. Sockets'
    BY <1>9, <2>1 DEF H!Run, H!Unused, H!Set, H!Keep, Client, Held, Sockets
  <2>3. Registered'
    BY <1>9, <2>1 DEF H!Run, H!Unused, H!Set, H!Keep, Client, Held, Registered
  <2>4. Removals'
    BY <1>9, <2>1 DEF H!Run, H!Unused, H!Set, H!Keep, Client, Held, Removals, Due, Registered, Sockets
  <2>5. Restored'
    BY <1>9, <2>1 DEF H!Run, H!Unused, H!Set, H!Keep, Client, Held, Restored, Due, Frame, H!Accepted, Sockets, Registered, Removals
  <2> QED
    BY <2>1, <2>2, <2>3, <2>4, <2>5
<1>10. ASSUME NEW c \in Clients, H!DialAndPump(c) PROVE Push'
  <2>0. /\ [cl[c] EXCEPT !.run = "loop"] \in Client
        /\ [cl[c] EXCEPT !.run = "listen", !.conn = TRUE, !.up = TRUE, !.edge = {}, !.snap = cl[c].topics] \in Client
    BY ZenonT(40) DEF Client, H!Topics
  <2>1. PushTypes'
    BY <1>10, <2>0 DEF H!DialAndPump, H!Set, H!Keep
  <2>a. ASSUME cl' = [cl EXCEPT ![c].run = "loop"], UNCHANGED raced
       PROVE  Sockets' /\ Registered' /\ Removals' /\ Restored'
    <3>0. cl[c].run = "dial" /\ UNCHANGED <<browser, token, reg, wanted, pushCall>>
      BY <1>10 DEF H!DialAndPump
    <3>1. Sockets'
      BY <2>1, <2>a, <3>0 DEF Client, Held, Sockets
    <3>2. Registered'
      BY <2>1, <2>a, <3>0 DEF Client, Held, Registered
    <3>3. Removals'
      BY <2>1, <2>a, <3>0 DEF Client, Held, Removals, Due, Registered, Sockets
    <3>4. Restored'
      BY <2>1, <2>a, <3>0 DEF Client, Held, Restored, Due, Frame, H!Accepted, Sockets, Registered, Removals
    <3> QED
      BY <3>1, <3>2, <3>3, <3>4
  <2>b. ASSUME cl' = [cl EXCEPT ![c] = [cl[c] EXCEPT !.run = "listen", !.conn = TRUE, !.up = TRUE,
                                                   !.edge = {}, !.snap = cl[c].topics]],
               raced' = IF c = reg THEN {} ELSE raced
       PROVE  Sockets' /\ Registered' /\ Removals' /\ Restored'
    <3>0. cl[c].run = "dial" /\ UNCHANGED <<browser, token, reg, wanted, pushCall>>
      BY <1>10 DEF H!DialAndPump
    <3>1. Sockets'
      BY <2>1, <2>b, <3>0 DEF Client, Held, Sockets
    <3>2. Registered'
      BY <2>1, <2>b, <3>0 DEF Client, Held, Registered
    <3>3. Removals'
      BY <2>1, <2>b, <3>0 DEF Client, Held, Removals, Due, Registered, Sockets
    <3>4. Restored'
      BY <2>1, <2>b, <3>0 DEF Client, Held, Restored, Due, Frame, H!Accepted, Sockets, Registered, Removals
    <3> QED
      BY <3>1, <3>2, <3>3, <3>4
  <2> QED
    BY <1>10, <2>1, <2>a, <2>b DEF H!DialAndPump, H!Set
<1>11. ASSUME NEW c \in Clients, H!Listen(c) PROVE Push'
  <2>0. /\ [cl[c] EXCEPT !.run = "pump", !.snap = {}, !.edge = H!WriteListen(c, TRUE, cl[c].snap)] \in Client
        /\ [cl[c] EXCEPT !.run = "loop", !.snap = {}] \in Client
    BY DEF Client, H!Topics, H!WriteListen
  <2>1. PushTypes'
    BY <1>11, <2>0 DEF H!Listen, H!Set, H!Keep
  <2>2. Sockets'
    BY <1>11, <2>1 DEF H!Listen, H!WriteListen, H!Accepted, H!Set, H!Keep, Client, Held, Sockets
  <2>3. Registered'
    BY <1>11, <2>1 DEF H!Listen, H!WriteListen, H!Accepted, H!Set, H!Keep, Client, Held, Registered
  <2>4. Removals'
    BY <1>11, <2>1 DEF H!Listen, H!WriteListen, H!Accepted, H!Set, H!Keep, Client, Held, Removals, Due, Registered, Sockets
  <2>5. Restored'
    BY <1>11, <2>1 DEF H!Listen, H!WriteListen, H!Accepted, H!Set, H!Keep, Client, Held, Restored, Due, Frame, H!Accepted, Sockets, Registered, Removals
  <2> QED
    BY <2>1, <2>2, <2>3, <2>4, <2>5
<1>12. ASSUME NEW c \in Clients, H!Drop(c) PROVE Push'
  <2>a. H!Lost(cl[c]) \in Client
    BY DEF H!Lost, Client
  <2>b. pushCall' = [v \in Goroutines |-> IF pushCall[v].c = c THEN [pushCall[v] EXCEPT !.on = FALSE]
                                         ELSE pushCall[v]]
    BY <1>12 DEF H!Drop, H!Orphan
  <2>c. \A v \in Goroutines : [pushCall[v] EXCEPT !.on = FALSE] \in Held
    BY DEF Held
  <2>0. /\ pushCall' \in [Goroutines -> Held] /\ H!Lost(cl[c]) \in Client
        /\ \A v \in Goroutines : pushCall'[v].pc = pushCall[v].pc /\ pushCall'[v].c = pushCall[v].c
    BY <2>a, <2>b, <2>c DEF Held
  <2>1. PushTypes'
    BY <1>12, <2>0 DEF H!Drop, H!Set, H!Keep
  <2>2. Sockets'
    BY <1>12, <2>1 DEF H!Drop, H!Orphan, H!Lost, H!Set, H!Keep, Client, Held, Sockets
  <2>3. Registered'
    BY <1>12, <2>1 DEF H!Drop, H!Orphan, H!Lost, H!Set, H!Keep, Client, Held, Registered
  <2>4. Removals'
    BY <1>12, <2>1 DEF H!Drop, H!Orphan, H!Lost, H!Set, H!Keep, Client, Held, Removals, Due, Registered, Sockets
  <2>5. Restored'
    BY <1>12, <2>1 DEF H!Drop, H!Orphan, H!Lost, H!Set, H!Keep, Client, Held, Restored, Due, Frame, H!Accepted, Sockets, Registered, Removals
  <2> QED
    BY <2>1, <2>2, <2>3, <2>4, <2>5
<1>13. ASSUME NEW c \in Clients, H!ReadFails(c) PROVE Push'
  <2>0. [cl[c] EXCEPT !.run = "loop", !.conn = FALSE] \in Client
    BY ZenonT(40) DEF Client, H!Topics
  <2>1. PushTypes'
    BY <1>13, <2>0 DEF H!ReadFails, H!Set, H!Keep
  <2>2. Sockets'
    BY <1>13, <2>1 DEF H!ReadFails, H!Set, H!Keep, Client, Held, Sockets
  <2>3. Registered'
    BY <1>13, <2>1 DEF H!ReadFails, H!Set, H!Keep, Client, Held, Registered
  <2>4. Removals'
    BY <1>13, <2>1 DEF H!ReadFails, H!Set, H!Keep, Client, Held, Removals, Due, Registered, Sockets
  <2>5. Restored'
    BY <1>13, <2>1 DEF H!ReadFails, H!Set, H!Keep, Client, Held, Restored, Due, Frame, H!Accepted, Sockets, Registered, Removals
  <2> QED
    BY <2>1, <2>2, <2>3, <2>4, <2>5
<1>14. CASE H!InvalidateAuth \/ H!CloseTwitchBackend
  BY <1>7, <1>14 DEF H!InvalidateAuth, H!CloseTwitchBackend
<1>15. CASE H!NewLogin
  <2>1. CASE H!Close
    BY <1>7, <1>15, <2>1 DEF H!NewLogin
  <2>2. CASE UNCHANGED <<reg, cl, wanted, raced, pushCall>>
    BY <1>15, <2>2 DEF H!NewLogin, Client, Held, Sockets, Registered, Due, Removals, Restored, H!Accepted
  <2> QED
    BY <1>15, <2>1, <2>2 DEF H!NewLogin
<1>16. CASE UNCHANGED pushVars
  BY <1>16 DEF pushVars, Sockets, Registered, Due, Removals, Restored, Frame, H!Accepted
<1> QED
  BY <1>1, <1>2, <1>3, <1>4, <1>5, <1>6, <1>8, <1>9, <1>10, <1>11, <1>12, <1>13, <1>14, <1>15, <1>16
     DEF H!Next, H!CallStep, H!RunStep, H!SubscribeChannel, H!UnsubscribeChannel

\* Whatever sockets, logins and goroutines race, the topics asked for are listened to
\* again on the socket that stands.
THEOREM ReconnectRestoresHolds == MCSpec => []ReconnectRestores
<1>1. MCInit => (part = "push" => Push)
  <2> SUFFICES ASSUME H!Init PROVE Push
    BY Started
  <2> USE DEF H!Init
  <2>1. H!Unused \in Client /\ H!Idle \in Held
    BY DEF H!Unused, H!Idle, Client, Held
  <2>2. PushTypes
    BY <2>1 DEF PushTypes, H!Idle
  <2> QED
    BY <2>2, BackendsAssumption DEF Push, Sockets, Registered, Due, Removals, Restored, H!Unused, H!Idle
<1>2. (part = "push" => Push) /\ [MCNext]_mcvars => (part = "push" => Push)'
  BY Turn, NextPush
<1>3. (part = "push" => Push) => ReconnectRestores
  BY DEF ReconnectRestores, H!ReconnectRestores, H!Quiet, Push, PushTypes, Due, Restored, Frame
<1> QED
  BY <1>1, <1>2, <1>3, PTL DEF MCSpec

-----------------------------------------------------------------------------
(***************************************************************************)
(* EligibleEarns, of the logins that know allow-lists.  The lists the       *)
(* search goes by are Twitch's or subsets of them that earn (Within), and a *)
(* row with drops whose campaign has no list kept, and was not taken from    *)
(* an answer without it, is of one that Twitch lists none for (Told).  What  *)
(* is captured of a campaign is Twitch's list or untold; the scan that tells *)
(* of its drops has captured one of them since the last drain (Detailed),    *)
(* and what a capture leaves untold the drain hands on (Kept).               *)
(***************************************************************************)
Rows == [c : Campaigns, src : {"gql"}, synth : {FALSE},
         st : {"ACTIVE", "UPCOMING", "EXPIRED", "active", "upcoming", "expired"},
         linked : BOOLEAN, checked : BOOLEAN, drops : {"none", "default", "real"},
         allow : SUBSET Channels]
Within(c, ks) == tw[c].allow # {} => ks \subseteq tw[c].allow
Told(r) == Within(r.c, r.allow) /\ (r.allow = {} => tw[r.c].allow = {})
CatalogueTypes ==
  /\ mode \in {"android", "tv"} /\ tw \in [Campaigns -> K!Fact] /\ userID \in BOOLEAN
  /\ run = [pc |-> run.pc, rows |-> run.rows, todo |-> run.todo]
  /\ run.pc \in {"idle", IF mode = "tv" THEN "inventory" ELSE "details"}
  /\ run.rows \subseteq Rows /\ run.todo \subseteq Rows /\ last \subseteq Rows
  /\ untold = [pending |-> untold.pending, kept |-> untold.kept]
  /\ run.pc # "idle" => found.c = {}

Details ==
  /\ DOMAIN cache \cup DOMAIN pending \subseteq Campaigns
  /\ \A c \in DOMAIN cache : cache[c] = tw[c].allow
  /\ \A c \in DOMAIN pending : pending[c] = tw[c].allow \/ (pending[c] = {} /\ c \in untold.pending)
  /\ \A x \in asked : x.c \in Campaigns /\ x.a \in {K!Null, K!Details(tw[x.c].allow)}
  /\ mode = "tv" => asked = {} /\ untold.pending = {}
Detailed(r) == r.drops # "none" => r.c \in DOMAIN pending
Listing == \A r \in run.rows : IF mode = "tv" THEN Told(r) ELSE Detailed(r)
Kept ==
  /\ \A c \in Campaigns : Within(c, allowed[c])
  /\ \A r \in last : r.drops # "none" /\ allowed[r.c] = {} => tw[r.c].allow = {} \/ r.c \in untold.kept
Catalogue == CatalogueTypes /\ Details /\ Listing /\ Kept /\ K!EligibleEarns

\* What a campaign's details come to: its allow-list, or a null answer.
LEMMA Answers ==
  ASSUME Catalogue, NEW c \in Campaigns
  PROVE  K!Answer(c) \subseteq {K!Null, K!Details(tw[c].allow)}
BY DEF K!Answer, Catalogue, Details

\* A capture tells of a campaign or leaves it untold, and loses nothing of what the rows
\* of the scan rest on.
LEMMA Captured ==
  ASSUME Catalogue, NEW c \in Campaigns, NEW a \in {K!Null, K!Details(tw[c].allow)},
         UNCHANGED <<mode, tw>>, K!CaptureAllowed(c, a),
         UNCHANGED cache \/ K!Remember(c, a), asked' \subseteq asked, mode # "tv"
  PROVE  /\ Details'
         /\ \A r : Detailed(r) => Detailed(r)'
         /\ c \in DOMAIN pending'
         /\ untold' = [pending |-> untold'.pending, kept |-> untold.kept]
<1>1. /\ DOMAIN pending' = DOMAIN pending \cup {c} /\ pending'[c] = a.allow
      /\ \A d \in DOMAIN pending : d # c => pending'[d] = pending[d]
  BY DEF K!CaptureAllowed, K!Keep
<1>2. \/ UNCHANGED cache
      \/ /\ a # K!Null /\ DOMAIN cache' = DOMAIN cache \cup {c} /\ cache'[c] = a.allow
         /\ \A d \in DOMAIN cache : d # c => cache'[d] = cache[d]
  BY DEF K!Remember, K!Keep
<1>3. /\ untold' = [pending |-> untold'.pending, kept |-> untold.kept]
      /\ \A d : d # c => (d \in untold'.pending <=> d \in untold.pending)
      /\ a = K!Null => c \in untold'.pending
  BY DEF K!CaptureAllowed, Catalogue, CatalogueTypes
<1>4. a.allow = tw[c].allow \/ (a = K!Null /\ a.allow = {})
  BY DEF K!Null, K!Details
<1>5. a # K!Null => a.allow = tw[c].allow
  BY <1>4
<1> QED
  BY <1>1, <1>2, <1>3, <1>4, <1>5 DEF Catalogue, Details, Detailed

\* A row of the inventory or of the Android catalogue.
LEMMA HeldRow ==
  ASSUME CatalogueTypes, NEW c \in Campaigns, NEW ks \in SUBSET Channels
  PROVE  /\ K!Held(c) \in Rows /\ K!Held(c).c = c /\ K!Held(c).allow = tw[c].allow
         /\ [K!Held(c) EXCEPT !.allow = ks] \in Rows
         /\ [K!Held(c) EXCEPT !.allow = ks].c = c /\ [K!Held(c) EXCEPT !.allow = ks].allow = ks
<1>1. /\ tw[c].status \in {"ACTIVE", "UPCOMING", "EXPIRED"} /\ tw[c].linked \in BOOLEAN
      /\ tw[c].allow \in SUBSET Channels
  BY DEF CatalogueTypes, K!Fact
<1>2. K!Lower(tw[c].status) \in {"active", "upcoming", "expired"}
  BY DEF K!Lower
<1> QED
  BY <1>1, <1>2 DEF K!Held, K!WithDrops, K!Row, Rows

\* What the inventory overrides is told as Twitch has it.
LEMMA InventoryTold ==
  ASSUME Catalogue, mode = "tv"
  PROVE  \A r \in K!Inventory(run.rows) : r \in Rows /\ Told(r)
<1> USE DEF Catalogue, CatalogueTypes, Listing
<1>1. ASSUME NEW c \in Campaigns, NEW r \in K!Override(run.rows, c)
      PROVE  r \in run.rows \/ (r \in Rows /\ Told(r))
  <2> DEFINE of == {x \in run.rows : x.c = c}
             keep == IF tw[c].allow # {} \/ of = {} THEN tw[c].allow ELSE (CHOOSE x \in of : TRUE).allow
  <2>1. /\ keep \in SUBSET Channels /\ Within(c, keep) /\ (keep = {} => tw[c].allow = {})
    BY DEF Within, Rows, K!Fact
  <2> DEFINE row == [K!Held(c) EXCEPT !.allow = keep]
  <2>2. r \in run.rows \/ r = row
    BY DEF K!Override
  <2> HIDE DEF keep
  <2>3. row \in Rows /\ row.c = c /\ row.allow = keep
    BY <2>1, HeldRow, ZenonT(30)
  <2> HIDE DEF row
  <2> QED
    BY <2>1, <2>2, <2>3 DEF Told
<1>2. \A r \in K!Inventory(run.rows) : r \in run.rows \/ \E c \in Campaigns : r \in K!Override(run.rows, c)
  BY DEF K!Inventory
<1>3. \A r \in run.rows : r \in Rows /\ Told(r)
  OBVIOUS
<1> QED
  BY <1>1, <1>2, <1>3

\* No step of a scan, of a details query or of the search breaks what is known of the lists.
LEMMA NextCatalogue ==
  ASSUME Catalogue, [K!Next]_catalogueVars
  PROVE  Catalogue'
<1> USE DEF Catalogue, CatalogueTypes, Details, Detailed, Listing, Kept, Within, Told,
            K!EligibleEarns, K!None, K!twitch
<1>0. DOMAIN << >> = {}
  OBVIOUS
<1>1. CASE K!ListActive
  <2>1. PICK page \in K!PageRows :
          run' = [pc |-> "details", rows |-> {K!Shell(r) : r \in {x \in page : ~K!NeedsDetails(x)}},
                  todo |-> {r \in page : K!NeedsDetails(r)}]
    BY <1>1 DEF K!ListActive
  <2>2. mode = "android" /\ page = K!Dashboard
    BY <1>1 DEF K!ListActive, K!PageRows
  <2> DEFINE R(c) == K!Row(c, "gql", FALSE, tw[c].status, tw[c].linked, TRUE)
  <2>3. ASSUME NEW c \in Campaigns
        PROVE  /\ R(c) \in Rows /\ R(c).drops = "none"
               /\ ~K!NeedsDetails(R(c)) => K!Shell(R(c)) \in Rows /\ K!Shell(R(c)).drops = "none"
    <3>1. tw[c].status \in {"ACTIVE", "UPCOMING", "EXPIRED"} /\ tw[c].linked \in BOOLEAN
      BY DEF K!Fact
    <3> QED
      BY <3>1, ZenonT(40) DEF K!Row, K!Shell, K!NeedsDetails, K!Lower, Rows
  <2>4. \A r \in page : /\ r \in Rows /\ r.drops = "none"
                        /\ ~K!NeedsDetails(r) => K!Shell(r) \in Rows /\ K!Shell(r).drops = "none"
    <3>1. page = {R(c) : c \in Campaigns}
      BY <2>2 DEF K!Dashboard
    <3> HIDE DEF R
    <3> QED
      BY <2>3, <3>1
  <2>5. /\ run'.pc = "details" /\ run'.rows \subseteq Rows /\ run'.todo \subseteq Rows
        /\ \A r \in run'.rows : r.drops = "none"
        /\ run' = [pc |-> run'.pc, rows |-> run'.rows, todo |-> run'.todo]
    BY <2>1, <2>4
  <2>6. /\ userID' \in {userID, TRUE} /\ last' = {} /\ found' = K!None
        /\ UNCHANGED <<mode, tw, live, cache, pending, allowed, asked, untold>>
    BY <1>1, Zenon DEF K!ListActive, K!ResolveCurrentUserID, K!lists
  <2> QED
    BY <2>2, <2>5, <2>6
<1>2. ASSUME NEW r \in K!Turn, K!FetchDetails(r) PROVE Catalogue'
  <2>1. r \in run.todo /\ r \in Rows /\ r.c \in Campaigns
    BY <1>2 DEF K!Turn, Rows
  <2>2. mode = "android" /\ run.pc = "details" /\ UNCHANGED <<mode, tw, live, userID, allowed, asked, last, found>>
    BY <1>2 DEF K!FetchDetails
  <2>3. PICK a \in K!Answer(r.c) :
          /\ K!Remember(r.c, a) /\ K!CaptureAllowed(r.c, a)
          /\ K!Done(r, [r EXCEPT !.st = "active", !.drops = a.drops, !.allow = a.allow])
    BY <1>2 DEF K!FetchDetails
  <2>9. a \in {K!Null, K!Details(tw[r.c].allow)}
    BY <2>1, Answers
  <2>4. PICK row \in Rows :
          /\ row.c = r.c /\ run' = [run EXCEPT !.todo = @ \ {r}, !.rows = @ \cup {row}]
    <3> DEFINE row == [r EXCEPT !.st = "active", !.drops = a.drops, !.allow = a.allow]
    <3>1. run' = [run EXCEPT !.todo = @ \ {r}, !.rows = @ \cup {row}]
      BY <2>3 DEF K!Done
    <3>2. a.drops \in {"none", "real"} /\ a.allow \subseteq Channels
      BY <2>1, <2>9 DEF K!Null, K!Details, K!Fact
    <3>3. row \in Rows /\ row.c = r.c
      BY <2>1, <3>2 DEF Rows
    <3> HIDE DEF row
    <3> QED
      BY <3>1, <3>3
  <2>5. /\ Details' /\ \A x : Detailed(x) => Detailed(x)'
        /\ r.c \in DOMAIN pending'
        /\ untold' = [pending |-> untold'.pending, kept |-> untold.kept]
    BY <2>1, <2>2, <2>3, <2>9, Captured
  <2>6. run'.rows = run.rows \cup {row}
    BY <2>4
  <2>7. CatalogueTypes'
    BY <2>2, <2>4, <2>5
  <2>8. Listing'
    <3>1. Detailed(row)'
      BY <2>4, <2>5
    <3> HIDE DEF Detailed
    <3> QED
      BY <2>2, <2>5, <2>6, <3>1
  <2>10. untold'.kept = untold.kept
    BY <2>5
  <2> QED
    BY <2>2, <2>5, <2>7, <2>8, <2>10 DEF K!Earns
<1>3. CASE K!ListFails
  BY <1>3 DEF K!ListFails, K!Idle, K!Earns, K!lists
<1>4. CASE K!ListEnds
  <2>1. last' \subseteq run.rows
    BY <1>4 DEF K!ListEnds, K!DedupeSynthVsReal
  <2>2. /\ mode = "android" /\ found.c = {} /\ pending' = << >> /\ run' = K!Idle
        /\ UNCHANGED <<mode, tw, live, userID, cache, asked, found>>
        /\ allowed' = [c \in Campaigns |-> IF c \in DOMAIN pending THEN pending[c] ELSE allowed[c]]
        /\ untold' = [pending |-> {}, kept |-> (untold.kept \ DOMAIN pending) \cup untold.pending]
    BY <1>4 DEF K!ListEnds, K!DrainAllowed
  <2>3. CatalogueTypes' /\ Details'
    BY <1>0, <2>1, <2>2 DEF K!Idle
  <2>4. Listing'
    BY <2>2 DEF K!Idle
  <2>5. Kept'
    <3>1. ASSUME NEW c \in Campaigns PROVE Within(c, allowed'[c])
      BY <2>2
    <3>2. ASSUME NEW r \in last', r.drops # "none", allowed'[r.c] = {}
          PROVE  tw[r.c].allow = {} \/ r.c \in untold'.kept
      <4>1. r.c \in DOMAIN pending /\ r.c \in Campaigns
        BY <2>1, <2>2, <3>2 DEF Rows
      <4>2. allowed'[r.c] = pending[r.c]
        BY <2>2, <4>1
      <4> QED
        BY <2>2, <3>2, <4>1, <4>2
    <3> QED
      BY <2>2, <3>1, <3>2
  <2> QED
    BY <2>2, <2>3, <2>4, <2>5
<1>5. ASSUME NEW c \in Campaigns, K!CampaignDetails(c) PROVE Catalogue'
  <2>1. mode = "android" /\ UNCHANGED <<mode, tw, live, userID, pending, allowed, untold, run, last, found>>
    BY <1>5 DEF K!CampaignDetails
  <2>2. PICK a \in K!Answer(c) : asked' = {[c |-> c, a |-> a]} /\ K!Remember(c, a)
    BY <1>5 DEF K!CampaignDetails
  <2>3. a \in {K!Null, K!Details(tw[c].allow)}
    BY Answers
  <2>4. \/ UNCHANGED cache
        \/ /\ DOMAIN cache' = DOMAIN cache \cup {c} /\ cache'[c] = tw[c].allow
           /\ \A d \in DOMAIN cache : d # c => cache'[d] = cache[d]
    BY <2>2, <2>3 DEF K!Remember, K!Keep, K!Details
  <2>5. Details'
    BY <2>1, <2>2, <2>3, <2>4
  <2> QED
    BY <2>1, <2>5 DEF K!Earns
<1>13. CASE K!CaptureAsked
  <2>1. PICK x \in asked : K!CaptureAllowed(x.c, x.a)
    BY <1>13 DEF K!CaptureAsked
  <2>2. mode # "tv" /\ asked' = {} /\ UNCHANGED <<mode, tw, live, userID, cache, allowed, run, last, found>>
    BY <1>13, <2>1 DEF K!CaptureAsked
  <2>3. /\ Details' /\ \A r : Detailed(r) => Detailed(r)'
        /\ untold' = [pending |-> untold'.pending, kept |-> untold.kept]
    BY <2>1, <2>2, Captured
  <2>4. untold'.kept = untold.kept
    BY <2>3
  <2>5. Listing'
    <3> HIDE DEF Detailed
    <3> QED
      BY <2>2, <2>3
  <2> QED
    BY <2>2, <2>3, <2>4, <2>5 DEF K!Earns
<1>6. CASE K!ListByChannels
  <2>1. PICK ks \in SUBSET K!ListForGameDirectory :
          LET served == [c \in UNION {K!Serves(k) : k \in ks} |-> {k \in ks : c \in K!Serves(k)}]
          IN  run' = [pc |-> "inventory", todo |-> {},
                      rows |-> {[K!WithDrops(K!Row(c, "gql", FALSE, "active", TRUE, FALSE))
                                   EXCEPT !.allow = served[c]] : c \in DOMAIN served}]
    BY <1>6 DEF K!ListByChannels
  <2> DEFINE served == [c \in UNION {K!Serves(k) : k \in ks} |-> {k \in ks : c \in K!Serves(k)}]
             R(c) == [K!WithDrops(K!Row(c, "gql", FALSE, "active", TRUE, FALSE)) EXCEPT !.allow = served[c]]
  <2>2. run' = [pc |-> "inventory", todo |-> {}, rows |-> {R(c) : c \in DOMAIN served}]
    BY <2>1, Zenon
  <2>3. ASSUME NEW c \in DOMAIN served PROVE R(c) \in Rows /\ Told(R(c))
    <3>1. /\ c \in Campaigns /\ served[c] \in SUBSET Channels
          /\ served[c] # {} /\ Within(c, served[c])
      BY DEF K!Serves, K!Earns, K!ListForGameDirectory
    <3> HIDE DEF served
    <3>2. R(c) \in Rows /\ R(c).c = c /\ R(c).allow = served[c]
      BY <3>1 DEF K!WithDrops, K!Row, Rows
    <3> HIDE DEF R
    <3> QED
      BY <3>1, <3>2
  <2>4. \A r \in run'.rows : r \in Rows /\ Told(r)
    <3> HIDE DEF served, R, Told
    <3> QED
      BY <2>2, <2>3
  <2>5. /\ mode = "tv" /\ last' = {} /\ found' = K!None
        /\ UNCHANGED <<mode, tw, userID, cache, pending, allowed, asked, untold>>
    BY <1>6 DEF K!ListByChannels, K!lists
  <2>6. CatalogueTypes'
    <3>1. run'.pc = "inventory" /\ run'.todo = {}
          /\ run' = [pc |-> run'.pc, rows |-> run'.rows, todo |-> run'.todo]
      BY <2>2
    <3> QED
      BY <2>4, <2>5, <3>1
  <2> QED
    BY <2>4, <2>5, <2>6
<1>7. CASE K!TVEnds
  <2>1. mode = "tv"
    BY <1>7 DEF K!TVEnds
  <2>2. PICK mine \in {run.rows, K!Inventory(run.rows)}, shared \in K!WithShared :
          LET add == K!MergeShared(mine, shared)
              gave == {r \in mine : r.allow # {}} \union add
          IN  /\ last' = mine \union add
              /\ K!DrainAllowed([c \in {r.c : r \in gave} |-> (CHOOSE r \in gave : r.c = c).allow])
    BY <1>7 DEF K!TVEnds
  <2> DEFINE add == K!MergeShared(mine, shared)
             gave == {r \in mine : r.allow # {}} \union add
  <2>3. \A r \in mine : r \in Rows /\ Told(r)
    <3>1. \A r \in run.rows : r \in Rows /\ Told(r)
      BY <2>1
    <3>2. \A r \in K!Inventory(run.rows) : r \in Rows /\ Told(r)
      BY <2>1, InventoryTold
    <3> HIDE DEF Told
    <3> QED
      BY <3>1, <3>2
  <2>4. ASSUME NEW r \in add PROVE r \in Rows /\ Told(r)
    <3>1. PICK c \in Campaigns : r = K!Shareable(K!Held(c))
      BY DEF K!MergeShared, K!WithShared, K!Catalog, K!Shown
    <3>2. /\ K!Held(c) \in Rows /\ K!Held(c).c = c /\ K!Held(c).allow = tw[c].allow
      BY HeldRow
    <3>3. r \in Rows /\ r.c = c /\ r.allow = tw[c].allow
      BY <3>1, <3>2 DEF K!Shareable, Rows, K!Fact
    <3> QED
      BY <3>3
  <2> HIDE DEF add
  <2>5. \A r \in gave : r \in Rows /\ Told(r)
    BY <2>3, <2>4
  <2> HIDE DEF gave
  <2>6. ASSUME NEW c \in Campaigns
        PROVE  \/ (\A r \in gave : r.c # c) /\ allowed'[c] = allowed[c]
               \/ \E r \in gave : r.c = c /\ allowed'[c] = r.allow
    <3> DEFINE p == [d \in {r.c : r \in gave} |-> (CHOOSE r \in gave : r.c = d).allow]
    <3>1. K!DrainAllowed(p)
      BY <2>2 DEF add, gave
    <3>2. CASE \E r \in gave : r.c = c
      <4>1. /\ (CHOOSE r \in gave : r.c = c) \in gave /\ (CHOOSE r \in gave : r.c = c).c = c
        BY <3>2
      <4>2. allowed'[c] = (CHOOSE r \in gave : r.c = c).allow
        BY <3>1, <3>2 DEF K!DrainAllowed
      <4> QED
        BY <4>1, <4>2
    <3>3. CASE \A r \in gave : r.c # c
      BY <3>1, <3>3 DEF K!DrainAllowed
    <3> QED
      BY <3>2, <3>3
  <2>7. last' = mine \union add /\ run' = K!Idle
        /\ found.c = {} /\ UNCHANGED <<mode, tw, live, userID, cache, pending, asked, found>>
        /\ untold' = [pending |-> {}, kept |-> untold'.kept]
    BY <1>7, <2>2 DEF K!TVEnds, K!DrainAllowed, add
  <2>8. Kept'
    <3>1. ASSUME NEW c \in Campaigns PROVE Within(c, allowed'[c])
      BY <2>5, <2>6
    <3>2. ASSUME NEW r \in last', allowed'[r.c] = {} PROVE tw[r.c].allow = {}
      <4>1. r \in Rows /\ Told(r) /\ (r \in gave \/ r.allow = {})
        BY <2>3, <2>4, <2>7 DEF gave
      <4>2. r.c \in Campaigns
        BY <4>1 DEF Rows
      <4> QED
        BY <2>5, <2>6, <3>2, <4>1, <4>2, SMTT(30)
    <3> QED
      BY <2>7, <3>1, <3>2
  <2>9. CatalogueTypes'
    BY <2>3, <2>4, <2>7 DEF K!Idle
  <2>10. Details' /\ Listing'
    BY <2>1, <2>7 DEF K!Idle
  <2>11. K!EligibleEarns'
    BY <2>7 DEF K!Earns
  <2> QED
    BY <2>8, <2>9, <2>10, <2>11
<1>8. ASSUME NEW r \in last, K!ListEligibleChannels(r) PROVE Catalogue'
  <2>1. /\ run.pc = "idle" /\ r.drops # "none" /\ r.c \in Campaigns
        /\ UNCHANGED <<mode, tw, live, userID, cache, pending, allowed, asked, untold, run, last>>
    BY <1>8 DEF K!ListEligibleChannels, K!lists, Rows
  <2>2. /\ found'.c = {r.c}
        /\ \/ allowed[r.c] # {} /\ found'.on = K!ListEligible(allowed[r.c])
           \/ allowed[r.c] = {} /\ found'.on = K!ListForGameDirectory
    BY <1>8 DEF K!ListEligibleChannels, Rows
  <2>3. ASSUME r.c \notin untold.kept, NEW k \in found'.on PROVE K!Earns(k, r.c)
    BY <2>1, <2>2, <2>3, SMTT(30) DEF K!ListEligible, K!ListForGameDirectory, K!Lookup, K!SameGame, K!Earns
  <2>4. K!EligibleEarns'
    BY <2>1, <2>2, <2>3 DEF K!Earns
  <2>5. CatalogueTypes' /\ Details' /\ Listing' /\ Kept'
    BY <2>1
  <2> QED
    BY <2>4, <2>5
<1>9. ASSUME NEW c \in Campaigns, K!Advance(c) PROVE Catalogue'
  <2>1. tw' \in [Campaigns -> K!Fact] /\ \A d \in Campaigns : tw'[d].allow = tw[d].allow
    <3>1. PICK st \in {"ACTIVE", "EXPIRED"}, p \in BOOLEAN :
            tw' = [tw EXCEPT ![c] = [tw[c] EXCEPT !.status = IF @ = "EXPIRED" THEN @ ELSE st, !.progress = p]]
      BY <1>9 DEF K!Advance
    <3> DEFINE f == [tw[c] EXCEPT !.status = IF @ = "EXPIRED" THEN @ ELSE st, !.progress = p]
    <3>2. f \in K!Fact /\ f.allow = tw[c].allow
      <4> DEFINE s == IF tw[c].status = "EXPIRED" THEN tw[c].status ELSE st
      <4>1. tw[c] \in K!Fact /\ s \in {"UPCOMING", "ACTIVE", "EXPIRED"}
        BY DEF K!Fact
      <4>2. f = [tw[c] EXCEPT !.status = s, !.progress = p]
        OBVIOUS
      <4> HIDE DEF s, f
      <4> QED
        BY <4>1, <4>2 DEF K!Fact
    <3> HIDE DEF f
    <3> QED
      BY <3>1, <3>2 DEF f
  <2>2. found' = K!None /\ UNCHANGED <<mode, userID, cache, pending, allowed, asked, untold, run, last>>
    BY <1>9 DEF K!Advance, K!Change, K!lists
  <2>3. CatalogueTypes'
    BY <2>1, <2>2
  <2>4. Details'
    BY <2>1, <2>2
  <2>5. \A r \in Rows : r.c \in Campaigns
    BY DEF Rows
  <2>6. Listing'
    BY <2>1, <2>2, <2>5
  <2>7. Kept'
    BY <2>1, <2>2, <2>5
  <2> QED
    BY <2>2, <2>3, <2>4, <2>6, <2>7
<1>10. ASSUME NEW k \in Channels, K!Switch(k) PROVE Catalogue'
  BY <1>10 DEF K!Switch, K!Change, K!lists
<1>11. CASE K!Expire
  BY <1>0, <1>11 DEF K!Expire, K!Change, K!lists
<1>12. CASE UNCHANGED catalogueVars
  BY <1>12 DEF catalogueVars, K!Earns
<1> QED
  BY <1>1, <1>2, <1>3, <1>4, <1>5, <1>6, <1>7, <1>8, <1>9, <1>10, <1>11, <1>12, <1>13 DEF K!Next

\* Whatever details fail, age out or are read by two at once, a channel found for a
\* campaign earns it, unless its list was last taken from an answer without it.
THEOREM EligibleEarnsHolds == MCSpec => []EligibleEarns
<1>1. MCInit => (part = "catalogue" /\ mode # "browser" => Catalogue)
  BY Started, BackendsAssumption
     DEF K!Init, K!Idle, K!None, Catalogue, CatalogueTypes, Details, Listing, Kept, Within, K!EligibleEarns
<1>2. (part = "catalogue" /\ mode # "browser" => Catalogue) /\ [MCNext]_mcvars
        => (part = "catalogue" /\ mode # "browser" => Catalogue)'
  <2>1. ASSUME [K!Next]_catalogueVars PROVE UNCHANGED mode
    BY <2>1 DEF K!Next, K!ListActive, K!ListFails, K!ListEnds, K!ListByChannels, K!TVEnds, K!Expire,
                K!FetchDetails, K!ListEligibleChannels, K!CampaignDetails, K!CaptureAsked, K!Advance, K!Switch,
                K!twitch, catalogueVars
  <2> QED
    BY <2>1, Turn, NextCatalogue
<1>3. (part = "catalogue" /\ mode # "browser" => Catalogue) => EligibleEarns
  BY DEF EligibleEarns, K!EligibleEarns, Catalogue
<1> QED
  BY <1>1, <1>2, <1>3, PTL DEF MCSpec

-----------------------------------------------------------------------------
\* Frames under way are counted, and so are the ticks.
Counts == /\ toServer \in Nat /\ toClient \in Nat /\ counter \in Nat /\ hsSent \in Nat
          /\ probe \in {"rest", "token", "dial", "hello", "pump", "close", "snapshot"}

\* What a frame under way says of the past: the server sent one on this connection.
FramesWereSent  == toClient > 0 \/ reader = "took" \/ pongSeen => spoke
\* A second handshake is of a tick, and there is a first before the pump only.
HandshakesTick == hsSent <= counter + (IF probe \in {"token", "dial", "hello"} THEN 0 ELSE 1)

\* The inductive invariant: a healthy verdict needs pongSeen and two handshakes.
Heard == Counts /\ FramesWereSent /\ HandshakesTick /\ NilMeansHeard

(* A probe that reports a healthy transport heard the server over this       *)
(* connection and past its first handshake, though the server may drop it at *)
(* any moment and frames of it are in flight when it is closed.              *)
THEOREM NilMeansHeardHolds == MCSpec => []NilMeansHeard
<1>1. MCInit => Heard
  BY Started, SMT DEF Init, Fresh, Heard, Counts, FramesWereSent, HandshakesTick, NilMeansHeard
<1>2. Heard /\ [MCNext]_mcvars => Heard'
  <2> SUFFICES ASSUME Heard, [Next]_wpvars PROVE Heard'
    BY Turn
  <2> USE DEF Heard, Counts, FramesWereSent, HandshakesTick, NilMeansHeard, wire, seenBy
  <2>1. CASE ProbeWS
    BY <2>1, SMT DEF ProbeWS
  <2>2. CASE FetchViewerToken
    BY <2>2, SMT DEF FetchViewerToken, Ends
  <2>3. CASE DialViewerWS
    BY <2>3, SMT DEF DialViewerWS, Ends
  <2>4. CASE Hello
    BY <2>4, SMT DEF Hello, Handshake, WriteFails
  <2>5. CASE Tick
    BY <2>5, SMT DEF Tick, Handshake, Ping, WriteFails
  <2>6. CASE PumpEnds
    BY <2>6, SMT DEF PumpEnds
  <2>7. CASE Close
    BY <2>7, SMT DEF Close
  <2>8. CASE Verdict
    BY <2>8, SMT DEF Verdict, Ends, Healthy
  <2>9. CASE ReadMessage
    BY <2>9, SMT DEF ReadMessage
  <2>10. CASE PongSeen
    BY <2>10, SMT DEF PongSeen
  <2>11. CASE Pong \/ Greets
    BY <2>11, SMT DEF Pong, Greets, Says
  <2>12. CASE Drops
    BY <2>12, SMT DEF Drops
  <2>13. CASE UNCHANGED wpvars
    BY <2>13, SMT DEF wpvars
  <2>14. QED
    BY <2>1, <2>2, <2>3, <2>4, <2>5, <2>6, <2>7, <2>8, <2>9, <2>10, <2>11, <2>12, <2>13 DEF Next
<1>3. Heard => NilMeansHeard
  BY DEF Heard
<1>4. QED
  BY <1>1, <1>2, <1>3, PTL DEF MCSpec

-----------------------------------------------------------------------------
(***************************************************************************)
(* ReclickExcused.  A call past the lock holds it (Locked), so that from the *)
(* look at the titles taken as claimed to the click no other call of the     *)
(* account marks any (Skips). A title that was clicked, and whose mark is    *)
(* neither lost nor made, is one that the holder of the lock is to mark      *)
(* (Marks).                                                                  *)
(***************************************************************************)
CallOf(S) == [pc : S, op : S, acc : S, cookies : S, tab : S, again : S, skip : S, out : S]
IsCall(x) == \E S : x \in CallOf(S)
TabTypes == /\ call = [c \in Callers |-> call[c]] /\ \A c \in Callers : IsCall(call[c])
            /\ tabMu = [a \in Accounts |-> tabMu[a]] /\ claimedT = [a \in Accounts |-> claimedT[a]]
            /\ \A c \in Callers : call[c].pc # "idle" => call[c].acc \in Accounts
Locked == \A c \in Callers : call[c].pc \in {"drive", "claimTab", "tiles", "click", "mark"} => tabMu[call[c].acc] = c
Skips == \A c \in Callers : call[c].pc = "click" => call[c].skip = claimedT[call[c].acc]
Tabs == TabTypes /\ Locked /\ Skips
ToMark(d, a, t) == call[d].pc = "mark" /\ call[d].acc = a /\ t \in call[d].out
Marks == /\ spent = [a \in Accounts |-> [t \in Titles |-> spent[a][t]]]
         /\ \A a \in Accounts, t \in Titles :
              spent[a][t] = "kept" => t \in claimedT[a] \/ \E d \in Callers : ToMark(d, a, t)

\* What a call becomes that goes on: with its tab, with the titles to skip, with those
\* it clicked, or once more from the start.
To(x, pc) == [x EXCEPT !.pc = pc]
InTab(x, pc, v) == [x EXCEPT !.pc = pc, !.tab = v]
Skipping(x, pc, v) == [x EXCEPT !.pc = pc, !.skip = v]
Clicked(x, pc, v) == [x EXCEPT !.pc = pc, !.out = v]
Again(x, pc, v) == [x EXCEPT !.pc = pc, !.again = v]
GoesOn(x, y, pc) == IsCall(y) /\ y.pc = pc /\ y.acc = x.acc
LEMMA GoingOn ==
  ASSUME NEW x, IsCall(x), NEW pc, NEW v
  PROVE  /\ GoesOn(x, To(x, pc), pc) /\ GoesOn(x, InTab(x, pc, v), pc) /\ GoesOn(x, Clicked(x, pc, v), pc)
         /\ GoesOn(x, Again(x, pc, v), pc) /\ GoesOn(x, Skipping(x, pc, v), pc) /\ Skipping(x, pc, v).skip = v
<1>1. PICK S : x \in CallOf(S)
  BY DEF IsCall
<1>2. GoesOn(x, To(x, pc), pc)
  <2>1. To(x, pc) \in CallOf(S \cup {pc})
    BY <1>1 DEF CallOf, To
  <2>2. To(x, pc).pc = pc /\ To(x, pc).acc = x.acc
    BY <1>1 DEF CallOf, To
  <2> QED
    BY <2>1, <2>2 DEF IsCall, GoesOn
<1>3. GoesOn(x, InTab(x, pc, v), pc)
  <2>1. InTab(x, pc, v) \in CallOf(S \cup {pc, v})
    BY <1>1 DEF CallOf, InTab
  <2>2. InTab(x, pc, v).pc = pc /\ InTab(x, pc, v).acc = x.acc
    BY <1>1 DEF CallOf, InTab
  <2> QED
    BY <2>1, <2>2 DEF IsCall, GoesOn
<1>4. GoesOn(x, Clicked(x, pc, v), pc)
  <2>1. Clicked(x, pc, v) \in CallOf(S \cup {pc, v})
    BY <1>1 DEF CallOf, Clicked
  <2>2. Clicked(x, pc, v).pc = pc /\ Clicked(x, pc, v).acc = x.acc
    BY <1>1 DEF CallOf, Clicked
  <2> QED
    BY <2>1, <2>2 DEF IsCall, GoesOn
<1>5. GoesOn(x, Again(x, pc, v), pc)
  <2>1. Again(x, pc, v) \in CallOf(S \cup {pc, v})
    BY <1>1 DEF CallOf, Again
  <2>2. Again(x, pc, v).pc = pc /\ Again(x, pc, v).acc = x.acc
    BY <1>1 DEF CallOf, Again
  <2> QED
    BY <2>1, <2>2 DEF IsCall, GoesOn
<1>6. GoesOn(x, Skipping(x, pc, v), pc) /\ Skipping(x, pc, v).skip = v
  <2>1. Skipping(x, pc, v) \in CallOf(S \cup {pc, v})
    BY <1>1 DEF CallOf, Skipping
  <2>2. Skipping(x, pc, v).pc = pc /\ Skipping(x, pc, v).acc = x.acc /\ Skipping(x, pc, v).skip = v
    BY <1>1 DEF CallOf, Skipping
  <2> QED
    BY <2>1, <2>2 DEF IsCall, GoesOn
<1> QED
  BY <1>2, <1>3, <1>4, <1>5, <1>6

\* A call that is over is one.
LEMMA NoCall == IsCall(T!Idle) /\ T!Idle.pc = "idle"
<1>1. T!Idle \in CallOf({"idle", "gql", NoOne, 0, FALSE, {}})
  BY DEF T!Idle, CallOf
<1> QED
  BY <1>1 DEF T!Idle, IsCall

\* No step of a call, of a login or of a restart breaks what is known of the lock.
LEMMA NextTabs ==
  ASSUME Tabs, [T!Next]_tabVars
  PROVE  Tabs'
<1> USE BackendsAssumption DEF Tabs
<1>0. IsCall(T!Idle) /\ T!Idle.pc = "idle"
  BY NoCall
\* the call of c alone moves, short of the lock, or on within it
<1>1. ASSUME NEW c \in Callers, NEW x, IsCall(x), call' = [call EXCEPT ![c] = x], UNCHANGED <<tabMu, claimedT>>,
             x.pc # "idle" => x.acc \in Accounts,
             \/ x.pc \notin {"drive", "claimTab", "tiles", "click", "mark"}
             \/ /\ x.pc \in {"drive", "claimTab", "tiles", "mark"} /\ x.acc = call[c].acc
                /\ call[c].pc \in {"drive", "claimTab", "tiles", "click", "mark"}
             \/ x.pc = "click" /\ call[c].pc = "tiles" /\ x.acc = call[c].acc /\ x.skip = claimedT[x.acc]
      PROVE  Tabs'
  <2>1. call' = [d \in Callers |-> call'[d]] /\ call'[c] = x /\ \A d \in Callers \ {c} : call'[d] = call[d]
    BY <1>1 DEF TabTypes
  <2>2. TabTypes'
    BY <1>1, <2>1 DEF TabTypes
  <2>3. Locked'
    BY <1>1, <2>1 DEF Locked
  <2>4. Skips'
    BY <1>1, <2>1 DEF Skips
  <2> QED
    BY <2>2, <2>3, <2>4
\* a call ends and gives its lock back, marking what it likes
<1>2. ASSUME NEW c \in Callers, NEW x, NEW y, x = call[c], IsCall(y), call' = [call EXCEPT ![c] = y],
             tabMu' = [tabMu EXCEPT ![x.acc] = NoOne], x.pc \in {"drive", "mark"},
             y.pc = "idle" \/ (y.pc = "acquire" /\ y.acc = x.acc),
             claimedT' = [a \in Accounts |-> claimedT'[a]], \A a \in Accounts \ {x.acc} : claimedT'[a] = claimedT[a]
      PROVE  Tabs'
  <2>1. call' = [d \in Callers |-> call'[d]] /\ call'[c] = y /\ \A d \in Callers \ {c} : call'[d] = call[d]
    BY <1>2 DEF TabTypes
  <2>2. tabMu' = [a \in Accounts |-> tabMu'[a]] /\ \A a \in Accounts \ {x.acc} : tabMu'[a] = tabMu[a]
    BY <1>2 DEF TabTypes
  <2>3. \A d \in Callers \ {c} : call[d].pc \in {"drive", "claimTab", "tiles", "click", "mark"} => call[d].acc # x.acc
    BY <1>2 DEF Locked
  <2>4. TabTypes'
    BY <1>2, <2>1, <2>2 DEF TabTypes
  <2>5. Locked'
    BY <1>2, <2>1, <2>2, <2>3 DEF TabTypes, Locked
  <2>6. Skips'
    BY <1>2, <2>1, <2>2, <2>3 DEF TabTypes, Skips
  <2> QED
    BY <2>4, <2>5, <2>6
<1>3. ASSUME NEW c \in Callers, NEW a \in Accounts, NEW op \in {"list", "gql", "rewards"}, T!Begin(c, a, op) PROVE Tabs'
  <2> DEFINE x == [T!Idle EXCEPT !.pc = IF a \in authed THEN T!Method(op) ELSE "acquire",
                                 !.op = op, !.acc = a, !.cookies = cookies[a]]
  <2>1. IsCall(x) /\ x.pc \in {"acquire", "claimLock", "tabFor"} /\ x.acc = a
    <3>1. x \in CallOf({"acquire", "claimLock", "tabFor", op, a, cookies[a], 0, FALSE, {}})
      BY DEF T!Idle, CallOf, T!Method
    <3>2. x.pc \in {"acquire", "claimLock", "tabFor"} /\ x.acc = a
      BY DEF T!Idle, T!Method
    <3> QED
      BY <3>1, <3>2 DEF IsCall
  <2>2. call' = [call EXCEPT ![c] = x] /\ UNCHANGED <<tabMu, claimedT>>
    BY <1>3 DEF T!Begin, T!Step, T!sidecar
  <2> HIDE DEF x
  <2> QED
    BY <1>1, <2>1, <2>2
\* what a call becomes that goes on, opens a tab or retries
<1>4. ASSUME NEW c \in Callers, T!Call(c) PROVE Tabs'
  <2> PICK x : x = call[c]
    OBVIOUS
  <2>0. IsCall(x) /\ (x.pc # "idle" => x.acc \in Accounts)
    BY DEF TabTypes
  <2>A. ASSUME NEW pc, NEW v, UNCHANGED <<tabMu, claimedT>>, x.pc # "idle",
               \/ pc \notin {"drive", "claimTab", "tiles", "click", "mark"}
               \/ pc = "tiles" /\ x.pc = "claimTab"
               \/ pc = "mark" /\ x.pc = "click",
               \/ call' = [call EXCEPT ![c] = To(x, pc)] \/ call' = [call EXCEPT ![c] = InTab(x, pc, v)]
               \/ call' = [call EXCEPT ![c] = Clicked(x, pc, v)] \/ call' = [call EXCEPT ![c] = Again(x, pc, v)]
        PROVE  Tabs'
    <3>1. PICK y : call' = [call EXCEPT ![c] = y] /\ GoesOn(x, y, pc)
      BY <2>A, <2>0, GoingOn
    <3> QED
      BY <1>1, <2>A, <2>0, <3>1 DEF GoesOn
  <2>1. CASE T!AcquireTab(c)
    <3>1. /\ UNCHANGED <<tabMu, claimedT>> /\ x.pc = "acquire"
          /\ \/ \E h : call' = [call EXCEPT ![c] = InTab(x, "install", h)]
             \/ call' = [call EXCEPT ![c] = To(x, "open")]
      BY <2>1 DEF T!AcquireTab, T!At, T!Go, T!Step, To, InTab
    <3> QED
      BY <2>A, <3>1
  <2>2. CASE T!Open(c)
    <3>1. UNCHANGED <<tabMu, claimedT>> /\ x.pc = "open" /\ \E h : call' = [call EXCEPT ![c] = InTab(x, "install", h)]
      BY <2>2 DEF T!Open, T!Step, T!OpenTab, T!At, InTab
    <3> QED
      BY <2>A, <3>1
  <2>3. CASE T!InstallCookies(c)
    <3>1. /\ UNCHANGED <<tabMu, claimedT>> /\ x.pc = "install"
          /\ call' = [call EXCEPT ![c] = To(x, "verify")] \/ call' = [call EXCEPT ![c] = T!Idle]
      BY <2>3 DEF T!InstallCookies, T!At, T!Go, T!Step, To
    <3> QED
      BY <1>0, <1>1, <2>A, <3>1
  <2>4. CASE T!SetAuthed(c)
    <3>1. /\ UNCHANGED <<tabMu, claimedT>> /\ x.pc = "verify"
          /\ \E pc \in {"claimLock", "tabFor"} : call' = [call EXCEPT ![c] = To(x, pc)]
      BY <2>4 DEF T!SetAuthed, T!At, T!Go, T!Step, T!Method, T!sidecar, To
    <3> QED
      BY <2>A, <3>1
  <2>5. CASE T!TabFor(c)
    <3>1. /\ UNCHANGED <<tabMu, claimedT>> /\ x.pc = "tabFor"
          /\ \/ \E h : call' = [call EXCEPT ![c] = InTab(x, "lock", h)]
             \/ call' = [call EXCEPT ![c] = T!Idle] \/ call' = [call EXCEPT ![c] = Again(x, "acquire", TRUE)]
      BY <2>5 DEF T!TabFor, T!Step, T!TabMissing, T!Failed, T!Retry, T!At, T!sidecar, InTab, Again
    <3> QED
      BY <1>0, <1>1, <2>A, <3>1
  <2>6. CASE T!LockTab(c, "lock", "drive") \/ T!LockTab(c, "claimLock", "claimTab")
    <3>1. PICK next \in {"drive", "claimTab"} : /\ call' = [call EXCEPT ![c] = To(x, next)] /\ tabMu' = [tabMu EXCEPT ![x.acc] = c]
                                                /\ x.pc \in {"lock", "claimLock"} /\ tabMu[x.acc] = NoOne /\ claimedT' = claimedT
      BY <2>6 DEF T!LockTab, T!At, T!Go, T!Step, To
    <3>2. /\ call' = [d \in Callers |-> call'[d]] /\ call'[c] = To(x, next)
          /\ \A d \in Callers \ {c} : call'[d] = call[d]
      BY <3>1 DEF TabTypes
    <3>7. GoesOn(x, To(x, next), next)
      BY <2>0, GoingOn
    <3>3. tabMu' = [a \in Accounts |-> tabMu'[a]] /\ tabMu'[x.acc] = c /\ \A a \in Accounts \ {x.acc} : tabMu'[a] = tabMu[a]
      BY <2>0, <3>1 DEF TabTypes
    <3>4. TabTypes'
      BY <2>0, <3>1, <3>2, <3>3, <3>7 DEF GoesOn, TabTypes
    <3>5. Locked'
      BY <2>0, <3>1, <3>2, <3>3, <3>7 DEF GoesOn, TabTypes, Locked
    <3>6. Skips'
      BY <2>0, <3>1, <3>2, <3>7 DEF GoesOn, Skips
    <3> QED
      BY <3>4, <3>5, <3>6
  <2>7. CASE T!GQL(c)
    <3>1. /\ tabMu' = [tabMu EXCEPT ![x.acc] = NoOne] /\ x.pc = "drive" /\ claimedT' = claimedT
          /\ call' = [call EXCEPT ![c] = T!Idle] \/ call' = [call EXCEPT ![c] = Again(x, "acquire", TRUE)]
      BY <2>7 DEF T!GQL, T!Unlock, T!At, T!Retry, T!Failed, T!Step, Again
    <3>2. GoesOn(x, Again(x, "acquire", TRUE), "acquire")
      BY <2>0, GoingOn
    <3>3. claimedT' = [a \in Accounts |-> claimedT'[a]] /\ \A a \in Accounts : claimedT'[a] = claimedT[a]
      BY <3>1 DEF TabTypes
    <3>4. PICK y : call' = [call EXCEPT ![c] = y] /\ IsCall(y) /\ (y.pc = "idle" \/ (y.pc = "acquire" /\ y.acc = x.acc))
      <4>1. CASE call' = [call EXCEPT ![c] = T!Idle]
        BY <1>0, <4>1
      <4>2. CASE call' = [call EXCEPT ![c] = Again(x, "acquire", TRUE)]
        BY <3>2, <4>2 DEF GoesOn
      <4> QED
        BY <3>1, <4>1, <4>2
    <3> QED
      BY <1>2, <3>1, <3>3, <3>4
  <2>8. CASE T!ClaimTab(c)
    <3>1. /\ UNCHANGED <<tabMu, claimedT>> /\ x.pc = "claimTab"
          /\ \E h : call' = [call EXCEPT ![c] = InTab(x, "tiles", h)]
      BY <2>8 DEF T!ClaimTab, T!Step, T!OpenTab, T!At, InTab
    <3>2. PICK h : call' = [call EXCEPT ![c] = InTab(x, "tiles", h)]
      BY <3>1
    <3>3. GoesOn(x, InTab(x, "tiles", h), "tiles")
      BY <2>0, GoingOn
    <3> QED
      BY <1>1, <2>0, <3>1, <3>2, <3>3 DEF GoesOn
  <2>9. CASE T!AlreadyClaimed(c)
    <3> PICK s : s = claimedT[x.acc]
      OBVIOUS
    <3> DEFINE y == Skipping(x, "click", s)
    <3>1. UNCHANGED <<tabMu, claimedT>> /\ x.pc = "tiles" /\ call' = [call EXCEPT ![c] = y]
      BY <2>9 DEF T!AlreadyClaimed, T!Step, T!At, T!sidecar, Skipping
    <3>2. GoesOn(x, y, "click") /\ y.skip = s
      BY <2>0, GoingOn
    <3> HIDE DEF y
    <3> QED
      BY <1>1, <2>0, <3>1, <3>2 DEF GoesOn
  <2>10. CASE T!ClickTiles(c)
    <3>1. /\ UNCHANGED <<tabMu, claimedT>> /\ x.pc = "click"
          /\ \E got : call' = [call EXCEPT ![c] = Clicked(x, "mark", got)]
      BY <2>10 DEF T!ClickTiles, T!Step, T!At, T!sidecar, Clicked
    <3> QED
      BY <2>A, <3>1
  <2>11. CASE T!MarkClaimed(c)
    <3>1. /\ tabMu' = [tabMu EXCEPT ![x.acc] = NoOne] /\ x.pc = "mark" /\ call' = [call EXCEPT ![c] = T!Idle]
          /\ \/ UNCHANGED claimedT
             \/ \E s : claimedT' = [claimedT EXCEPT ![x.acc] = s]
      BY <2>11 DEF T!MarkClaimed, T!Unlock, T!Step, T!At
    <3>2. claimedT' = [a \in Accounts |-> claimedT'[a]] /\ \A a \in Accounts \ {x.acc} : claimedT'[a] = claimedT[a]
      BY <3>1 DEF TabTypes
    <3>3. PICK y : call' = [call EXCEPT ![c] = y] /\ IsCall(y) /\ y.pc = "idle"
      BY <1>0, <3>1
    <3> QED
      BY <1>2, <3>1, <3>2, <3>3
  <2> QED
    BY <1>4, <2>1, <2>2, <2>3, <2>4, <2>5, <2>6, <2>7, <2>8, <2>9, <2>10, <2>11 DEF T!Call
<1>5. CASE T!Restart
  <2>1. /\ call' = [c \in Callers |-> IF call[c].pc \in {"acquire", "tabFor", "claimLock"} THEN call[c] ELSE T!Idle]
        /\ tabMu' = [a \in Accounts |-> NoOne] /\ claimedT' = [a \in Accounts |-> {}]
    BY <1>5 DEF T!Restart
  <2> QED
    BY <1>0, <2>1 DEF TabTypes, Locked, Skips
<1>6. CASE UNCHANGED <<call, tabMu, claimedT>>
  BY <1>6 DEF TabTypes, Locked, Skips
<1> QED
  BY <1>3, <1>4, <1>5, <1>6 DEF T!Next, T!Login, T!Age, T!Progress, T!sidecar, tabVars

\* What was clicked and is not lost stays marked, or to be marked.
LEMMA NextMarks ==
  ASSUME Tabs, Marks, [T!Next]_tabVars
  PROVE  Marks'
<1> USE DEF Marks
<1>0. call = [c \in Callers |-> call[c]] /\ claimedT = [a \in Accounts |-> claimedT[a]]
  BY DEF Tabs, TabTypes
\* a call that has nothing to mark moves
<1>1. ASSUME NEW c \in Callers, call[c].pc # "mark", UNCHANGED <<spent, claimedT>>,
             \E y : call' = [call EXCEPT ![c] = y]
      PROVE  Marks'
  <2>1. \A d \in Callers : \A a, t : ToMark(d, a, t) => ToMark(d, a, t)'
    BY <1>0, <1>1 DEF ToMark
  <2> QED
    BY <1>1, <2>1
<1>2. ASSUME NEW c \in Callers, T!ClickTiles(c) PROVE Marks'
  <2> PICK x : x = call[c]
    OBVIOUS
  <2> PICK a : a = x.acc
    OBVIOUS
  <2>1. PICK got : /\ T!Clicks(a, got) /\ call' = [call EXCEPT ![c] = Clicked(x, "mark", got)]
                   /\ x.pc = "click" /\ UNCHANGED claimedT
    BY <1>2 DEF T!ClickTiles, T!Step, T!At, T!sidecar, Clicked
  <2>2. a \in Accounts /\ IsCall(x)
    BY <2>1 DEF Tabs, TabTypes
  <2>3. call'[c] = Clicked(x, "mark", got) /\ \A d \in Callers \ {c} : call'[d] = call[d]
    BY <1>0, <2>1
  <2>4. \A t \in got : ToMark(c, a, t)'
    <3>1. PICK S : x \in CallOf(S)
      BY <2>2 DEF IsCall
    <3>2. Clicked(x, "mark", got).out = got /\ Clicked(x, "mark", got).pc = "mark" /\ Clicked(x, "mark", got).acc = a
      BY <3>1 DEF CallOf, Clicked
    <3> QED
      BY <2>3, <3>2 DEF ToMark
  <2>5. \A d \in Callers, b \in Accounts, t \in Titles : ToMark(d, b, t) => ToMark(d, b, t)'
    BY <2>1, <2>3 DEF ToMark
  <2>6. spent' = [spent EXCEPT ![a] = [t \in Titles |-> IF t \in got THEN "kept" ELSE @[t]]]
    BY <2>1 DEF T!Clicks
  <2>7. /\ spent' = [b \in Accounts |-> [t \in Titles |-> spent'[b][t]]]
        /\ \A b \in Accounts, t \in Titles : spent'[b][t] = spent[b][t] \/ (b = a /\ t \in got)
    BY <2>2, <2>6
  <2> QED
    BY <2>1, <2>4, <2>5, <2>7
<1>3. ASSUME NEW c \in Callers, T!MarkClaimed(c) PROVE Marks'
  <2> PICK x : x = call[c]
    OBVIOUS
  <2> PICK a : a = x.acc
    OBVIOUS
  <2>1. /\ call' = [call EXCEPT ![c] = T!Idle] /\ x.pc = "mark"
        /\ \/ /\ UNCHANGED spent
              /\ claimedT' = [claimedT EXCEPT ![a] = @ \cup x.out \cup T!HistoryTiles(c)]
           \/ /\ spent' = [spent EXCEPT ![a] = [t \in Titles |-> IF t \in x.out THEN "lost" ELSE @[t]]]
              /\ UNCHANGED claimedT
    BY <1>3 DEF T!MarkClaimed, T!Step, T!At
  <2>2. a \in Accounts
    BY <2>1 DEF Tabs, TabTypes
  <2>3. \A d \in Callers, b \in Accounts, t \in Titles :
           ToMark(d, b, t) => ToMark(d, b, t)' \/ (b = a /\ t \in x.out)
    BY <1>0, <2>1 DEF ToMark
  <2>4. CASE UNCHANGED spent /\ claimedT' = [claimedT EXCEPT ![a] = @ \cup x.out \cup T!HistoryTiles(c)]
    <3>1. (\A b \in Accounts : claimedT[b] \subseteq claimedT'[b]) /\ x.out \subseteq claimedT'[a]
      BY <1>0, <2>2, <2>4
    <3> QED
      BY <2>3, <2>4, <3>1
  <2>5. CASE /\ spent' = [spent EXCEPT ![a] = [t \in Titles |-> IF t \in x.out THEN "lost" ELSE @[t]]]
             /\ UNCHANGED claimedT
    <3>1. /\ spent' = [b \in Accounts |-> [t \in Titles |-> spent'[b][t]]]
          /\ \A b \in Accounts, t \in Titles :
               spent'[b][t] = "kept" => spent[b][t] = "kept" /\ ~(b = a /\ t \in x.out)
      BY <2>2, <2>5
    <3> QED
      BY <2>3, <2>5, <3>1
  <2> QED
    BY <2>1, <2>4, <2>5
<1>4. CASE T!Restart
  <2>1. spent' = [a \in Accounts |-> [t \in Titles |-> IF spent[a][t] = "kept" THEN "lost" ELSE spent[a][t]]]
    BY <1>4 DEF T!Restart
  <2> QED
    BY <2>1
<1>5. CASE UNCHANGED <<call, claimedT, spent>>
  BY <1>5 DEF ToMark
<1>6. ASSUME NEW c \in Callers, T!Call(c) PROVE Marks'
  <2>1. CASE \/ T!AcquireTab(c) \/ T!Open(c) \/ T!InstallCookies(c) \/ T!SetAuthed(c) \/ T!TabFor(c)
             \/ T!LockTab(c, "lock", "drive") \/ T!GQL(c) \/ T!LockTab(c, "claimLock", "claimTab")
             \/ T!ClaimTab(c) \/ T!AlreadyClaimed(c)
    <3>1. call[c].pc # "mark" /\ UNCHANGED <<spent, claimedT>>
      BY <2>1 DEF T!AcquireTab, T!Open, T!InstallCookies, T!SetAuthed, T!TabFor, T!LockTab, T!GQL, T!ClaimTab,
                  T!AlreadyClaimed, T!At, T!page, T!sidecar
    <3>2. \E y : call' = [call EXCEPT ![c] = y]
      BY <2>1 DEF T!AcquireTab, T!Open, T!OpenTab, T!InstallCookies, T!SetAuthed, T!TabFor, T!TabMissing, T!Retry,
                  T!Failed, T!LockTab, T!GQL, T!ClaimTab, T!AlreadyClaimed, T!Go, T!Step
    <3> QED
      BY <1>1, <3>1, <3>2
  <2> QED
    BY <1>2, <1>3, <1>6, <2>1 DEF T!Call
<1>7. ASSUME NEW c \in Callers, NEW a \in Accounts, NEW op \in {"list", "gql", "rewards"}, T!Begin(c, a, op) PROVE Marks'
  <2>1. call[c].pc # "mark" /\ UNCHANGED <<spent, claimedT>> /\ \E y : call' = [call EXCEPT ![c] = y]
    BY <1>7 DEF T!Begin, T!At, T!Step, T!page, T!sidecar
  <2> QED
    BY <1>1, <2>1
<1> QED
  BY <1>4, <1>5, <1>6, <1>7 DEF T!Next, T!Login, T!Age, T!Progress, T!sidecar, T!page, tabVars

\* ReclickExcused: a tile is clicked again only when the mark of its last click was never
\* made or went with a restart: no pass clicks what an earlier one marked, or what another
\* has clicked and not marked yet.
THEOREM ReclickExcusedHolds == MCSpec => ReclickExcused
<1>1. MCInit => (part = "tabs" => Tabs /\ Marks)
  <2> SUFFICES ASSUME T!Init PROVE Tabs /\ Marks
    BY Started
  <2> QED
    BY NoCall DEF T!Init, Tabs, TabTypes, Locked, Skips, Marks
<1>2. (part = "tabs" => Tabs /\ Marks) /\ [MCNext]_mcvars => (part = "tabs" => Tabs /\ Marks)'
  BY Turn, NextTabs, NextMarks
<1>3. ASSUME part = "tabs" => Tabs /\ Marks, [MCNext]_mcvars, ~UNCHANGED T!svars,
             NEW c \in Callers, NEW a \in Accounts, T!At(c, "click"), call'[c].pc = "mark", call[c].acc = a,
             NEW t \in call'[c].out
      PROVE  spent[a][t] # "kept"
  <2>1. Tabs /\ Marks /\ T!Next
    BY <1>3, Turn DEF T!svars, tabVars
  <2>2. ASSUME NEW d \in Callers, T!Call(d), d # c PROVE FALSE
    <3>1. \E y : call' = [call EXCEPT ![d] = y]
      BY <2>2 DEF T!Call, T!AcquireTab, T!Open, T!OpenTab, T!InstallCookies, T!SetAuthed, T!TabFor, T!TabMissing, T!Retry,
                  T!Failed, T!LockTab, T!GQL, T!ClaimTab, T!AlreadyClaimed, T!ClickTiles, T!MarkClaimed, T!Go, T!Step
    <3> QED
      BY <1>3, <2>1, <2>2, <3>1 DEF Tabs, TabTypes, T!At
  <2>3. T!Call(c)
    <3>1. ASSUME NEW d \in Callers, NEW b \in Accounts, NEW op \in {"list", "gql", "rewards"}, T!Begin(d, b, op) PROVE FALSE
      <4>1. call[d].pc = "idle" /\ \E y : call' = [call EXCEPT ![d] = y]
        BY <3>1 DEF T!Begin, T!At, T!Step
      <4> QED
        BY <1>3, <2>1, <4>1 DEF Tabs, TabTypes, T!At
    <3>2. ASSUME T!Restart PROVE FALSE
      BY <1>3, <3>2, NoCall DEF T!Restart, T!At
    <3>3. ASSUME UNCHANGED call PROVE FALSE
      BY <1>3, <3>3 DEF T!At
    <3> QED
      BY <2>1, <2>2, <3>1, <3>2, <3>3 DEF T!Next, T!Login, T!Age, T!Progress, T!sidecar
  <2>4. T!ClickTiles(c)
    BY <1>3, <2>3 DEF T!Call, T!At, T!AcquireTab, T!Open, T!InstallCookies, T!SetAuthed, T!TabFor, T!LockTab, T!GQL,
                      T!ClaimTab, T!AlreadyClaimed, T!MarkClaimed
  <2>5. call'[c].out \subseteq Titles \ call[c].skip
    <3>1. PICK got : got \subseteq Titles \ call[c].skip /\ call' = [call EXCEPT ![c] = [call[c] EXCEPT !.pc = "mark", !.out = got]]
      BY <2>4 DEF T!ClickTiles, T!Step, T!Buttons
    <3>2. call'[c] = [call[c] EXCEPT !.pc = "mark", !.out = got] /\ call'[c].out = got
      BY <2>1, <3>1 DEF Tabs, TabTypes, IsCall, CallOf
    <3> QED
      BY <3>1, <3>2
  <2>6. call[c].skip = claimedT[a] /\ tabMu[a] = c
    BY <1>3, <2>1 DEF Tabs, Locked, Skips, T!At
  <2>7. ~\E d \in Callers : ToMark(d, a, t)
    BY <1>3, <2>1, <2>6 DEF ToMark, Tabs, Locked, T!At
  <2> QED
    BY <1>3, <2>1, <2>5, <2>6, <2>7 DEF Marks
<1>4. (part = "tabs" => Tabs /\ Marks) /\ [MCNext]_mcvars
      => [\A c \in Callers : \A a \in Accounts :
            T!Clicking(c, a) => \A t \in call'[c].out : spent[a][t] # "kept"]_T!svars
  BY <1>3 DEF T!Clicking
<1> QED
  BY <1>1, <1>2, <1>4, PTL DEF MCSpec, ReclickExcused, T!ReclickExcused

-----------------------------------------------------------------------------
(***************************************************************************)
(* OpenSearchFinds.  While nothing moves or fails, what a probe found is on  *)
(* the category, and the directory names a channel that streams the game    *)
(* first, so that its probe finds one, whatever the pool held (Directed);   *)
(* a search gives up only when a request failed.                            *)
(***************************************************************************)
IsSearch(s) == /\ s = [pc |-> s.pc, c |-> s.c, todo |-> s.todo, live |-> s.live, open |-> s.open, calm |-> s.calm]
               /\ s.calm \in BOOLEAN
InGame(k) == k \in Casters /\ stage[k] = "game"
FoundOn(s) == s.calm => \A k \in s.live : O!OnCategory(k)
Directed(s) == /\ s.pc = "directory" /\ s.calm /\ (\E k \in Casters : InGame(k))
               => s.live # {} \/ (s.todo # <<>> /\ InGame(Head(s.todo)))
Lost(s) == s.pc = "gaveup" => ~s.calm
Searches == IsSearch(search) /\ FoundOn(search) /\ Directed(search) /\ Lost(search) /\ O!OpenSearchFinds

\* What is probed of a directory that lists a channel starts with one of them.
LEMMA DirectoryFirst ==
  ASSUME NEW S, IsFiniteSet(S), S # {}, NEW s \in O!SetToSeqs(S)
  PROVE  O!Capped(s) # <<>> /\ Head(O!Capped(s)) \in S
<1> DEFINE n == IF Len(s) < MaxProbe THEN Len(s) ELSE MaxProbe
<1>1. Cardinality(S) \in Nat /\ Cardinality(S) # 0
  BY FS_CardinalityType, FS_EmptySet
<1>2. s \in [1..Cardinality(S) -> S]
  <2>1. O!Cardinality(S) = Cardinality(S)
    BY Zenon DEF O!Cardinality, Cardinality
  <2>2. s \in [1..O!Cardinality(S) -> S]
    BY DEF O!SetToSeqs
  <2> QED
    BY <2>1, <2>2
<1>3. s \in Seq(S) /\ Len(s) = Cardinality(S)
  BY <1>1, <1>2
<1>4. n \in Nat \ {0} /\ n <= Len(s)
  BY <1>1, <1>3, BackendsAssumption
<1>5. \A i \in 1..n : s[i] \in S
  BY <1>3, <1>4
<1> HIDE DEF n
<1>6. SubSeq(s, 1, n) \in Seq(S) /\ Len(SubSeq(s, 1, n)) = n
  BY <1>4, <1>5, SubSeqProperties
<1>7. SubSeq(s, 1, n) # <<>> /\ Head(SubSeq(s, 1, n)) \in S
  BY <1>4, <1>6
<1> QED
  BY <1>7 DEF O!Capped, n

\* A search that goes on with its facts in place keeps them where no channel moves.
LEMMA GoesOnSearching ==
  ASSUME Searches, UNCHANGED <<stage, hit>>, IsSearch(search'),
         search'.calm => search.calm, FoundOn(search'), Directed(search'), Lost(search')
  PROVE  Searches'
BY DEF Searches, FoundOn, Directed, Lost, InGame, O!OpenSearchFinds, O!OnCategory

\* No step of a search, of a list, of Kick or of the user breaks what a search knows.
LEMMA NextSearch ==
  ASSUME Searches, [O!Next]_kickVars
  PROVE  Searches'
<1> USE DEF Searches
\* what the search tells of the present is void
<1>1. ASSUME search' = [search EXCEPT !.calm = FALSE], hit' = O!NoHit PROVE Searches'
  <2>1. IsSearch(search') /\ ~search'.calm
    BY <1>1 DEF IsSearch
  <2> QED
    BY <1>1, <2>1 DEF FoundOn, Directed, Lost, O!OpenSearchFinds, O!NoHit
\* nothing of the search moves
<1>2. ASSUME UNCHANGED <<stage, search>>, hit' = hit \/ hit' = O!NoHit PROVE Searches'
  BY <1>2 DEF IsSearch, FoundOn, Directed, Lost, InGame, O!OnCategory, O!OpenSearchFinds, O!NoHit
<1>3. ASSUME NEW k \in Casters, O!Shift(k) PROVE Searches'
  BY <1>1, <1>3 DEF O!Shift, O!Fails
<1>4. ASSUME NEW c \in Offers, O!Reopen(c) PROVE Searches'
  BY <1>1, <1>4 DEF O!Reopen, O!Fails
<1>5. CASE O!RegisterChannels
  BY <1>1, <1>5 DEF O!RegisterChannels, O!Fails
<1>6. ASSUME NEW mined \in BOOLEAN, O!ListActiveCampaigns(mined) PROVE Searches'
  BY <1>2, <1>6 DEF O!ListActiveCampaigns, O!kick
<1>7. CASE O!ListCatalog
  BY <1>2, <1>7 DEF O!ListCatalog, O!kick
<1>8. ASSUME NEW row \in listed, O!ListEligibleChannels(row) PROVE Searches'
  <2>1. /\ IsSearch(search') /\ search'.live = {} /\ search'.pc = "pool" /\ hit' = O!NoHit
    BY <1>8 DEF O!ListEligibleChannels, IsSearch
  <2> QED
    BY <2>1 DEF FoundOn, Directed, Lost, O!OpenSearchFinds, O!NoHit
<1>9. CASE O!ProbeLive
  <2>0. UNCHANGED <<stage, hit>>
    BY <1>9 DEF O!ProbeLive, O!kick
  <2> PICK k : k = Head(search.todo)
    OBVIOUS
  <2>1. CASE search' = [search EXCEPT !.todo = Tail(@), !.live = @ \union {j \in {Head(search.todo)} : O!OnCategory(j)}]
    <3> DEFINE one == {j \in {k} : O!OnCategory(j)}
    <3>1. /\ IsSearch(search') /\ search'.calm = search.calm /\ search'.pc = search.pc /\ search'.live = search.live \cup one
      BY <2>1 DEF IsSearch
    <3>2. InGame(k) => one # {}
      BY DEF InGame, O!OnCategory
    <3> QED
      BY <2>0, <3>1, <3>2, GoesOnSearching DEF FoundOn, Directed, Lost
  <2>2. CASE search' = [search EXCEPT !.todo = Tail(@), !.calm = FALSE]
    <3>1. IsSearch(search') /\ ~search'.calm
      BY <2>2 DEF IsSearch
    <3> QED
      BY <2>0, <3>1, GoesOnSearching DEF FoundOn, Directed, Lost
  <2> QED
    BY <1>9, <2>1, <2>2 DEF O!ProbeLive
<1>10. ASSUME search.todo = <<>>, NEW on, O!Answer(on), (on = search.live /\ on # {}) \/ ~search.open \/ ~search.calm
                \/ ~\E k \in Casters : InGame(k)
       PROVE  Searches'
  <2>1. /\ hit'.open = search.open /\ hit'.on = on /\ hit'.calm = search.calm /\ UNCHANGED stage
        /\ search' = O!NoSearch
    BY <1>10 DEF O!Answer, O!kick
  <2>2. IsSearch(search') /\ FoundOn(search') /\ Directed(search') /\ Lost(search')
    BY <2>1 DEF O!NoSearch, IsSearch, FoundOn, Directed, Lost
  <2>3. O!OpenSearchFinds'
    BY <1>10, <2>1 DEF O!OpenSearchFinds, InGame, FoundOn, O!OnCategory
  <2> QED
    BY <2>1, <2>2, <2>3 DEF FoundOn, Directed, Lost, InGame, O!OnCategory, O!NoSearch
<1>11. CASE O!FoundLive
  BY <1>10, <1>11 DEF O!FoundLive
<1>12. CASE O!Manual
  BY <1>10, <1>12 DEF O!Manual, Directed, Lost
<1>13. CASE O!Subcategory
  <2>1. UNCHANGED <<stage, hit>> /\ (search' = [search EXCEPT !.pc = "id"] \/ search' = [search EXCEPT !.pc = "gaveup", !.calm = FALSE])
    BY <1>13 DEF O!Subcategory, O!kick
  <2>2. /\ IsSearch(search') /\ search'.live = search.live /\ (search'.calm => search.calm)
        /\ search'.pc = "id" \/ (search'.pc = "gaveup" /\ ~search'.calm)
    BY <2>1 DEF IsSearch
  <2> QED
    BY <2>1, <2>2, GoesOnSearching DEF FoundOn, Directed, Lost
<1>14. CASE O!DiscoverCategoryChannels
  <2>0. UNCHANGED <<stage, hit>>
    BY <1>14 DEF O!DiscoverCategoryChannels, O!kick
  <2>1. ASSUME NEW directory \in O!Directories,
               search' = [search EXCEPT !.pc = "directory", !.todo = O!Capped(O!ToProbe(directory))]
        PROVE  Searches'
    <3> DEFINE S == {k \in Casters : stage[k] = "game"}
    <3> PICK todo : todo = O!Capped(directory)
      OBVIOUS
    <3>1. S # {} => todo # <<>> /\ Head(todo) \in S
      <4>1. IsFiniteSet(S) /\ directory \in O!SetToSeqs(S)
        BY BackendsAssumption, FS_Subset DEF O!Directories
      <4> QED
        BY <4>1, DirectoryFirst
    <3>2. /\ IsSearch(search') /\ search'.todo = todo /\ search'.live = search.live /\ search'.calm = search.calm
          /\ search'.pc = "directory"
      BY <2>1 DEF O!ToProbe, IsSearch
    <3> QED
      BY <2>0, <3>1, <3>2, GoesOnSearching DEF FoundOn, Directed, Lost, InGame
  <2>2. CASE search' = [search EXCEPT !.pc = "gaveup", !.calm = FALSE]
    <3>1. IsSearch(search') /\ ~search'.calm
      BY <2>2 DEF IsSearch
    <3> QED
      BY <2>0, <3>1, GoesOnSearching DEF FoundOn, Directed, Lost
  <2> QED
    BY <1>14, <2>1, <2>2 DEF O!DiscoverCategoryChannels
<1>15. CASE UNCHANGED kickVars
  BY <1>2, <1>15 DEF kickVars
<1> QED
  BY <1>3, <1>4, <1>5, <1>6, <1>7, <1>8, <1>9, <1>11, <1>12, <1>13, <1>14, <1>15 DEF O!Next

\* OpenSearchFinds: the search of an open campaign ends on channels that earn whenever
\* one streams the game, however long the pool, whatever the probe's cap and however
\* lists, searches, moves and failures of the shared state interleave.
THEOREM OpenSearchFindsHolds == MCSpec => []OpenSearchFinds
<1>1. MCInit => (part = "kick" => Searches)
  <2> SUFFICES ASSUME O!Init PROVE Searches
    BY Started
  <2>1. IsSearch(search) /\ search.pc = "none" /\ search.live = {} /\ ~hit.open
    BY DEF O!Init, O!NoSearch, O!NoHit, IsSearch
  <2> QED
    BY <2>1 DEF Searches, FoundOn, Directed, Lost, O!OpenSearchFinds
<1>2. (part = "kick" => Searches) /\ [MCNext]_mcvars => (part = "kick" => Searches)'
  BY Turn, NextSearch
<1>3. (part = "kick" => Searches) => OpenSearchFinds
  BY DEF Searches, OpenSearchFinds
<1> QED
  BY <1>1, <1>2, <1>3, PTL DEF MCSpec
=============================================================================
