----------------------------- MODULE TwitchBeats -----------------------------
(***************************************************************************)
(* The watch of one Twitch account: who it says is watching, and the minute *)
(* heartbeat that tells Twitch so along two paths, the chunks of the HLS     *)
(* playlist and the Spade beacon. Each path keeps a URL per channel that    *)
(* Twitch may void at any time; a send that fails drops it and resolves it  *)
(* once more. Every request but the beacon's is a GraphQL call or a plain   *)
(* GET, and what a GraphQL answer comes to is Do.                            *)
(* source: src/internal/platform/twitch/{watch,client,playlist,backend,     *)
(* browser_backend}.go                                                      *)
(***************************************************************************)
EXTENDS Naturals, FiniteSets

CONSTANTS Users,     \* Twitch users who may log in to the account
          Streams,   \* channels
          NoUser,
          BeatMoves  \* bound: changes at Twitch, failed requests, logins

VARIABLES routed,   \* the account's GraphQL goes through the sidecar tab
          sess,     \* the session the runner passes: its user and OAuth client
          tab,      \* the user whose cookies the tab holds
          authed,   \* BrowserBackend.authed[account]
          bound,    \* client.profiles: the sessions whose token is registered
          cachedID, \* watch.cachedUserID
          onAir,    \* channel -> its broadcast, 0 when offline
          url,      \* watch.playlistURLs and watch.spadeURLs
          handle,   \* the watchInternal the runner holds
          beat,     \* the heartbeat under way, or what the last one came to
          beatMoves
bvars == <<routed, sess, tab, authed, bound, cachedID, onAir, url, handle, beat, beatMoves>>
held == <<routed, sess, tab, authed, bound, cachedID>>

Session == [user: Users, client: {"android", "tv"}]
Paths == {"play", "spade"}
\* a cached URL: the broadcast it was kept for, and whether Twitch still serves it
NoURL == [b |-> 0, live |-> FALSE, set |-> FALSE]
URL(b) == [b |-> b, live |-> TRUE, set |-> TRUE]
NoHandle == [ch |-> {}, b |-> 0, as |-> NoUser, by |-> [user |-> NoUser, client |-> "none"]]
\* via: the URL in use; came: how each path ended, "off" without a playlist; calm: nothing moved at
\* Twitch and no request was lost since the beat began
NoBeat == [pc |-> "idle", path |-> "play", via |-> NoURL, calm |-> TRUE,
           came |-> [p \in Paths |-> "none"]]
Init == /\ routed \in BOOLEAN /\ sess \in Session
        /\ tab = NoUser /\ authed = FALSE /\ bound = {} /\ cachedID = NoUser
        /\ onAir = [c \in Streams |-> 1]
        /\ url = [p \in Paths |-> [c \in Streams |-> NoURL]]
        /\ handle = NoHandle /\ beat = NoBeat /\ beatMoves = 0

Moved == beatMoves < BeatMoves /\ beatMoves' = beatMoves + 1
-----------------------------------------------------------------------------
(* A GraphQL answer: no answer, a status, the integrity wall, a body that is *)
(* no JSON, errors with or without data. Errors beside data are let pass.    *)
Answers == {"lost", "429", "5xx", "4xx", "wall", "garbled", "rotated", "errors", "null", "partial", "data"}
Do(answer) == CASE answer = "wall" -> "integrity"
                [] answer = "rotated" -> "notFound"
                [] answer = "null" -> "empty" \* the field asked for is null
                [] answer \in {"partial", "data"} -> "ok"
                [] OTHER -> "err"
\* the callers here ask for one field and take a null for an error
Gql(answer) == Do(answer) = "ok"
PlaybackAccessToken(answer) == Gql(answer)
\* a playlist host answers with a status, JSON or the playlist; one that lists
\* no URL, or a chunk it will not serve, is no playlist
FetchHLS(answer) == answer \in {"data", "garbled"}
PlaylistURLs(answer) == IF FetchHLS(answer) /\ answer # "garbled" THEN {"variant", "chunk"} ELSE {}
HeadHLS(answer) == answer = "data"
ResolvePlaylistURL(answer) == PlaybackAccessToken(answer) /\ "variant" \in PlaylistURLs(answer)
SendPlaylistWatch(answer) == "chunk" \in PlaylistURLs(answer) /\ HeadHLS(answer)
\* the channel's page, or the settings bundle it names, holds the beacon's URL;
\* the beacon answers 204
ResolveSpadeURL(answer) == answer = "data"
SendSpadeBeacon(answer) == answer = "data"
\* a request that gets no good answer is a fault
Costs(lost) == IF lost THEN Moved ELSE UNCHANGED beatMoves
\* the Client-Id a request goes out with: its token's, Android when unknown
ProfileForToken(s) == IF s \in bound THEN s.client ELSE "android"
-----------------------------------------------------------------------------
\* ensureAuthenticated: the tab gets the session's cookies once
EnsureAuthenticated == IF routed /\ ~authed THEN authed' = TRUE /\ tab' = sess.user
                       ELSE UNCHANGED <<authed, tab>>
Bind == bound' = bound \union {sess}
\* the user an answer is about: through the tab the token is ignored
Asker == IF routed THEN tab' ELSE sess.user
ResolveUserID == cachedID' = IF cachedID # NoUser THEN cachedID ELSE Asker

Start(c, answer) ==
  LET lost == cachedID = NoUser /\ ~Gql(answer)
  IN /\ handle = NoHandle /\ onAir[c] # 0
     /\ Costs(lost) /\ EnsureAuthenticated /\ Bind
     /\ IF lost THEN UNCHANGED <<cachedID, handle>>
        ELSE /\ ResolveUserID
             /\ handle' = [ch |-> {c}, b |-> onAir[c], as |-> cachedID', by |-> sess]
     /\ UNCHANGED <<routed, sess, onAir, url, beat>>
Stop == /\ handle # NoHandle /\ beat.pc = "idle" /\ handle' = NoHandle /\ beat' = NoBeat
        /\ UNCHANGED <<held, onAir, url, beatMoves>>
\* a login ends the watch; the backend and its watch stay
Login(s) == /\ s # sess /\ Moved /\ sess' = s /\ authed' = FALSE
            /\ handle' = NoHandle /\ beat' = NoBeat
            /\ UNCHANGED <<routed, tab, bound, cachedID, onAir, url>>
-----------------------------------------------------------------------------
(* Twitch: a broadcast ends or a new one begins and takes the playlist with  *)
(* it, a signed URL expires, the beacon moves.                               *)
Void(p, c) ==
  /\ url' = [url EXCEPT ![p][c].live = FALSE]
  /\ beat' = IF handle.ch = {c} /\ beat.pc # "idle"
             THEN [beat EXCEPT !.calm = FALSE, !.via.live = @ /\ beat.path # p] ELSE beat
  /\ UNCHANGED <<held, handle>>
Broadcast(c, b) == /\ b # onAir[c] /\ onAir' = [onAir EXCEPT ![c] = b]
                   /\ Costs(onAir[c] # 0) /\ Void("play", c)
Expires(p, c) == url[p][c].live /\ Moved /\ Void(p, c) /\ UNCHANGED onAir
-----------------------------------------------------------------------------
(* One heartbeat: the playlist, then the beacon, each from its cached URL or *)
(* a resolved one, and once more from a freshly resolved one.                *)
Cached(p, c) == /\ url[p][c].set
                /\ p = "play" => url[p][c].b = handle.b
Take(b, p, c) == [b EXCEPT !.path = p, !.pc = IF Cached(p, c) THEN "send" ELSE "resolve",
                          !.via = IF Cached(p, c) THEN url[p][c] ELSE NoURL]
PathEnds(b, c, how) ==
  LET done == [b EXCEPT !.came[b.path] = how, !.pc = "idle", !.via = NoURL]
  IN IF b.path = "play" THEN Take(done, "spade", c) ELSE done
Heartbeat(c) == /\ handle.ch = {c} /\ beat.pc = "idle" /\ beat' = Take(NoBeat, "play", c)
                /\ UNCHANGED <<held, onAir, url, handle, beatMoves>>

\* what the requests of a resolve and of a send take: a playlist is served
\* while the channel is live, and a token under its own Client-Id
Resolves(p, c) == /\ p = "play" => onAir[c] # 0
                  /\ ProfileForToken(handle.by) = handle.by.client
Resolve(c, answer) ==
  LET p == beat.path
      lost == IF p = "play" THEN ~ResolvePlaylistURL(answer) ELSE ~ResolveSpadeURL(answer)
      b == [beat EXCEPT !.calm = @ /\ ~lost]
  IN /\ handle.ch = {c} /\ beat.pc \in {"resolve", "retry"}
     /\ Costs(lost)
     /\ IF ~lost /\ Resolves(p, c)
        THEN /\ url' = [url EXCEPT ![p][c] = URL(handle.b)]
             /\ beat' = [b EXCEPT !.via = URL(handle.b), !.pc = IF @ = "retry" THEN "again" ELSE "send"]
        ELSE /\ beat' = PathEnds(b, c, IF p = "play" /\ onAir[c] = 0 THEN "off" ELSE "err")
             /\ UNCHANGED url
     /\ UNCHANGED <<held, onAir, handle>>
Evict(p, c) == url' = [url EXCEPT ![p][c] = NoURL]
\* mutant: the send after the retry is the only one that may be retried
NoRetry(c, b) == beat' = PathEnds(b, c, "err") /\ UNCHANGED url
Retry(c, b) == Evict(b.path, c) /\ beat' = [b EXCEPT !.pc = "retry", !.via = NoURL]
\* the playlist and the HEAD of every chunk, or the beacon's POST
Send(c, answer) ==
  LET lost == IF beat.path = "play" THEN ~SendPlaylistWatch(answer) ELSE ~SendSpadeBeacon(answer)
      b == [beat EXCEPT !.calm = @ /\ ~lost]
  IN /\ handle.ch = {c} /\ beat.pc \in {"send", "again"}
     /\ Costs(lost)
     /\ IF beat.via.live /\ ~lost THEN beat' = PathEnds(b, c, "ok") /\ UNCHANGED url
        ELSE IF beat.pc = "send" THEN Retry(c, b)
        ELSE beat' = PathEnds(b, c, "err") /\ UNCHANGED url
     /\ UNCHANGED <<held, onAir, handle>>

Next == \/ \E c \in Streams, a \in Answers : Start(c, a) \/ Resolve(c, a) \/ Send(c, a)
        \/ \E c \in Streams : Heartbeat(c) \/ (\E b \in 0..2 : Broadcast(c, b)) \/ (\E p \in Paths : Expires(p, c))
        \/ Stop \/ (\E s \in Session : Login(s))
Spec == Init /\ [][Next]_bvars

\* A heartbeat loses nothing to a URL that went stale before it: while Twitch
\* keeps still and answers, the beacon is sent, and so are the playlist's
\* chunks unless the channel is off the air.
StaleCostsNothing == beat.calm => \A p \in Paths : beat.came[p] # "err"

\* The minutes are sent for the user who is logged in: resolveUserID keeps
\* the id "because it doesn't change for the lifetime of a session".
BeatsAsLoggedIn == handle # NoHandle => handle.as = sess.user
=============================================================================
