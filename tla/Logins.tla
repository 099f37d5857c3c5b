-------------------------------- MODULE Logins --------------------------------
(***************************************************************************)
(* How a session reaches an account: the device flow polls in a goroutine of *)
(* its own, a pasted Android login resolves or creates its account, pasted   *)
(* Kick cookies are stored and then checked, and a rebuilt runner takes the  *)
(* stored session, refreshing one that is out of date, unless the account is *)
(* paused or a read fails.                                                   *)
(* source: src/internal/api/login_twitch.go, login_twitch_paste.go,         *)
(*  login_kick.go, accounts.go, src/cmd/miner/session_load.go, roster.go,   *)
(*  src/internal/platform/twitch/auth.go, android_login.go,                 *)
(*  src/internal/store/sessions.go                                          *)
(***************************************************************************)
EXTENDS Naturals

CONSTANTS Ids, Kick,      \* account ids; those of Kick accounts
          Flows, Pasters, \* device flows; sign-ins by paste
          Bare,           \* the pastes for Kick that list no channel
          LoginStarts,    \* which accounts there are at the start, which ids are left for new ones
          NoId, NoFlow,
          LoginFaults     \* bound: failed calls, expired sessions, deletions, pauses, rebuilds

VARIABLES acct, sessions, \* the accounts table; the sessions table
          spare, born,    \* ids not given yet; accounts that pastes of the one Twitch user created
          twitchFlows, flow, \* server.twitch; the polling goroutines
          paste,          \* the sign-ins by paste
          paused, deleting, \* accounts with enabled off; deleteAccount under way
          changed, load, ran, \* accountChanged asked; a rebuild; whose session each runner got
          unread,         \* accounts whose last rebuild had a read or its backend fail
          channels,       \* the Kick registry: whose list
          told, refreshed, \* the paste whose session must be stored; accounts a refresh has stored for since
          loginFaults
signing == <<twitchFlows, flow, paste>>
loading == <<changed, load, ran, unread>>
rowed == <<paused, deleting>>
owed == <<told, refreshed>>
lgvars == <<acct, sessions, spare, born, signing, rowed, loading, channels, owed, loginFaults>>

Twitch == Ids \ Kick
None == "none"
\* a session: which sign-in it comes from, whether its expiry has passed
Session(x) == [by |-> x, old |-> FALSE]
NoSession == Session(None)
\* what an authorised code and a pasted token of the Android app yield; the new expiry of an old one
Poll(f) == Session(f)
AndroidLogin(u) == Session(u)
Revalidate(s) == [s EXCEPT !.old = FALSE]
Refresh(s) == IF s.by \in Pasters THEN Revalidate(s) ELSE [s EXCEPT !.old = FALSE]
NoWork == [pc |-> "rest", id |-> NoId, cancelled |-> FALSE]
NoPaste == [pc |-> "rest", id |-> NoId, alone |-> TRUE]
NoLoad == [pc |-> "rest", id |-> NoId, on |-> FALSE, sess |-> NoSession]
\* the channels of a paste: a list kept whole or, for a bare one, none
List(u) == IF u \in Bare THEN None ELSE u
Fault == loginFaults < LoginFaults /\ loginFaults' = loginFaults + 1
Sure == UNCHANGED loginFaults

Init == /\ \E w \in LoginStarts : acct = w.acct /\ spare = w.spare
        /\ sessions = [a \in Ids |-> NoSession] /\ born = {}
        /\ twitchFlows = [a \in Ids |-> NoFlow] /\ flow = [f \in Flows |-> NoWork]
        /\ paste = [u \in Pasters |-> NoPaste]
        /\ paused = {} /\ deleting = {}
        /\ changed = {} /\ load = NoLoad /\ unread = {} /\ ran = [a \in Ids |-> None] /\ channels = ran
        /\ told = channels /\ refreshed = {} /\ loginFaults = 0
-----------------------------------------------------------------------------
\* sessions.Put: the foreign key refuses an account that is gone
Puts(a) == a \in acct
UpsertSession(a, s) == sessions' = [sessions EXCEPT ![a] = s]
\* cancelTwitchFlow: the goroutine sees its context done at its next check
CancelTwitchFlow(a) == LET f == twitchFlows[a]
                       IN /\ twitchFlows' = [twitchFlows EXCEPT ![a] = NoFlow]
                          /\ flow' = [g \in Flows |-> IF g = f /\ flow[g].pc # "rest"
                                                      THEN [flow[g] EXCEPT !.cancelled = TRUE] ELSE flow[g]]
AccountChanged(a) == changed' = changed \union {a}

\* the start of a flow: the account read, then Twitch asked for a code
TwitchDeviceStart(f, a) ==
  /\ flow[f].pc = "rest" /\ (\A x \in Ids : twitchFlows[x] # f) /\ a \in Twitch
  /\ flow' = [flow EXCEPT ![f] = [NoWork EXCEPT !.pc = "asking", !.id = a]]
  /\ UNCHANGED <<acct, sessions, spare, born, twitchFlows, paste, rowed, loading, channels, owed>> /\ Sure
\* the goroutine's rest: an error, an expired code, a context it finds done
Gone(f) == flow' = [flow EXCEPT ![f] = NoWork]
\* the code came: its flow supersedes the old one, and the operator sees the code
TwitchFlowBegins(f) ==
  /\ flow[f].pc = "asking"
  /\ LET a == flow[f].id
         old == twitchFlows[a]
     IN \/ /\ twitchFlows' = [twitchFlows EXCEPT ![a] = f]
           /\ flow' = [g \in Flows |-> IF g = f THEN [flow[f] EXCEPT !.pc = "poll"]
                                       ELSE IF g = old /\ flow[g].pc # "rest"
                                            THEN [flow[g] EXCEPT !.cancelled = TRUE] ELSE flow[g]]
           /\ told' = [told EXCEPT ![a] = None] \* a sign-in the operator begins later
           /\ paste' = [u \in Pasters |-> IF paste[u].id = a THEN [paste[u] EXCEPT !.alone = FALSE] ELSE paste[u]]
           /\ Sure
        \/ Fault /\ Gone(f) /\ UNCHANGED <<twitchFlows, told, paste>>
  /\ UNCHANGED <<acct, sessions, spare, born, rowed, loading, channels, refreshed>>
PollTwitch(f) ==
  /\ flow[f].pc = "poll"
  /\ LET a == flow[f].id
     IN \/ /\ ~flow[f].cancelled /\ Puts(a) \* authorised: store it
           /\ UpsertSession(a, Poll(f)) /\ flow' = [flow EXCEPT ![f].pc = "stored"] /\ Sure
        \/ /\ flow[f].cancelled \/ a \notin acct
           /\ Gone(f) /\ UNCHANGED sessions /\ Sure
        \/ Fault /\ Gone(f) /\ UNCHANGED sessions
  /\ UNCHANGED <<acct, spare, born, twitchFlows, paste, rowed, loading, channels, owed>>
FlowStored(f) ==
  /\ flow[f].pc = "stored"
  /\ IF flow[f].cancelled THEN Gone(f) ELSE flow' = [flow EXCEPT ![f].pc = "apply"]
  /\ UNCHANGED <<acct, sessions, spare, born, twitchFlows, paste, rowed, loading, channels, owed>> /\ Sure
FlowApplied(f) == /\ flow[f].pc = "apply" /\ Gone(f) /\ AccountChanged(flow[f].id)
                  /\ UNCHANGED <<acct, sessions, spare, born, twitchFlows, paste, rowed, load, ran, unread, channels, owed>> /\ Sure
-----------------------------------------------------------------------------
(* A pasted Android login: Twitch has vouched for the token by "resolve".    *)
PasteAt(u, pc) == paste' = [paste EXCEPT ![u].pc = pc]
PasteEnds(u) == paste' = [paste EXCEPT ![u] = NoPaste]
TwitchAndroidLogin(u) == \E a \in {NoId} \union (acct \intersect Twitch) :
  /\ paste[u].pc = "rest" /\ u \notin Bare
  /\ paste' = [paste EXCEPT ![u] = [NoPaste EXCEPT !.pc = IF a = NoId THEN "resolve" ELSE "cancel", !.id = a]]
  /\ UNCHANGED <<acct, sessions, spare, born, twitchFlows, flow, rowed, loading, channels, owed>> /\ Sure
\* device sessions carry no user id, pasted ones do
TwitchAccountForUser == {a \in acct \intersect Twitch : sessions[a].by \in Pasters}
Resolved(u, a) == paste' = [paste EXCEPT ![u].pc = "cancel", ![u].id = a]
PasteResolve(u) ==
  /\ paste[u].pc = "resolve"
  /\ LET mine == TwitchAccountForUser
         new == spare \intersect Twitch
         Create == IF new = {} THEN PasteEnds(u) /\ UNCHANGED <<acct, spare, born>> \* no id left to model it with
                   ELSE \E a \in {CHOOSE x \in new : TRUE} :
                          /\ acct' = acct \union {a} /\ born' = born \union {a} /\ spare' = spare \ {a}
                          /\ Resolved(u, a)
     IN \/ mine # {} /\ Resolved(u, CHOOSE a \in mine : TRUE) /\ UNCHANGED <<acct, spare, born>> /\ Sure
        \/ mine = {} /\ Create /\ Sure
        \/ Fault /\ Create \* the list failed
  /\ UNCHANGED <<sessions, twitchFlows, flow, rowed, loading, channels, owed>>
PasteForgets(u) == /\ paste[u].pc = "cancel" /\ PasteAt(u, "put") \* mutant: a flow keeps polling
                   /\ UNCHANGED <<acct, sessions, spare, born, twitchFlows, flow, rowed, loading, channels, owed>> /\ Sure
PasteCancels(u) == /\ paste[u].pc = "cancel" /\ PasteAt(u, "put") /\ CancelTwitchFlow(paste[u].id)
                   /\ UNCHANGED <<acct, sessions, spare, born, rowed, loading, channels, owed>> /\ Sure
PastePut(u) ==
  /\ paste[u].pc = "put"
  /\ LET a == paste[u].id
     IN \/ /\ Puts(a) /\ UpsertSession(a, AndroidLogin(u)) /\ PasteAt(u, "apply") /\ Sure
           /\ told' = [told EXCEPT ![a] = IF paste[u].alone THEN u ELSE None]
           /\ refreshed' = refreshed \ {a}
        \/ a \notin acct /\ PasteEnds(u) /\ UNCHANGED <<sessions, owed>> /\ Sure
        \/ Fault /\ PasteEnds(u) /\ UNCHANGED <<sessions, owed>>
  /\ UNCHANGED <<acct, spare, born, twitchFlows, flow, rowed, loading, channels>>
PasteApply(u) == /\ paste[u].pc = "apply" /\ PasteEnds(u) /\ AccountChanged(paste[u].id)
                 /\ UNCHANGED <<acct, sessions, spare, born, twitchFlows, flow, rowed, load, ran, unread, channels, owed>> /\ Sure

(* Pasted Kick cookies: stored, checked, and their channel list registered.  *)
KickSession(u) == \E a \in acct \intersect Kick :
  /\ paste[u].pc = "rest"
  /\ UpsertSession(a, Session(u)) /\ paste' = [paste EXCEPT ![u] = [NoPaste EXCEPT !.pc = "register", !.id = a]]
  /\ UNCHANGED <<acct, spare, born, twitchFlows, flow, rowed, loading, channels, owed>> /\ Sure
PersistKickSession(u) == /\ paste[u].pc = "register" /\ PasteEnds(u)
                         /\ channels' = [channels EXCEPT ![paste[u].id] = List(u)] /\ AccountChanged(paste[u].id)
                         /\ UNCHANGED <<acct, sessions, spare, born, twitchFlows, flow, rowed, load, ran, unread, owed>> /\ Sure
-----------------------------------------------------------------------------
(* A rebuild: reloadAccount reads the row, the builder reads it again and,    *)
(* unless it is paused, acquires the session. A failed read leaves the old    *)
(* runner, or one that needs a login.                                         *)
Unread(a) == unread' = unread \union {a}
Settle(a, s) == /\ load' = NoLoad /\ ran' = [ran EXCEPT ![a] = s.by]
                /\ channels' = IF a \in Kick /\ s # NoSession /\ s.by \notin Bare
                               THEN [channels EXCEPT ![a] = s.by] ELSE channels
ReloadAccount(a) ==
  /\ a \in changed /\ load.pc = "rest" /\ changed' = changed \ {a}
  /\ \/ a \notin acct /\ Settle(a, NoSession) /\ unread' = unread \ {a} /\ Sure
     \/ /\ a \in acct /\ load' = [pc |-> "build", id |-> a, on |-> a \notin paused, sess |-> NoSession]
        /\ unread' = unread \ {a} /\ UNCHANGED <<ran, channels>> /\ Sure
     \/ Fault /\ Unread(a) /\ UNCHANGED <<load, ran, channels>>
  /\ UNCHANGED <<acct, sessions, spare, born, signing, rowed, owed>>
Built(on) == IF on THEN load' = [load EXCEPT !.pc = "get"] /\ UNCHANGED <<ran, channels>>
                   ELSE Settle(load.id, NoSession)
Build ==
  /\ load.pc = "build"
  /\ \/ load.id \in acct /\ Built(load.id \notin paused) /\ UNCHANGED unread /\ Sure
     \/ load.id \notin acct /\ Built(load.on) /\ UNCHANGED unread /\ Sure \* the row captured before
     \/ Fault /\ Unread(load.id) /\ (Built(load.on) \/ Settle(load.id, NoSession)) \* no fresh row; no backend
  /\ UNCHANGED <<acct, sessions, spare, born, signing, rowed, changed, owed>>
AcquireSession ==
  /\ load.pc = "get"
  /\ LET s == sessions[load.id]
         To(pc) == load' = [load EXCEPT !.pc = pc, !.sess = s] /\ UNCHANGED <<ran, channels>>
     IN \/ s = NoSession /\ Settle(load.id, NoSession) /\ UNCHANGED unread /\ Sure \* idles until a login
        \/ s # NoSession /\ s.old /\ load.id \in Twitch /\ To("refresh") /\ UNCHANGED unread /\ Sure
        \/ s # NoSession /\ ~(s.old /\ load.id \in Twitch) /\ To("settle") /\ UNCHANGED unread /\ Sure
        \/ Fault /\ Unread(load.id) /\ Settle(load.id, NoSession) \* every attempt to read it failed
  /\ UNCHANGED <<acct, sessions, spare, born, signing, rowed, changed, owed>>
\* a refused refresh leaves a session that still verifies in use, else the account needs a login
RefreshSession ==
  /\ load.pc = "refresh" /\ UNCHANGED <<changed, unread, acct, sessions, spare, born, signing, rowed, owed>>
  /\ \/ load' = [load EXCEPT !.pc = "put", !.sess = Refresh(@)] /\ UNCHANGED <<ran, channels>> /\ Sure
     \/ (\E s \in {load.sess, NoSession} : Settle(load.id, s)) /\ Sure
RefreshedPut ==
  /\ load.pc = "put" /\ load' = [load EXCEPT !.pc = "settle"]
  /\ \/ /\ Puts(load.id) /\ UpsertSession(load.id, load.sess) /\ refreshed' = refreshed \union {load.id} /\ Sure
     \/ load.id \notin acct /\ UNCHANGED <<sessions, refreshed>> /\ Sure
     \/ Fault /\ UNCHANGED <<sessions, refreshed>> \* both tries: the refreshed session is used all the same
  /\ UNCHANGED <<acct, spare, born, signing, rowed, changed, ran, unread, channels, told>>
LoadSettles == /\ load.pc = "settle" /\ Settle(load.id, load.sess)
               /\ UNCHANGED <<acct, sessions, spare, born, signing, rowed, changed, unread, owed>> /\ Sure
\* the expiry of a stored session passes; a Kick one's is a stamp that no rebuild heeds
Expires(a) == /\ a \in Twitch /\ sessions[a] # NoSession /\ ~sessions[a].old /\ Fault
              /\ UpsertSession(a, [sessions[a] EXCEPT !.old = TRUE])
              /\ UNCHANGED <<acct, spare, born, signing, rowed, loading, channels, owed>>
\* a rebuild for another reason: a games reload, a panic, Restart
Rebuild(a) == /\ a \in acct \ changed /\ AccountChanged(a) /\ Fault
              /\ UNCHANGED <<acct, sessions, spare, born, signing, rowed, load, ran, unread, channels, owed>>
\* the account paused or resumed
SetAccountEnabled(a) == /\ a \in acct /\ Fault /\ AccountChanged(a)
                        /\ paused' = IF a \in paused THEN paused \ {a} ELSE paused \union {a}
                        /\ UNCHANGED <<acct, sessions, spare, born, signing, deleting, load, ran, unread, channels, owed>>
\* a deletion: the flow cancelled, then the rows purged; a flow may begin between the two
DeleteAccount(a) == /\ a \in acct \ deleting /\ Fault /\ CancelTwitchFlow(a) /\ deleting' = deleting \union {a}
                    /\ UNCHANGED <<acct, sessions, spare, born, paste, paused, loading, channels, owed>>
PurgeAccount(a) ==
  /\ a \in deleting /\ deleting' = deleting \ {a}
  /\ \/ /\ acct' = acct \ {a} /\ born' = born \ {a} /\ paused' = paused \ {a}
        /\ UpsertSession(a, NoSession) /\ told' = [told EXCEPT ![a] = None]
        /\ AccountChanged(a) /\ Sure
     \/ Fault /\ UNCHANGED <<acct, born, paused, sessions, told, changed>>
  /\ UNCHANGED <<spare, signing, load, ran, unread, channels, refreshed>>

Next == \/ \E f \in Flows : (\E a \in acct : TwitchDeviceStart(f, a)) \/ TwitchFlowBegins(f) \/ PollTwitch(f)
                             \/ FlowStored(f) \/ FlowApplied(f)
        \/ \E u \in Pasters : \/ TwitchAndroidLogin(u) \/ PasteResolve(u) \/ PasteCancels(u) \/ PastePut(u)
                              \/ PasteApply(u) \/ KickSession(u) \/ PersistKickSession(u)
        \/ \E a \in Ids : \/ ReloadAccount(a) \/ Expires(a) \/ Rebuild(a)
                         \/ SetAccountEnabled(a) \/ DeleteAccount(a) \/ PurgeAccount(a)
        \/ Build \/ AcquireSession \/ RefreshSession \/ RefreshedPut \/ LoadSettles
Spec == Init /\ [][Next]_lgvars
-----------------------------------------------------------------------------
Work == {"rest", "asking", "poll", "stored", "apply", "resolve", "cancel", "put", "register"}
TypeOK == /\ acct \subseteq Ids /\ born \subseteq acct /\ changed \union unread \union paused \union deleting \subseteq Ids
          /\ \A f \in Flows : flow[f].pc \in Work /\ \A u \in Pasters : paste[u].pc \in Work
          /\ \A a \in Ids : sessions[a].by \in {None} \union Flows \union Pasters

(* login_twitch_paste.go "A device flow still polling for this account would  *)
(* overwrite the session": what a paste has stored stays stored until a later *)
(* sign-in, however long the code of an earlier flow was open.                *)
AnsweredIsStored == \A a \in acct \ refreshed : told[a] # None => sessions[a].by = told[a]
(* The same through a refresh: acquireSession may store what it read before.  *)
LoginKept == \A a \in acct : told[a] # None => sessions[a].by = told[a]
Settled(a) == /\ a \in acct /\ a \notin changed /\ load.id # a
              /\ (\A f \in Flows : flow[f].id # a \/ flow[f].pc \in {"rest", "asking", "poll"}) /\ \A u \in Pasters : paste[u].id # a
(* login_kick.go persistKickSession "registers the channel list and announces *)
(* the change": with nothing under way, and unless a read of the account's     *)
(* last rebuild failed, a paused Kick account mines nothing, and one that is   *)
(* not has the session stored last, with that session's channels if it lists any. *)
KickSettles ==
  \A a \in Kick \ unread : Settled(a) =>
    /\ a \in paused => ran[a] = None
    /\ a \notin paused /\ sessions[a] # NoSession =>
         ran[a] = sessions[a].by /\ (sessions[a].by \notin Bare => channels[a] = sessions[a].by)
(* roster.go builder "Re-register Kick state each build so the in-memory maps   *)
(* survive restarts": what is registered is what the stored session lists, be  *)
(* it nothing.                                                                 *)
KickListed == \A a \in Kick \ (unread \union paused) :
                Settled(a) /\ sessions[a] # NoSession => channels[a] = List(sessions[a].by)
(* server.go AccountChanged "rebuilds the account's runner: create, pause or   *)
(* resume, login": a stored session is the one the runner works with.          *)
StoredIsApplied == \A a \in Twitch \ unread : Settled(a) /\ ran[a] # None => ran[a] = sessions[a].by
(* login_twitch_paste.go "the account whose session already belongs to the     *)
(* same Twitch user is updated, else a new account": pastes of one user make   *)
(* at most one account.                                                        *)
OneAccountPerUser == \A a, b \in born : a = b
=============================================================================
