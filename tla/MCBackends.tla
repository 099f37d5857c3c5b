------------------------------ MODULE MCBackends ------------------------------
(***************************************************************************)
(* The platform backends, one component at a time: part, chosen at the      *)
(* start, is the one that runs, and the variables of the others stay 0 (the *)
(* probe and the tabs rest). The probe is extended, the others are instances. *)
(***************************************************************************)
EXTENDS KickProbe, FiniteSets, TLC

CONSTANTS Campaigns, Restricted, Channels, k1, Facts, Moves, \* TwitchCatalogue
          Clients, Own, PushTopics, Goroutines, MaxTopics, PushFaults, \* TwitchPush
          Users, Streams, NoUser, BeatMoves,              \* TwitchBeats
          Requests, Conns, NoConn, KTFaults,              \* KickTransport
          Offers, Casters, KickFacts, Open1, t1, t2, Reliable, MaxProbe, Shifts, \* KickCatalogue
          Accounts, Callers, Titles, NoOne, MaxTabs, Faults \* SidecarTabs

VARIABLES part,
          mode, tw, live, userID, cache, pending, allowed, asked, untold, run, last, found, moves,
          browser, token, reg, cl, wanted, raced, pushCall, pushFaults,
          routed, sess, tab, beatAuthed, bound, cachedID, onAir, url, handle, beat, beatMoves,
          pooled, stale, up, ended, req, failed, calm, ktFaults,
          offers, stage, manual, own, pool, catID, listed, shown, search, hit, shifts,
          tabList, authTabs, tabMu, claimedT, scrape, authed, cookies, tile, spent, call, faults
catalogueVars == <<mode, tw, live, userID, cache, pending, allowed, asked, untold, run, last, found, moves>>
pushVars  == <<browser, token, reg, cl, wanted, raced, pushCall, pushFaults>>
beatVars  == <<routed, sess, tab, beatAuthed, bound, cachedID, onAir, url, handle, beat, beatMoves>>
wireVars  == <<pooled, stale, up, ended, req, failed, calm, ktFaults>>
kickVars  == <<offers, stage, manual, own, pool, catID, listed, shown, search, hit, shifts>>
tabVars   == <<tabList, authTabs, tabMu, claimedT, scrape, authed, cookies, tile, spent, call, faults>>

\* one campaign is active, open or restricted; the other has yet to start
Stays == [status |-> "UPCOMING", linked |-> FALSE, url |-> FALSE, progress |-> FALSE, allow |-> {}]
TwitchFacts ==
  {[c \in Campaigns |-> IF c = Restricted
                        THEN [status |-> "ACTIVE", linked |-> l, url |-> TRUE, progress |-> p, allow |-> ks]
                        ELSE Stays] : l \in BOOLEAN, p \in BOOLEAN, ks \in {{}, {k1}}}
\* one offer is open to its category, the other has two channels
OfferFacts ==
  {[o \in Offers |->
      IF o = Open1 THEN [status |-> "active", window |-> "in", casters |-> {}, id |-> i]
      ELSE [status |-> "active", window |-> w, casters |-> {t1, t2}, id |-> FALSE]] :
   i \in BOOLEAN, w \in {"none", "after"}}

K == INSTANCE TwitchCatalogue
H == INSTANCE TwitchPush WITH Channels <- PushTopics, Callers <- Goroutines, call <- pushCall
B == INSTANCE TwitchBeats WITH authed <- beatAuthed
X == INSTANCE KickTransport
O == INSTANCE KickCatalogue
T == INSTANCE SidecarTabs

\* the account's own topics are of other names than a channel's
ASSUME BackendsAssumption ==
  /\ Facts \subseteq [Campaigns -> K!Fact]
  /\ Own \cap PushTopics = {} /\ NoOne \notin Clients \cup Callers
  /\ IsFiniteSet(Casters) /\ MaxProbe \in Nat \ {0}
-----------------------------------------------------------------------------
CatalogueOff == /\ mode = 0 /\ tw = 0 /\ live = 0 /\ userID = 0 /\ cache = 0 /\ pending = 0
                /\ allowed = 0 /\ asked = 0 /\ untold = 0 /\ run = 0 /\ last = 0 /\ found = 0 /\ moves = 0
PushOff  == /\ browser = 0 /\ token = 0 /\ reg = 0 /\ cl = 0 /\ wanted = 0 /\ raced = 0
            /\ pushCall = 0 /\ pushFaults = 0
BeatOff  == /\ routed = 0 /\ sess = 0 /\ tab = 0 /\ beatAuthed = 0 /\ bound = 0 /\ cachedID = 0
            /\ onAir = 0 /\ url = 0 /\ handle = 0 /\ beat = 0 /\ beatMoves = 0
WireOff  == pooled = 0 /\ stale = 0 /\ up = 0 /\ ended = 0 /\ req = 0 /\ failed = 0 /\ calm = 0 /\ ktFaults = 0
KickOff  == /\ offers = 0 /\ stage = 0 /\ manual = 0 /\ own = 0 /\ pool = 0 /\ catID = 0
            /\ listed = 0 /\ shown = 0 /\ search = 0 /\ hit = 0 /\ shifts = 0
TabsRest == T!Init /\ tile = [a \in Accounts |-> [t \in Titles |-> "progress"]]

MCInit ==
  \/ part = "probe" /\ Init /\ TabsRest /\ CatalogueOff /\ PushOff /\ BeatOff /\ WireOff /\ KickOff
  \/ part = "tabs" /\ Init /\ T!Init /\ CatalogueOff /\ PushOff /\ BeatOff /\ WireOff /\ KickOff
  \/ part = "catalogue" /\ Init /\ TabsRest /\ K!Init /\ PushOff /\ BeatOff /\ WireOff /\ KickOff
  \/ part = "push" /\ Init /\ TabsRest /\ CatalogueOff /\ H!Init /\ BeatOff /\ WireOff /\ KickOff
  \/ part = "beats" /\ Init /\ TabsRest /\ CatalogueOff /\ PushOff /\ B!Init /\ WireOff /\ KickOff
  \/ part = "wire" /\ Init /\ TabsRest /\ CatalogueOff /\ PushOff /\ BeatOff /\ X!Init /\ KickOff
  \/ part = "kick" /\ Init /\ TabsRest /\ CatalogueOff /\ PushOff /\ BeatOff /\ WireOff /\ O!Init
OnProbe     == /\ part = "probe" /\ UNCHANGED part
               /\ UNCHANGED <<tabVars, catalogueVars, pushVars, beatVars, wireVars, kickVars>>
OnTabs      == /\ part = "tabs" /\ UNCHANGED part
               /\ UNCHANGED <<wpvars, catalogueVars, pushVars, beatVars, wireVars, kickVars>>
OnCatalogue == /\ part = "catalogue" /\ UNCHANGED part
               /\ UNCHANGED <<wpvars, tabVars, pushVars, beatVars, wireVars, kickVars>>
OnPush      == /\ part = "push" /\ UNCHANGED part
               /\ UNCHANGED <<wpvars, tabVars, catalogueVars, beatVars, wireVars, kickVars>>
OnBeats     == /\ part = "beats" /\ UNCHANGED part
               /\ UNCHANGED <<wpvars, tabVars, catalogueVars, pushVars, wireVars, kickVars>>
OnWire      == /\ part = "wire" /\ UNCHANGED part
               /\ UNCHANGED <<wpvars, tabVars, catalogueVars, pushVars, beatVars, kickVars>>
OnKick      == /\ part = "kick" /\ UNCHANGED part
               /\ UNCHANGED <<wpvars, tabVars, catalogueVars, pushVars, beatVars, wireVars>>
MCNext == \/ OnProbe /\ Next
          \/ OnTabs /\ T!Next
          \/ OnCatalogue /\ K!Next
          \/ OnPush /\ H!Next
          \/ OnBeats /\ B!Next
          \/ OnWire /\ X!Next
          \/ OnKick /\ O!Next
mcvars == <<part, wpvars, tabVars, catalogueVars, pushVars, beatVars, wireVars, kickVars>>
MCSpec == MCInit /\ [][MCNext]_mcvars
-----------------------------------------------------------------------------
\* NilMeansHeard is checked as KickProbe.tla states it.
\* SidecarTabs.tla: a tile is clicked again only when its mark was lost.
ReclickExcused == T!ReclickExcused
\* TwitchCatalogue.tla: a channel found for a campaign earns it, unless its list is a
\* null answer's.
EligibleEarns == part = "catalogue" => K!EligibleEarns
\* TwitchPush.tla: the topics wanted are listened to again after a reconnect.
ReconnectRestores == part = "push" => H!ReconnectRestores
\* TwitchBeats.tla: a stale URL costs a heartbeat nothing.
StaleCostsNothing == part = "beats" => B!StaleCostsNothing
\* KickTransport.tla: a failure that met no other call is the last of its trouble.
OneFailureSuffices == part = "wire" => X!OneFailureSuffices
\* KickCatalogue.tla: the search of an open campaign finds a channel on its category.
OpenSearchFinds == part = "kick" => O!OpenSearchFinds
-----------------------------------------------------------------------------
(* The code breaks these, and NilMeansAnswered, PongRecorded and NilMeansUp  *)
(* of KickProbe.tla; the README's findings say how. TLC refutes each once it *)
(* is listed in Backends.cfg.                                                *)
\* TwitchCatalogue.tla: a null answer opens no restricted campaign.
NullOpensNothing == part = "catalogue" => K!NullOpensNothing
\* TwitchCatalogue.tla: no allow-list is kept that the scan did not give.
AllowIsCurrent == part = "catalogue" => K!AllowIsCurrent
\* TwitchCatalogue.tla: a link state reported as checked is the account's.
CheckedIsTrue == part = "catalogue" => K!CheckedIsTrue
\* TwitchCatalogue.tla: a campaign is listed once.
ListedOnce == part = "catalogue" => K!ListedOnce
\* TwitchPush.tla: a reconnect subscribes the topic set.
ReconnectSubscribes == part = "push" => H!ReconnectSubscribes
\* TwitchPush.tla: Twitch sends the topics of the set.
FramesInOrder == part = "push" => H!FramesInOrder
\* TwitchPush.tla: Close closes the socket.
ClosedStops == part = "push" => H!ClosedStops
\* TwitchBeats.tla: minutes are sent for the user logged in.
BeatsAsLoggedIn == part = "beats" => B!BeatsAsLoggedIn
\* KickTransport.tla: one connection a host.
OnePerHost == part = "wire" => X!OnePerHost
\* KickTransport.tla: a failure closes its own connection.
HealthySpared == part = "wire" => X!HealthySpared
\* KickCatalogue.tla: an open campaign is searched as one.
OpenIsOpen == part = "kick" => O!OpenIsOpen
\* SidecarTabs.tla: a tile whose button stays is clicked once.
ClickedOnce == T!ClickedOnce
\* SidecarTabs.tla: an account has one tab.
OneAuthTab == T!OneAuthTab
\* SidecarTabs.tla: one call at a time drives a tab.
OneDriver == T!OneDriver
\* SidecarTabs.tla: a call of an authenticated account runs in a logged-in tab.
LoggedIn == T!LoggedIn
\* SidecarTabs.tla: an authenticated tab has the cookies of the latest login.
LatestCookies == T!LatestCookies
\* SidecarTabs.tla: a title taken as claimed is not still in progress.
MarkedWasClicked == T!MarkedWasClicked
=============================================================================
