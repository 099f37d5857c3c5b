--------------------------- MODULE TwitchCatalogue ---------------------------
(***************************************************************************)
(* What a Twitch scan lists and where it may be watched. An Android login   *)
(* reads the drops dashboard and each campaign's details; a browser login   *)
(* reads the dashboard joined with a scrape of the campaigns page; a TV     *)
(* login reads the directory, the channels' drops and the inventory, and    *)
(* may add what an Android login lists. A scan leaves the allow-lists the   *)
(* search for channels goes by.                                             *)
(* source: src/internal/platform/twitch/{campaigns,chandisc,shared,catalog, *)
(* channels,backend,browser_backend}.go, .../auth/browser/sidecar/twitch.go *)
(***************************************************************************)
EXTENDS Naturals, FiniteSets

CONSTANTS Campaigns, \* all of one game
          Channels,
          Facts,     \* the campaigns Twitch may start with: see Fact
          Moves      \* bound: changes at Twitch and details that age out

\* progress: in the account's inventory; allow: {} for any channel; url: it
\* has a publisher's link page
Fact == [status: {"UPCOMING", "ACTIVE", "EXPIRED"}, linked: BOOLEAN, url: BOOLEAN,
         progress: BOOLEAN, allow: SUBSET Channels]
Live == {"game", "blank", "other", "off"} \* a channel's category, or offline

VARIABLES mode,    \* "android", "browser" or "tv"
          tw,      \* Twitch: campaign -> its facts
          live,    \* Twitch: channel -> Live
          userID,  \* the id the details need is known
          cache,   \* discovery.detailsCache: campaign -> allow-list
          pending, \* discovery.pendingAllowed
          allowed, \* Backend.allowedLoginsByCampaign
          asked,   \* the drops page's answer not captured yet
          untold,  \* history: campaigns whose pending, or kept, list is empty
                   \* for an answer without them
          run,     \* the list under way
          last,    \* the rows of the last list, {} while the next is under way
          found,   \* the campaign and the channels of the last search
          moves

cvars == <<mode, tw, live, userID, cache, pending, allowed, asked, untold, run,
           last, found, moves>>
twitch == <<mode, tw, live>>
lists == <<allowed, asked, untold>>

Idle == [pc |-> "idle", rows |-> {}, todo |-> {}]
None == [c |-> {}, on |-> {}]
Init == /\ mode \in {"android", "browser", "tv"} /\ tw \in Facts
        /\ live = [k \in Channels |-> "game"] /\ userID \in BOOLEAN
        /\ cache = <<>> /\ pending = <<>> /\ allowed = [c \in Campaigns |-> {}]
        /\ asked = {} /\ untold = [pending |-> {}, kept |-> {}]
        /\ run = Idle /\ last = {} /\ found = None /\ moves = 0

\* a campaign row; synth: its id was made up from the page ("game|name")
Row(c, src, synth, st, linked, checked) ==
  [c |-> c, src |-> src, synth |-> synth, st |-> st, linked |-> linked, checked |-> checked,
   drops |-> "none", allow |-> {}]
Lower(st) == CASE st = "ACTIVE" -> "active" [] st = "UPCOMING" -> "upcoming" [] OTHER -> "expired"
-----------------------------------------------------------------------------
(* The sidecar's campaigns page. A card is a portrait with or without a link *)
(* or a banner with a link; an id comes from the link, else it is made up.   *)
(* The Apollo cache wins, then cards whose id is not there yet.              *)
Card(c, synth) == [c |-> c, synth |-> synth, dated |-> TRUE]
DomPass(cards) == {Card(c, cards[c] = "nolink") : c \in {d \in Campaigns : cards[d] \in {"portrait", "nolink"}}}
AnchorPass(cards, seen) ==
  {x \in {Card(c, FALSE) : c \in {d \in Campaigns : cards[d] = "banner"}} : ~\E y \in seen : y.c = x.c /\ ~y.synth}
ApolloPass(state) == {[c |-> c, synth |-> FALSE, dated |-> FALSE] : c \in state}
MergePasses(out, dom) == out \union {d \in dom : ~\E o \in out : o.c = d.c /\ o.synth = d.synth}
ScrapeDropsCampaignsPage(cards, state) ==
  MergePasses(ApolloPass(state), DomPass(cards) \union AnchorPass(cards, DomPass(cards)))

\* names of the GraphQL rows are cleaned of the date that follows them, those
\* of the page only after the union by game and name
ExtractGqlCampaigns(enrolled) == ApolloPass(enrolled)
UnionCampaigns(gql, scrape) ==
  {[c |-> x.c, synth |-> x.synth, src |-> "gql"] : x \in gql} \union
  {[c |-> x.c, synth |-> x.synth, src |-> "page"] :
     x \in {s \in scrape : ~\E g \in gql : g.c = s.c /\ g.dated = s.dated}}
\* every row is told as active and linked
Envelope(rows) == {Row(x.c, x.src, x.synth, "ACTIVE", TRUE, ~x.synth) : x \in rows}
-----------------------------------------------------------------------------
(* The dashboard: the rows, then the details of each active one. A failing   *)
(* request ends the list and leaves what it captured pending.                *)
Dashboard == {Row(c, "gql", FALSE, tw[c].status, tw[c].linked, TRUE) : c \in Campaigns}
Shown == {c \in Campaigns : tw[c].status = "ACTIVE"}
PageRows == IF mode = "android" THEN {Dashboard}
            ELSE {Envelope(UnionCampaigns(ExtractGqlCampaigns(enrolled), ScrapeDropsCampaignsPage(cards, state))) :
                    enrolled \in SUBSET Shown, state \in SUBSET Shown,
                    cards \in {f \in [Campaigns -> {"portrait", "nolink", "banner", "none"}] :
                                 \A c \in Campaigns \ Shown : f[c] = "none"}}
ResolveCurrentUserID == {userID, TRUE} \* the session's id, else a request that may fail
\* rows that are not active, and made-up ones with their default drop
NeedsDetails(r) == r.st = "ACTIVE" /\ ~r.synth
Shell(r) == [r EXCEPT !.st = Lower(@), !.drops = IF r.st = "ACTIVE" THEN "default" ELSE "none"]
ListActive ==
  /\ run.pc = "idle" /\ mode # "tv"
  /\ \E page \in PageRows :
       run' = [pc |-> "details", rows |-> {Shell(r) : r \in {x \in page : ~NeedsDetails(x)}},
               todo |-> {r \in page : NeedsDetails(r)}]
  /\ userID' \in ResolveCurrentUserID
  /\ last' = {} /\ found' = None
  /\ UNCHANGED <<twitch, cache, pending, lists, moves>>

\* the rows are gone through in order
Turn == {r \in run.todo : r = CHOOSE x \in run.todo : TRUE}
Done(r, row) == run' = [run EXCEPT !.todo = @ \ {r}, !.rows = @ \union {row}]
Details(logins) == [drops |-> "real", allow |-> logins]
Null == [drops |-> "none", allow |-> {}]
\* mutant: a null answer is taken for a campaign open to any channel
NullIsOpen(c) == IF c \in DOMAIN cache THEN {Details(cache[c])}
                 ELSE {Details({})} \union (IF userID THEN {Details(tw[c].allow)} ELSE {})
\* without the user's id the answer is null, and with it may be; a null answer is
\* neither benefits nor cached, yet its empty allow-list is captured
Answer(c) == IF c \in DOMAIN cache THEN {Details(cache[c])}
             ELSE {Null} \union (IF userID THEN {Details(tw[c].allow)} ELSE {})
Keep(f, c, logins) == [d \in DOMAIN f \union {c} |-> IF d = c THEN logins ELSE f[d]]
CaptureAllowed(c, a) ==
  /\ pending' = Keep(pending, c, a.allow)
  /\ untold' = [untold EXCEPT !.pending = IF a = Null THEN @ \union {c} ELSE @ \ {c}]
Remember(c, a) == cache' = IF a = Null THEN cache ELSE Keep(cache, c, a.allow)
FetchDetails(r) ==
  /\ run.pc = "details"
  /\ \E a \in Answer(r.c) :
       /\ Remember(r.c, a) /\ CaptureAllowed(r.c, a)
       /\ Done(r, [r EXCEPT !.st = "active", !.drops = a.drops, !.allow = a.allow])
  /\ UNCHANGED <<twitch, userID, allowed, asked, last, found, moves>>
ListFails ==
  /\ run.pc \in {"details", "inventory"} /\ run' = Idle
  /\ UNCHANGED <<twitch, userID, cache, pending, lists, last, found, moves>>

\* a made-up row goes when the game has a real one
DedupeSynthVsReal(rows) == {r \in rows : r.synth => ~\E o \in rows : ~o.synth}
DrainAllowed(p) ==
  /\ allowed' = [c \in Campaigns |-> IF c \in DOMAIN p THEN p[c] ELSE allowed[c]]
  /\ untold' = [pending |-> {}, kept |-> (untold.kept \ DOMAIN p) \union untold.pending]
ListEnds ==
  /\ run.pc = "details" /\ run.todo = {}
  /\ DrainAllowed(pending) /\ pending' = <<>>
  /\ last' = DedupeSynthVsReal(run.rows) /\ run' = Idle
  /\ UNCHANGED <<twitch, userID, cache, asked, found, moves>>
\* details asked for by the drops page, on another goroutine, which captures
\* what came back when the scan may have captured another answer since
CampaignDetails(c) ==
  /\ mode = "android" /\ asked = {}
  /\ \E a \in Answer(c) : asked' = {[c |-> c, a |-> a]} /\ Remember(c, a)
  /\ UNCHANGED <<twitch, userID, pending, allowed, untold, run, last, found, moves>>
CaptureAsked ==
  /\ \E x \in asked : CaptureAllowed(x.c, x.a)
  /\ asked' = {}
  /\ UNCHANGED <<twitch, userID, cache, allowed, run, last, found, moves>>
-----------------------------------------------------------------------------
(* A TV login: the game's directory and the drops each channel serves, then  *)
(* the inventory, then what an Android login's catalogue has besides.        *)
Earns(k, c) == live[k] \in {"game", "blank"} /\ (tw[c].allow = {} \/ k \in tw[c].allow)
ListForGameDirectory == {k \in Channels : live[k] = "game"}
Serves(k) == {c \in Campaigns : tw[c].status = "ACTIVE" /\ Earns(k, c)}
WithDrops(r) == [r EXCEPT !.drops = "real"]
ListByChannels ==
  /\ run.pc = "idle" /\ mode = "tv"
  /\ \E ks \in SUBSET ListForGameDirectory : \* those that answered
       LET served == [c \in UNION {Serves(k) : k \in ks} |-> {k \in ks : c \in Serves(k)}] IN
       run' = [pc |-> "inventory", todo |-> {},
               rows |-> {[WithDrops(Row(c, "gql", FALSE, "active", TRUE, FALSE)) EXCEPT !.allow = served[c]] :
                           c \in DOMAIN served}]
  /\ last' = {} /\ found' = None
  /\ UNCHANGED <<twitch, userID, cache, pending, lists, moves>>

\* the inventory is authoritative for status, link and its own allow-list
Held(c) == [WithDrops(Row(c, "gql", FALSE, Lower(tw[c].status), tw[c].linked, TRUE)) EXCEPT !.allow = tw[c].allow]
Override(rows, c) ==
  LET own == {r \in rows : r.c = c}
      keep == IF tw[c].allow # {} \/ own = {} THEN tw[c].allow ELSE (CHOOSE r \in own : TRUE).allow IN
  (rows \ own) \union {[Held(c) EXCEPT !.allow = keep]}
Inventory(rows) ==
  {r \in rows : ~tw[r.c].progress} \union UNION {Override(rows, c) \ {r \in rows : r.c # c} :
     c \in {d \in Campaigns : tw[d].progress}}

\* the Android catalogue: active campaigns whose details it got
Catalog == {Held(c) : c \in Shown}
Shareable(r) == [r EXCEPT !.linked = ~tw[r.c].url, !.checked = FALSE]
MergeShared(own, shared) == {Shareable(s) : s \in {x \in shared : ~\E o \in own : o.c = x.c}}
WithShared == SUBSET Catalog \* {}: off, no Android login, or its catalogue failed
TVEnds ==
  /\ run.pc = "inventory"
  /\ \E own \in {run.rows, Inventory(run.rows)}, shared \in WithShared :
       LET add == MergeShared(own, shared)
           gave == {r \in own : r.allow # {}} \union add IN
       /\ last' = own \union add
       /\ DrainAllowed([c \in {r.c : r \in gave} |-> (CHOOSE r \in gave : r.c = c).allow])
  /\ run' = Idle
  /\ UNCHANGED <<twitch, userID, cache, pending, asked, found, moves>>
-----------------------------------------------------------------------------
(* The search for channels of a campaign: its allow-list when there is one,  *)
(* each channel probed for being live on the game, else the directory. One   *)
(* failing probe fails the search.                                           *)
Lookup(k) == live[k] # "off"
SameGame(k) == live[k] \in {"game", "blank"} \* an unknown category passes
ListEligible(logins) == {k \in logins : Lookup(k) /\ SameGame(k)}
ListEligibleChannels(r) ==
  /\ run.pc = "idle" /\ r \in last /\ r.st = "active" /\ r.drops # "none"
  /\ found' = [c |-> {r.c}, on |-> IF ~r.synth /\ allowed[r.c] # {} THEN ListEligible(allowed[r.c])
                                   ELSE ListForGameDirectory]
  /\ UNCHANGED <<twitch, userID, cache, pending, lists, run, last, moves>>

\* Twitch moves on: a campaign's status and progress, a channel's category;
\* cached details age out
Change == moves < Moves /\ moves' = moves + 1 /\ found' = None
Advance(c) ==
  /\ Change /\ \E st \in {"ACTIVE", "EXPIRED"}, p \in BOOLEAN :
       tw' = [tw EXCEPT ![c] = [tw[c] EXCEPT !.status = IF @ = "EXPIRED" THEN @ ELSE st, !.progress = p]]
  /\ UNCHANGED <<mode, live, userID, cache, pending, lists, run, last>>
Switch(k) ==
  /\ Change /\ \E g \in Live : live' = [live EXCEPT ![k] = g]
  /\ UNCHANGED <<mode, tw, userID, cache, pending, lists, run, last>>
Expire ==
  /\ Change /\ cache # <<>> /\ cache' = <<>>
  /\ UNCHANGED <<twitch, userID, pending, lists, run, last>>

Next == \/ ListActive \/ ListFails \/ ListEnds \/ ListByChannels \/ TVEnds \/ Expire
        \/ CaptureAsked
        \/ \E r \in Turn : FetchDetails(r)
        \/ \E r \in last : ListEligibleChannels(r)
        \/ \E c \in Campaigns : CampaignDetails(c) \/ Advance(c)
        \/ \E k \in Channels : Switch(k)
Spec == Init /\ [][Next]_cvars
-----------------------------------------------------------------------------

(* A channel found for a campaign earns it: it is live on the campaign's     *)
(* game and, when Twitch restricts the campaign, one of its channels,        *)
(* whatever details failed, aged out or were captured by another caller,     *)
(* unless the campaign's list was last captured of an answer without it. (A  *)
(* browser login's made-up rows know no allow-list.)                         *)
EligibleEarns == mode # "browser" =>
  \A c \in found.c \ untold.kept : \A k \in found.on : Earns(k, c)

(* "A null user or campaign is not a real "no drops" answer" (fetchDetails): *)
(* it does not open a restricted campaign to any channel.                    *)
NullOpensNothing == mode # "browser" => \A c \in found.c : \A k \in found.on : Earns(k, c)

(* A campaign the scan gave no allow-list is watched on any channel of its   *)
(* game: "drop any stale entry".                                             *)
AllowIsCurrent == run.pc = "idle" =>
  \A r \in last : r.st = "active" /\ r.drops = "real" /\ r.allow = {} => allowed[r.c] = {}

(* A row whose link state is reported as checked has the account's own.      *)
CheckedIsTrue == \A r \in last : r.checked => r.linked = tw[r.c].linked

(* The scrape only fills in what GraphQL did not return: one row a campaign. *)
ListedOnce == \A r, o \in last : r.c = o.c /\ r.synth = o.synth => r = o
=============================================================================
