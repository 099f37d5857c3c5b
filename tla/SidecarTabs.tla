----------------------------- MODULE SidecarTabs -----------------------------
(***************************************************************************)
(* The Twitch calls that go through the Chrome sidecar: the miner's cache   *)
(* of which accounts the sidecar has authenticated, and in the sidecar one  *)
(* logged-in tab per account, the lock on it, the cookies in it, the        *)
(* proxied GraphQL calls and the reward claims that click in it.            *)
(* source: src/internal/platform/twitch/browser_backend.go,                 *)
(* src/internal/auth/browser/sidecar/{twitch,browser,server}.go             *)
(***************************************************************************)
EXTENDS Naturals, FiniteSets

CONSTANTS Accounts, Callers, Titles, NoOne,
          MaxTabs,  \* bound: tabs open at a time
          Faults    \* bound: sidecar restarts, logins with new cookies, browser actions and requests that fail

VARIABLES tabList,  \* open tabs: id, account, cookies (0: none, else their version)
          authTabs, \* account -> id of its tab, 0 for none
          tabMu,    \* account -> holder of the tab's lock
          claimedT, \* account -> titles the sidecar takes as claimed
          scrape,   \* account -> the scrape cache: "none" (or over 30 minutes old), "fresh"
          authed,   \* accounts the miner takes as authenticated
          cookies,  \* account -> version of the stored cookies
          tile,     \* account -> title -> "progress", "claimable", "clicked", "done"
          spent,    \* history: account -> title -> "never" clicked, "kept", "lost":
                    \* no mark of the last click was made, or it is gone
          call,     \* caller -> its call
          faults

svars == <<tabList, authTabs, tabMu, claimedT, scrape, authed, cookies, tile, spent,
           call, faults>>
sidecar == <<tabList, authTabs, tabMu, claimedT, scrape>>
page == <<tile, spent>>

\* op: "list" (campaigns), "gql" (any other query), "rewards"; cookies: the
\* session's; tab: the tab it works in; again: it retries
Idle == [pc |-> "idle", op |-> "gql", acc |-> NoOne, cookies |-> 0, tab |-> 0,
         again |-> FALSE, skip |-> {}, out |-> {}]

Init == /\ tabList = {} /\ authTabs = [a \in Accounts |-> 0]
        /\ tabMu = [a \in Accounts |-> NoOne] /\ claimedT = [a \in Accounts |-> {}]
        /\ scrape = [a \in Accounts |-> "none"] /\ authed = {}
        /\ cookies = [a \in Accounts |-> 1] /\ tile \in [Accounts -> [Titles -> {"progress", "claimable"}]]
        /\ spent = [a \in Accounts |-> [t \in Titles |-> "never"]]
        /\ call = [c \in Callers |-> Idle] /\ faults = 0

Break == faults < Faults /\ faults' = faults + 1
Step(c, f) == call' = [call EXCEPT ![c] = f]
At(c, pc) == call[c].pc = pc
Go(c, pc) == Step(c, [call[c] EXCEPT !.pc = pc])
OpenTabs == {t.id : t \in tabList}
TabOf(i) == CHOOSE t \in tabList : t.id = i
-----------------------------------------------------------------------------
(* The miner: ensureAuthenticated, the call, and for a missing tab the       *)
(* cached flag dropped, ensureAuthenticated and the call once more.          *)
Method(op) == IF op = "rewards" THEN "claimLock" ELSE "tabFor"
Begin(c, a, op) ==
  /\ At(c, "idle")
  /\ Step(c, [Idle EXCEPT !.pc = IF a \in authed THEN Method(op) ELSE "acquire",
                          !.op = op, !.acc = a, !.cookies = cookies[a]])
  /\ UNCHANGED <<sidecar, authed, cookies, page, faults>>

\* acquireTab of Authenticate: look, then open and enter
AcquireTab(c) ==
  LET a == call[c].acc
      h == authTabs[a] IN
  /\ At(c, "acquire")
  /\ IF h \in OpenTabs
     THEN Step(c, [call[c] EXCEPT !.pc = "install", !.tab = h]) /\ UNCHANGED authTabs
     ELSE Go(c, "open") /\ authTabs' = [authTabs EXCEPT ![a] = 0]
  /\ UNCHANGED <<tabList, tabMu, claimedT, scrape, authed, cookies, page, faults>>
\* a handle is opaque: one that no open tab, table entry or call holds
Handle == CHOOSE i \in 1..(MaxTabs + Cardinality(Callers) + Cardinality(Accounts) + 1) :
            /\ i \notin OpenTabs /\ \A a \in Accounts : authTabs[a] # i
            /\ \A c \in Callers : call[c].tab # i
NewTab(a) == [id |-> Handle, acc |-> a, cookies |-> 0]
OpenTab(c, next) ==
  /\ Cardinality(tabList) < MaxTabs
  /\ tabList' = tabList \union {NewTab(call[c].acc)}
  /\ authTabs' = [authTabs EXCEPT ![call[c].acc] = Handle]
  /\ Step(c, [call[c] EXCEPT !.pc = next, !.tab = Handle])
Open(c) == /\ At(c, "open") /\ OpenTab(c, "install")
           /\ UNCHANGED <<tabMu, claimedT, scrape, authed, cookies, page, faults>>

\* the session's cookies (a fresh tab's stealth shim first); a failure closes the tab
\* that is the account's now
CloseTab(a) == /\ tabList' = {t \in tabList : t.id # authTabs[a]}
               /\ authTabs' = [authTabs EXCEPT ![a] = 0]
InstallCookies(c) ==
  LET x == call[c] IN
  /\ At(c, "install")
  /\ \/ /\ x.tab \in OpenTabs /\ Go(c, "verify")
        /\ tabList' = (tabList \ {TabOf(x.tab)}) \union
             {[TabOf(x.tab) EXCEPT !.cookies = x.cookies]}
        /\ UNCHANGED <<authTabs, faults>>
     \/ /\ IF x.tab \in OpenTabs THEN Break ELSE UNCHANGED faults
        /\ CloseTab(x.acc) /\ Step(c, Idle)
  /\ UNCHANGED <<tabMu, claimedT, scrape, authed, cookies, page>>
\* the check of the login only warns; then authed[account] is set
SetAuthed(c) ==
  /\ At(c, "verify") /\ authed' = authed \union {call[c].acc} /\ Go(c, Method(call[c].op))
  /\ UNCHANGED <<sidecar, cookies, page, faults>>

\* invalidateAuth and the one retry, for a missing tab or, in a list, for
\* an integrity refusal
Retry(c) == /\ authed' = authed \ {call[c].acc}
            /\ Step(c, [call[c] EXCEPT !.pc = "acquire", !.again = TRUE])
Failed(c) == Step(c, Idle) /\ UNCHANGED authed
TabMissing(c) == IF call[c].again THEN Failed(c) ELSE Retry(c)
-----------------------------------------------------------------------------
(* GQL in the sidecar: the tab is looked up before its lock is taken.        *)
TabFor(c) ==
  LET h == authTabs[call[c].acc] IN
  /\ At(c, "tabFor")
  /\ IF h \in OpenTabs
     THEN Step(c, [call[c] EXCEPT !.pc = "lock", !.tab = h]) /\ UNCHANGED authed
     ELSE TabMissing(c)
  /\ UNCHANGED <<sidecar, cookies, page, faults>>
LockTab(c, pc, next) ==
  /\ At(c, pc) /\ tabMu[call[c].acc] = NoOne
  /\ tabMu' = [tabMu EXCEPT ![call[c].acc] = c] /\ Go(c, next)
  /\ UNCHANGED <<tabList, authTabs, claimedT, scrape, authed, cookies, page, faults>>
Unlock(c) == tabMu' = [tabMu EXCEPT ![call[c].acc] = NoOne]

\* The request over HTTP needs the tab's cookies; refused by the integrity
\* check it is sent once more, without the token it fetched; when it fails,
\* the tab fetches. A list also scrapes the page: what it finds is
\* remembered, and found again for 30 minutes when it finds nothing.
IsOpen(c) == call[c].tab \in OpenTabs
HasCookies(c) == IsOpen(c) /\ TabOf(call[c].tab).cookies # 0
GqlGoHTTP(c) == IF HasCookies(c) THEN {"ok", "refused", "fail"} ELSE {"fail"}
FetchIntegrityToken(r) == IF r = "refused" THEN {"ok", "refused", "fail"} ELSE {r}
EvalFetch(c, r) == IF r # "fail" THEN {r} ELSE IF IsOpen(c) THEN {"ok", "fail"} ELSE {"fail"}
Response(c) == UNION {EvalFetch(c, r) : r \in UNION {FetchIntegrityToken(q) : q \in GqlGoHTTP(c)}}
Scrape(c) == IF call[c].op = "list" /\ IsOpen(c) THEN {"rows", "nothing"} ELSE {"nothing"}
RememberScrape(a) == scrape' = [scrape EXCEPT ![a] = "fresh"]
RecallScrape(a) == scrape[a] = "fresh"
GQL(c) ==
  LET x == call[c] IN
  /\ At(c, "drive") /\ Unlock(c)
  /\ \E r \in Response(c), s \in Scrape(c) :
       /\ IF r = "ok" \/ ~HasCookies(c) THEN UNCHANGED faults ELSE Break
       /\ IF s = "rows" THEN RememberScrape(x.acc) ELSE UNCHANGED scrape
       /\ IF x.op = "list" /\ ~x.again /\ r = "refused" /\ s = "nothing" /\ ~RecallScrape(x.acc)
          THEN Retry(c)
          ELSE Failed(c) \* or answered: the caller has its result
  /\ UNCHANGED <<tabList, authTabs, claimedT, cookies, page>>
-----------------------------------------------------------------------------
(* ClaimRewards in the sidecar, under the lock: acquireTab (a tab it opens   *)
(* has no cookies), the titles taken as claimed, the clicks, then the marks. *)
ClaimTab(c) ==
  LET h == authTabs[call[c].acc] IN
  /\ At(c, "claimTab")
  /\ IF h \in OpenTabs
     THEN Step(c, [call[c] EXCEPT !.pc = "tiles", !.tab = h]) /\ UNCHANGED <<tabList, authTabs>>
     ELSE OpenTab(c, "tiles")
  /\ UNCHANGED <<tabMu, claimedT, scrape, authed, cookies, page, faults>>
AlreadyClaimed(c) ==
  /\ At(c, "tiles") /\ Step(c, [call[c] EXCEPT !.pc = "click", !.skip = claimedT[call[c].acc]])
  /\ UNCHANGED <<sidecar, authed, cookies, page, faults>>
\* a tile keeps its button after a click until the page is painted again
Buttons(a) == {t \in Titles : tile[a][t] \in {"claimable", "clicked"}}
Visible(c) == HasCookies(c)
Clicks(a, hit) ==
  /\ tile' = [tile EXCEPT ![a] = [t \in Titles |-> IF t \in hit THEN "clicked" ELSE @[t]]]
  /\ spent' = [spent EXCEPT ![a] = [t \in Titles |-> IF t \in hit THEN "kept" ELSE @[t]]]
\* mutant: the claim gives its lock back before it drives the tab
ClickUnlocked(c) ==
  /\ At(c, "click") /\ Unlock(c)
  /\ \E hit \in {IF Visible(c) THEN Buttons(call[c].acc) \ call[c].skip ELSE {}} :
       /\ Clicks(call[c].acc, hit)
       /\ Step(c, [call[c] EXCEPT !.pc = "mark", !.out = hit])
  /\ UNCHANGED <<tabList, authTabs, claimedT, scrape, authed, cookies, faults>>
ClickTiles(c) ==
  LET a == call[c].acc IN
  /\ At(c, "click")
  /\ \E hit \in {IF Visible(c) THEN Buttons(a) \ call[c].skip ELSE {}} :
       /\ Clicks(a, hit)
       /\ Step(c, [call[c] EXCEPT !.pc = "mark", !.out = hit])
  /\ UNCHANGED <<sidecar, authed, cookies, faults>>
\* every other tile of the page counts as history, one in progress too
HistoryTiles(c) == IF Visible(c) THEN Titles ELSE {}
\* a pass that ends in an error, or whose answer does not parse, marks nothing
MarkClaimed(c) ==
  LET a == call[c].acc IN
  /\ At(c, "mark") /\ Unlock(c) /\ Step(c, Idle)
  /\ \/ /\ IsOpen(c) /\ UNCHANGED <<spent, faults>>
        /\ claimedT' = [claimedT EXCEPT ![a] = @ \union call[c].out \union HistoryTiles(c)]
     \/ /\ IF IsOpen(c) THEN Break ELSE UNCHANGED faults
        /\ spent' = [spent EXCEPT ![a] = [t \in Titles |-> IF t \in call[c].out THEN "lost" ELSE @[t]]]
        /\ UNCHANGED claimedT
  /\ UNCHANGED <<tabList, authTabs, scrape, authed, cookies, tile>>
-----------------------------------------------------------------------------
(* Around it: the sidecar restarts, an account logs in again, tiles move on. *)
Restart ==
  /\ Break
  /\ tabList' = {} /\ authTabs' = [a \in Accounts |-> 0]
  /\ tabMu' = [a \in Accounts |-> NoOne] /\ claimedT' = [a \in Accounts |-> {}]
  /\ scrape' = [a \in Accounts |-> "none"]
  /\ call' = [c \in Callers |-> IF call[c].pc \in {"acquire", "tabFor", "claimLock"}
                                THEN call[c] ELSE Idle] \* a request under way fails
  /\ spent' = [a \in Accounts |-> [t \in Titles |-> IF spent[a][t] = "kept" THEN "lost" ELSE spent[a][t]]]
  /\ UNCHANGED <<authed, cookies, tile>>
\* the new cookies are stored, then InvalidateAuth
Login(a) ==
  /\ Break
  /\ cookies' = [cookies EXCEPT ![a] = @ + 1] /\ authed' = authed \ {a}
  /\ UNCHANGED <<sidecar, page, call>>
Progress(a, t) ==
  /\ \/ tile[a][t] = "progress" /\ tile' = [tile EXCEPT ![a][t] = "claimable"]
     \/ tile[a][t] = "clicked" /\ tile' = [tile EXCEPT ![a][t] = "done"]
  /\ UNCHANGED <<sidecar, authed, cookies, spent, call, faults>>
Age(a) == /\ scrape[a] = "fresh" /\ scrape' = [scrape EXCEPT ![a] = "none"]
          /\ UNCHANGED <<tabList, authTabs, tabMu, claimedT, authed, cookies, page, call, faults>>

Call(c) == \/ AcquireTab(c) \/ Open(c) \/ InstallCookies(c) \/ SetAuthed(c)
           \/ TabFor(c) \/ LockTab(c, "lock", "drive") \/ GQL(c)
           \/ LockTab(c, "claimLock", "claimTab") \/ ClaimTab(c) \/ AlreadyClaimed(c)
           \/ ClickTiles(c) \/ MarkClaimed(c)
Next == \/ \E c \in Callers : Call(c) \/ \E a \in Accounts, op \in {"list", "gql", "rewards"} : Begin(c, a, op)
        \/ \E a \in Accounts : Login(a) \/ Age(a) \/ \E t \in Titles : Progress(a, t)
        \/ Restart
Spec == Init /\ [][Next]_svars /\ \A c \in Callers : WF_svars(Call(c))
-----------------------------------------------------------------------------
Clicking(c, a) == At(c, "click") /\ call'[c].pc = "mark" /\ call[c].acc = a

(* A tile whose button stays is clicked again only when the mark of its last *)
(* click was never made or is gone: not by a pass that began while another   *)
(* was under way, and not by a later one, whichever calls ran in between in  *)
(* the same tab.                                                             *)
ReclickExcused == [][\A c \in Callers : \A a \in Accounts :
                       Clicking(c, a) => \A t \in call'[c].out : spent[a][t] # "kept"]_svars

(* "Twitch keeps one persistent logged-in twitch.tv tab per account."        *)
OneAuthTab == \A a \in Accounts : Cardinality({t \in tabList : t.acc = a}) <= 1

(* lockTab serialises the operations "that navigate or evaluate scripts in   *)
(* the auth tab": one call at a time drives a tab.                           *)
Driving == {c \in Callers : call[c].pc \in {"verify", "drive", "tiles", "click", "mark"}}
OneDriver == \A c, d \in Driving : c # d => call[c].tab # call[d].tab

(* A call of an account taken as authenticated runs in a tab that is logged  *)
(* in: a sidecar that lost its tabs answers "no authenticated tab".          *)
LoggedIn == \A c \in Callers : At(c, "drive") /\ call[c].tab \in OpenTabs
              => TabOf(call[c].tab).cookies # 0

(* Once the calls are over, an account taken as authenticated has the        *)
(* cookies of its latest login in its tab.                                   *)
LatestCookies == (\A c \in Callers : At(c, "idle")) =>
                   \A a \in authed : authTabs[a] \in OpenTabs => TabOf(authTabs[a]).cookies = cookies[a]

(* "Skip on next reaper run so we don't click "Claim" repeatedly on the same *)
(* tile if Twitch keeps the button rendered" (Twitch.claimed).               *)
ClickedOnce == [][\A c \in Callers : \A a \in Accounts :
                    Clicking(c, a) => \A t \in call'[c].out : spent[a][t] = "never"]_svars

(* "markClaimed records that we've successfully clicked the Claim button":   *)
(* a title taken as claimed is not still in progress.                        *)
MarkedWasClicked == \A a \in Accounts : \A t \in claimedT[a] : tile[a][t] # "progress"
=============================================================================
