---------------------------- MODULE KickCatalogue ----------------------------
(***************************************************************************)
(* What the Kick backend learns from the campaigns it lists, shared by all  *)
(* accounts, and where it then looks for a stream to watch: a campaign's    *)
(* own channels, or for an open campaign those of every campaign of the     *)
(* game, then the category's directory, then what the user registered.      *)
(* Each channel is asked for what it streams, up to MaxProbe of a list.     *)
(* All campaigns here are of one game; channels move while a search runs.   *)
(* source: src/internal/platform/kick/{backend,api,catalog}.go               *)
(***************************************************************************)
EXTENDS Naturals, FiniteSets, SequencesExt

CONSTANTS Offers,     \* the campaigns
          Casters,    \* the channels
          KickFacts,  \* the campaigns Kick may start with: see Offer
          Reliable,   \* reliableChannels
          MaxProbe,
          Shifts      \* bound: changes at Kick and requests that fail

\* casters: {} when any channel of the category earns; id: the payload names
\* the category's id; window: where now lies between the start and the end
Offer == [status: {"active", "upcoming", "expired"}, window: {"none", "before", "in", "after"},
          casters: SUBSET Casters, id: BOOLEAN]
Stage == {"game", "blank", "other", "off"} \* a channel's category, or offline

VARIABLES offers,  \* Kick: campaign -> its facts
          stage,   \* Kick: channel -> Stage
          manual,  \* channelsByAcc of the account
          own,     \* campaignChannels: campaign -> channels
          pool,    \* categoryChannels of the game, in the order learnt
          catID,   \* categoryIDs has the game
          listed,  \* the last list: rows
          shown,   \* the campaigns the discovery page last read
          search,  \* the search under way
          hit,     \* the result of the last search
          shifts

kick == <<offers, stage>>
learnt == <<own, pool, catID>>
dvars == <<kick, manual, learnt, listed, shown, search, hit, shifts>>

\* calm: nothing moved or failed since the search began
NoSearch == [pc |-> "none", c |-> {}, todo |-> <<>>, live |-> {}, open |-> FALSE, calm |-> TRUE]
NoHit == [c |-> {}, on |-> {}, open |-> FALSE, calm |-> FALSE]
Init == /\ offers \in KickFacts /\ stage = [k \in Casters |-> "game"] /\ manual = {}
        /\ own = [c \in Offers |-> {}] /\ pool = <<>> /\ catID = FALSE
        /\ listed = {} /\ shown = {} /\ search = NoSearch /\ hit = NoHit /\ shifts = 0

Moved == shifts < Shifts /\ shifts' = shifts + 1
\* one of the bounded changes; the last search no longer tells of the present
Fails == Moved /\ search' = [search EXCEPT !.calm = FALSE] /\ hit' = NoHit
-----------------------------------------------------------------------------
Shift(k) == \E s \in Stage \ {stage[k]} :
              /\ Fails /\ stage' = [stage EXCEPT ![k] = s]
              /\ UNCHANGED <<offers, manual, learnt, listed, shown>>
Reopen(c) == \E s \in SUBSET Casters \ {offers[c].casters} :
               /\ Fails /\ offers' = [offers EXCEPT ![c].casters = s]
               /\ UNCHANGED <<stage, manual, learnt, listed, shown>>
-----------------------------------------------------------------------------
(* The list. A game the account does not mine is told as a shell and leaves  *)
(* no channels; a payload of an unknown shape is a list with nothing on it.  *)
Status(f) == IF f.status = "expired" \/ f.window = "after" THEN "expired"
             ELSE IF f.window = "before" THEN "upcoming" ELSE "active"
Payload == {{}, Offers}
MergeChannels(dst, src) == dst \o SetToSeq(src \ Range(dst))
PooledBy(seen) == MergeChannels(pool, UNION {offers[c].casters : c \in seen})
ListActiveCampaigns(mined) ==
  \E seen \in Payload :
    /\ search.pc = "none"
    /\ own' = [c \in Offers |-> IF mined /\ c \in seen /\ offers[c].casters # {} THEN offers[c].casters ELSE own[c]]
    /\ pool' = IF mined THEN PooledBy(seen) ELSE pool
    /\ catID' = (catID \/ \E c \in seen : offers[c].id)
    /\ listed' = {[c |-> c, status |-> Status(offers[c]), shell |-> ~mined] : c \in seen}
    /\ hit' = NoHit
    /\ UNCHANGED <<kick, manual, search, shifts, shown>>
\* what every account sees of Kick, learning nothing
Catalog == {[c |-> c, status |-> "active", shell |-> FALSE] : c \in {d \in Offers : Status(offers[d]) = "active"}}
ListCatalog == shown' = Catalog /\ UNCHANGED <<kick, manual, learnt, listed, search, hit, shifts>>
-----------------------------------------------------------------------------
(* The search. Every probe is a request of its own.                          *)
Capped(s) == SubSeq(s, 1, IF Len(s) < MaxProbe THEN Len(s) ELSE MaxProbe)
PreferReliable(s) == SelectSeq(s, LAMBDA k : k \in Reliable) \o SelectSeq(s, LAMBDA k : k \notin Reliable)
Candidates(c) == IF own[c] # {} THEN SetToSeq(own[c]) ELSE PreferReliable(pool)
ListEligibleChannels(row) ==
  /\ search.pc = "none" /\ row.status = "active" /\ ~row.shell /\ hit' = NoHit
  /\ search' = [pc |-> "pool", c |-> {row.c}, todo |-> Capped(Candidates(row.c)), live |-> {},
                open |-> own[row.c] = {}, calm |-> TRUE]
  /\ UNCHANGED <<kick, manual, learnt, listed, shifts, shown>>

\* a channel without a category counts as on the game's
OnCategory(k) == stage[k] \in {"game", "blank"}
ProbeLive ==
  /\ search.todo # <<>>
  /\ \/ /\ search' = [search EXCEPT !.todo = Tail(@), !.live = @ \union {k \in {Head(search.todo)} : OnCategory(k)}]
        /\ UNCHANGED shifts
     \/ Moved /\ search' = [search EXCEPT !.todo = Tail(@), !.calm = FALSE]
  /\ UNCHANGED <<kick, manual, learnt, listed, hit, shown>>

Answer(on) == /\ search' = NoSearch /\ hit' = [c |-> search.c, on |-> on, open |-> search.open, calm |-> search.calm]
              /\ UNCHANGED <<kick, manual, learnt, listed, shifts, shown>>
FoundLive == search.todo = <<>> /\ search.live # {} /\ Answer(search.live)
\* an open campaign goes on to the directory, once; the rest to what the user
\* registered, which no request checks
Manual == /\ search.todo = <<>> /\ search.live = {} /\ search.pc \in {"pool", "directory", "gaveup"}
          /\ (search.pc = "pool" => ~search.open)
          /\ Answer(manual)
\* the category's id: of a payload, or of its page
Subcategory ==
  /\ search.todo = <<>> /\ search.live = {} /\ search.pc = "pool" /\ search.open
  /\ \/ catID' = TRUE /\ search' = [search EXCEPT !.pc = "id"] /\ UNCHANGED shifts
     \/ ~catID /\ Moved /\ search' = [search EXCEPT !.pc = "gaveup", !.calm = FALSE] /\ UNCHANGED catID
  /\ UNCHANGED <<kick, manual, own, pool, listed, hit, shown>>
\* the category's live channels, biggest first, whichever those are, join the pool
\* and are probed
Directories == SetToSeqs({k \in Casters : stage[k] = "game"})
\* mutant: the whole pool is probed
WholePool(directory) == MergeChannels(pool, Range(directory))
ToProbe(directory) == directory
DiscoverCategoryChannels ==
  /\ search.pc = "id"
  /\ \/ /\ \E directory \in Directories :
             /\ pool' = MergeChannels(pool, Range(directory))
             /\ search' = [search EXCEPT !.pc = "directory", !.todo = Capped(ToProbe(directory))]
        /\ UNCHANGED shifts
     \/ Moved /\ search' = [search EXCEPT !.pc = "gaveup", !.calm = FALSE] /\ UNCHANGED pool
  /\ UNCHANGED <<kick, manual, own, catID, listed, hit, shown>>
RegisterChannels == \E s \in SUBSET Casters \ {manual} :
                      manual' = s /\ Fails /\ UNCHANGED <<kick, learnt, listed, shown>>
-----------------------------------------------------------------------------
Next == \/ \E k \in Casters : Shift(k)
        \/ \E c \in Offers : Reopen(c)
        \/ \E mined \in BOOLEAN : ListActiveCampaigns(mined)
        \/ ListCatalog
        \/ \E row \in listed : ListEligibleChannels(row)
        \/ ProbeLive \/ FoundLive \/ Manual \/ Subcategory \/ DiscoverCategoryChannels \/ RegisterChannels
Spec == Init /\ [][Next]_dvars
-----------------------------------------------------------------------------
TypeOK == /\ offers \in [Offers -> Offer] /\ stage \in [Casters -> Stage] /\ manual \subseteq Casters
          /\ own \in [Offers -> SUBSET Casters] /\ Range(pool) \subseteq Casters /\ IsInjective(pool)
          /\ catID \in BOOLEAN /\ search.live \subseteq Casters /\ hit.on \subseteq Casters /\ shifts \in 0..Shifts

\* A search for an open campaign during which nothing moved or failed ends on
\* channels that earn whenever one streams the game, however many channels
\* that stopped streaming crowd the pool ahead of the probe's cap
\* (ListEligibleChannels, discoverCategoryChannels, probeLive).
OpenSearchFinds == (hit.open /\ hit.calm /\ \E k \in Casters : stage[k] = "game")
                   => hit.on # {} /\ \A k \in hit.on : OnCategory(k)

\* A campaign that Kick lists as open is searched as one ("Open campaign
\* (channels: []): ... use the category-wide union").
OpenIsOpen == \A c \in search.c : (search.calm /\ offers[c].casters = {}) => search.open
=============================================================================
