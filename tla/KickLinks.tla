------------------------------ MODULE KickLinks ------------------------------
(***************************************************************************)
(* The claims one Kick account makes and the marks a claim leaves that Kick *)
(* refuses until the user links the publisher's account: a mark on the      *)
(* reward and one on its campaign in memory, and a row that survives a      *)
(* restart. Claims are made by the runner, one at a time or for everything  *)
(* complete, and by the user's "I linked it", at the same time.             *)
(* source: src/internal/platform/kick/{backend,api}.go,                     *)
(*         src/internal/store/campaign_links.go, src/internal/runner/link.go *)
(***************************************************************************)
EXTENDS Naturals, FiniteSets

CONSTANTS Rewards, Campaigns,
          CampaignOf, \* the campaign of each reward
          Kfaults     \* bound: requests and writes that fail, restarts

Callers == {"runner", "user"}
VARIABLES complete, owned, \* Kick: the rewards at 100%, the rewards granted
          joined,          \* Kick: the campaigns whose account is linked
          needsLink,       \* Backend.needsLink: rewards
          linkCampaigns,   \* Backend.linkCampaigns: campaigns
          needsRow,        \* account_campaign_links: campaigns with linked = 0
          op,              \* the call each caller is in
          kfaults

kick == <<complete, owned, joined>>
lvars == <<kick, needsLink, linkCampaigns, needsRow, op, kfaults>>

\* todo: rewards a sweep has yet to claim; clear: campaigns a recheck has yet
\* to forget; r: the reward, c: the campaign of the step under way
At(pc, todo, clear, r, c) == [pc |-> pc, todo |-> todo, clear |-> clear, r |-> r, c |-> c]
Out == At("out", {}, {}, {}, {})
Init == /\ complete = {} /\ owned = {} /\ joined = {}
        /\ needsLink = {} /\ linkCampaigns = {} /\ needsRow = {}
        /\ op = [u \in Callers |-> Out] /\ kfaults = 0
Step(u, rec) == op' = [op EXCEPT ![u] = rec]
Go(u, pc) == Step(u, [op[u] EXCEPT !.pc = pc])
Fails == kfaults < Kfaults /\ kfaults' = kfaults + 1
-----------------------------------------------------------------------------
Earn(r) == /\ complete' = complete \union {r} /\ r \notin complete
           /\ UNCHANGED <<owned, joined, needsLink, linkCampaigns, needsRow, op, kfaults>>
Join(c) == /\ joined' = joined \union {c} /\ c \notin joined
           /\ UNCHANGED <<complete, owned, needsLink, linkCampaigns, needsRow, op, kfaults>>

\* mutant: only what this process saw refused
RefusedHere == {r \in complete \ owned : r \in needsLink}
\* the runner retries what is complete in a campaign the list flags
Candidates == {r \in complete \ owned : CampaignOf[r] \in linkCampaigns}
RetryLinkRefused == /\ op["runner"] = Out
                    /\ \E r \in Candidates : Step("runner", At("ask", {}, {}, {r}, {}))
                    /\ UNCHANGED <<kick, needsLink, linkCampaigns, needsRow, kfaults>>
\* progressDetail, then one reward after the other
SweepCompletedClaims(u) ==
  /\ op[u].pc = "sweep"
  /\ \/ Go(u, "next") /\ Fails
     \/ Step(u, At("next", complete \ owned, {}, {}, {})) /\ UNCHANGED kfaults
  /\ UNCHANGED <<kick, needsLink, linkCampaigns, needsRow>>
Sweep == /\ op["runner"] = Out /\ Go("runner", "sweep")
         /\ UNCHANGED <<kick, needsLink, linkCampaigns, needsRow, kfaults>>
Refused(r) == r \in needsLink \/ CampaignOf[r] \in linkCampaigns
SweepNext(u) ==
  /\ op[u].pc = "next"
  /\ \/ op[u].todo = {} /\ Step(u, Out)
     \/ \E r \in op[u].todo :
          Step(u, [op[u] EXCEPT !.todo = @ \ {r}, !.r = {r}, !.pc = IF Refused(r) THEN "next" ELSE "ask"])
  /\ UNCHANGED <<kick, needsLink, linkCampaigns, needsRow, kfaults>>
-----------------------------------------------------------------------------
(* One claim: a reward granted already, and a failing request, are errors    *)
(* that leave no mark.                                                       *)
Claim(u) ==
  \E r \in op[u].r :
    /\ op[u].pc = "ask"
    /\ CASE CampaignOf[r] \notin joined -> Go(u, "refused") /\ UNCHANGED <<owned, kfaults>>
         [] r \in owned -> Go(u, "next") /\ UNCHANGED <<owned, kfaults>>
         [] OTHER -> \/ owned' = owned \union {r} /\ UNCHANGED kfaults
                        /\ Step(u, [op[u] EXCEPT !.pc = "clear", !.c = {CampaignOf[r]}])
                     \/ Fails /\ Go(u, "next") /\ UNCHANGED owned
    /\ UNCHANGED <<complete, joined, needsLink, linkCampaigns, needsRow>>
MarkReward(u) ==
  \E r \in op[u].r :
    /\ op[u].pc = "refused" /\ needsLink' = needsLink \union {r}
    /\ Step(u, [op[u] EXCEPT !.pc = "record", !.c = {CampaignOf[r]}])
    /\ UNCHANGED <<kick, linkCampaigns, needsRow, kfaults>>
\* a campaign marked already is not written again
RecordLink(u) ==
  /\ op[u].pc = "record" /\ linkCampaigns' = linkCampaigns \union op[u].c
  /\ Go(u, IF op[u].c \subseteq linkCampaigns THEN "next" ELSE "set")
  /\ UNCHANGED <<kick, needsLink, needsRow, kfaults>>
SetNeedsLink(u) == /\ op[u].pc = "set" /\ Go(u, "next")
                   /\ \/ needsRow' = needsRow \union op[u].c /\ UNCHANGED kfaults
                      \/ Fails /\ UNCHANGED needsRow
                   /\ UNCHANGED <<kick, needsLink, linkCampaigns>>
\* forgetting a campaign forgets every reward mark of the account
Forgets(u) == IF op[u].c \subseteq linkCampaigns THEN {} ELSE needsLink
ClearLink(u) ==
  /\ op[u].pc = "clear" /\ linkCampaigns' = linkCampaigns \ op[u].c /\ needsLink' = Forgets(u)
  /\ Go(u, IF op[u].c \subseteq linkCampaigns THEN "unset" ELSE "cleared")
  /\ UNCHANGED <<kick, needsRow, kfaults>>
ClearNeedsLink(u) == /\ op[u].pc = "unset" /\ Go(u, "cleared")
                     /\ \/ needsRow' = needsRow \ op[u].c /\ UNCHANGED kfaults
                        \/ Fails /\ UNCHANGED needsRow
                     /\ UNCHANGED <<kick, needsLink, linkCampaigns>>
\* a recheck forgets campaign after campaign, then sweeps
Cleared(u) ==
  /\ op[u].pc = "cleared"
  /\ \/ op[u].clear = {} /\ Go(u, IF op[u].r = {} THEN "sweep" ELSE "next")
     \/ \E c \in op[u].clear : Step(u, [op[u] EXCEPT !.clear = @ \ {c}, !.c = {c}, !.pc = "clear"])
  /\ UNCHANGED <<kick, needsLink, linkCampaigns, needsRow, kfaults>>
RecheckLinks == /\ op["user"] = Out /\ needsLink' = {}
                /\ Step("user", At("cleared", {}, linkCampaigns, {}, {}))
                /\ UNCHANGED <<kick, linkCampaigns, needsRow, kfaults>>

\* a new process loads the rows; a load that fails leaves nothing marked
Restart == /\ Fails /\ op' = [u \in Callers |-> Out] /\ needsLink' = {}
           /\ linkCampaigns' \in {needsRow, {}}
           /\ UNCHANGED <<kick, needsRow>>
-----------------------------------------------------------------------------
Working(u) == \/ SweepCompletedClaims(u) \/ SweepNext(u) \/ Claim(u) \/ MarkReward(u) \/ RecordLink(u)
              \/ SetNeedsLink(u) \/ ClearLink(u) \/ ClearNeedsLink(u) \/ Cleared(u)
Next == \/ \E r \in Rewards : Earn(r)
        \/ \E c \in Campaigns : Join(c)
        \/ RetryLinkRefused \/ Sweep \/ RecheckLinks \/ Restart
        \/ \E u \in Callers : Working(u)
Fairness == /\ \A u \in Callers : WF_lvars(Working(u))
            /\ SF_lvars(RetryLinkRefused) /\ SF_lvars(Sweep)
Spec == Init /\ [][Next]_lvars
FairSpec == Spec /\ Fairness
-----------------------------------------------------------------------------
TypeOK == /\ complete \subseteq Rewards /\ owned \subseteq complete /\ needsLink \subseteq Rewards
          /\ joined \subseteq Campaigns /\ linkCampaigns \subseteq Campaigns /\ needsRow \subseteq Campaigns
          /\ kfaults \in 0..Kfaults

\* A complete reward whose campaign's account is linked is granted in the end,
\* without the user's recheck: by the sweep, or, its campaign flagged, by the
\* runner's retry (SweepCompletedClaims, retryLinkRefused). None of the three
\* sets ever shrinks, so this is the "leads to" of each reward.
LinkedIsGranted == <>[](\A r \in Rewards : r \in complete /\ CampaignOf[r] \in joined => r \in owned)

\* With no call under way and no write that failed, the flags in memory are
\* the rows a restart loads (LinkStore: "persists link-refused claims per
\* account and campaign so a restart keeps them").
RowsAreMarks == (kfaults = 0 /\ \A u \in Callers : op[u] = Out) => needsRow = linkCampaigns
=============================================================================
