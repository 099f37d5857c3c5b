------------------------------- MODULE Planner -------------------------------
(***************************************************************************)
(* What an account mines, and in what order, and whether the user ends up   *)
(* with it. Every pick builds a plan from the campaigns, the inventory, the *)
(* claim log, what the user marked, what the runner gave up on and what the *)
(* platform refused; the runner mines the head of the queue and claims it.  *)
(* The log may say more than the platform does, the inventory may be unread.*)
(* source: src/internal/plan/plan.go, src/internal/platform/link.go, and    *)
(* src/internal/runner/{runner,claim,watch}.go for who reads the plan       *)
(***************************************************************************)
EXTENDS Naturals, Sequences, FiniteSets, SequencesExt

CONSTANTS Drops,
          Camps,     \* campaigns, as a sequence: the order they are listed in
          Facts,     \* campaign -> see CampFacts
          Required,  \* drop -> minutes it takes, 0 for one no watching earns
          Needs,     \* drop -> the drops it takes first
          PlanFaults \* bound: what goes wrong or changes

CampNames == {Camps[i] : i \in DOMAIN Camps}
\* rank: the campaign's game in the user's list, 0 when it is not chosen;
\* ends: 0 without an end date
CampFacts == [rank: Nat, active: BOOLEAN, reward: BOOLEAN, restricted: BOOLEAN, ends: Nat,
              connected: BOOLEAN, publisher: BOOLEAN, drops: SUBSET Drops]

VARIABLES watched,  \* minutes the platform has for each drop
          got,      \* drops the platform has given the account
          row,      \* the drop's row in the inventory
          logged,   \* GrubDrops' claim log
          marked,   \* collected by hand
          gaveUp,   \* runner.skipped
          unlinked, \* claims the platform refused until linked
          linked,   \* campaigns whose account the user linked since
          order,    \* the session's Up next
          priority,
          queue,    \* the last plan's queue
          mining,   \* the drop being mined, {} for none
          planFaults
plvars == <<watched, got, row, logged, marked, gaveUp, unlinked, linked, order, priority, queue, mining, planFaults>>
user == <<marked, linked, order, priority>>

Init == /\ logged \in SUBSET Drops /\ got = logged /\ watched = [d \in Drops |-> 0]
        /\ row = [d \in Drops |-> "none"] /\ marked = {} /\ gaveUp = {} /\ unlinked = {} /\ linked = {}
        /\ order = <<>> /\ priority \in {"ordered", "ending_soonest"}
        /\ queue = <<>> /\ mining = {} /\ planFaults = 0
Fault == planFaults < PlanFaults /\ planFaults' = planFaults + 1
Sure == UNCHANGED planFaults
-----------------------------------------------------------------------------
(* The plan. read: the inventory was read.                                   *)
HasRow(d, read) == read /\ row[d] # "none"
Minutes(d, read) == IF HasRow(d, read) THEN watched[d] ELSE 0
\* the inventory says it is not done: the log is stale
StaleLog(d, read) == HasRow(d, read) /\ Minutes(d, read) < Required[d]
\* mutant: the log is right whatever the inventory says
LogWins(read) == {d \in Drops : HasRow(d, read) /\ row[d] = "claimed"} \union marked \union logged
Claimed(read) == {d \in Drops : HasRow(d, read) /\ row[d] = "claimed"} \union marked
                 \union {d \in logged : ~StaleLog(d, read)}
UnmetPrecondition(d, claimed) == ~(Needs[d] \subseteq claimed)

\* TwitchNeedsLink: not connected, and the page to connect is a publisher's
ExternalLinkURL(c) == Facts[c].publisher
Unlinked(c) == ~Facts[c].connected /\ c \notin linked /\ ExternalLinkURL(c)
Match(c) == Facts[c].rank # 0 /\ Facts[c].active /\ ~Facts[c].reward
\* a drop two campaigns hold counts in the first of them
Place == [c \in CampNames |-> CHOOSE i \in DOMAIN Camps : Camps[i] = c]
Home == [d \in Drops |-> {c \in CampNames : /\ Match(c) /\ d \in Facts[c].drops
                                            /\ \A b \in CampNames : Match(b) /\ d \in Facts[b].drops
                                                                   => Place[c] <= Place[b]}]
Targets(c, read) == {d \in Facts[c].drops : /\ Home[d] = {c} /\ Required[d] > 0
                                            /\ d \notin Claimed(read) \union unlinked \union gaveUp
                                            /\ ~UnmetPrecondition(d, Claimed(read))}
Remaining(c, read) ==
  IF Targets(c, read) = {} THEN 0
  ELSE CHOOSE m \in {Required[d] - Minutes(d, read) : d \in Targets(c, read)} :
         \A d \in Targets(c, read) : m <= Required[d] - Minutes(d, read)

\* the first key two campaigns differ in decides, then the order they came in
Less(a, b, keys) ==
  LET diff == {i \in DOMAIN keys : keys[i][1] # keys[i][2]}
  IN IF diff = {} THEN Place[a] < Place[b]
     ELSE LET i == CHOOSE i \in diff : \A j \in diff : i <= j IN keys[i][1] < keys[i][2]
Never == 9
Ends(c) == IF Facts[c].ends = 0 THEN Never ELSE Facts[c].ends
Open(c) == IF Facts[c].restricted THEN 0 ELSE 1
Before(a, b, read) ==
  LET rank == <<Facts[a].rank, Facts[b].rank>>
      left == <<Remaining(a, read), Remaining(b, read)>>
  IN IF priority = "ending_soonest" THEN Less(a, b, <<<<Ends(a), Ends(b)>>, left, rank>>)
     ELSE Less(a, b, <<rank, <<Open(a), Open(b)>>, left>>)
\* within a campaign the shortest first
Ahead(d, e, read) == IF Home[d] = Home[e] THEN Required[d] < Required[e]
                     ELSE \E a \in Home[d], b \in Home[e] : Before(a, b, read)
ApplyOrder(q, ids) == SelectSeq(ids, LAMBDA d : Contains(q, d)) \o SelectSeq(q, LAMBDA d : ~Contains(ids, d))
Build(read) == ApplyOrder(SetToSortSeq(UNION {Targets(c, read) : c \in {b \in CampNames : Match(b)}},
                                       LAMBDA d, e : Ahead(d, e, read)), order)
-----------------------------------------------------------------------------
(* The account: pick the head, watch it, claim it.                           *)
Pick(read) == /\ mining = {}
              /\ IF read THEN Sure ELSE Fault
              /\ queue' = Build(read) /\ mining' = IF queue' = <<>> THEN {} ELSE {Head(queue')}
              /\ UNCHANGED <<watched, got, row, logged, gaveUp, unlinked, user>>
Watch(d) == /\ mining = {d} /\ watched[d] < Required[d] /\ d \notin got
            /\ watched' = [watched EXCEPT ![d] = @ + 1] /\ row' = [row EXCEPT ![d] = "open"]
            /\ Sure /\ UNCHANGED <<got, logged, gaveUp, unlinked, queue, mining, user>>
Log(d) == logged' = logged \union {d} /\ UNCHANGED <<gaveUp, unlinked>>
Refuses(d) == \E c \in Home[d] : Unlinked(c)
Claim(d) ==
  /\ mining = {d} /\ (watched[d] >= Required[d] \/ d \in got) /\ mining' = {}
  /\ \/ /\ ~Refuses(d)
        /\ Sure /\ got' = got \union {d} /\ Log(d) /\ UNCHANGED watched
        \* the row goes to claimed, lags, or leaves the inventory
        /\ \E r \in {"open", "claimed", "none"} : row' = [row EXCEPT ![d] = r]
     \/ /\ Refuses(d)
        /\ Sure /\ unlinked' = unlinked \union {d} /\ UNCHANGED <<got, logged, gaveUp, watched, row>>
     \/ /\ Fault /\ gaveUp' = gaveUp \union {d} /\ UNCHANGED <<got, logged, unlinked, watched, row>>
     \* the answer is a yes and the minutes are gone
     \/ /\ Fault /\ d \notin got /\ ~Refuses(d) /\ Log(d) /\ watched' = [watched EXCEPT ![d] = 0]
        /\ row' = [row EXCEPT ![d] = "open"] /\ UNCHANGED got
  /\ UNCHANGED <<queue, user>>
\* the inventory sweep claims what is complete and was not claimed
Sweep(d) == /\ row[d] = "open" /\ watched[d] >= Required[d] /\ d \notin got /\ ~Refuses(d)
            /\ Sure /\ got' = got \union {d} /\ Log(d)
            /\ UNCHANGED <<watched, row, queue, mining, user>>
\* what the user does, and a restart of the process
Link(c) == /\ Unlinked(c) /\ linked' = linked \union {c} /\ unlinked' = unlinked \ {d \in Drops : Home[d] = {c}}
           /\ Sure /\ UNCHANGED <<watched, got, row, logged, gaveUp, queue, mining, marked, order, priority>>
Mark(d) == /\ d \notin marked /\ Fault /\ marked' = marked \union {d}
           /\ UNCHANGED <<watched, got, row, logged, gaveUp, unlinked, queue, mining, linked, order, priority>>
Reorder(d) == /\ Fault /\ order' = <<d>> /\ d \in ToSet(queue)
              /\ UNCHANGED <<watched, got, row, logged, gaveUp, unlinked, queue, mining, marked, linked, priority>>
SetPriority(p) == /\ p # priority /\ Fault /\ priority' = p
                  /\ UNCHANGED <<watched, got, row, logged, gaveUp, unlinked, queue, mining, marked, linked, order>>
Restart == /\ Fault /\ gaveUp' = {} /\ unlinked' = {} /\ mining' = {} /\ order' = <<>>
           /\ UNCHANGED <<watched, got, row, logged, queue, marked, linked, priority>>

Next == \/ (\E read \in BOOLEAN : Pick(read)) \/ (\E d \in Drops : Watch(d) \/ Claim(d) \/ Sweep(d) \/ Mark(d) \/ Reorder(d))
        \/ (\E c \in CampNames : Link(c)) \/ (\E p \in {"ordered", "ending_soonest"} : SetPriority(p)) \/ Restart
Spec == Init /\ [][Next]_plvars
Mine == Pick(TRUE) \/ (\E d \in Drops : Watch(d) \/ Claim(d))
FairSpec == Spec /\ WF_plvars(Mine) /\ WF_plvars(\E d \in Drops : Sweep(d))

\* What is chosen is got: in the end every drop of a chosen campaign is the
\* account's or was marked as such, unless the runner gave it up or the account
\* is not linked, or a drop it takes first is not there.
Excused(d) == d \in marked \union gaveUp \union unlinked \/ ~(Needs[d] \subseteq got \union marked)
Collected == \A d \in Drops : Home[d] # {} /\ Required[d] > 0 => d \in got \/ Excused(d)
ChosenIsGot == <>[]Collected
=============================================================================
