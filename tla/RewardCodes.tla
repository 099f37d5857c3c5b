------------------------------ MODULE RewardCodes ------------------------------
(***************************************************************************)
(* The reward codes of one Twitch account: the poller reads two lists of    *)
(* Twitch, stores what they hold and notifies each new code and, near its   *)
(* expiry, a reminder. A notice goes to every target in turn and is then    *)
(* recorded; a failure at any target sends it again later.                  *)
(* source: src/internal/rewards/poller.go, src/internal/platform/twitch/    *)
(*  rewards.go, src/internal/store/reward_codes.go, src/internal/store/gen/ *)
(*  reward_codes.sql.go, src/internal/api/rewards.go, src/internal/notify/  *)
(***************************************************************************)
EXTENDS Naturals, FiniteSets

CONSTANTS Items, Notes, \* rewards of the inventory, notifications with a code
          CodeOf, Named, \* the reward a notification is of; whether it names it
          ExpOf,        \* when a reward's code expires
          Targets,      \* notifiers of Multi
          EndOfTime, RcFaults, \* bounds: the clock; failed requests, sends, writes, crashes
          Every, Retry, UnavailableRetry, RemindBefore, NotifyRetry

VARIABLES completed, recent, \* Twitch: completed rewards; notifications still listed
          rows,        \* reward_codes
          clock,
          due,         \* the account's accountState
          lookedUp,    \* rewardLookups.failed: when a code read failed
          sweep, notifyWait,
          notifyOn,    \* the setting: a target takes the event
          sent, again, \* notices by target: delivered, delivered a second time
          excused,     \* notices whose delivery was not recorded
          rcFaults
twitchside == <<completed, recent>>
observed == <<sent, again, excused>>
rvars == <<twitchside, rows, clock, due, lookedUp, sweep, notifyWait, notifyOn, observed, rcFaults>>

Keys == Items \union Notes
Kinds == {"new", "reminder"}
Never == 0 \* a time that is not set; the clock starts at 1
NoRow == [code |-> FALSE, exp |-> Never, seen |-> FALSE, notified |-> FALSE, reminded |-> FALSE,
          skipped |-> FALSE, closed |-> FALSE]
Unread == [next |-> 0, failures |-> 0, unavailable |-> FALSE]
Resting == [pc |-> "rest", at |-> Never, todo |-> {}, cur |-> {}, kind |-> "new"]
Init == /\ completed = {} /\ recent = {}
        /\ rows = [k \in Keys |-> NoRow] /\ clock = 1
        /\ due = Unread /\ lookedUp = [i \in Items |-> Never]
        /\ sweep = Resting /\ notifyWait = 0 /\ notifyOn = TRUE
        /\ sent = {} /\ again = {} /\ excused = {} /\ rcFaults = 0
Fault == rcFaults < RcFaults /\ rcFaults' = rcFaults + 1
-----------------------------------------------------------------------------
(* What one read makes of the two lists: a notification is the reward's when *)
(* it names it, or when the reward's own code was read; any other is a       *)
(* reward of its own.                                                        *)
\* rewardNotices, inventoryRewards: what each source lists, nothing when it failed
RewardNotices(ok) == IF ok THEN recent ELSE {}
InventoryRewards(ok) == IF ok THEN completed ELSE {}
HasCode(i) == rows[i].code
HasExpiry(i) == rows[i].exp # Never
RewardLookupDue(i) == lookedUp[i] = Never \/ clock >= lookedUp[i] + UnavailableRetry
Lookups(items) == {i \in items : (~HasCode(i) \/ ~HasExpiry(i)) /\ RewardLookupDue(i)}
\* read: the rewards whose code Twitch gave
Used(notes, items, read) == {n \in notes : CodeOf[n] \in items /\ (n \in Named \/ CodeOf[n] \in read)}
Read(k, code, exp) == [key |-> k, code |-> code, exp |-> exp]
Fits(k, notes, items, read) == k \in read \/ \E n \in Used(notes, items, read) : CodeOf[n] = k
RewardReads(notes, items, read) ==
  {Read(i, Fits(i, notes, items, read), IF i \in read THEN ExpOf[i] ELSE Never) :
     i \in {k \in items : Fits(k, notes, items, read) \/ HasCode(k)}}
  \union {Read(n, TRUE, Never) : n \in notes \ Used(notes, items, read)}

\* store: mutant, INSERT OR REPLACE
ReplaceRow(row, rc) == [NoRow EXCEPT !.seen = TRUE, !.code = rc.code, !.exp = rc.exp]
\* ON CONFLICT: a value the read lacks keeps what is stored
UpsertRewardCode(row, rc) == [row EXCEPT !.seen = TRUE, !.code = @ \/ rc.code,
                                         !.exp = IF rc.exp # Never THEN rc.exp ELSE @]
Save(list) == rows' = [k \in Keys |-> IF \E rc \in list : rc.key = k
                                      THEN UpsertRewardCode(rows[k], CHOOSE rc \in list : rc.key = k)
                                      ELSE rows[k]]
ListOpenRewardCodes == {k \in Keys : rows[k].seen /\ ~rows[k].closed}
MarkRewardCodeNotified(r, k) == [r EXCEPT ![k].notified = TRUE]
MarkRewardCodeNotifySkipped(r, k) == [r EXCEPT ![k].skipped = TRUE]
MarkRewardCodeReminded(r, k) == [r EXCEPT ![k].reminded = TRUE]
SetClosed(r, k) == [r EXCEPT ![k].closed = TRUE] \* redeemed or dismissed

(* One due read. Its rows' values change only here, their marks only in the   *)
(* sweep after it and at the user's hand: it is one step, whose writes fail   *)
(* one by one. A refusal waits a day, a failure backs off up to Every.        *)
Lowest(a, b) == IF a < b THEN a ELSE b
ReadDue ==
  /\ sweep.pc = "rest" /\ clock >= due.next
  /\ sweep' = [Resting EXCEPT !.pc = "list"]
  /\ UNCHANGED <<twitchside, clock, notifyWait, notifyOn, observed>>
ReadRefused == /\ ReadDue /\ Fault /\ UNCHANGED <<rows, lookedUp>>
               /\ due' = [next |-> clock + UnavailableRetry, failures |-> 0, unavailable |-> TRUE]
ReadFails == /\ ReadDue /\ Fault /\ UNCHANGED <<rows, lookedUp>>
             /\ due' = [due EXCEPT !.next = clock + Lowest(Retry * 2 ^ due.failures, Every), !.failures = @ + 1]
ListFails == ReadDue /\ Fault /\ due' = [due EXCEPT !.next = clock + Retry] /\ UNCHANGED <<rows, lookedUp>>
ReadRewardCodes ==
  /\ ReadDue
  /\ \E noticesOk, inventoryOk \in BOOLEAN :
     LET notes == RewardNotices(noticesOk)
         items == InventoryRewards(inventoryOk)
     IN /\ noticesOk \/ inventoryOk
        /\ \E read \in SUBSET Lookups(items) :
           LET list == RewardReads(notes, items, read)
           IN \E stored \in SUBSET list :
              /\ IF noticesOk /\ inventoryOk /\ stored = list THEN UNCHANGED rcFaults ELSE Fault
              /\ Save(stored)
              /\ lookedUp' = [i \in Items |-> IF i \in read THEN Never
                                              ELSE IF i \in Lookups(items) THEN clock ELSE lookedUp[i]]
  /\ due' = [Unread EXCEPT !.next = clock + Every]
\* not due, or no target: it needs a login, has no session, or its list could not be read
NoTarget == /\ sweep.pc = "rest" /\ sweep' = [Resting EXCEPT !.pc = "list"]
            /\ UNCHANGED <<twitchside, rows, clock, due, lookedUp, notifyWait, notifyOn, observed, rcFaults>>
-----------------------------------------------------------------------------
(* The sweep works on the list it read and the time it began at, row by row.  *)
Keep == UNCHANGED <<twitchside, clock, due, lookedUp, notifyOn>>
Expired(row, at) == row.exp # Never /\ at >= row.exp
Near(row, at) == row.exp # Never /\ at + RemindBefore >= row.exp
Needs(row, at) ==
  CASE ~row.code \/ row.skipped -> "none"
    [] row.code /\ ~row.skipped /\ ~row.notified -> IF Expired(row, at) THEN "skip" ELSE "new"
    [] OTHER -> IF ~row.reminded /\ Near(row, at) /\ ~Expired(row, at) THEN "reminder" ELSE "none"
ListOpen ==
  /\ sweep.pc = "list"
  /\ sweep' = IF clock < notifyWait THEN Resting
              ELSE [Resting EXCEPT !.pc = "next", !.at = clock,
                      !.todo = {[key |-> k, row |-> rows[k]] :
                                  k \in {q \in ListOpenRewardCodes : Needs(rows[q], clock) # "none"}}]
  /\ UNCHANGED <<rows, notifyWait, observed, rcFaults>> /\ Keep
Skip(k) == \/ rows' = MarkRewardCodeNotifySkipped(rows, k) /\ UNCHANGED rcFaults
           \/ Fault /\ UNCHANGED rows
Enabled == notifyOn \* some target's filter lets the event through
SweepNext ==
  /\ sweep.pc = "next"
  /\ IF sweep.todo = {} THEN sweep' = Resting /\ UNCHANGED <<rows, rcFaults>>
     ELSE LET x == CHOOSE y \in sweep.todo : TRUE
              need == Needs(x.row, sweep.at)
              rest == [sweep EXCEPT !.todo = @ \ {x}]
          IN IF need = "skip" \/ (need = "new" /\ ~Enabled)
             THEN sweep' = rest /\ Skip(x.key)
             ELSE /\ sweep' = [rest EXCEPT !.pc = "send", !.cur = {x}, !.kind = need]
                  /\ UNCHANGED <<rows, rcFaults>>
  /\ UNCHANGED <<notifyWait, observed>> /\ Keep

(* A target may take a notice whose answer is lost. Discord is asked once,    *)
(* Telegram again after a 429 it says to wait out.                            *)
Post == {a \in [took : BOOLEAN, ok : BOOLEAN] : a.ok => a.took}
TelegramPost == Post
TelegramSend == TelegramPost \union {a \in TelegramPost : ~a.ok} \* the second try's answer, or none
DiscordNotify == IF Enabled THEN Post ELSE {[took |-> FALSE, ok |-> TRUE]}
TelegramNotify == IF Enabled THEN TelegramSend ELSE {[took |-> FALSE, ok |-> TRUE]}
\* Multi: every target in turn, whatever the others answered
MultiNotify == [Targets -> DiscordNotify \union TelegramNotify]
Notice(x) == {<<x.key, sweep.kind>>}
Deliver(x, got) == LET them == {<<x.key, sweep.kind, t>> : t \in got}
                   IN sent' = sent \union them /\ again' = again \union (sent \intersect them)
Notify == \E x \in sweep.cur :
  /\ sweep.pc = "send"
  /\ \E answer \in MultiNotify :
       /\ Deliver(x, {t \in Targets : answer[t].took})
       /\ IF \A t \in Targets : answer[t].ok
          THEN /\ sweep' = [sweep EXCEPT !.pc = "mark"]
               /\ UNCHANGED <<notifyWait, excused, rcFaults>>
          ELSE /\ Fault /\ sweep' = Resting /\ notifyWait' = sweep.at + NotifyRetry
               /\ excused' = excused \union Notice(x)
  /\ UNCHANGED rows /\ Keep
Mark == \E x \in sweep.cur :
  /\ sweep.pc = "mark" /\ sweep' = [sweep EXCEPT !.pc = "next", !.cur = {}]
  /\ LET told == MarkRewardCodeNotified(rows, x.key)
     IN \/ /\ rows' = IF sweep.kind = "reminder" THEN MarkRewardCodeReminded(rows, x.key)
                      ELSE IF Near(x.row, sweep.at) THEN MarkRewardCodeReminded(told, x.key) ELSE told
           /\ UNCHANGED <<excused, rcFaults>>
        \/ /\ sweep.kind = "new" /\ Fault /\ UNCHANGED excused
           /\ rows' = told \* its second write failed
        \/ Fault /\ excused' = excused \union Notice(x) /\ UNCHANGED rows
  /\ UNCHANGED <<notifyWait, sent, again>> /\ Keep
-----------------------------------------------------------------------------
Restart == /\ Fault /\ sweep' = Resting /\ due' = Unread /\ notifyWait' = 0
           /\ lookedUp' = [i \in Items |-> Never]
           /\ excused' = excused \union (IF sweep.pc \in {"send", "mark"}
                                         THEN UNION {Notice(x) : x \in sweep.cur} ELSE {})
           /\ UNCHANGED <<twitchside, rows, clock, notifyOn, sent, again>>
\* the page closes what it lists
GetRewardCodes == {k \in ListOpenRewardCodes : rows[k].code /\ ~Expired(rows[k], clock)}
PutRewardCode(k) == /\ k \in GetRewardCodes /\ rows' = SetClosed(rows, k)
                    /\ UNCHANGED <<sweep, notifyWait, observed, rcFaults>> /\ Keep
SetNotify == /\ Fault /\ notifyOn' = ~notifyOn
             /\ UNCHANGED <<twitchside, rows, clock, due, lookedUp, sweep, notifyWait, observed>>
Twitch == /\ \/ \E i \in Items \ completed : completed' = completed \union {i} /\ UNCHANGED recent
             \/ \E n \in Notes : /\ CodeOf[n] \in completed /\ UNCHANGED completed
                                 /\ recent' = IF n \in recent THEN recent \ {n} ELSE recent \union {n}
          /\ UNCHANGED <<rows, clock, due, lookedUp, sweep, notifyWait, notifyOn, observed, rcFaults>>
Tick == /\ clock < EndOfTime /\ clock' = clock + 1
        /\ UNCHANGED <<twitchside, rows, due, lookedUp, sweep, notifyWait, notifyOn, observed, rcFaults>>

Next == \/ ReadRefused \/ ReadFails \/ ListFails \/ ReadRewardCodes \/ NoTarget \/ ListOpen \/ SweepNext \/ Notify \/ Mark
        \/ Restart \/ SetNotify \/ Twitch \/ Tick \/ \E k \in Keys : PutRewardCode(k)
Spec == Init /\ [][Next]_rvars
-----------------------------------------------------------------------------
TypeOK == /\ completed \subseteq Items /\ recent \subseteq Notes
          /\ rows \in [Keys -> [code : BOOLEAN, exp : 0..EndOfTime + 1, seen : BOOLEAN, notified : BOOLEAN,
                                reminded : BOOLEAN, skipped : BOOLEAN, closed : BOOLEAN]]
          /\ sweep.pc \in {"rest", "list", "next", "send", "mark"}
          /\ again \subseteq sent /\ excused \subseteq Keys \X Kinds /\ rcFaults \in 0..RcFaults

(* poller.go:294 "A sent notification is recorded in the store, so restarts   *)
(* never repeat it": a target gets a notice a second time only when the first *)
(* could not be recorded, or another target failed. What later reads of the   *)
(* same reward bring never brings a notice back.                              *)
RepeatExcused == \A x \in again : <<x[1], x[2]>> \in excused

(* poller.go:293 "Sweep sends every due new-code notification and reminder,   *)
(* each once".                                                                *)
NoticeOnce == again = {}
(* and a code of two rows, the notification's and the inventory's, is one.    *)
Code(k) == IF k \in Items THEN k ELSE CodeOf[k]
CodeOnce == \A x, y \in sent : x[2] = "new" /\ y[2] = "new" /\ Code(x[1]) = Code(y[1]) => x[1] = y[1]
(* api/rewards.go: redeemed or dismissed "hides the code and stops its        *)
(* reminder".                                                                 *)
SentWhileOpen == \A x \in sent' \ sent : ~rows[x[1]].closed
ClosedIsSilent == [][SentWhileOpen]_sent
===============================================================================
