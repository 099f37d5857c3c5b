------------------------------- MODULE Claims -------------------------------
(***************************************************************************)
(* How one Twitch account's finished drops are claimed: the Run goroutine's *)
(* scan, link retry and claim, the force watch's claimReady, the inventory  *)
(* sweep beside it, the API's "collected" and "uncollected", and the claim  *)
(* log and skip tables they share.                                          *)
(* source: src/internal/runner/{claim,link,inventory_sweep,runner}.go,      *)
(* src/internal/platform/twitch/claim.go, src/internal/plan/plan.go,        *)
(* src/internal/api/claims.go, src/internal/store/{claim_log,skips}.go.     *)
(***************************************************************************)
EXTENDS Naturals, FiniteSets

CONSTANTS Drops,      \* the benefits of the account's campaigns
          None,       \* no drop
          Threshold,  \* claimFailSkipThreshold
          Reads,      \* confirmReads
          Faults,     \* bound: refusals, lost answers and failed reads
          Edits       \* bound: requests of the user, rebuilds of the runner

VARIABLES granted,   \* drops Twitch has granted
          finished,  \* drops watched to the end
          inv,       \* what the inventory shows of a drop; it lags
          linked,    \* drops whose campaign the game account is linked for
          row,       \* claim_log: "none", "own" or "manual"
          old,       \* rows older than staleClaimGrace
          skipRows,  \* skip_override rows
          skipped, failSkipped, fails, linkRefused, forceFails,  \* runner maps
          cur,       \* r.current
          job,       \* what the Run goroutine and the sweep are in
          faults, edits

table == <<row, old, skipRows>>
maps  == <<skipped, failSkipped, fails, linkRefused, forceFails>>
outer == <<granted, finished, inv, linked>>
vars  == <<outer, table, maps, cur, job, faults, edits>>

Procs == {"run", "sweep"}
Idle  == [pc |-> "idle", d |-> None, todo |-> {}, log |-> {}, prog |-> [d \in Drops |-> "none"],
          unlinked |-> {}, reads |-> 0, kind |-> "claim"]

Init == /\ granted = {} /\ finished \in SUBSET Drops /\ linked \in SUBSET Drops
        /\ inv = [d \in Drops |-> IF d \in finished THEN "done" ELSE "part"]
        /\ row \in [Drops -> {"none", "own"}] /\ old = {d \in Drops : row[d] # "none"}
        /\ skipRows = {} /\ skipped = {} /\ failSkipped = {} /\ linkRefused = {}
        /\ fails = [d \in Drops |-> 0] /\ forceFails = [d \in Drops |-> 0]
        /\ cur = None /\ job = [p \in Procs |-> Idle]
        /\ faults = 0 /\ edits = 0

Go(p, pc)    == job' = [job EXCEPT ![p].pc = pc]
Fault        == faults < Faults /\ faults' = faults + 1
Logged       == {d \in Drops : row[d] # "none"}
Record(d, source) == row' = [row EXCEPT ![d] = IF @ = "none" THEN source ELSE @]
\* recordClaimed: a failed insert is logged and never retried
RecordClaimed(d) == \/ Record(d, "own") /\ UNCHANGED <<old, faults>>
                    \/ Fault /\ UNCHANGED <<row, old>>
Forget(d)    == row' = [row EXCEPT ![d] = "none"] /\ old' = old \ {d}
-----------------------------------------------------------------------------
(* The world outside: minutes are watched, an account is linked, the        *)
(* inventory catches up with what was granted, a row ages.                  *)
Watch(d)   == /\ d \notin finished /\ finished' = finished \union {d}
              /\ inv' = [inv EXCEPT ![d] = "done"]
              /\ UNCHANGED <<granted, linked, table, maps, cur, job, faults, edits>>
Link(d)    == /\ d \notin linked /\ linked' = linked \union {d}
              /\ UNCHANGED <<granted, finished, inv, table, maps, cur, job, faults, edits>>
CatchUp(d) == /\ d \in granted /\ inv[d] # "claimed" /\ inv' = [inv EXCEPT ![d] = "claimed"]
              /\ UNCHANGED <<granted, finished, linked, table, maps, cur, job, faults, edits>>
Age(d)     == /\ row[d] # "none" /\ d \notin old /\ old' = old \union {d}
              /\ UNCHANGED <<outer, row, skipRows, maps, cur, job, faults, edits>>
World == \E d \in Drops : Watch(d) \/ Link(d) \/ CatchUp(d) \/ Age(d)
-----------------------------------------------------------------------------
(* claimer.claim: the mutation, then the inventory until it agrees.  An      *)
(* answer of success may come without a grant, and a grant without an        *)
(* answer.                                                                   *)
Ask(p) ==
  LET d == job[p].d IN
  /\ job[p].pc = "ask"
  /\ UNCHANGED <<finished, inv, linked, table, maps, cur, edits>>
  /\ \/ /\ d \in finished /\ d \in linked \union granted
        /\ granted' = granted \union {d}
        /\ \/ Go(p, "confirm") /\ UNCHANGED faults
           \/ Go(p, "failed") /\ Fault
     \/ granted' = granted /\ Go(p, "confirm") /\ Fault
     \/ granted' = granted /\ Go(p, "failed") /\ Fault
     \/ /\ granted' = granted /\ d \notin linked \union granted
        /\ Go(p, "refused") /\ UNCHANGED faults

Confirm(p) ==
  LET j == job[p] IN
  /\ j.pc = "confirm"
  /\ \/ inv[j.d] = "claimed" /\ Go(p, "ok") /\ UNCHANGED faults
     \/ Go(p, "ok") /\ Fault
     \/ /\ inv[j.d] # "claimed" /\ UNCHANGED faults
        /\ job' = [job EXCEPT ![p].reads = (@ + 1) % Reads,
                              ![p].pc = IF j.reads + 1 = Reads THEN "refused" ELSE "confirm"]
  /\ UNCHANGED <<outer, table, maps, cur, edits>>
-----------------------------------------------------------------------------
(* The Run goroutine.                                                        *)
SelfHeal(prog) ==
  LET held == {d \in failSkipped : prog[d] = "done"}
      back == {d \in skipped : prog[d] \in {"part", "done"}} \ held
  IN /\ failSkipped' = {d \in failSkipped : prog[d] # "part"}
     /\ skipped' = skipped \ back /\ skipRows' = skipRows \ back

\* scan, up to the claim log: the inventory read, or a failed one
ReadInventory ==
  /\ job["run"].pc = "idle"
  /\ \/ /\ SelfHeal(inv)
        /\ job' = [job EXCEPT !["run"].pc = "log", !["run"].prog = inv,
                              !["run"].unlinked = Drops \ linked]
        /\ UNCHANGED <<row, old, fails, linkRefused, forceFails, faults>>
     \/ /\ Fault /\ job' = [job EXCEPT !["run"].pc = "log", !["run"].unlinked = Drops \ linked]
        /\ UNCHANGED <<table, maps>>
  /\ UNCHANGED <<outer, cur, edits>>

\* the claim log is read once; link-refused drops are tried one after another
ReadLog ==
  /\ job["run"].pc = "log"
  /\ LET log   == Logged
         prog  == job["run"].prog
         cands == {d \in linkRefused : prog[d] # "claimed" /\ d \notin log}
     IN /\ linkRefused' = cands
        /\ job' = [job EXCEPT !["run"] = [@ EXCEPT !.pc = "retry", !.log = log, !.todo = cands]]
  /\ UNCHANGED <<outer, table, skipped, failSkipped, fails, forceFails, cur, faults, edits>>
ReadLogFails == /\ job["run"].pc = "log" /\ Fault /\ job' = [job EXCEPT !["run"] = Idle]
                /\ UNCHANGED <<outer, table, maps, cur, edits>>

RetryLinkRefused ==
  /\ job["run"].pc = "retry"
  /\ \E d \in job["run"].todo :
       job' = [job EXCEPT !["run"] = [@ EXCEPT !.d = d, !.pc = "ask", !.kind = "link", !.todo = @ \ {d}]]
  /\ UNCHANGED <<outer, table, maps, cur, faults, edits>>

LinkResult ==
  LET j == job["run"]  d == j.d IN
  /\ j.kind = "link" /\ j.pc \in {"ok", "failed", "refused"}
  /\ linkRefused' = IF j.pc = "refused" /\ d \in j.unlinked THEN linkRefused \union {d} ELSE linkRefused \ {d}
  /\ IF j.pc = "ok" THEN RecordClaimed(d) ELSE UNCHANGED <<row, old, faults>>
  /\ job' = [job EXCEPT !["run"] = [@ EXCEPT !.pc = "retry", !.kind = "claim", !.reads = 0,
                                            !.log = IF j.pc = "ok" THEN @ \union {d} ELSE @]]
  /\ UNCHANGED <<outer, skipRows, skipped, failSkipped, fails, forceFails, cur, edits>>

\* plan.Build: what counts as claimed, what is blocked, what is queued.  The
\* scan's listener also logs what the inventory shows claimed.
CountsClaimed(log, prog) ==
  {d \in Drops : \/ prog[d] = "claimed" \/ row[d] = "manual"
                 \/ d \in log /\ prog[d] # "part"}
Queue(log, prog) == Drops \ (CountsClaimed(log, prog) \union linkRefused \union skipped)

Pick ==
  LET j == job["run"]  queue == Queue(j.log, j.prog) IN
  /\ j.pc = "retry" /\ j.todo = {}
  /\ row' = [d \in Drops |-> IF row[d] = "none" /\ j.prog[d] = "claimed" THEN "own" ELSE row[d]]
  /\ IF queue = {} THEN cur' = None ELSE cur' \in queue
  /\ job' = [job EXCEPT !["run"] = [Idle EXCEPT !.pc = IF queue = {} THEN "force" ELSE "watch",
                                               !.unlinked = j.unlinked]]
  /\ UNCHANGED <<outer, old, skipRows, maps, faults, edits>>

\* the poll of a watch: the drop is done, or it was marked or claimed meanwhile
Poll ==
  /\ job["run"].pc = "watch"
  /\ \/ /\ inv[cur] = "done"
        /\ job' = [job EXCEPT !["run"] = [@ EXCEPT !.pc = "ask", !.d = cur]]
     \/ /\ inv[cur] = "claimed" \/ row[cur] = "manual"
        /\ job' = [job EXCEPT !["run"] = Idle]
  /\ UNCHANGED <<outer, table, maps, cur, faults, edits>>

Mining(answers) == job["run"].kind = "claim" /\ job["run"].pc \in answers
Settle(d) == /\ cur' = None /\ fails' = [fails EXCEPT ![d] = 0]
             /\ job' = [job EXCEPT !["run"] = Idle]
FinishClaim ==
  LET d == job["run"].d IN
  /\ Mining({"ok"}) /\ RecordClaimed(d) /\ Settle(d)
  /\ UNCHANGED <<outer, skipRows, skipped, failSkipped, linkRefused, forceFails, edits>>
BlockNotLinked ==
  LET d == job["run"].d IN
  /\ Mining({"refused"}) /\ d \in job["run"].unlinked
  /\ linkRefused' = linkRefused \union {d} /\ Settle(d)
  /\ UNCHANGED <<outer, table, skipped, failSkipped, forceFails, faults, edits>>
ClaimFailed ==
  LET d == job["run"].d  n == fails[d] + 1 IN
  /\ Mining({"failed"}) \/ (Mining({"refused"}) /\ d \notin job["run"].unlinked)
  /\ fails' = [fails EXCEPT ![d] = n % Threshold]
  /\ IF n = Threshold
     THEN /\ skipped' = skipped \union {d} /\ failSkipped' = failSkipped \union {d}
          /\ job' = [job EXCEPT !["run"].pc = "record"]
     ELSE /\ UNCHANGED <<skipped, failSkipped>> /\ job' = [job EXCEPT !["run"] = Idle]
  /\ UNCHANGED <<outer, table, linkRefused, forceFails, cur, faults, edits>>
RecordSkip ==
  /\ job["run"].pc = "record" /\ skipRows' = skipRows \union {job["run"].d}
  /\ job' = [job EXCEPT !["run"] = Idle]
  /\ UNCHANGED <<outer, row, old, maps, cur, faults, edits>>
-----------------------------------------------------------------------------
(* A force watch's beat: the finished drops of the inventory, whatever game. *)
ClaimReady ==
  /\ job["run"].pc = "force"
  /\ LET log == Logged
         ready == {d \in Drops : inv[d] = "done" /\ d \in linked /\ d \notin log
                                 /\ forceFails[d] < Threshold}
     IN IF ready = {} THEN job' = [job EXCEPT !["run"] = Idle]
        ELSE \E d \in ready : job' = [job EXCEPT !["run"] = [@ EXCEPT !.pc = "ask", !.kind = "ready", !.d = d]]
  /\ UNCHANGED <<outer, table, maps, cur, faults, edits>>
ReadyResult ==
  LET j == job["run"]  d == j.d IN
  /\ j.kind = "ready" /\ j.pc \in {"ok", "failed", "refused"}
  /\ job' = [job EXCEPT !["run"] = Idle]
  /\ IF j.pc = "ok"
     THEN /\ RecordClaimed(d)
          /\ forceFails' = [forceFails EXCEPT ![d] = Threshold]  \* forceClaimed
     ELSE /\ forceFails' = [forceFails EXCEPT ![d] = @ + 1] /\ UNCHANGED <<row, old, faults>>
  /\ UNCHANGED <<outer, skipRows, skipped, failSkipped, fails, linkRefused, cur, edits>>
-----------------------------------------------------------------------------
(* The inventory sweep: the ready drops and the log are read once.           *)
SweepInventory ==
  /\ job["sweep"].pc = "idle"
  /\ job' = [job EXCEPT !["sweep"] =
       [Idle EXCEPT !.pc = "next", !.log = Logged, !.unlinked = Drops \ linked, !.todo = {d \in Drops : inv[d] = "done"}]]
  /\ UNCHANGED <<outer, table, maps, cur, faults, edits>>
\* mutant: a drop with a row is done
TrustsLog(d) == IF d \in job["sweep"].unlinked \union job["sweep"].log \/ cur = d THEN "next" ELSE "ask"
SweepTurn(d) == IF d \in job["sweep"].unlinked \/ cur = d THEN "next"
                ELSE IF d \in job["sweep"].log THEN "logged" ELSE "ask"
SweepNext ==
  LET j == job["sweep"] IN
  /\ j.pc = "next"
  /\ IF j.todo = {} THEN job' = [job EXCEPT !["sweep"] = Idle]
     ELSE \E d \in j.todo :
            job' = [job EXCEPT !["sweep"] = [@ EXCEPT !.pc = SweepTurn(d), !.d = d, !.todo = @ \ {d}]]
  /\ UNCHANGED <<outer, table, maps, cur, faults, edits>>
LoggedClaim ==
  LET d == job["sweep"].d IN
  /\ job["sweep"].pc = "logged"
  /\ \/ row[d] = "own" /\ d \in old /\ Go("sweep", "forget") /\ UNCHANGED faults
     \/ ~(row[d] = "own" /\ d \in old) /\ Go("sweep", "next") /\ UNCHANGED faults
     \/ Go("sweep", "next") /\ Fault
  /\ UNCHANGED <<outer, table, maps, cur, edits>>
ForgetClaim ==
  LET d == job["sweep"].d IN
  /\ job["sweep"].pc = "forget"
  /\ \/ Forget(d) /\ Go("sweep", "ask") /\ UNCHANGED faults
     \/ Go("sweep", "next") /\ Fault /\ UNCHANGED <<row, old>>
  /\ UNCHANGED <<outer, skipRows, maps, cur, edits>>
SweepClaimed ==
  LET d == job["sweep"].d IN
  /\ job["sweep"].pc = "ok" /\ job' = [job EXCEPT !["sweep"].pc = "next", !["sweep"].reads = 0]
  /\ failSkipped' = failSkipped \ {d} /\ skipped' = skipped \ {d}
  /\ skipRows' = IF d \in skipped THEN skipRows \ {d} ELSE skipRows
  /\ RecordClaimed(d)
  /\ UNCHANGED <<outer, fails, linkRefused, forceFails, cur, edits>>
SkipRefused ==
  LET d == job["sweep"].d IN
  /\ job["sweep"].pc = "refused" /\ Go("sweep", "record")
  /\ skipped' = skipped \union {d} /\ failSkipped' = failSkipped \union {d}
  /\ UNCHANGED <<outer, table, fails, linkRefused, forceFails, cur, faults, edits>>
SweepRecordSkip ==
  /\ job["sweep"].pc = "record" /\ Go("sweep", "next")
  /\ skipRows' = skipRows \union {job["sweep"].d}
  /\ UNCHANGED <<outer, row, old, maps, cur, faults, edits>>
SweepFailed == /\ job["sweep"].pc = "failed" /\ Go("sweep", "next")
               /\ UNCHANGED <<outer, table, maps, cur, faults, edits>>
-----------------------------------------------------------------------------
(* The user marks a planned drop collected, or takes a mark, claim or skip   *)
(* back; the runner is rebuilt, which drops its maps and cancels both jobs.  *)
Edit == edits < Edits /\ edits' = edits + 1
PostClaim(d) == /\ Edit /\ d \in skipped \union linkRefused \union {cur} \union (Drops \ Logged)
                /\ Record(d, "manual")
                /\ UNCHANGED <<outer, old, skipRows, maps, cur, job, faults>>
DeleteClaim(d) ==
  /\ Edit /\ d \in Logged \union skipRows
  /\ Forget(d) /\ skipRows' = skipRows \ {d}
  /\ skipped' = skipped \ {d} /\ failSkipped' = failSkipped \ {d} /\ linkRefused' = linkRefused \ {d}
  /\ fails' = [fails EXCEPT ![d] = 0] /\ forceFails' = [forceFails EXCEPT ![d] = 0]
  /\ UNCHANGED <<outer, cur, job, faults>>
Rebuild == /\ Edit /\ cur' = None /\ job' = [p \in Procs |-> Idle]
           /\ skipped' = skipRows /\ failSkipped' = {} /\ linkRefused' = {}
           /\ fails' = [d \in Drops |-> 0] /\ forceFails' = [d \in Drops |-> 0]
           /\ UNCHANGED <<outer, table, faults>>

Run   == \/ ReadInventory \/ ReadLog \/ ReadLogFails \/ RetryLinkRefused \/ LinkResult \/ Pick
         \/ Poll \/ FinishClaim \/ BlockNotLinked \/ ClaimFailed \/ RecordSkip \/ ClaimReady
         \/ ReadyResult \/ Ask("run") \/ Confirm("run")
Sweep == \/ SweepInventory \/ SweepNext \/ LoggedClaim \/ ForgetClaim \/ SweepClaimed
         \/ SkipRefused \/ SweepRecordSkip \/ SweepFailed \/ Ask("sweep") \/ Confirm("sweep")
User  == Rebuild \/ \E d \in Drops : PostClaim(d) \/ DeleteClaim(d)
Next  == World \/ Run \/ Sweep \/ User
Fair  == /\ WF_vars(Run) /\ WF_vars(Sweep)
         /\ WF_vars(\E d \in Drops : CatchUp(d))
         /\ WF_vars(\E d \in Drops : Age(d))
Spec  == Init /\ [][Next]_vars /\ Fair
-----------------------------------------------------------------------------
(* A finished drop of a linked campaign is granted in the end, or marked by  *)
(* hand, whatever the log says of it: a row written for a claim that never   *)
(* landed is forgotten once it is older than staleClaimGrace.                *)
LostClaimHealed == <>[](\A d \in finished \intersect linked : d \in granted \/ row[d] = "manual")

(* The sweep leaves alone the drop the runner is claiming.                   *)
OneClaimer == \A d \in Drops : \E p \in Procs :
                ~(job[p].d = d /\ job[p].pc \in {"ask", "confirm"})
=============================================================================
