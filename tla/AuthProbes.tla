------------------------------ MODULE AuthProbes ------------------------------
(***************************************************************************)
(* The checks that a login still works: the hourly sweep and "Check login"   *)
(* verify each account's stored session and report a change, and the canary  *)
(* borrows one session of a platform to probe its watch transport.           *)
(* source: src/internal/authcheck/authcheck.go, src/internal/canary/*.go,   *)
(*  src/internal/api/health.go, src/cmd/miner/main.go                       *)
(***************************************************************************)
EXTENDS Naturals

CONSTANTS Accts,           \* enabled accounts of the platform
          Checks,          \* verifications under way: the sweep, clicks
          Runs, Scheduled, \* canary runs; the one of the canary's own loop
          Askers,          \* requests that may start a run
          NoAcct,
          ProbeFaults      \* bound: failed calls, sessions dying

VARIABLES good, active,    \* accounts whose stored session works; enabled accounts with a session
          authKV, check,   \* kv authcheck:<id>; the verifications
          warned,          \* what the last notice of an account said
          canaryRunning, canaryRerun, asker, \* api.server; the requests
          run, canaryKV, alarms, \* the runs; kv canary:<platform>; notices since the last success
          owedRun,         \* a rerun was asked for and no run has read the accounts since
          apFaults
checking == <<authKV, check, warned>>
starting == <<canaryRunning, canaryRerun, asker>>
probing == <<run, canaryKV, alarms>>
apvars == <<good, active, checking, starting, probing, owedRun, apFaults>>

NoCheck == [pc |-> "rest", acct |-> NoAcct, works |-> FALSE, ok |-> "none", prev |-> "none"]
Fault == apFaults < ProbeFaults /\ apFaults' = apFaults + 1
Init == /\ good = Accts /\ active \in {{}, Accts}
        /\ authKV = [a \in Accts |-> "none"] /\ warned = authKV /\ check = [c \in Checks |-> NoCheck]
        /\ canaryRunning = FALSE /\ canaryRerun = FALSE /\ asker = [u \in Askers |-> "rest"]
        /\ run = [r \in Runs |-> "rest"] /\ canaryKV = "none" /\ alarms = 0
        /\ owedRun = FALSE /\ apFaults = 0
-----------------------------------------------------------------------------
(* checkOne: the session is read, verified over the network (once more after *)
(* retryDelay), and the verdict persisted against the row read before.       *)
CheckStep(c, k) == check' = [check EXCEPT ![c] = k] /\ UNCHANGED <<good, active, starting, probing, owedRun>>
CheckOne(c, a) == /\ check[c].pc = "rest" /\ a \in active
                  /\ CheckStep(c, [NoCheck EXCEPT !.pc = "verify", !.acct = a, !.works = a \in good])
                  /\ UNCHANGED <<authKV, warned, apFaults>>
VerifyWithRetry(c) ==
  /\ check[c].pc = "verify" /\ UNCHANGED <<authKV, warned>>
  /\ \/ /\ check[c].works
        /\ CheckStep(c, [check[c] EXCEPT !.pc = "load", !.ok = "ok"]) /\ UNCHANGED apFaults
     \/ /\ IF check[c].works THEN Fault ELSE UNCHANGED apFaults
        /\ CheckStep(c, [check[c] EXCEPT !.pc = "load", !.ok = "fail"])
Load(c) == /\ check[c].pc = "load" /\ CheckStep(c, [check[c] EXCEPT !.pc = "persist", !.prev = authKV[check[c].acct]])
           /\ UNCHANGED <<authKV, warned, apFaults>>
PersistWithMeta(c) ==
  /\ check[c].pc = "persist" /\ UNCHANGED warned
  /\ \/ /\ authKV' = [authKV EXCEPT ![check[c].acct] = check[c].ok]
        /\ CheckStep(c, [check[c] EXCEPT !.pc = "notify"]) /\ UNCHANGED apFaults
     \/ Fault /\ CheckStep(c, NoCheck) /\ UNCHANGED authKV
Transition(prev, ok) == prev # ok /\ ~(prev = "none" /\ ok = "ok")
NotifyTransition(c) ==
  /\ check[c].pc = "notify" /\ CheckStep(c, NoCheck) /\ UNCHANGED <<authKV, apFaults>>
  /\ warned' = IF Transition(check[c].prev, check[c].ok) THEN [warned EXCEPT ![check[c].acct] = check[c].ok] ELSE warned
-----------------------------------------------------------------------------
(* startCanary, in the order of its stores; a caller that wins the swap      *)
(* starts the run.                                                           *)
AskAt(u, pc) == asker' = [asker EXCEPT ![u] = pc] /\ UNCHANGED <<good, active, checking, canaryKV, alarms, apFaults>>
PostHealthCanary(u) == asker[u] = "rest" /\ AskAt(u, "start") /\ UNCHANGED <<canaryRunning, canaryRerun, run, owedRun>>
StartCanary(u) ==
  /\ asker[u] = "start" /\ UNCHANGED <<canaryRerun, run, owedRun>>
  /\ canaryRunning' = TRUE /\ AskAt(u, IF canaryRunning THEN "rest" ELSE "clear")
Spawn(u) == \E r \in Runs \ {Scheduled} :
  /\ asker[u] = "clear" /\ run[r] = "rest" /\ AskAt(u, "rest")
  /\ canaryRerun' = FALSE /\ run' = [run EXCEPT ![r] = "source"] /\ UNCHANGED <<canaryRunning, owedRun>>
\* after an account is resumed or signs in: a stored skip is worth a new run
RerunSkippedCanary(u) ==
  /\ asker[u] = "changed" /\ UNCHANGED <<canaryRunning, run>>
  /\ canaryRerun' = (canaryRerun \/ canaryKV = "skip")
  /\ owedRun' = (owedRun \/ canaryKV = "skip") /\ AskAt(u, IF canaryKV = "skip" THEN "start" ELSE "rest")

(* runProbe. A run of the canary's own loop has no part in the flags.        *)
RunAt(r, pc) == run' = [run EXCEPT ![r] = pc] /\ UNCHANGED <<good, active, checking, asker>>
Over(r) == IF r = Scheduled THEN "rest" ELSE "over"
Tick == /\ run[Scheduled] = "rest" /\ RunAt(Scheduled, "source")
        /\ UNCHANGED <<canaryRunning, canaryRerun, canaryKV, alarms, owedRun, apFaults>>
\* the session borrowed; the stored result says whether a failure is news
CanarySource(r) ==
  /\ run[r] = "source" /\ UNCHANGED <<canaryRunning, canaryRerun, canaryKV, alarms>>
  /\ owedRun' = FALSE
  /\ \/ RunAt(r, IF active = {} THEN "skip" ELSE IF canaryKV = "fail" THEN "probe" ELSE "probeAnew") /\ UNCHANGED apFaults
     \/ Fault /\ RunAt(r, Over(r))
Probe(r) ==
  /\ run[r] \in {"probe", "probeAnew"} /\ UNCHANGED <<canaryRunning, canaryRerun, canaryKV, alarms, owedRun>>
  /\ \/ RunAt(r, "saveOk") /\ UNCHANGED apFaults
     \/ RunAt(r, IF run[r] = "probe" THEN "saveFail" ELSE "alarm") /\ Fault
Alarm(r) == /\ run[r] = "alarm" /\ RunAt(r, "saveFail") /\ alarms' = (IF alarms = 2 THEN 2 ELSE alarms + 1)
            /\ UNCHANGED <<canaryRunning, canaryRerun, canaryKV, owedRun, apFaults>>
SaveResult(r) ==
  /\ run[r] \in {"skip", "saveOk", "saveFail"} /\ RunAt(r, Over(r)) /\ UNCHANGED <<canaryRunning, canaryRerun, owedRun>>
  /\ \/ /\ canaryKV' = CASE run[r] = "skip" -> "skip" [] run[r] = "saveOk" -> "ok" [] OTHER -> "fail"
        /\ alarms' = (IF run[r] = "saveFail" THEN alarms ELSE 0) /\ UNCHANGED apFaults
     \/ Fault /\ UNCHANGED <<canaryKV, alarms>>
SwapFirst(r) == \* mutant: the flag is taken before the run counts as over
  /\ \/ run[r] = "over" /\ RunAt(r, IF canaryRerun THEN "again" ELSE "swap") /\ canaryRerun' = FALSE /\ UNCHANGED canaryRunning
     \/ run[r] = "swap" /\ canaryRunning' = FALSE /\ RunAt(r, "rest") /\ UNCHANGED canaryRerun
     \/ run[r] = "again" /\ canaryRunning' = TRUE /\ RunAt(r, "clear") /\ UNCHANGED canaryRerun
     \/ run[r] = "clear" /\ canaryRerun' = FALSE /\ RunAt(r, "source") /\ UNCHANGED canaryRunning
  /\ UNCHANGED <<canaryKV, alarms, owedRun, apFaults>>
\* a run's last steps: it is over, then a rerun asked for in time starts one more
RunEnds(r) ==
  /\ \/ run[r] = "over" /\ RunAt(r, "swap") /\ canaryRunning' = FALSE /\ UNCHANGED canaryRerun
     \/ /\ run[r] = "swap" /\ canaryRerun' = FALSE /\ UNCHANGED canaryRunning
        /\ RunAt(r, IF canaryRerun THEN "again" ELSE "rest")
     \/ /\ run[r] = "again" /\ canaryRunning' = TRUE /\ UNCHANGED canaryRerun
        /\ RunAt(r, IF canaryRunning THEN "rest" ELSE "clear")
     \/ run[r] = "clear" /\ canaryRerun' = FALSE /\ RunAt(r, "source") /\ UNCHANGED canaryRunning
  /\ UNCHANGED <<canaryKV, alarms, owedRun, apFaults>>
-----------------------------------------------------------------------------
\* a session dies; an account is paused, or resumed or signs in with one that works
Dies(a) == /\ a \in good /\ good' = good \ {a} /\ Fault
           /\ UNCHANGED <<active, checking, starting, probing, owedRun>>
Pause(a) == /\ a \in active /\ active' = active \ {a} /\ Fault
            /\ UNCHANGED <<good, checking, starting, probing, owedRun>>
Resume(u, a) == /\ asker[u] = "rest" /\ a \notin active \intersect good
                /\ active' = active \union {a} /\ good' = good \union {a} /\ asker' = [asker EXCEPT ![u] = "changed"]
                /\ UNCHANGED <<checking, canaryRunning, canaryRerun, probing, owedRun, apFaults>>

Next == \/ \E c \in Checks : (\E a \in Accts : CheckOne(c, a)) \/ VerifyWithRetry(c) \/ Load(c) \/ PersistWithMeta(c) \/ NotifyTransition(c)
        \/ \E u \in Askers : \/ PostHealthCanary(u) \/ StartCanary(u) \/ Spawn(u) \/ RerunSkippedCanary(u)
                             \/ \E a \in Accts : Resume(u, a)
        \/ \E r \in Runs : CanarySource(r) \/ Probe(r) \/ Alarm(r) \/ SaveResult(r) \/ RunEnds(r)
        \/ \E a \in Accts : Dies(a) \/ Pause(a)
        \/ Tick
Spec == Init /\ [][Next]_apvars
-----------------------------------------------------------------------------
TypeOK == /\ good \subseteq Accts /\ active \subseteq Accts /\ authKV \in [Accts -> {"none", "ok", "fail"}]
          /\ \A c \in Checks : check[c].pc \in {"rest", "verify", "load", "persist", "notify"}
          /\ asker \in [Askers -> {"rest", "changed", "start", "clear"}]
          /\ canaryKV \in {"none", "skip", "ok", "fail"} /\ alarms \in 0..2

CanaryRests == (\A u \in Askers : asker[u] = "rest") /\ \A r \in Runs : run[r] = "rest"
(* health.go startCanary "a rerun asked for while this run was in flight set   *)
(* the flag before its own start failed, so it is seen here": no rerun is left  *)
(* asked for with no run in flight to see it.                                   *)
FlagSeen == CanaryRests => ~canaryRerun
(* health.go rerunSkippedCanary "the request waits for it and then runs once   *)
(* more": once no run is in flight, some run has read the accounts since each     *)
(* rerun was asked for.                                                        *)
RerunServed == CanaryRests => ~owedRun
(* health.go rerunSkippedCanary, of a run in flight that "may have read the    *)
(* accounts before the change": a skip left standing means there is no account.*)
SkipIsCurrent == CanaryRests /\ canaryKV = "skip" /\ apFaults = 0 => active = {}
(* canary.go "fail->fail: no re-notify (prevents noise while the problem       *)
(* persists)": one notice from one success to the next.                        *)
CanaryOnce == alarms < 2
(* authcheck.go "auth health is already persisted above and is the source of   *)
(* truth": the last notice of an account agrees with it.                       *)
NoticeAgrees == \A a \in Accts : (\A c \in Checks : check[c].pc = "rest") /\ warned[a] # "none" => warned[a] = authKV[a]
(* The row on the Accounts page is of the session stored: a verdict begun      *)
(* before a new sign-in is not what stays.                                     *)
VerdictIsCurrent == \A c \in Checks : check[c].pc = "persist" /\ check'[c].pc = "notify" /\ check[c].acct \in good
                                       => check[c].works
CheckIsCurrent == [][VerdictIsCurrent]_authKV
=============================================================================
