------------------------------- MODULE Runner -------------------------------
(***************************************************************************)
(* One account's runner (internal/runner): the Run goroutine that picks a  *)
(* drop, watches a channel for it and claims it, the PubSub goroutine that *)
(* pushes "drop claim" and "stream down" into it, and the callers of       *)
(* Rescan, MineNow and Collected.                                          *)
(*                                                                         *)
(* The fields under Runner.mu change in locked sections, the wake-up       *)
(* channels hold one token, forceScan and switchNow are atomics, and no    *)
(* lock is held across a backend call: each locked section, atomic and     *)
(* backend call is an action.  A setState of the Run goroutine is one      *)
(* action with the section before it, for its wake token is only read by   *)
(* that goroutine; the push's setState is two.                             *)
(*                                                                         *)
(* Here the runner mines drops: no force channels, points or raids.  Every *)
(* drop is its own campaign, a scan queues any of the drops (Planner and   *)
(* Claims say which, a claimed one with a lost record among them), and a   *)
(* campaign's eligible channels are any of Channels.  A scan also claims   *)
(* the finished drops nobody watches (sweepCompleted): that changes the    *)
(* platform and the log, and nothing here.                                 *)
(***************************************************************************)
EXTENDS Integers

CONSTANTS Drops, Channels,
          Callers,   \* HTTP requests that call Rescan, MineNow or Collected
          None,      \* a nil pointer
          HasWindow, \* whether Config.SleepUntil is set
          HasPubSub  \* whether the backend pushes: Twitch's does, Kick's not

ASSUME RunnerAssumption ==
  /\ None \notin Drops
  /\ None \notin Channels
  /\ HasWindow \in BOOLEAN /\ HasPubSub \in BOOLEAN

VARIABLES
  state, current, watch, pinned, queue, noStream,  \* under Runner.mu; watch
                                                   \* is handle and stream
  wake, rescan, switchCh,       \* a token in the channel of that name
  forceScan, switchNow,
  pc, ret, seen,                \* Run: where it is, where stopWatch returns,
                                \* its before or the st it waits with
  target, chan, taken,          \* Run: locals of start, tick, claim, stopWatch
  ppc, parg, pnext, ptaken,     \* the PubSub callback: where it is, its drop
                                \* or channel, next state and taken handle
  cpc,                          \* where each caller is
  open, topics,                 \* backend: live handles per channel, topics
  complete,                     \* platform: drops fully watched
  inWindow, ctxDone,
  dirty, stray                  \* history: a Rescan no scan has followed yet;
                                \* since Run set the state, a push has set
                                \* claiming for a drop no longer current

locked == <<state, current, watch, pinned, queue, noStream>>
tokens == <<wake, rescan, switchCh, forceScan, switchNow>>
locals == <<ret, seen, target, chan, taken>>
push == <<ppc, parg, pnext, ptaken>>
backend == <<open, topics>>
history == <<dirty, stray>>
env == <<inWindow, ctxDone>>
vars == <<locked, tokens, pc, locals, push, cpc, backend, complete, env, history>>

Idle == {"sleeping", "sleep_window"}  \* sleeping is also awaiting_connect
Stopped == {"needs_login"}
States == {"idle", "picking", "starting", "watching", "claiming"}
            \cup Idle \cup Stopped

Init ==
  /\ state = "idle" /\ current = None /\ watch = None /\ pinned = None
  /\ queue = {} /\ noStream = {}
  /\ wake = FALSE /\ rescan = FALSE /\ switchCh = FALSE
  /\ forceScan = FALSE /\ switchNow = FALSE
  /\ pc = "top" /\ ret = "exit" /\ seen = "idle"
  /\ target = None /\ chan = None /\ taken = None
  /\ ppc = "idle" /\ parg = None /\ pnext = "claiming" /\ ptaken = None
  /\ cpc = [c \in Callers |-> "idle"]
  /\ open = [ch \in Channels |-> 0] /\ topics = {}
  /\ complete = {}
  /\ inWindow = FALSE /\ ctxDone = FALSE
  /\ dirty = FALSE /\ stray = FALSE

\* setState by the Run goroutine: the state, and a token when it moved.
SetState(s) == state' = s /\ wake' = (wake \/ s # state) /\ stray' = FALSE

KeepState == UNCHANGED <<state, wake, stray>>

\* stopWatch is a subroutine that continues at r.
CallStop(r) == pc' = "stopTake" /\ ret' = r

\* Mutant of StepError: the watch is left for the next start to find.
StepErrorKeepsWatch ==
  pc' = "resume" /\ ret' = (IF ctxDone THEN "exit" ELSE "error")

\* A step's error: Run leaves when its context has ended, else backs off.
StepError == CallStop(IF ctxDone THEN "exit" ELSE "error")

Unpin(d) == pinned' = IF pinned = d THEN None ELSE pinned

-----------------------------------------------------------------------------
(* The top of Run: sleepGate, takeSwitch and the dispatch in step *)

\* Mutant of ExitNow: asleep, the context is not looked at.
ExitNowAwake == ctxDone /\ state # "sleep_window"

ExitNow == ctxDone

TopExit ==
  /\ pc = "top" /\ ExitNow
  /\ CallStop("exit")
  /\ UNCHANGED <<locked, tokens, seen, target, chan, taken, push, cpc, backend,
                 complete, env, history>>

\* A pending claim runs first, inside the window too.
GateHolds == inWindow /\ state # "claiming"

\* Mutant of Entering: a watch is left to its own beat.
EnteringIdle == state \notin {"sleep_window", "watching"}

Entering == state # "sleep_window"

\* Asleep: a Mine now is dropped, and entering the window ends the watch.
TopAsleep ==
  /\ pc = "top" /\ ~ExitNow /\ GateHolds
  /\ switchNow' = FALSE
  /\ IF Entering THEN CallStop("sleep") ELSE pc' = "step" /\ UNCHANGED ret
  /\ UNCHANGED <<locked, wake, rescan, switchCh, forceScan, seen, target, chan,
                 taken, push, cpc, backend, complete, env, history>>

\* Awake: the end of the window is a re-pick, and a Mine now is taken unless a
\* claim is in flight.
TopAwake ==
  /\ pc = "top" /\ ~ExitNow /\ ~GateHolds
  /\ IF ~inWindow /\ state = "sleep_window"
     THEN SetState("picking")
     ELSE KeepState
  /\ IF switchNow /\ state # "claiming"
     THEN switchNow' = FALSE /\ CallStop("switch")
     ELSE pc' = "step" /\ UNCHANGED <<switchNow, ret>>
  /\ UNCHANGED <<current, watch, pinned, queue, noStream, rescan, switchCh,
                 forceScan, seen, target, chan, taken, push, cpc, backend,
                 complete, env, dirty>>

\* Mutant of Stale: start trusts that no watch is live.
StaleNever == FALSE

Stale == watch # None

\* step reads the state; start, tick and claim then copy what they work on in
\* their first locked section, and fail when it is not there.
Step ==
  /\ pc = "step"
  /\ seen' = state
  /\ target' = current
  /\ chan' = watch
  /\ \/ /\ state \in {"idle", "picking"}
        /\ pc' = "pick" /\ UNCHANGED ret
     \/ /\ state = "starting" /\ current = None
        /\ StepError
     \/ /\ state = "starting" /\ current # None /\ ~Stale
        /\ pc' = "list" /\ UNCHANGED ret
     \/ /\ state = "starting" /\ current # None /\ Stale
        /\ CallStop("start")
     \/ /\ state = "watching" /\ (current = None \/ watch = None)
        /\ StepError
     \/ /\ state = "watching" /\ current # None /\ watch # None
        /\ pc' = "beat" /\ UNCHANGED ret
     \/ /\ state = "claiming" /\ current = None
        /\ StepError
     \/ /\ state = "claiming" /\ current # None
        /\ pc' = "claim" /\ UNCHANGED ret
     \/ /\ state \in Idle
        /\ pc' = "idle" /\ UNCHANGED ret
     \/ /\ state \in Stopped
        /\ pc' = "returned" /\ UNCHANGED ret
  /\ UNCHANGED <<locked, tokens, taken, push, cpc, backend, complete, env, history>>

-----------------------------------------------------------------------------
(* pick *)

\* The scan's calls and the plan it builds.  It stores the queue and never
\* touches current, the watch or the state.
Scan(Q) == queue' = Q /\ dirty' = FALSE

PickScan ==
  /\ pc = "pick"
  /\ \E Q \in SUBSET Drops : Scan(Q)
  /\ pc' = "plan"
  /\ UNCHANGED <<state, current, watch, pinned, noStream, tokens, locals, push,
                 cpc, backend, complete, env, stray>>

\* A failed scan keeps the queue; a blocked integrity check needs a login.
PickFail ==
  /\ pc = "pick"
  /\ dirty' = FALSE
  /\ \/ StepError /\ KeepState
     \/ SetState("needs_login") /\ pc' = "after" /\ UNCHANGED ret
  /\ UNCHANGED <<current, watch, pinned, queue, noStream, rescan, switchCh,
                 forceScan, switchNow, seen, target, chan, taken, push, cpc,
                 backend, complete, env>>

\* A queued pin wins; one the plan blocked or counts as claimed, or that has
\* ended, goes; one the scan merely omitted stays the pick.
PickNext(next) ==
  \/ /\ pinned # None /\ pinned \in queue
     /\ next = pinned /\ UNCHANGED pinned
  \/ /\ pinned # None /\ pinned \notin queue
     /\ next = pinned /\ UNCHANGED pinned
  \/ /\ pinned # None /\ pinned \notin queue
     /\ pinned' = None
     /\ next \in IF queue = {} THEN {None} ELSE queue
  \/ /\ pinned = None
     /\ next \in IF queue = {} THEN {None} ELSE queue
     /\ UNCHANGED pinned

PickPlan ==
  /\ pc = "plan"
  /\ noStream' = {}
  /\ \E next \in Drops \cup {None} :
       /\ PickNext(next)
       /\ current' = next
       /\ SetState(IF next = None THEN "sleeping" ELSE "starting")
  /\ pc' = "after"
  /\ UNCHANGED <<watch, queue, rescan, switchCh, forceScan, switchNow, locals,
                 push, cpc, backend, complete, env, dirty>>

-----------------------------------------------------------------------------
(* start *)

\* Some eligible channel that is not stalled.
ListLive ==
  /\ pc = "list"
  /\ chan' \in Channels
  /\ pc' = "open"
  /\ UNCHANGED <<locked, tokens, ret, seen, target, taken, push, cpc, backend,
                 complete, env, history>>

ListFail ==
  /\ pc = "list"
  /\ StepError
  /\ UNCHANGED <<locked, tokens, seen, target, chan, taken, push, cpc, backend,
                 complete, env, history>>

\* No stream: the next queued campaign not known to be offline is started at
\* once, by a call of start; with none left the runner sleeps.
Untried == {d \in queue : d # target /\ d \notin noStream}

ListNone ==
  /\ pc = "list"
  /\ Unpin(target)
  /\ \/ /\ Untried # {}
        /\ noStream' = noStream \cup {target}
        /\ \E next \in Untried : current' = next /\ target' = next
        /\ KeepState /\ UNCHANGED pc
     \/ /\ Untried = {}
        /\ noStream' = {}
        /\ current' = None
        /\ SetState("sleeping")
        /\ pc' = "after"
        /\ UNCHANGED target
  /\ UNCHANGED <<watch, queue, rescan, switchCh, forceScan, switchNow, ret,
                 seen, chan, taken, push, cpc, backend, complete, env, dirty>>

StartWatch ==
  /\ pc = "open"
  /\ open' = [open EXCEPT ![chan] = @ + 1]
  /\ pc' = "hold"
  /\ UNCHANGED <<locked, tokens, locals, push, cpc, topics, complete, env, history>>

StartFail ==
  /\ pc = "open"
  /\ StepError
  /\ UNCHANGED <<locked, tokens, seen, target, chan, taken, push, cpc, backend,
                 complete, env, history>>

Hold ==
  /\ pc = "hold"
  /\ watch' = chan
  /\ pc' = "subscribe"
  /\ UNCHANGED <<state, current, pinned, queue, noStream, tokens, locals, push,
                 cpc, backend, complete, env, history>>

Subscribe ==
  /\ pc = "subscribe"
  /\ topics' = topics \cup {chan}
  /\ pc' = "started"
  /\ UNCHANGED <<locked, tokens, locals, push, cpc, open, complete, env, history>>

Started ==
  /\ pc = "started"
  /\ SetState("watching")
  /\ pc' = "after"
  /\ UNCHANGED <<current, watch, pinned, queue, noStream, rescan, switchCh,
                 forceScan, switchNow, locals, push, cpc, backend, complete,
                 env, dirty>>

-----------------------------------------------------------------------------
(* tick *)

\* The beacon, the liveness probe and the inventory poll: any may fail, and
\* the probe may find the channel offline.
Beat ==
  /\ pc = "beat"
  /\ \/ pc' = "poll" /\ UNCHANGED ret
     \/ CallStop("swap")
     \/ StepError
  /\ UNCHANGED <<locked, tokens, seen, target, chan, taken, push, cpc, backend,
                 complete, env, history>>

\* Mutant of Poll: the flag is taken, and the scan left to its pace.
PollDueOnly ==
  /\ pc = "poll"
  /\ forceScan' = FALSE
  /\ pc' \in {"drain", "row"}
  /\ UNCHANGED <<locked, wake, rescan, switchCh, switchNow, locals, push, cpc,
                 backend, complete, env, history>>

\* After the poll: a rescan when one was asked for, or when it is due.
Poll ==
  /\ pc = "poll"
  /\ forceScan' = FALSE
  /\ \/ pc' = "drain"
     \/ ~forceScan /\ pc' = "row"
  /\ UNCHANGED <<locked, wake, rescan, switchCh, switchNow, locals, push, cpc,
                 backend, complete, env, history>>

DrainRescan ==
  /\ pc = "drain"
  /\ rescan' = FALSE
  /\ pc' = "rescan"
  /\ UNCHANGED <<locked, wake, switchCh, forceScan, switchNow, locals, push,
                 cpc, backend, complete, env, history>>

\* A failed rescan leaves the watch running on the old queue.  A higher ranked
\* campaign may preempt the current one, through the Mine now switch.
MayPreempt == pinned = None /\ target \in queue' /\ queue' # {target}

Rescan ==
  /\ pc = "rescan"
  /\ \/ dirty' = FALSE /\ UNCHANGED <<queue, switchNow, switchCh>>
     \/ /\ \E Q \in SUBSET Drops : Scan(Q)
        /\ \/ UNCHANGED <<switchNow, switchCh>>
           \/ MayPreempt /\ switchNow' = TRUE /\ switchCh' = TRUE
  /\ pc' = "row"
  /\ UNCHANGED <<state, current, watch, pinned, noStream, wake, rescan,
                 forceScan, locals, push, cpc, backend, complete, env, stray>>

\* The watched drop's inventory row: it moves or is not enrolled yet, is
\* complete, is claimed already, froze, or vanished.
Row ==
  /\ pc = "row"
  /\ \/ pc' = "after" /\ KeepState /\ UNCHANGED ret
     \/ target \in complete /\ SetState("claiming") /\ pc' = "after" /\ UNCHANGED ret
     \/ CallStop("finish") /\ KeepState
     \/ CallStop("swap") /\ KeepState
     \/ CallStop("skip") /\ KeepState
  /\ UNCHANGED <<current, watch, pinned, queue, noStream, rescan, switchCh,
                 forceScan, switchNow, seen, target, chan, taken, push, cpc,
                 backend, complete, env, dirty>>

-----------------------------------------------------------------------------
(* claim *)

\* Claimed; refused until the account is linked; or failed, and the third
\* failure in a row skips the drop.
Claim ==
  /\ pc = "claim"
  /\ \/ target \in complete /\ CallStop("finish")
     \/ CallStop("skip")
     \/ StepError
  /\ UNCHANGED <<locked, tokens, seen, target, chan, taken, push, cpc, backend,
                 complete, env, history>>

-----------------------------------------------------------------------------
(* stopWatch, and what its callers do when it returns *)

\* The handle and the stream are taken and cleared in one locked section.
StopTake ==
  /\ pc = "stopTake"
  /\ taken' = watch
  /\ watch' = None
  /\ pc' = IF watch = None THEN "resume" ELSE "stopBackend"
  /\ UNCHANGED <<state, current, pinned, queue, noStream, tokens, ret, seen,
                 target, chan, push, cpc, backend, complete, env, history>>

StopBackend ==
  /\ pc = "stopBackend"
  /\ open' = [open EXCEPT ![taken] = @ - 1]
  /\ pc' = "unsubscribe"
  /\ UNCHANGED <<locked, tokens, locals, push, cpc, topics, complete, env, history>>

Unsubscribe ==
  /\ pc = "unsubscribe"
  /\ topics' = topics \ {taken}
  /\ pc' = "resume"
  /\ UNCHANGED <<locked, tokens, locals, push, cpc, open, complete, env, history>>

\* The callers of stopWatch that give the current drop up.
GivesUp == {"sleep", "skip", "finish"}

\* The state each sets, and where Run goes on.
Resumed(r) ==
  CASE r \in {"switch", "error", "skip", "finish"} -> "picking"
    [] r = "sleep" -> "sleep_window"
    [] r = "swap"  -> "starting"
    [] OTHER       -> state

ResumeAt(r) ==
  CASE r = "start" -> "list"
    [] r \in {"switch", "sleep"} -> "step"
    [] r = "error" -> "wait"
    [] r \in {"swap", "skip", "finish"} -> "after"
    [] OTHER -> "returned"

Resume ==
  /\ pc = "resume" /\ ret # "panic"
  /\ SetState(Resumed(ret))
  /\ pc' = ResumeAt(ret)
  /\ current' = IF ret \in GivesUp THEN None ELSE current
  /\ IF ret \in {"skip", "finish"} THEN Unpin(target) ELSE UNCHANGED pinned
  /\ seen' = IF ret = "error" THEN "picking" ELSE seen
  /\ taken' = None
  /\ UNCHANGED <<watch, queue, noStream, rescan, switchCh, forceScan, switchNow,
                 ret, target, chan, push, cpc, backend, complete, env,
                 dirty>>

\* A panic in a step: the watch is stopped, the state is idle, and Run is gone.
Panic ==
  /\ pc \in {"pick", "list", "open", "beat", "rescan", "claim"}
  /\ CallStop("panic")
  /\ UNCHANGED <<locked, tokens, seen, target, chan, taken, push, cpc, backend,
                 complete, env, history>>

\* cleanupAfterPanic sets the state itself: no token.
Cleanup ==
  /\ pc = "resume" /\ ret = "panic"
  /\ state' = "idle"
  /\ pc' = "returned"
  /\ UNCHANGED <<current, watch, pinned, queue, noStream, tokens, locals, push,
                 cpc, backend, complete, env, history>>

-----------------------------------------------------------------------------
(* The waits at the bottom of Run *)

\* A watch waits for its next beacon, a step that moved the state is followed
\* at once by the next, and one that left it waits a tick.
After ==
  /\ pc = "after"
  /\ IF state = "watching" \/ state = seen THEN pc' = "wait" ELSE pc' = "top"
  /\ seen' = state
  /\ target' = None /\ chan' = None
  /\ UNCHANGED <<locked, tokens, ret, taken, push, cpc, backend,
                 complete, env, history>>

\* wait's timer, of a beacon, a tick or a backoff.
WaitTimer ==
  /\ pc = "wait"
  /\ pc' = "top"
  /\ UNCHANGED <<locked, tokens, locals, push, cpc, backend, complete, env, history>>

\* Mutant of WaitSwitch: the token is eaten and the wait goes on.
WaitSwitchEaten ==
  /\ pc = "wait" /\ switchCh
  /\ switchCh' = FALSE
  /\ UNCHANGED <<locked, wake, rescan, forceScan, switchNow, pc, locals, push,
                 cpc, backend, complete, env, history>>

\* A stale Mine now token is dropped.
WaitSwitch ==
  /\ pc = "wait" /\ switchCh
  /\ switchCh' = FALSE
  /\ pc' = IF switchNow THEN "top" ELSE "wait"
  /\ UNCHANGED <<locked, wake, rescan, forceScan, switchNow, locals, push, cpc,
                 backend, complete, env, history>>

\* A token for a move Run made itself, or saw already, is dropped.
WaitWake ==
  /\ pc = "wait" /\ wake
  /\ wake' = FALSE
  /\ pc' = IF state # seen THEN "top" ELSE "wait"
  /\ UNCHANGED <<locked, rescan, switchCh, forceScan, switchNow, locals, push,
                 cpc, backend, complete, env, history>>

WaitDone ==
  /\ pc \in {"wait", "idle"} /\ ctxDone
  /\ CallStop("exit")
  /\ UNCHANGED <<locked, tokens, seen, target, chan, taken, push, cpc, backend,
                 complete, env, history>>

\* waitIdle ends at its timer, or when a poll finds the window has started.
IdleTimer ==
  /\ pc = "idle"
  /\ pc' = "idled"
  /\ UNCHANGED <<locked, tokens, locals, push, cpc, backend, complete, env, history>>

\* A Rescan token ends it, and its scan is the one the re-pick does.
IdleRescan ==
  /\ pc = "idle" /\ rescan
  /\ rescan' = FALSE
  /\ pc' = "idleRescan"
  /\ UNCHANGED <<locked, wake, switchCh, forceScan, switchNow, locals, push, cpc,
                 backend, complete, env, history>>

IdleForget ==
  /\ pc = "idleRescan"
  /\ forceScan' = FALSE
  /\ pc' = "idled"
  /\ UNCHANGED <<locked, wake, rescan, switchCh, switchNow, locals, push, cpc,
                 backend, complete, env, history>>

IdleSwitch ==
  /\ pc = "idle" /\ switchCh
  /\ switchCh' = FALSE
  /\ pc' = "idled"
  /\ UNCHANGED <<locked, wake, rescan, forceScan, switchNow, locals, push, cpc,
                 backend, complete, env, history>>

\* The gate decides about the window; elsewhere the wait ends in a re-pick.
Idled ==
  /\ pc = "idled"
  /\ IF seen # "sleep_window" /\ ~inWindow
     THEN SetState("picking")
     ELSE KeepState
  /\ pc' = "top"
  /\ UNCHANGED <<current, watch, pinned, queue, noStream, rescan, switchCh,
                 forceScan, switchNow, locals, push, cpc, backend, complete,
                 env, dirty>>

-----------------------------------------------------------------------------
(* The PubSub goroutine: one callback at a time *)

\* Mutant of OnDropClaim: any watch is taken to be of the pushed drop.
OnDropClaimAny(d) ==
  /\ ppc = "idle" /\ d \in complete
  /\ current # None
  /\ ppc' = "write" /\ pnext' = "claiming" /\ parg' = current
  /\ UNCHANGED <<locked, tokens, pc, locals, ptaken, cpc, backend, complete, env,
                 history>>

\* onDropClaim checks that the drop is the current one, then unlocks.
OnDropClaim(d) ==
  /\ ppc = "idle" /\ d \in complete
  /\ current = d
  /\ ppc' = "write" /\ pnext' = "claiming" /\ parg' = current
  /\ UNCHANGED <<locked, tokens, pc, locals, ptaken, cpc, backend, complete, env,
                 history>>

\* onStreamDown checks that the channel is the watched one, then unlocks.
OnStreamDown(ch) ==
  /\ ppc = "idle"
  /\ watch = ch
  /\ ppc' = "take" /\ pnext' = "starting" /\ parg' = ch
  /\ UNCHANGED <<locked, tokens, pc, locals, ptaken, cpc, backend, complete, env,
                 history>>

\* stopWatch again, on this goroutine: it takes whatever watch is live now.
PushTake ==
  /\ ppc = "take"
  /\ ptaken' = watch
  /\ watch' = None
  /\ ppc' = IF watch = None THEN "write" ELSE "stop"
  /\ UNCHANGED <<state, current, pinned, queue, noStream, tokens, pc, locals,
                 parg, pnext, cpc, backend, complete, env, history>>

PushStop ==
  /\ ppc = "stop"
  /\ open' = [open EXCEPT ![ptaken] = @ - 1]
  /\ ppc' = "unsubscribe"
  /\ UNCHANGED <<locked, tokens, pc, locals, parg, pnext, ptaken, cpc, topics,
                 complete, env, history>>

PushUnsubscribe ==
  /\ ppc = "unsubscribe"
  /\ topics' = topics \ {ptaken}
  /\ ppc' = "write"
  /\ UNCHANGED <<locked, tokens, pc, locals, parg, pnext, ptaken, cpc, open,
                 complete, env, history>>

\* Another drop than the one checked is current by now.
Overtaken == pnext = "claiming" /\ current # parg

\* Mutant of PushWrite: the state is set without a token.
PushWriteOnly ==
  /\ ppc = "write"
  /\ state' = pnext /\ stray' = (stray \/ Overtaken)
  /\ ppc' = "idle" /\ parg' = None /\ ptaken' = None
  /\ UNCHANGED <<current, watch, pinned, queue, noStream, tokens, pc, locals,
                 pnext, cpc, backend, complete, env, dirty>>

\* setState, the section under the lock and then the wake token.
PushWrite ==
  /\ ppc = "write"
  /\ state' = pnext /\ stray' = (stray \/ Overtaken)
  /\ ppc' = IF state = pnext THEN "idle" ELSE "wake"
  /\ parg' = None /\ ptaken' = None
  /\ UNCHANGED <<current, watch, pinned, queue, noStream, tokens, pc, locals,
                 pnext, cpc, backend, complete, env, dirty>>

PushWake ==
  /\ ppc = "wake"
  /\ wake' = TRUE
  /\ ppc' = "idle"
  /\ UNCHANGED <<locked, rescan, switchCh, forceScan, switchNow, pc, locals, parg,
                 pnext, ptaken, cpc, backend, complete, env, history>>

-----------------------------------------------------------------------------
(* Callers of Runner's methods *)

\* MineNow pins a queued drop, under the lock, unless the runner has stopped.
MineNow(c) ==
  /\ cpc[c] = "idle"
  /\ ~inWindow /\ state \notin Stopped
  /\ pinned' \in queue
  /\ cpc' = [cpc EXCEPT ![c] = "store"]
  /\ UNCHANGED <<state, current, watch, queue, noStream, tokens, pc, locals, push,
                 backend, complete, env, history>>

\* Collected, after the mark is saved: the watched drop is switched away from
\* as MineNow does, any other drop is a Rescan.
Collected(c, d) ==
  /\ cpc[c] = "idle"
  /\ Unpin(d)
  /\ cpc' = [cpc EXCEPT ![c] = IF current = d THEN "store" ELSE "force"]
  /\ UNCHANGED <<state, current, watch, queue, noStream, tokens, pc, locals, push,
                 backend, complete, env, history>>

StoreSwitch(c) ==
  /\ cpc[c] = "store"
  /\ switchNow' = TRUE
  /\ cpc' = [cpc EXCEPT ![c] = "send"]
  /\ UNCHANGED <<locked, wake, rescan, switchCh, forceScan, pc, locals, push,
                 backend, complete, env, history>>

SendSwitch(c) ==
  /\ cpc[c] = "send"
  /\ switchCh' = TRUE
  /\ cpc' = [cpc EXCEPT ![c] = "idle"]
  /\ UNCHANGED <<locked, wake, rescan, forceScan, switchNow, pc, locals, push,
                 backend, complete, env, history>>

CallRescan(c) ==
  /\ cpc[c] = "idle"
  /\ cpc' = [cpc EXCEPT ![c] = "force"]
  /\ UNCHANGED <<locked, tokens, pc, locals, push, backend, complete, env, history>>

StoreRescan(c) ==
  /\ cpc[c] = "force"
  /\ forceScan' = TRUE
  /\ dirty' = TRUE
  /\ cpc' = [cpc EXCEPT ![c] = "token"]
  /\ UNCHANGED <<locked, wake, rescan, switchCh, switchNow, pc, locals, push,
                 backend, complete, env, stray>>

SendRescan(c) ==
  /\ cpc[c] = "token"
  /\ rescan' = TRUE
  /\ cpc' = [cpc EXCEPT ![c] = "idle"]
  /\ UNCHANGED <<locked, wake, switchCh, forceScan, switchNow, pc, locals, push,
                 backend, complete, env, history>>

-----------------------------------------------------------------------------
(* The world *)

\* The watched drop reaches its required minutes.
Earn ==
  /\ watch # None /\ current # None
  /\ complete' = complete \cup {current}
  /\ UNCHANGED <<locked, tokens, pc, locals, push, cpc, backend, env,
                 history>>

FlipWindow ==
  /\ HasWindow
  /\ inWindow' = ~inWindow
  /\ UNCHANGED <<locked, tokens, pc, locals, push, cpc, backend, complete,
                 ctxDone, history>>

Shutdown ==
  /\ ~ctxDone
  /\ ctxDone' = TRUE
  /\ UNCHANGED <<locked, tokens, pc, locals, push, cpc, backend, complete,
                 inWindow, history>>

-----------------------------------------------------------------------------
(* The next-state relation *)

Stopping == StopTake \/ StopBackend \/ Unsubscribe \/ Resume \/ Cleanup

Picking == PickScan \/ PickFail \/ PickPlan

Starting ==
  \/ ListLive \/ ListFail \/ ListNone
  \/ StartWatch \/ StartFail \/ Hold \/ Subscribe \/ Started

Ticking == Beat \/ Poll \/ DrainRescan \/ Rescan \/ Row

Waiting ==
  \/ WaitTimer \/ WaitSwitch \/ WaitWake \/ WaitDone
  \/ IdleTimer \/ IdleRescan \/ IdleForget \/ IdleSwitch \/ Idled

Run ==
  \/ TopExit \/ TopAsleep \/ TopAwake \/ Step
  \/ Picking \/ Starting \/ Ticking \/ Claim \/ Stopping \/ Panic
  \/ After \/ Waiting

Dispatch ==
  /\ HasPubSub
  /\ \/ \E d \in Drops : OnDropClaim(d)
     \/ \E ch \in Channels : OnStreamDown(ch)

HandlePush == PushTake \/ PushStop \/ PushUnsubscribe \/ PushWrite \/ PushWake

Call(c) ==
  \/ MineNow(c)
  \/ \E d \in Drops : Collected(c, d)
  \/ CallRescan(c)

Finish(c) == StoreSwitch(c) \/ SendSwitch(c) \/ StoreRescan(c) \/ SendRescan(c)

World == Earn \/ FlipWindow \/ Shutdown

Next ==
  \/ Run
  \/ Dispatch \/ HandlePush
  \/ \E c \in Callers : Call(c) \/ Finish(c)
  \/ World

Spec == Init /\ [][Next]_vars

\* The goroutines run on: a backend call answers or times out, a timer fires,
\* and a callback that has begun finishes.
FairSpec == Spec /\ WF_vars(Run) /\ WF_vars(HandlePush)

-----------------------------------------------------------------------------
(* Properties *)

Labels == {"top", "step", "pick", "plan", "list", "open", "hold", "subscribe",
           "started", "beat", "poll", "drain", "rescan", "row", "claim",
           "stopTake", "stopBackend", "unsubscribe", "resume", "after", "wait",
           "idle", "idleRescan", "idled", "returned"}
Returns == {"exit", "error", "switch", "sleep", "start", "swap", "skip",
            "finish", "panic"}

FlagsOK ==
  /\ wake \in BOOLEAN /\ rescan \in BOOLEAN /\ switchCh \in BOOLEAN
  /\ forceScan \in BOOLEAN /\ switchNow \in BOOLEAN
  /\ inWindow \in BOOLEAN /\ ctxDone \in BOOLEAN
  /\ dirty \in BOOLEAN /\ stray \in BOOLEAN

DataOK ==
  /\ state \in States
  /\ current \in Drops \cup {None} /\ pinned \in Drops \cup {None}
  /\ watch \in Channels \cup {None}
  /\ queue \subseteq Drops /\ noStream \subseteq Drops
  /\ pc \in Labels /\ ret \in Returns /\ seen \in States
  /\ target \in Drops \cup {None}
  /\ chan \in Channels \cup {None} /\ taken \in Channels \cup {None}
  /\ ppc \in {"idle", "take", "stop", "unsubscribe", "write", "wake"}
  /\ parg \in Channels \cup Drops \cup {None} /\ ptaken \in Channels \cup {None}
  /\ pnext \in {"claiming", "starting"}
  /\ cpc \in [Callers -> {"idle", "store", "send", "force", "token"}]
  /\ open \in [Channels -> Nat] /\ topics \subseteq Channels
  /\ complete \subseteq Drops

TypeOK == FlagsOK /\ DataOK

One(P) == IF P THEN 1 ELSE 0

\* Every handle the backend has open is the live watch, or is on its way to
\* being it, or was taken by exactly one goroutine that will stop it: two
\* stopWatch calls never stop one handle twice, and no start overwrites one.
HandlesAccounted ==
  \A ch \in Channels :
    open[ch] = One(watch = ch)
             + One(pc = "hold" /\ chan = ch)
             + One(pc = "stopBackend" /\ taken = ch)
             + One(ppc = "stop" /\ ptaken = ch)

\* Run never returns, on any path (shutdown, needs login, panic), with a watch
\* still live, and never picks with one.
NoWatchLeftBehind == pc \in {"returned", "pick", "plan", "idle"} => watch = None

\* "returning early when the state moves off st (a PubSub claim or stream-down
\* push)" (wait): while Run waits in st, a state that moved off it has a token
\* pending, or the push that moved it is about to send one.
PushWakesRun ==
  pc = "wait" /\ state # seen => wake \/ ppc = "wake"

Quiet == \A c \in Callers : cpc[c] = "idle"

\* "an idle wait ends at once, and a watch rescans on its next poll" (Rescan):
\* a Rescan no scan has followed holds its token while Run idles, and forces
\* the scan of the next poll while Run watches.
RescanWakes ==
  dirty /\ Quiet =>
    /\ pc = "idle" /\ seen # "sleep_window" => rescan
    /\ pc = "wait" /\ seen = "watching" => forceScan

\* A claim step works on a drop that is not complete only when Run made another
\* drop current between the check of the push that asked for the claim
\* (onDropClaim) and its setState: every other way into claiming, a push that
\* was not overtaken and the poll's row, is of the drop the step claims.
StrayClaims == pc = "claim" => target \in complete \/ stray

\* "Inside the sleep window it stops any watch" (sleepGate): once the window
\* holds for good, and the pushes of what happened before it are through, no
\* watch is live, whatever was being started or claimed.
SleepEndsWatch ==
  <>[]inWindow /\ <>[][~Dispatch]_vars => <>[](watch = None)

\* Run returns once its context ends, from every wait and every step.
ShutdownReturns == ctxDone ~> pc = "returned"

-----------------------------------------------------------------------------
(* What comments of the source say and the code does not do *)

\* "claim claims the completed current benefit" (claim.go).
ClaimOnlyComplete == pc = "claim" => target \in complete

\* stopWatch ends "the live watch, if any, its channel points and raid side
\* tasks and its channel subscription" (watch.go): with no start or stop under
\* way, the subscribed channel is the watched one.
NoWatchMoving ==
  /\ pc \notin {"subscribe", "stopBackend", "unsubscribe"}
  /\ ppc \notin {"stop", "unsubscribe"}
TopicsFollowWatch == NoWatchMoving => topics = {watch} \ {None}

\* onStreamDown "swaps channel at once when the watched stream ends"
\* (pubsub.go): the watch it stops is of the channel that ended.
StreamDownStopsItsOwn == ppc = "stop" => ptaken = parg

\* "takes effect at once.  [...]  A claim in flight finishes first" (runner.go,
\* MineNow): a Mine now that returned is never left to a beat, a backoff or an
\* idle wait that ends by itself, but for a wait with a claim in flight.
SwitchWakes ==
  switchNow /\ Quiet /\ pc \in {"wait", "idle"} /\ seen # "claiming" => switchCh

\* "ErrNotRunning means the account has no running runner to switch"
\* (runner.go): MineNow never goes through to a runner that has returned, but for
\* one the pool is replacing, after a shutdown or a panic.
MineNowNeedsRunner ==
  [][\A c \in Callers :
       MineNow(c) => pc # "returned" \/ ctxDone \/ ret = "panic"]_vars

=============================================================================
