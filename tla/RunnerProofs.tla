---------------------------- MODULE RunnerProofs ----------------------------
(***************************************************************************)
(* Runner, for any drops, channels and callers: types, the accounting of   *)
(* the backend's handles, no watch outliving Run, the wake-up of a wait by *)
(* a push, a rescan or a switch, and one claim of a drop at a time.        *)
(*                                                                         *)
(* HandlesAccounted is inductive only with the places where no watch is    *)
(* live (Unwatched): StartWatch's handle becomes the watch without a look  *)
(* at the one it replaces.  Unwatched in turn rests on the states a live   *)
(* watch allows (WatchStates), for Run leaves for pick, for an idle wait   *)
(* or for good on the state alone.                                         *)
(***************************************************************************)
EXTENDS Runner, TLAPS

Unwatched ==
  pc \in {"pick", "plan", "list", "open", "hold", "stopBackend", "unsubscribe",
          "resume", "idle", "idleRescan", "idled", "returned"} => watch = None

WatchStates ==
  watch # None => \/ pc \in {"subscribe", "started"}
                  \/ state \in {"starting", "watching", "claiming"}

Opening ==
  /\ pc \in {"open", "hold", "subscribe"} => chan \in Channels
  /\ pc = "stopBackend" => taken \in Channels
  /\ ppc = "stop" => ptaken \in Channels

Targeted ==
  \/ pc \in {"list", "beat", "poll", "drain", "rescan", "row", "claim"}
  \/ /\ pc \in {"stopTake", "stopBackend", "unsubscribe", "resume"}
     /\ ret \in {"start", "swap", "skip", "finish"}
  => target \in Drops

Shape ==
  /\ DataOK
  /\ Unwatched
  /\ WatchStates
  /\ Opening
  /\ Targeted
  /\ HandlesAccounted
  /\ PushWakesRun

IInv == FlagsOK /\ Shape

\* The initial states satisfy the invariant.
LEMMA InitInv == Init => IInv
<1> SUFFICES ASSUME Init PROVE IInv
  OBVIOUS
<1>1. FlagsOK
  BY Zenon DEF Init, FlagsOK
<1>2. DataOK
  BY RunnerAssumption DEF Init, DataOK, Returns, Labels, States, Idle, Stopped
<1>3. Unwatched /\ WatchStates /\ Opening /\ Targeted /\ PushWakesRun
  BY DEF Init, Unwatched, WatchStates, Opening, Targeted, PushWakesRun
<1>4. HandlesAccounted
  BY RunnerAssumption DEF Init, HandlesAccounted, One
<1> QED
  BY <1>1, <1>2, <1>3, <1>4 DEF IInv, Shape

\* Every step keeps the flags Boolean.  Apart from the rest, for it is a
\* matter of propositions.
LEMMA FlagsKept == FlagsOK /\ [Next]_vars => FlagsOK'
<1> SUFFICES ASSUME FlagsOK, [Next]_vars PROVE FlagsOK'
  OBVIOUS
<1> USE DEF FlagsOK, SetState, StepError, CallStop, locked, tokens, locals,
            push, backend, env, history, KeepState
<1>1. CASE TopExit \/ TopAsleep \/ TopAwake \/ Step
  <2>1. CASE TopExit
    BY <2>1, Zenon DEF TopExit
  <2>2. CASE TopAsleep
    BY <2>2, Zenon DEF TopAsleep, ExitNow
  <2>3. CASE TopAwake
    BY <2>3, Zenon DEF TopAwake, ExitNow
  <2>4. CASE Step
    BY <2>4, Zenon DEF Step
  <2> QED
    BY <1>1, <2>1, <2>2, <2>3, <2>4
<1>2. CASE Picking
  <2>1. CASE PickScan
    BY <2>1, Zenon DEF PickScan, Scan
  <2>2. CASE PickFail
    BY <2>2, Zenon DEF PickFail
  <2>3. CASE PickPlan
    BY <2>3, Zenon DEF PickPlan, PickNext
  <2> QED
    BY <1>2, <2>1, <2>2, <2>3 DEF Picking
<1>3. CASE Starting
  <2>1. CASE ListLive
    BY <2>1, Zenon DEF ListLive
  <2>2. CASE ListFail
    BY <2>2, Zenon DEF ListFail
  <2>3. CASE ListNone
    BY <2>3, Zenon DEF ListNone
  <2>4. CASE StartWatch
    BY <2>4, Zenon DEF StartWatch
  <2>5. CASE StartFail
    BY <2>5, Zenon DEF StartFail
  <2>6. CASE Hold
    BY <2>6, Zenon DEF Hold
  <2>7. CASE Subscribe
    BY <2>7, Zenon DEF Subscribe
  <2>8. CASE Started
    BY <2>8, Zenon DEF Started
  <2> QED
    BY <1>3, <2>1, <2>2, <2>3, <2>4, <2>5, <2>6, <2>7, <2>8 DEF Starting
<1>4. CASE Ticking
  <2>1. CASE Beat
    BY <2>1, Zenon DEF Beat
  <2>2. CASE Poll
    BY <2>2, Zenon DEF Poll
  <2>3. CASE DrainRescan
    BY <2>3, Zenon DEF DrainRescan
  <2>4. CASE Rescan
    BY <2>4, Zenon DEF Rescan, Scan
  <2>5. CASE Row
    BY <2>5, Zenon DEF Row
  <2> QED
    BY <1>4, <2>1, <2>2, <2>3, <2>4, <2>5 DEF Ticking
<1>5. CASE Claim \/ Panic \/ Stopping
  <2>1. CASE Claim
    BY <2>1, Zenon DEF Claim
  <2>2. CASE Panic
    BY <2>2, Zenon DEF Panic
  <2>3. CASE StopTake
    BY <2>3, Zenon DEF StopTake
  <2>4. CASE StopBackend
    BY <2>4, Zenon DEF StopBackend
  <2>5. CASE Unsubscribe
    BY <2>5, Zenon DEF Unsubscribe
  <2>6. CASE Resume
    BY <2>6, Zenon DEF Resume
  <2>7. CASE Cleanup
    BY <2>7, Zenon DEF Cleanup
  <2> QED
    BY <1>5, <2>1, <2>2, <2>3, <2>4, <2>5, <2>6, <2>7 DEF Stopping
<1>6. CASE After \/ Waiting
  <2>1. CASE After
    BY <2>1, Zenon DEF After
  <2>2. CASE WaitTimer
    BY <2>2, Zenon DEF WaitTimer
  <2>3. CASE WaitSwitch
    BY <2>3, Zenon DEF WaitSwitch
  <2>4. CASE WaitWake
    BY <2>4, Zenon DEF WaitWake
  <2>5. CASE WaitDone
    BY <2>5, Zenon DEF WaitDone
  <2>6. CASE IdleTimer
    BY <2>6, Zenon DEF IdleTimer
  <2>7. CASE IdleRescan
    BY <2>7, Zenon DEF IdleRescan
  <2>8. CASE IdleForget
    BY <2>8, Zenon DEF IdleForget
  <2>9. CASE IdleSwitch
    BY <2>9, Zenon DEF IdleSwitch
  <2>10. CASE Idled
    BY <2>10, Zenon DEF Idled
  <2> QED
    BY <1>6, <2>1, <2>2, <2>3, <2>4, <2>5, <2>6, <2>7, <2>8, <2>9, <2>10 DEF Waiting
<1>7. CASE Dispatch
  <2>1. CASE \E d \in Drops : OnDropClaim(d)
    BY <2>1, Zenon DEF OnDropClaim
  <2>2. CASE \E ch \in Channels : OnStreamDown(ch)
    BY <2>2, Zenon DEF OnStreamDown
  <2> QED
    BY <1>7, <2>1, <2>2 DEF Dispatch
<1>8. CASE HandlePush
  <2>1. CASE PushTake
    BY <2>1, Zenon DEF PushTake
  <2>2. CASE PushStop
    BY <2>2, Zenon DEF PushStop
  <2>3. CASE PushUnsubscribe
    BY <2>3, Zenon DEF PushUnsubscribe
  <2>4. CASE PushWrite
    BY <2>4, Zenon DEF PushWrite, Overtaken
  <2>5. CASE PushWake
    BY <2>5, Zenon DEF PushWake
  <2> QED
    BY <1>8, <2>1, <2>2, <2>3, <2>4, <2>5 DEF HandlePush
<1>9. ASSUME NEW c \in Callers, Call(c) \/ Finish(c) PROVE FlagsOK'
  <2>1. CASE MineNow(c) \/ CallRescan(c)
    BY <2>1, Zenon DEF MineNow, CallRescan
  <2>2. CASE \E d \in Drops : Collected(c, d)
    BY <2>2, Zenon DEF Collected
  <2>3. CASE StoreSwitch(c) \/ SendSwitch(c)
    BY <2>3, Zenon DEF StoreSwitch, SendSwitch
  <2>4. CASE StoreRescan(c) \/ SendRescan(c)
    BY <2>4, Zenon DEF StoreRescan, SendRescan
  <2> QED
    BY <1>9, <2>1, <2>2, <2>3, <2>4 DEF Call, Finish
<1>10. CASE World
  BY <1>10, Zenon DEF World, Earn, FlipWindow, Shutdown
<1>11. CASE UNCHANGED vars
  BY <1>11, Zenon DEF vars
<1> QED
  BY <1>1, <1>2, <1>3, <1>4, <1>5, <1>6, <1>7, <1>8, <1>9, <1>10, <1>11 DEF Next, Run

\* The top of the loop keeps the shape.
LEMMA TopKeeps ==
  ASSUME Shape, TopExit \/ TopAsleep \/ TopAwake \/ Step
  PROVE  Shape'
<1> USE RunnerAssumption
    DEF Shape, DataOK, Unwatched, WatchStates, Opening, Targeted,
        HandlesAccounted, PushWakesRun, One, Returns, Labels, States, Idle,
        Stopped, CallStop, StepError, SetState, locked, tokens, locals, push,
        backend, env, history, KeepState
<1>1. CASE TopExit
  BY <1>1 DEF TopExit, ExitNow
<1>2. CASE TopAsleep
  BY <1>2 DEF TopAsleep, GateHolds, Entering, ExitNow
<1>3. CASE TopAwake
  BY <1>3 DEF TopAwake, GateHolds, ExitNow
<1>4. CASE Step
  BY <1>4 DEF Step, Stale
<1> QED
  BY <1>1, <1>2, <1>3, <1>4

\* pick keeps the shape.
LEMMA PickingKeeps ==
  ASSUME Shape, PickScan \/ PickFail \/ PickPlan
  PROVE  Shape'
<1> USE RunnerAssumption
    DEF Shape, DataOK, Unwatched, WatchStates, Opening, Targeted,
        HandlesAccounted, PushWakesRun, One, Returns, Labels, States, Idle,
        Stopped, CallStop, StepError, SetState, locked, tokens, locals, push,
        backend, env, history, KeepState
<1>1. CASE PickScan
  BY <1>1 DEF PickScan, Scan
<1>2. CASE PickFail
  BY <1>2 DEF PickFail
<1>3. CASE PickPlan
  BY <1>3 DEF PickPlan, PickNext
<1> QED
  BY <1>1, <1>2, <1>3

\* start keeps the shape.
LEMMA StartingKeeps ==
  ASSUME Shape, ListLive \/ ListFail \/ ListNone \/ StartWatch \/ StartFail \/
                Hold \/ Subscribe \/ Started
  PROVE  Shape'
<1> USE RunnerAssumption
    DEF Shape, DataOK, Unwatched, WatchStates, Opening, Targeted,
        HandlesAccounted, PushWakesRun, One, Returns, Labels, States, Idle,
        Stopped, CallStop, StepError, SetState, locked, tokens, locals, push,
        backend, env, history, KeepState
<1>1. CASE ListLive
  BY <1>1 DEF ListLive
<1>2. CASE ListFail
  BY <1>2 DEF ListFail
<1>3. CASE ListNone
  BY <1>3 DEF ListNone, Untried, Unpin
<1>4. CASE StartWatch
  BY <1>4 DEF StartWatch
<1>5. CASE StartFail
  BY <1>5 DEF StartFail
<1>6. CASE Hold
  BY <1>6 DEF Hold
<1>7. CASE Subscribe
  BY <1>7 DEF Subscribe
<1>8. CASE Started
  BY <1>8 DEF Started
<1> QED
  BY <1>1, <1>2, <1>3, <1>4, <1>5, <1>6, <1>7, <1>8

\* tick keeps the shape.
LEMMA TickingKeeps ==
  ASSUME Shape, Beat \/ Poll \/ DrainRescan \/ Rescan \/ Row
  PROVE  Shape'
<1> USE RunnerAssumption
    DEF Shape, DataOK, Unwatched, WatchStates, Opening, Targeted,
        HandlesAccounted, PushWakesRun, One, Returns, Labels, States, Idle,
        Stopped, CallStop, StepError, SetState, locked, tokens, locals, push,
        backend, env, history, KeepState
<1>1. CASE Beat
  BY <1>1 DEF Beat
<1>2. CASE Poll
  BY <1>2 DEF Poll
<1>3. CASE DrainRescan
  BY <1>3 DEF DrainRescan
<1>4. CASE Rescan
  BY <1>4 DEF Rescan, Scan, MayPreempt
<1>5. CASE Row
  BY <1>5 DEF Row
<1> QED
  BY <1>1, <1>2, <1>3, <1>4, <1>5

\* claim, stopWatch and a panic keep the shape.
LEMMA StoppingKeeps ==
  ASSUME Shape, Claim \/ StopTake \/ StopBackend \/ Unsubscribe \/ Resume \/
                Cleanup \/ Panic
  PROVE  Shape'
<1> USE RunnerAssumption
    DEF Shape, DataOK, Unwatched, WatchStates, Opening, Targeted,
        HandlesAccounted, PushWakesRun, One, Returns, Labels, States, Idle,
        Stopped, CallStop, StepError, SetState, locked, tokens, locals, push,
        backend, env, history, KeepState
<1>1. CASE Claim
  BY <1>1 DEF Claim
<1>2. CASE StopTake
  BY <1>2 DEF StopTake
<1>3. CASE StopBackend
  BY <1>3 DEF StopBackend
<1>4. CASE Unsubscribe
  BY <1>4 DEF Unsubscribe
<1>5. CASE Resume
  BY <1>5 DEF Resume, Resumed, ResumeAt, GivesUp, Unpin
<1>6. CASE Cleanup
  BY <1>6 DEF Cleanup
<1>7. CASE Panic
  BY <1>7 DEF Panic
<1> QED
  BY <1>1, <1>2, <1>3, <1>4, <1>5, <1>6, <1>7

\* The waits keep the shape.
LEMMA WaitingKeeps ==
  ASSUME Shape, After \/ WaitTimer \/ WaitSwitch \/ WaitWake \/ WaitDone \/
                IdleTimer \/ IdleRescan \/ IdleForget \/ IdleSwitch \/ Idled
  PROVE  Shape'
<1> USE RunnerAssumption
    DEF Shape, DataOK, Unwatched, WatchStates, Opening, Targeted,
        HandlesAccounted, PushWakesRun, One, Returns, Labels, States, Idle,
        Stopped, CallStop, StepError, SetState, locked, tokens, locals, push,
        backend, env, history, KeepState
<1>1. CASE After
  BY <1>1 DEF After
<1>2. CASE WaitTimer
  BY <1>2 DEF WaitTimer
<1>3. CASE WaitSwitch
  BY <1>3 DEF WaitSwitch
<1>4. CASE WaitWake
  BY <1>4 DEF WaitWake
<1>5. CASE WaitDone
  BY <1>5 DEF WaitDone
<1>6. CASE IdleTimer
  BY <1>6 DEF IdleTimer
<1>7. CASE IdleRescan
  BY <1>7 DEF IdleRescan
<1>8. CASE IdleForget
  BY <1>8 DEF IdleForget
<1>9. CASE IdleSwitch
  BY <1>9 DEF IdleSwitch
<1>10. CASE Idled
  BY <1>10 DEF Idled
<1> QED
  BY <1>1, <1>2, <1>3, <1>4, <1>5, <1>6, <1>7, <1>8, <1>9, <1>10

\* A drop-claim push that begins keeps the shape.
LEMMA DropClaimKeeps ==
  ASSUME Shape, NEW d \in Drops, OnDropClaim(d)
  PROVE  Shape'
<1> USE RunnerAssumption
    DEF Shape, DataOK, Unwatched, WatchStates, Opening, Targeted,
        HandlesAccounted, PushWakesRun, One, Returns, Labels, States, Idle,
        Stopped, CallStop, StepError, SetState, locked, tokens, locals, push,
        backend, env, history, KeepState
<1> QED BY DEF OnDropClaim

\* A stream-down push that begins keeps the shape.
LEMMA StreamDownKeeps ==
  ASSUME Shape, NEW ch \in Channels, OnStreamDown(ch)
  PROVE  Shape'
<1> USE RunnerAssumption
    DEF Shape, DataOK, Unwatched, WatchStates, Opening, Targeted,
        HandlesAccounted, PushWakesRun, One, Returns, Labels, States, Idle,
        Stopped, CallStop, StepError, SetState, locked, tokens, locals, push,
        backend, env, history, KeepState
<1> QED BY DEF OnStreamDown

\* A push under way keeps the shape.
LEMMA PushingKeeps ==
  ASSUME Shape, PushTake \/ PushStop \/ PushUnsubscribe \/ PushWrite \/
                PushWake
  PROVE  Shape'
<1> USE RunnerAssumption
    DEF Shape, DataOK, Unwatched, WatchStates, Opening, Targeted,
        HandlesAccounted, PushWakesRun, One, Returns, Labels, States, Idle,
        Stopped, CallStop, StepError, SetState, locked, tokens, locals, push,
        backend, env, history, KeepState
<1>1. CASE PushTake
  BY <1>1 DEF PushTake
<1>2. CASE PushStop
  BY <1>2 DEF PushStop
<1>3. CASE PushUnsubscribe
  BY <1>3 DEF PushUnsubscribe
<1>4. CASE PushWrite
  BY <1>4 DEF PushWrite, Overtaken
<1>5. CASE PushWake
  BY <1>5 DEF PushWake
<1> QED
  BY <1>1, <1>2, <1>3, <1>4, <1>5

\* Collected keeps the shape.
LEMMA CollectedKeeps ==
  ASSUME Shape, NEW c \in Callers, NEW d \in Drops, Collected(c, d)
  PROVE  Shape'
<1> USE RunnerAssumption
    DEF Shape, DataOK, Unwatched, WatchStates, Opening, Targeted,
        HandlesAccounted, PushWakesRun, One, Returns, Labels, States, Idle,
        Stopped, CallStop, StepError, SetState, locked, tokens, locals, push,
        backend, env, history, KeepState
<1> QED BY DEF Collected, Unpin

\* The other callers keep the shape.
LEMMA CallingKeeps ==
  ASSUME Shape, NEW c \in Callers,
         MineNow(c) \/ CallRescan(c) \/ StoreSwitch(c) \/ SendSwitch(c) \/
         StoreRescan(c) \/ SendRescan(c)
  PROVE  Shape'
<1> USE RunnerAssumption
    DEF Shape, DataOK, Unwatched, WatchStates, Opening, Targeted,
        HandlesAccounted, PushWakesRun, One, Returns, Labels, States, Idle,
        Stopped, CallStop, StepError, SetState, locked, tokens, locals, push,
        backend, env, history, KeepState
<1>1. CASE MineNow(c)
  BY <1>1 DEF MineNow
<1>2. CASE CallRescan(c)
  BY <1>2 DEF CallRescan
<1>3. CASE StoreSwitch(c)
  BY <1>3 DEF StoreSwitch
<1>4. CASE SendSwitch(c)
  BY <1>4 DEF SendSwitch
<1>5. CASE StoreRescan(c)
  BY <1>5 DEF StoreRescan
<1>6. CASE SendRescan(c)
  BY <1>6 DEF SendRescan
<1> QED
  BY <1>1, <1>2, <1>3, <1>4, <1>5, <1>6

\* The world keeps the shape.
LEMMA WorldKeeps ==
  ASSUME Shape, Earn \/ FlipWindow \/ Shutdown
  PROVE  Shape'
<1> USE RunnerAssumption
    DEF Shape, DataOK, Unwatched, WatchStates, Opening, Targeted,
        HandlesAccounted, PushWakesRun, One, Returns, Labels, States, Idle,
        Stopped, CallStop, StepError, SetState, locked, tokens, locals, push,
        backend, env, history, KeepState
<1>1. CASE Earn
  BY <1>1 DEF Earn
<1>2. CASE FlipWindow
  BY <1>2 DEF FlipWindow
<1>3. CASE Shutdown
  BY <1>3 DEF Shutdown
<1> QED
  BY <1>1, <1>2, <1>3

-----------------------------------------------------------------------------

\* Every step keeps the invariant.
LEMMA NextInv == IInv /\ [Next]_vars => IInv'
<1> SUFFICES ASSUME Shape, [Next]_vars PROVE Shape'
  BY FlagsKept DEF IInv
<1>1. CASE Run
  BY <1>1, TopKeeps, PickingKeeps, StartingKeeps, TickingKeeps, StoppingKeeps,
     WaitingKeeps DEF Run, Picking, Starting, Ticking, Stopping, Waiting
<1>2. CASE Dispatch
  BY <1>2, DropClaimKeeps, StreamDownKeeps DEF Dispatch
<1>3. CASE HandlePush
  BY <1>3, PushingKeeps DEF HandlePush
<1>4. ASSUME NEW c \in Callers, Call(c) \/ Finish(c) PROVE Shape'
  <2>1. CASE \E d \in Drops : Collected(c, d)
    BY <2>1, CollectedKeeps
  <2>2. CASE MineNow(c) \/ CallRescan(c) \/ Finish(c)
    BY <2>2, CallingKeeps DEF Finish
  <2> QED
    BY <1>4, <2>1, <2>2 DEF Call
<1>5. CASE World
  BY <1>5, WorldKeeps DEF World
<1>6. CASE UNCHANGED vars
  BY <1>6 DEF vars, locked, tokens, locals, push, backend, env, history, KeepState, Shape,
     DataOK, Unwatched, WatchStates, Opening, Targeted, HandlesAccounted, One,
     PushWakesRun
<1> QED
  BY <1>1, <1>2, <1>3, <1>4, <1>5, <1>6 DEF Next

LEMMA Invariance == Spec => []IInv
BY InitInv, NextInv, PTL DEF Spec

\* Every variable keeps its type.
THEOREM TypeCorrect == Spec => []TypeOK
<1>1. IInv => TypeOK
  BY DEF IInv, Shape, TypeOK
<1> QED
  BY <1>1, Invariance, PTL

\* No handle is leaked, stopped twice or overwritten: each the backend has open
\* is accounted for by the watch or by the one goroutine opening or stopping it.
THEOREM HandlesHold == Spec => []HandlesAccounted
<1>1. IInv => HandlesAccounted
  BY DEF IInv, Shape
<1> QED
  BY <1>1, Invariance, PTL

\* No watch outlives Run, or is live while Run picks or idles.
THEOREM WatchEndsWithRun == Spec => []NoWatchLeftBehind
<1>1. IInv => NoWatchLeftBehind
  BY DEF IInv, Shape, Unwatched, NoWatchLeftBehind
<1> QED
  BY <1>1, Invariance, PTL

\* A push that moves the state under a wait has, or will have, a token in the
\* wake channel.
THEOREM PushesWake == Spec => []PushWakesRun
<1>1. IInv => PushWakesRun
  BY DEF IInv, Shape
<1> QED
  BY <1>1, Invariance, PTL

-----------------------------------------------------------------------------
(***************************************************************************)
(* StrayClaims.  The state is claiming only for a complete drop, or by an  *)
(* overtaken push, or where Run is on its way to set it anew (Restating):  *)
(* start moves on to another drop without a look at the state.  A tick     *)
(* works on the current drop (InTick), so its row claims that one.         *)
(***************************************************************************)
StopLabels == {"stopTake", "stopBackend", "unsubscribe", "resume"}

Restating ==
  \/ pc \in {"list", "open", "hold", "subscribe", "started", "returned"}
  \/ pc \in StopLabels /\ ret \in {"exit", "error", "panic"}

InTick == pc \in {"beat", "poll", "drain", "rescan", "row"}

ClaimWanted ==
  \/ state # "claiming" \/ Restating
  \/ current = None \/ current \in complete \/ stray

CInv ==
  /\ ppc \in {"take", "stop", "unsubscribe"} => pnext = "starting"
  /\ ppc = "write" /\ pnext = "claiming" => parg \in complete
  /\ InTick => target = current
  /\ ClaimWanted
  /\ StrayClaims

LEMMA NextClaim ==
  ASSUME DataOK, Targeted, CInv, [Next]_vars
  PROVE  CInv'
<1> USE RunnerAssumption
    DEF DataOK, Targeted, CInv, ClaimWanted, Restating, InTick, StrayClaims,
        StopLabels, CallStop, StepError, SetState, KeepState,
        locked, tokens, locals, push, backend, env, history
<1>1. CASE TopExit \/ TopAsleep \/ TopAwake
  BY <1>1 DEF TopExit, TopAsleep, TopAwake
<1>2. CASE Step
  BY <1>2 DEF Step, Idle, Stopped
<1>3. CASE Picking
  BY <1>3 DEF Picking, PickScan, PickFail, PickPlan, Scan, PickNext
<1>4. CASE ListNone
  BY <1>4 DEF ListNone, Untried
<1>5. CASE Starting /\ ~ListNone
  BY <1>5 DEF Starting, ListLive, ListFail, StartWatch, StartFail, Hold, Subscribe, Started
<1>6. CASE Ticking
  BY <1>6 DEF Ticking, Beat, Poll, DrainRescan, Rescan, Row, Scan
<1>7. CASE Claim \/ Panic
  BY <1>7 DEF Claim, Panic
<1>8. CASE StopTake \/ StopBackend \/ Unsubscribe \/ Cleanup
  BY <1>8 DEF StopTake, StopBackend, Unsubscribe, Cleanup
<1>9. CASE Resume
  BY <1>9 DEF Resume, Resumed, ResumeAt, GivesUp
<1>10. CASE After \/ Waiting
  BY <1>10 DEF Waiting, After, WaitTimer, WaitSwitch, WaitWake, WaitDone,
     IdleTimer, IdleRescan, IdleForget, IdleSwitch, Idled
<1>11. CASE Dispatch \/ HandlePush \/ World
  <2>1. CASE Dispatch
    BY <2>1 DEF Dispatch, OnDropClaim, OnStreamDown
  <2>2. CASE PushTake \/ PushStop \/ PushUnsubscribe \/ PushWake
    BY <2>2 DEF PushTake, PushStop, PushUnsubscribe, PushWake
  <2>3. CASE PushWrite
    BY <2>3 DEF PushWrite, Overtaken
  <2>4. CASE World
    BY <2>4 DEF World, Earn, FlipWindow, Shutdown
  <2> QED
    BY <1>11, <2>1, <2>2, <2>3, <2>4 DEF HandlePush
<1>12. ASSUME NEW c \in Callers, Call(c) \/ Finish(c) PROVE CInv'
  BY <1>12 DEF Call, MineNow, Collected, CallRescan, Finish, StoreSwitch, SendSwitch,
     StoreRescan, SendRescan
<1>13. CASE UNCHANGED vars
  BY <1>13 DEF vars
<1> QED
  BY <1>1, <1>2, <1>3, <1>4, <1>5, <1>6, <1>7, <1>8, <1>9, <1>10, <1>11, <1>12, <1>13
     DEF Next, Run, Stopping

\* A claim step works on an unfinished drop only by a push that was overtaken,
\* since Run last set the state, between its check and its setState.
THEOREM StrayClaimsHolds == Spec => []StrayClaims
<1>1. Init => CInv
  BY DEF Init, CInv, ClaimWanted, InTick, StrayClaims
<1>2. IInv /\ CInv /\ [Next]_vars => CInv'
  BY NextClaim DEF IInv, Shape
<1>3. CInv => StrayClaims
  BY DEF CInv
<1> QED
  BY <1>1, <1>2, <1>3, Invariance, PTL DEF Spec

-----------------------------------------------------------------------------
(***************************************************************************)
(* RescanWakes.  A Rescan no scan has followed holds its flag and its      *)
(* token, or its caller is about to send it, until Run is on its way to a  *)
(* scan: in a poll's rescan, or, with nothing current, to pick (Repick).   *)
(* A push cannot take Run off that way, for with nothing current each step *)
(* but pick fails, and Run picks after its backoff.                        *)
(***************************************************************************)
Leaving == pc = "returned" \/ (pc \in StopLabels /\ ret \in {"exit", "panic"})

NeverAsleep ==
  /\ ~inWindow /\ state # "sleep_window" /\ seen # "sleep_window"
  /\ pc \in StopLabels => ret # "sleep"

NothingIdle ==
  /\ pc = "list" \/ (pc \in StopLabels /\ ret = "start") => state \in {"starting", "claiming"}
  /\ state \in Idle \/ pc \in {"idle", "idleRescan", "idled"} => current = None

Repick ==
  /\ current = None
  /\ \/ pc \in {"idleRescan", "idled", "pick"}
     \/ pc \in {"top", "step"} /\ state \in {"picking", "starting", "claiming"}
     \/ pc \in StopLabels /\ ret \in {"switch", "error"}
     \/ pc = "wait" /\ seen = "picking" /\ state \in {"picking", "starting", "claiming"}

ScanComing == pc \in {"drain", "rescan"} \/ Repick \/ Leaving

RescanOwed ==
  dirty => /\ forceScan \/ ScanComing
           /\ rescan \/ (\E c \in Callers : cpc[c] = "token") \/ ScanComing

RInv == NeverAsleep /\ NothingIdle /\ RescanOwed

LEMMA NextRescan ==
  ASSUME DataOK, ~HasWindow, RInv, [Next]_vars
  PROVE  RInv'
<1> USE RunnerAssumption
    DEF DataOK, RInv, NeverAsleep, NothingIdle, RescanOwed, ScanComing, Repick, Leaving,
        StopLabels, Idle, Stopped, CallStop, StepError, SetState,
        locked, tokens, locals, push, backend, env, history, KeepState
<1>1. CASE TopExit \/ TopAsleep \/ TopAwake
  BY <1>1 DEF TopExit, TopAsleep, TopAwake, ExitNow, GateHolds
<1>2. CASE Step
  BY <1>2 DEF Step, Stale
<1>3. CASE Picking
  BY <1>3 DEF Picking, PickScan, PickFail, PickPlan, Scan, PickNext
<1>4. CASE ListNone
  BY <1>4 DEF ListNone, Untried
<1>5. CASE Starting /\ ~ListNone
  BY <1>5 DEF Starting, ListLive, ListFail, StartWatch, StartFail, Hold, Subscribe, Started
<1>6. CASE Ticking
  BY <1>6 DEF Ticking, Beat, Poll, DrainRescan, Rescan, Row, Scan
<1>7. CASE Claim \/ Panic
  BY <1>7 DEF Claim, Panic
<1>8. CASE StopTake \/ StopBackend \/ Unsubscribe \/ Cleanup
  BY <1>8 DEF StopTake, StopBackend, Unsubscribe, Cleanup
<1>9. CASE Resume
  BY <1>9 DEF Resume, Resumed, ResumeAt, GivesUp
<1>10. CASE After \/ Waiting
  BY <1>10 DEF Waiting, After, WaitTimer, WaitSwitch, WaitWake, WaitDone,
     IdleTimer, IdleRescan, IdleForget, IdleSwitch, Idled
<1>11. CASE Dispatch \/ HandlePush \/ World
  BY <1>11 DEF Dispatch, OnDropClaim, OnStreamDown, HandlePush, PushTake, PushStop,
     PushUnsubscribe, PushWrite, PushWake, World, Earn, FlipWindow, Shutdown
<1>12. ASSUME NEW c \in Callers, Call(c) \/ Finish(c) PROVE RInv'
  BY <1>12 DEF Call, MineNow, Collected, CallRescan, Finish, StoreSwitch, SendSwitch,
     StoreRescan, SendRescan
<1>13. CASE UNCHANGED vars
  BY <1>13 DEF vars
<1> QED
  BY <1>1, <1>2, <1>3, <1>4, <1>5, <1>6, <1>7, <1>8, <1>9, <1>10, <1>11, <1>12, <1>13
     DEF Next, Run, Stopping

\* Outside a sleep window, a Rescan that returned ends the idle wait or forces the
\* scan of the next poll, unless a scan followed it: no token or flag of it is
\* lost, whatever is pushed and however many requests race.
THEOREM RescanWakesHolds == ~HasWindow => (Spec => []RescanWakes)
<1> SUFFICES ASSUME ~HasWindow PROVE Spec => []RescanWakes
  OBVIOUS
<1>1. Init => RInv
  BY DEF Init, RInv, NeverAsleep, NothingIdle, RescanOwed, StopLabels, Idle
<1>2. IInv /\ RInv /\ [Next]_vars => RInv'
  BY NextRescan DEF IInv, Shape
<1>3. IInv /\ RInv => RescanWakes
  BY DEF IInv, Shape, DataOK, RInv, RescanOwed, ScanComing, Repick, Leaving, StopLabels,
         RescanWakes, Quiet
<1> QED
  BY <1>1, <1>2, <1>3, Invariance, PTL DEF Spec

-----------------------------------------------------------------------------
(***************************************************************************)
(* SwitchWakes.  A Mine now that is set holds its token, or its caller is  *)
(* about to send it, or Run has just taken the token and is on its way to  *)
(* the top, with no claim to finish first (SwitchOwed).                    *)
(***************************************************************************)
NoClaimWaits ==
  /\ pc \in {"beat", "poll", "drain", "rescan", "row"} => seen = "watching"
  /\ pc = "after" /\ state = "claiming" => seen # "claiming"
  /\ pc \in {"wait", "idle", "idleRescan", "idled"} => state # "claiming"

SwitchOwed ==
  switchNow => \/ switchCh \/ \E c \in Callers : cpc[c] = "send"
               \/ pc \in {"top", "idled"} /\ state # "claiming"
               \/ Leaving

SInv == ppc = "idle" /\ NoClaimWaits /\ SwitchOwed

LEMMA NextSwitch ==
  ASSUME DataOK, ~HasPubSub, SInv, [Next]_vars
  PROVE  SInv'
<1> USE RunnerAssumption
    DEF DataOK, SInv, NoClaimWaits, SwitchOwed, Leaving,
        StopLabels, Idle, Stopped, CallStop, StepError, SetState,
        locked, tokens, locals, push, backend, env, history, KeepState
<1>1. CASE TopExit \/ TopAsleep \/ TopAwake
  BY <1>1 DEF TopExit, TopAsleep, TopAwake, ExitNow, GateHolds
<1>2. CASE Step
  BY <1>2 DEF Step, Stale
<1>3. CASE Picking
  BY <1>3 DEF Picking, PickScan, PickFail, PickPlan, Scan, PickNext
<1>4. CASE Starting
  BY <1>4 DEF Starting, ListLive, ListFail, ListNone, StartWatch, StartFail, Hold,
     Subscribe, Started
<1>5. CASE Ticking
  BY <1>5 DEF Ticking, Beat, Poll, DrainRescan, Rescan, Row, Scan
<1>6. CASE Claim \/ Panic
  BY <1>6 DEF Claim, Panic
<1>7. CASE StopTake \/ StopBackend \/ Unsubscribe \/ Cleanup
  BY <1>7 DEF StopTake, StopBackend, Unsubscribe, Cleanup
<1>8. CASE Resume
  BY <1>8 DEF Resume, Resumed, ResumeAt, GivesUp
<1>9. CASE After \/ Waiting
  BY <1>9 DEF Waiting, After, WaitTimer, WaitSwitch, WaitWake, WaitDone,
     IdleTimer, IdleRescan, IdleForget, IdleSwitch, Idled
<1>10. CASE Dispatch \/ HandlePush
  BY <1>10 DEF Dispatch, HandlePush, PushTake, PushStop, PushUnsubscribe, PushWrite, PushWake
<1>11. CASE World
  BY <1>11 DEF World, Earn, FlipWindow, Shutdown
<1>12. ASSUME NEW c \in Callers, Call(c) \/ Finish(c) PROVE SInv'
  BY <1>12 DEF Call, MineNow, Collected, CallRescan, Finish, StoreSwitch, SendSwitch,
     StoreRescan, SendRescan
<1>13. CASE UNCHANGED vars
  BY <1>13 DEF vars
<1> QED
  BY <1>1, <1>2, <1>3, <1>4, <1>5, <1>6, <1>7, <1>8, <1>9, <1>10, <1>11, <1>12, <1>13
     DEF Next, Run, Stopping

\* Where the backend does not push, a Mine now that returned never waits for a
\* beat, a backoff or an idle wait to end by itself, but for a claim in flight.
THEOREM SwitchWakesHolds == ~HasPubSub => (Spec => []SwitchWakes)
<1> SUFFICES ASSUME ~HasPubSub PROVE Spec => []SwitchWakes
  OBVIOUS
<1>1. Init => SInv
  BY DEF Init, SInv, NoClaimWaits, SwitchOwed
<1>2. IInv /\ SInv /\ [Next]_vars => SInv'
  BY NextSwitch DEF IInv, Shape
<1>3. IInv /\ SInv => SwitchWakes
  BY DEF IInv, Shape, DataOK, SInv, SwitchOwed, Leaving, StopLabels, SwitchWakes, Quiet
<1> QED
  BY <1>1, <1>2, <1>3, Invariance, PTL DEF Spec

=============================================================================
