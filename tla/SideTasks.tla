------------------------------ MODULE SideTasks ------------------------------
(***************************************************************************)
(* The two side tasks of a runner's watch: the channel-points claimer, a    *)
(* goroutine of its own, and the raid task, a subscription and the joins    *)
(* announced raids schedule. The Run goroutine starts them with the watch   *)
(* and at every settings change; the Run goroutine and the PubSub goroutine *)
(* (a stream-down push) both end them.                                      *)
(* source: src/internal/runner/{points,raid,watch,pubsub}.go,               *)
(*         src/internal/platform/twitch/{pubsub,community_points}.go        *)
(***************************************************************************)
EXTENDS Naturals, FiniteSets

CONSTANTS Channels, Raids, NoOne,
          PointsTasks, RaidTasks, \* identities of the tasks alive at once
          Toggles                 \* bound: settings changes

VARIABLES watched,    \* r.handle and r.stream: the channel, or no watch
          points, raids, \* r.points, r.raids
          pt, rt,     \* the tasks
          topicsOn,   \* raid topics the client listens to
          raidSeen,   \* r.raidSeen; Twitch repeats no raid for an hour
          g,          \* the goroutines that start and stop
          pointsOn, follow, \* the settings
          toggles
svars == <<watched, points, raids, pt, rt, topicsOn, raidSeen, g, pointsOn, follow, toggles>>

Movers == {"run", "push"}
Over == [pc |-> "ended", ch |-> NoOne, cancelled |-> FALSE]
NoJoins == [r \in Raids |-> "none"]
RaidTask(c) == [ch |-> c, cancelled |-> FALSE, joins |-> NoJoins]
\* ch: the stream's channel as read before; p, w: tasks taken to stop, one after the other;
\* start: the task to start next; then: what follows
At(pc, ch, p, w, start, then) == [pc |-> pc, ch |-> ch, p |-> p, w |-> w, start |-> start, then |-> then]
Free == At("idle", NoOne, NoOne, NoOne, NoOne, "idle")
Init == /\ watched = NoOne /\ points = NoOne /\ raids = NoOne
        /\ pt = [p \in PointsTasks |-> Over] /\ rt = [w \in RaidTasks |-> RaidTask(NoOne)]
        /\ topicsOn = {} /\ raidSeen = {}
        /\ g = [u \in Movers |-> Free]
        /\ pointsOn \in BOOLEAN /\ follow \in BOOLEAN /\ toggles = 0

Goto(u, rec) == g' = [g EXCEPT ![u] = rec]
\* a goroutine done with its tasks goes on
Then(u) == Goto(u, IF g[u].then = "idle" THEN Free ELSE At(g[u].then, g[u].ch, NoOne, NoOne, NoOne, "idle"))
\* a task ended, that nobody names any more, stands for a new one
Done(w) == \A r \in Raids : rt[w].joins[r] = "none"
NewPt == {p \in PointsTasks : pt[p].pc = "ended" /\ p \notin {points, g["run"].p, g["push"].p}}
NewRt == {w \in RaidTasks : Done(w) /\ w \notin {raids, g["run"].w, g["push"].w}}
Settings == UNCHANGED <<pointsOn, follow, toggles>>
-----------------------------------------------------------------------------
(* The Run goroutine: a watch begins, its tasks after it, one after the other.*)
BeginWatch == /\ g["run"] = Free /\ watched = NoOne
              /\ \E c \in Channels : watched' = c /\ Goto("run", At("points", c, NoOne, NoOne, NoOne, "raids"))
              /\ UNCHANGED <<points, raids, pt, rt, topicsOn, raidSeen>> /\ Settings
HandleIgnored == TRUE \* mutant: a claimer starts whether the watch is live or not
\* under r.mu: a push may have stopped the watch since
HandleLive == watched # NoOne
StartPoints ==
  /\ g["run"].pc = "points"
  /\ IF pointsOn /\ HandleLive
     THEN \E p \in NewPt :
            /\ points' = p /\ pt' = [pt EXCEPT ![p] = [Over EXCEPT !.pc = "made", !.ch = g["run"].ch]]
            /\ Goto("run", [g["run"] EXCEPT !.pc = "cancel", !.p = points, !.start = p])
     ELSE Then("run") /\ UNCHANGED <<points, pt>>
  /\ UNCHANGED <<watched, raids, rt, topicsOn, raidSeen>> /\ Settings
StartRaids ==
  /\ g["run"].pc = "raids"
  /\ IF follow /\ watched = g["run"].ch
     THEN \E w \in NewRt : /\ raids' = w /\ rt' = [rt EXCEPT ![w] = RaidTask(watched)]
                          /\ Goto("run", [g["run"] EXCEPT !.pc = "cancel", !.w = raids, !.start = w])
     ELSE Then("run") /\ UNCHANGED <<raids, rt>>
  /\ UNCHANGED <<watched, points, pt, topicsOn, raidSeen>> /\ Settings
\* applyLive: each side task to the settings as they are now
SyncPoints ==
  /\ g["run"] = Free
  /\ \/ pointsOn /\ points = NoOne /\ watched # NoOne /\ UNCHANGED points
        /\ Goto("run", At("points", watched, NoOne, NoOne, NoOne, "idle"))
     \/ ~pointsOn /\ points # NoOne /\ points' = NoOne
        /\ Goto("run", At("cancel", watched, points, NoOne, NoOne, "idle"))
  /\ UNCHANGED <<watched, raids, pt, rt, topicsOn, raidSeen>> /\ Settings
SyncRaids ==
  /\ g["run"] = Free
  /\ \/ follow /\ raids = NoOne /\ watched # NoOne /\ UNCHANGED raids
        /\ Goto("run", At("raids", watched, NoOne, NoOne, NoOne, "idle"))
     \/ ~follow /\ raids # NoOne /\ raids' = NoOne
        /\ Goto("run", At("cancel", watched, NoOne, raids, NoOne, "idle"))
  /\ UNCHANGED <<watched, points, pt, rt, topicsOn, raidSeen>> /\ Settings
-----------------------------------------------------------------------------
(* stopWatch takes the tasks with the handle, then stops the claimer and,    *)
(* once that has returned, the raid task.                                    *)
StopWatch(u) == /\ watched' = NoOne /\ points' = NoOne /\ raids' = NoOne
                /\ Goto(u, At("cancel", NoOne, points, raids, NoOne, "idle"))
                /\ UNCHANGED <<pt, rt, topicsOn, raidSeen>> /\ Settings
EndWatch == g["run"] = Free /\ watched # NoOne /\ StopWatch("run")
Cancel(u) ==
  /\ g[u].pc = "cancel" /\ Goto(u, [g[u] EXCEPT !.pc = "wait"])
  /\ \/ g[u].p # NoOne /\ pt' = [pt EXCEPT ![g[u].p].cancelled = TRUE] /\ UNCHANGED rt
     \/ g[u].p = NoOne /\ g[u].w # NoOne /\ rt' = [rt EXCEPT ![g[u].w].cancelled = TRUE] /\ UNCHANGED pt
  /\ UNCHANGED <<watched, points, raids, topicsOn, raidSeen>> /\ Settings
\* stop returns: the claimer has, or the joins have; the raid topic goes
Waited(u) == IF g[u].p # NoOne THEN pt[g[u].p].pc = "ended" ELSE Done(g[u].w)
Wait(u) ==
  /\ g[u].pc = "wait" /\ Waited(u)
  /\ IF g[u].p # NoOne
     THEN Goto(u, [g[u] EXCEPT !.pc = "cancel", !.p = NoOne]) /\ UNCHANGED topicsOn
     ELSE Goto(u, [g[u] EXCEPT !.pc = "cancel", !.w = NoOne]) /\ topicsOn' = topicsOn \ {rt[g[u].w].ch}
  /\ UNCHANGED <<watched, points, raids, pt, rt, raidSeen>> /\ Settings
\* all it took has stopped: the new task starts, a claimer or the subscription to raids
Stopped(u) ==
  /\ g[u].pc = "cancel" /\ g[u].p = NoOne /\ g[u].w = NoOne /\ Then(u)
  /\ pt' = [p \in PointsTasks |-> IF p = g[u].start THEN [pt[p] EXCEPT !.pc = "claim"] ELSE pt[p]]
  /\ topicsOn' = topicsOn \union {rt[w].ch : w \in RaidTasks \intersect {g[u].start}}
  /\ UNCHANGED <<watched, points, raids, rt, raidSeen>> /\ Settings
-----------------------------------------------------------------------------
(* The claimer: a claim, then one every five minutes; a claim under way ends *)
(* with the task's context.                                                  *)
PointsLoop(p) == /\ pt[p].pc = "sleep"
                 /\ pt' = [pt EXCEPT ![p].pc = IF pt[p].cancelled THEN "ended" ELSE "claim"]
                 /\ UNCHANGED <<watched, points, raids, rt, topicsOn, raidSeen, g>> /\ Settings
ClaimPoints(p) == /\ pt[p].pc = "claim" /\ pt' = [pt EXCEPT ![p].pc = "sleep"]
                  /\ UNCHANGED <<watched, points, raids, rt, topicsOn, raidSeen, g>> /\ Settings

(* The pushes, one at a time. A raid counts when its channel announces it.   *)
RaidMessages == [type : {"raid_update_v2", "raid_go_v2"}, id : Raids, source : Channels \union {NoOne}]
DispatchRaid(c, m) == m.type = "raid_update_v2" /\ m.source \in {NoOne, c}
OnRaid(c, r) == /\ follow /\ raids # NoOne /\ r \notin raidSeen
                /\ rt[raids].ch = c /\ ~rt[raids].cancelled
                /\ raidSeen' = raidSeen \union {r}
                /\ rt' = [rt EXCEPT ![raids].joins[r] = "delay"]
                /\ UNCHANGED <<watched, points, raids, pt, topicsOn, g>> /\ Settings
RaidPush == /\ g["push"] = Free
            /\ \E c \in topicsOn : \E m \in RaidMessages : DispatchRaid(c, m) /\ OnRaid(c, m.id)
DispatchPlayback == g["push"] = Free /\ watched # NoOne /\ StopWatch("push")
Joins(w, r, st) == /\ rt' = [rt EXCEPT ![w].joins[r] = st]
                   /\ UNCHANGED <<watched, points, raids, pt, topicsOn, raidSeen, g>> /\ Settings
\* after its delay, only for the watch it was announced on
JoinRaid(w, r) ==
  \/ rt[w].joins[r] = "delay" /\ rt[w].cancelled /\ Joins(w, r, "none")
  \/ rt[w].joins[r] = "delay" /\ ~rt[w].cancelled
     /\ Joins(w, r, IF raids = w /\ watched = rt[w].ch /\ follow THEN "join" ELSE "none")
  \/ rt[w].joins[r] = "join" /\ Joins(w, r, "none")
Toggle == /\ toggles < Toggles /\ toggles' = toggles + 1
          /\ \/ pointsOn' = ~pointsOn /\ UNCHANGED follow
             \/ follow' = ~follow /\ UNCHANGED pointsOn
          /\ UNCHANGED <<watched, points, raids, pt, rt, topicsOn, raidSeen, g>>

Next == \/ BeginWatch \/ StartPoints \/ StartRaids \/ SyncPoints \/ SyncRaids \/ EndWatch
        \/ \E u \in Movers : Cancel(u) \/ Wait(u) \/ Stopped(u)
        \/ RaidPush \/ DispatchPlayback \/ Toggle
        \/ \E p \in PointsTasks : PointsLoop(p) \/ ClaimPoints(p)
        \/ \E w \in RaidTasks : \E r \in Raids : JoinRaid(w, r)
Spec == Init /\ [][Next]_svars
-----------------------------------------------------------------------------
TypeOK == /\ watched \in Channels \union {NoOne}
          /\ points \in PointsTasks \union {NoOne} /\ raids \in RaidTasks \union {NoOne}
          /\ \A p \in PointsTasks : pt[p].pc \in {"made", "claim", "sleep", "ended"}
          /\ topicsOn \subseteq Channels /\ raidSeen \subseteq Raids /\ toggles \in 0..Toggles

(* watch.go stopWatch "no task can start after this and outlive the watch",  *)
(* raid.go stop "cancels pending joins, waits for their goroutines": a claim   *)
(* or a join under way is of the task of the live watch, on its channel, or a  *)
(* goroutine is still stopping that task.                                      *)
Live(c) == watched # NoOne /\ watched = c
Stopping(t) == \E u \in Movers : t \in {g[u].p, g[u].w}
TasksOwned == /\ \A p \in PointsTasks : pt[p].pc \in {"claim", "sleep"} => (p = points /\ Live(pt[p].ch)) \/ Stopping(p)
              /\ \A w \in RaidTasks : ~Done(w) => (w = raids /\ Live(rt[w].ch)) \/ Stopping(w)

(* raid.go:91 "before the subscribe, so a same-channel prev cannot drop it": *)
(* the live task of an idle runner hears its channel's raids.                *)
RaidsHeard == raids # NoOne /\ g["run"] = Free => rt[raids].ch \in topicsOn
===============================================================================
