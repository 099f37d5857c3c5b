------------------------------ MODULE ForceList ------------------------------
(***************************************************************************)
(* The force-watch list: its cached copy (forceList, forceChanged of       *)
(* cmd/miner/roster.go), and the runners with nothing else to watch        *)
(* (internal/runner/force.go), which read it live and stop as no_games     *)
(* when they find no channel of theirs in it.                              *)
(*                                                                         *)
(* A list gives each account a set of channels; which of them are live,    *)
(* and so the best, is a choice.  The runners are in drops mode and have   *)
(* no games.  A runner's own waits and reads are steps, its watch calls    *)
(* are not; a rebuild waits for the old runner as the pool does (Pool).    *)
(***************************************************************************)
EXTENDS Naturals

CONSTANTS Accounts, Channels,
          Handlers,  \* requests that save the list
          None,
          Faults,    \* whether reads may fail
          MaxSaves   \* bound: the saves in a behaviour

ASSUME ForceAssumption ==
  /\ None \notin Accounts \cup Handlers \cup Channels \cup [Accounts -> SUBSET Channels]
  /\ Accounts \cap Handlers = {}
  /\ Faults \in BOOLEAN /\ MaxSaves \in Nat

VARIABLES
  table,    \* the saved list: the channels of each account
  cache,    \* forceCache: a list, or None
  forceMu,  \* who holds it
  state, at, chan,  \* of each runner: its State, where its goroutine is, its channel
  seen,     \* the channels its last read of the list found
  forceScan, rescan, \* Rescan's flag and token
  due,      \* forceCheckAt is zero: the next beat rechecks
  hat, snap, was, ids,  \* of each handler: where it is, its snapshots, the list it
                        \* replaced, the accounts it has to tell
  queue, wake, \* forceQueue
  pending,  \* the accounts runForceReloader took and has not rebuilt
  read,     \* of each runner and handler: the list its query returned
  saves,
  failed,   \* history: some read failed
  owed      \* history: accounts that got their first channel, in the table and
            \* after the cached list, when their runner had stopped

list == <<cache, forceMu, read>>
goroutine == <<state, at, chan, seen>>
signals == <<forceScan, rescan, due>>
handler == <<hat, snap, was, ids>>
reloader == <<queue, wake, pending>>
history == <<saves, failed, owed>>
vars == <<table, list, goroutine, signals, handler, reloader, history>>

States == {"picking", "sleeping", "force_watching", "no_games"}
Lists == [Accounts -> SUBSET Channels]
NoList == [a \in Accounts |-> {}]
NoSnap == [a \in Accounts |-> None]

Init ==
  /\ table \in Lists
  /\ cache = None /\ forceMu = None
  /\ state = [a \in Accounts |-> "picking"] /\ at = [a \in Accounts |-> "step"]
  /\ chan = [a \in Accounts |-> None] /\ seen = [a \in Accounts |-> {}]
  /\ forceScan = {} /\ rescan = {} /\ due = {}
  /\ hat = [h \in Handlers |-> "idle"] /\ snap = [h \in Handlers |-> NoSnap]
  /\ was = [h \in Handlers |-> NoList] /\ ids = [h \in Handlers |-> {}]
  /\ queue = {} /\ wake = FALSE /\ pending = {}
  /\ read = [p \in Accounts \cup Handlers |-> NoList]
  /\ saves = 0 /\ failed = FALSE /\ owed = {}

At(a, label) == at' = [at EXCEPT ![a] = label]
Move(a, s) == state' = [state EXCEPT ![a] = s]
HAt(h, label) == hat' = [hat EXCEPT ![h] = label]
HIdle(h) ==
  /\ HAt(h, "idle")
  /\ snap' = [snap EXCEPT ![h] = NoSnap]
  /\ was' = [was EXCEPT ![h] = NoList] /\ ids' = [ids EXCEPT ![h] = {}]

-----------------------------------------------------------------------------
(* forceList, read by the runner of a *)

\* Mutant of ReadList: a read does not take turns with forceChanged.
ReadListUnlocked(a) ==
  /\ at[a] = "list"
  /\ IF cache # None
     THEN /\ seen' = [seen EXCEPT ![a] = cache[a]] /\ At(a, "got")
          /\ UNCHANGED forceMu
     ELSE /\ forceMu' = a /\ At(a, "query") /\ UNCHANGED seen
  /\ UNCHANGED <<table, cache, read, state, chan, signals, handler, reloader, history>>

\* The cache answers; without one, the lock is taken and the store asked.
ReadList(a) ==
  /\ at[a] = "list"
  /\ \/ /\ cache # None
        /\ seen' = [seen EXCEPT ![a] = cache[a]]
        /\ At(a, "got")
        /\ UNCHANGED forceMu
     \/ /\ cache = None /\ forceMu = None
        /\ forceMu' = a
        /\ At(a, "query")
        /\ UNCHANGED seen
  /\ UNCHANGED <<table, cache, read, state, chan, signals, handler, reloader, history>>

Query(a) ==
  /\ at[a] = "query"
  /\ read' = [read EXCEPT ![a] = table]
  /\ At(a, "store")
  /\ UNCHANGED <<table, cache, forceMu, state, chan, seen, signals, handler, reloader,
                 history>>

\* "A failed read gives nil for that call and is not cached."
QueryFails(a) ==
  /\ Faults /\ at[a] = "query"
  /\ seen' = [seen EXCEPT ![a] = {}]
  /\ forceMu' = None
  /\ At(a, "got")
  /\ failed' = TRUE
  /\ UNCHANGED <<table, cache, read, state, chan, signals, handler, reloader, saves, owed>>

Store(a) ==
  /\ at[a] = "store"
  /\ cache' = read[a]
  /\ seen' = [seen EXCEPT ![a] = read[a][a]]
  /\ forceMu' = None
  /\ read' = [read EXCEPT ![a] = NoList]
  /\ At(a, "got")
  /\ UNCHANGED <<table, state, chan, signals, handler, reloader, history>>

-----------------------------------------------------------------------------
(* The runner; both steps of Rescan are one *)

Pick(a) ==
  /\ state[a] = "picking" /\ at[a] = "step"
  /\ At(a, "list")
  /\ UNCHANGED <<table, list, state, chan, seen, signals, handler, reloader, history>>

\* beginForce, which a move also ends in: the recheck is paced from now.
BeginForce(a, c) ==
  /\ Move(a, "force_watching") /\ chan' = [chan EXCEPT ![a] = c]
  /\ due' = due \ {a}
  /\ At(a, "wait")

PickForce(a) ==
  /\ state[a] = "picking" /\ at[a] = "got"
  /\ \E c \in seen[a] : BeginForce(a, c)
  /\ UNCHANGED <<table, list, seen, forceScan, rescan, handler, reloader, history>>

\* No channel is live, or none starts: sleep, or back off and pick again.
PickNone(a) ==
  /\ state[a] = "picking" /\ at[a] = "got" /\ seen[a] # {}
  /\ Move(a, "sleeping") \/ UNCHANGED state
  /\ At(a, "wait")
  /\ UNCHANGED <<table, list, chan, seen, signals, handler, reloader, history>>

PickNoGames(a) ==
  /\ state[a] = "picking" /\ at[a] = "got" /\ seen[a] = {}
  /\ Move(a, "no_games")
  /\ At(a, "list")
  /\ UNCHANGED <<table, list, chan, seen, signals, handler, reloader, history>>

\* Run re-picks when hasWorkWithoutGames finds a channel now, else it returns.
CheckWork(a) ==
  /\ state[a] = "no_games" /\ at[a] = "got"
  /\ \/ seen[a] # {} /\ Move(a, "picking") /\ At(a, "step")
     \/ seen[a] = {} /\ At(a, "exited") /\ UNCHANGED state
  /\ UNCHANGED <<table, list, chan, seen, signals, handler, reloader, history>>

\* waitIdle, and the backoff: the pace ends them, and a Rescan the first.
WakeIdle(a) ==
  /\ state[a] \in {"sleeping", "picking"} /\ at[a] = "wait"
  /\ \/ UNCHANGED <<rescan, forceScan>>
     \/ /\ state[a] = "sleeping" /\ a \in rescan
        /\ rescan' = rescan \ {a} /\ forceScan' = forceScan \ {a}
  /\ Move(a, "picking")
  /\ At(a, "step")
  /\ UNCHANGED <<table, list, chan, seen, due, handler, reloader, history>>

\* wait of a force watch, then forceTick: a Rescan rechecks now, a beat does when
\* the recheck is due, which time makes it too.
ForceTick(a) ==
  /\ state[a] = "force_watching" /\ at[a] = "wait"
  /\ \/ /\ a \in forceScan
        /\ forceScan' = forceScan \ {a} /\ rescan' = rescan \ {a}
     \/ /\ a \notin forceScan /\ UNCHANGED <<forceScan, rescan>>
  /\ due' = due \ {a}
  /\ At(a, "list")
  /\ UNCHANGED <<table, list, state, chan, seen, handler, reloader, history>>

\* forceRecheck, with the list: none is live, the best one is another, or it still is.
Recheck(a) ==
  /\ state[a] = "force_watching" /\ at[a] = "got"
  /\ \/ Move(a, "sleeping") /\ chan' = [chan EXCEPT ![a] = None] /\ At(a, "wait")
        /\ UNCHANGED due
     \/ \E c \in seen[a] \ {chan[a]} : BeginForce(a, c)
     \/ chan[a] \in seen[a] /\ At(a, "wait") /\ UNCHANGED <<state, chan, due>>
  /\ UNCHANGED <<table, list, seen, forceScan, rescan, handler, reloader, history>>

\* The move's start fails: Run backs off and picks.
MoveFails(a) ==
  /\ state[a] = "force_watching" /\ at[a] = "got" /\ seen[a] \ {chan[a]} # {}
  /\ Move(a, "picking") /\ chan' = [chan EXCEPT ![a] = None] /\ At(a, "wait")
  /\ UNCHANGED <<table, list, seen, signals, handler, reloader, history>>

-----------------------------------------------------------------------------
(* putForceWatch and forceChanged *)

Old == IF cache = None THEN NoList ELSE cache

Stopped(a) == state[a] = "no_games" /\ at[a] = "exited"

Save(h) ==
  /\ hat[h] = "idle" /\ saves < MaxSaves
  /\ saves' = saves + 1
  /\ table' \in Lists /\ table' # table
  /\ HAt(h, "snap")
  /\ owed' = {a \in Accounts : /\ table'[a] # {}
                               /\ \/ a \in owed
                                  \/ /\ table[a] = {} /\ Old[a] = {} /\ Stopped(a)
                                     /\ \A g \in Handlers :
                                          snap[g][a] \in {None, "no_games"}}
  /\ UNCHANGED <<list, goroutine, signals, snap, was, ids, reloader, failed>>

\* pool.Snapshots, one unit after the other.
Snapshot(h) ==
  /\ hat[h] = "snap"
  /\ \E a \in Accounts :
       /\ snap[h][a] = None
       /\ snap' = [snap EXCEPT ![h][a] = state[a]]
  /\ UNCHANGED <<table, list, goroutine, signals, hat, was, ids, reloader, history>>

LockChanged(h) ==
  /\ hat[h] = "snap" /\ \A a \in Accounts : snap[h][a] # None
  /\ forceMu = None
  /\ forceMu' = h
  /\ was' = [was EXCEPT ![h] = Old]
  /\ HAt(h, "query")
  /\ UNCHANGED <<table, cache, read, goroutine, signals, snap, ids, reloader, history>>

QueryChanged(h) ==
  /\ hat[h] = "query"
  /\ read' = [read EXCEPT ![h] = table]
  /\ HAt(h, "store")
  /\ UNCHANGED <<table, cache, forceMu, goroutine, signals, snap, was, ids, reloader,
                 history>>

ForceWatching(h) == {a \in Accounts : snap[h][a] = "force_watching"}

\* "Drop the cache so the next read tries again."
QueryChangedFails(h) ==
  /\ Faults /\ hat[h] = "query"
  /\ cache' = None /\ forceMu' = None
  /\ ids' = [ids EXCEPT ![h] = ForceWatching(h)]
  /\ HAt(h, "tell")
  /\ failed' = TRUE
  /\ UNCHANGED <<table, read, goroutine, signals, snap, was, reloader, saves, owed>>

\* Mutant of StoreChanged: who was added is not told.
StoreChangedRemoved(h) ==
  /\ hat[h] = "store"
  /\ cache' = read[h] /\ forceMu' = None
  /\ read' = [read EXCEPT ![h] = NoList]
  /\ ids' = [ids EXCEPT ![h] =
       ForceWatching(h) \cup {a \in Accounts : was[h][a] \ read[h][a] # {}}]
  /\ HAt(h, "tell")
  /\ UNCHANGED <<table, goroutine, signals, snap, was, reloader, history>>

\* forceMembers of the two lists, and who differs.
StoreChanged(h) ==
  /\ hat[h] = "store"
  /\ cache' = read[h] /\ forceMu' = None
  /\ read' = [read EXCEPT ![h] = NoList]
  /\ ids' = [ids EXCEPT ![h] =
       ForceWatching(h) \cup {a \in Accounts : was[h][a] # read[h][a]}]
  /\ HAt(h, "tell")
  /\ UNCHANGED <<table, goroutine, signals, snap, was, reloader, history>>

\* Runner.ForceListChanged.
Told(a) ==
  IF state[a] = "force_watching"
  THEN due' = due \cup {a} /\ UNCHANGED <<forceScan, rescan>>
  ELSE forceScan' = forceScan \cup {a} /\ rescan' = rescan \cup {a} /\ UNCHANGED due

Rebuilt(h) == {a \in ids[h] : snap[h][a] = "no_games"}

Tell(h) ==
  /\ hat[h] = "tell"
  /\ \E a \in ids[h] \ Rebuilt(h) :
       /\ Told(a)
       /\ ids' = [ids EXCEPT ![h] = @ \ {a}]
  /\ UNCHANGED <<table, list, goroutine, hat, snap, was, reloader, history>>

\* forceQueue.add.
Enqueue(h) ==
  /\ hat[h] = "tell" /\ ids[h] = Rebuilt(h)
  /\ queue' = queue \cup ids[h]
  /\ wake' = (wake \/ ids[h] # {})
  /\ HIdle(h)
  /\ UNCHANGED <<table, list, goroutine, signals, pending, history>>

-----------------------------------------------------------------------------
(* runForceReloader *)

Take ==
  /\ wake /\ pending = {}
  /\ wake' = FALSE
  /\ pending' = queue /\ queue' = {}
  /\ UNCHANGED <<table, list, goroutine, signals, handler, history>>

\* reloadAccount: a new runner, once the old one has exited.
Rebuild(a) ==
  /\ a \in pending /\ at[a] \notin {"query", "store"}
  /\ pending' = pending \ {a}
  /\ Move(a, "picking") /\ At(a, "step")
  /\ chan' = [chan EXCEPT ![a] = None] /\ seen' = [seen EXCEPT ![a] = {}]
  /\ forceScan' = forceScan \ {a} /\ rescan' = rescan \ {a} /\ due' = due \ {a}
  /\ owed' = owed \ {a}
  /\ UNCHANGED <<table, list, handler, queue, wake, saves, failed>>

\* The read of the account's row fails.
RebuildFails(a) ==
  /\ Faults /\ a \in pending
  /\ pending' = pending \ {a}
  /\ failed' = TRUE
  /\ UNCHANGED <<table, list, goroutine, signals, handler, queue, wake, saves, owed>>

-----------------------------------------------------------------------------
ForceList(a) == ReadList(a) \/ Query(a) \/ QueryFails(a) \/ Store(a)

Run(a) ==
  \/ ForceList(a)
  \/ Pick(a) \/ PickForce(a) \/ PickNone(a) \/ PickNoGames(a) \/ CheckWork(a)
  \/ WakeIdle(a) \/ ForceTick(a) \/ Recheck(a) \/ MoveFails(a)

ForceChanged(h) ==
  \/ Snapshot(h) \/ LockChanged(h) \/ QueryChanged(h) \/ QueryChangedFails(h)
  \/ StoreChanged(h) \/ Tell(h) \/ Enqueue(h)

Reloader == Take \/ \E a \in Accounts : Rebuild(a) \/ RebuildFails(a)

Next ==
  \/ \E a \in Accounts : Run(a)
  \/ \E h \in Handlers : Save(h) \/ ForceChanged(h)
  \/ Reloader

Spec == Init /\ [][Next]_vars

\* A wait ends, a call returns and a Go mutex is had.
FairSpec ==
  /\ Spec
  /\ \A a \in Accounts : SF_vars(Run(a))
  /\ \A h \in Handlers : SF_vars(ForceChanged(h))
  /\ SF_vars(Reloader)

-----------------------------------------------------------------------------
(* Properties *)

DataOK ==
  /\ table \in Lists /\ cache \in Lists \cup {None}
  /\ forceMu \in Accounts \cup Handlers \cup {None}
  /\ state \in [Accounts -> States]
  /\ at \in [Accounts -> {"step", "list", "query", "store", "got", "wait", "exited"}]
  /\ chan \in [Accounts -> Channels \cup {None}]
  /\ seen \in [Accounts -> SUBSET Channels]
  /\ forceScan \subseteq Accounts /\ rescan \subseteq Accounts /\ due \subseteq Accounts
  /\ hat \in [Handlers -> {"idle", "snap", "query", "store", "tell"}]
  /\ snap \in [Handlers -> [Accounts -> States \cup {None}]]
  /\ was \in [Handlers -> Lists] /\ ids \in [Handlers -> SUBSET Accounts]
  /\ queue \subseteq Accounts /\ pending \subseteq Accounts
  /\ read \in [Accounts \cup Handlers -> Lists]
  /\ saves \in 0 .. MaxSaves /\ owed \subseteq Accounts

TypeOK == DataOK /\ wake \in BOOLEAN /\ failed \in BOOLEAN

Quiet == \A h \in Handlers : hat[h] = "idle"

\* Outside a save the cached list is the saved one, whatever reads raced it:
\* forceMu "serializes list loads and change diffs".
CacheFollows == Quiet /\ cache # None => cache = table

\* A runner that had stopped as no_games on the list as it was cached, before any
\* change under way looked at it, is rebuilt when its account gets a channel, "so
\* it can start force watching".
StoppedIsRebuilt ==
  Quiet /\ ~failed => owed \subseteq queue \cup pending

\* A channel taken off an account's list is left, whatever reads fail.
RemovedIsLeft ==
  \A a \in Accounts :
    []<>(state[a] = "force_watching" => chan[a] \in table[a])

\* As the comment of forceChanged has it, of any stopped runner: broken by a
\* runner that stops after the snapshot.
NoneLeftStopped ==
  Quiet /\ ~failed =>
    \A a \in Accounts : Stopped(a) /\ table[a] # {} => a \in queue \cup pending

\* "An idle runner re-picks and a force-watching one rechecks at its next beat":
\* broken by an edit that meets the recheck of a force watch, which then sleeps or
\* moves on the list it had read, and on a move starts the pace of the rechecks anew.
EditReachesRunner ==
  Quiet /\ ~failed =>
    \A a \in Accounts :
      at[a] = "wait" /\ seen[a] # table[a] =>
        \/ state[a] = "picking"
        \/ a \in rescan \cup queue \cup pending
        \/ state[a] = "force_watching" /\ a \in due \cup forceScan

=============================================================================
