------------------------------- MODULE Roster -------------------------------
(***************************************************************************)
(* The roster (cmd/miner/roster.go) for one account: how a saved change of *)
(* its points mode, of its own game list, of the chosen games or of the    *)
(* names both lists share reaches its runner, and how that runner is       *)
(* rebuilt.  HTTP handlers, the games reloader and the restart of a        *)
(* panicked unit run at the same time: each statement on the database,     *)
(* each access to a guarded map and each channel operation is one step.    *)
(*                                                                         *)
(* A game list is a number, 0 the empty one; a save stores a list never    *)
(* stored before.  Building a session, waking a runner that is not stopped *)
(* and publishing events change nothing the properties tell apart.         *)
(***************************************************************************)
EXTENDS Naturals

CONSTANTS Callers,    \* handlers and callbacks that may run at the same time
          Reloader,   \* the goroutine of runGamesReloader
          Restarter,  \* the goroutine of the account's pool unit
          None,
          Forced,     \* the account has Force watch channels
          Deletes,    \* the account may be removed
          Faults,     \* a read of the database may fail
          Modes,      \* the points modes saved
          MaxEdits    \* bound: the saves of a behaviour

Procs == Callers \cup {Reloader, Restarter}

Rows == [exists : BOOLEAN, mode : Modes, own : BOOLEAN]

ASSUME RosterAssumption ==
  /\ Modes \subseteq {"off", "drops_points", "points_only"} /\ Modes # {}
  /\ None \notin Procs \cup Modes \cup Rows
  /\ {Reloader, Restarter} \cap Callers = {}
  /\ Reloader # Restarter
  /\ Forced \in BOOLEAN /\ Deletes \in BOOLEAN /\ Faults \in BOOLEAN
  /\ MaxEdits \in Nat

VARIABLES
  row,       \* the accounts row: whether it exists, its points mode, own_games
  lists,     \* the chosen list, the account's own, the names both share
  flags,     \* accountFlags.m: the mode the runner reads live, or None
  ver,       \* accountFlags.ver: the saved changes counted
  stale,     \* the account is in staleGames
  settling,  \* the settle timer runs
  dirty,     \* the token of gamesDirty
  all,       \* allGames
  unit,      \* the account's entry in the pool, with the row its builder captured
  reloadMu,  \* who holds Pool.reloadMu
  buildMu,   \* who holds Pool.buildMu
  pc,        \* where each process is
  seen,      \* the row it read and a builder captures; None with no builder
  saveVer,   \* the version its save bumped to
  every,     \* the games reload under way covers every account
  buildVer,  \* the build under way: the version it read,
  fresh,     \*   the row it goes by,
  built,     \*   the unit it made
  edits      \* saves so far

build == <<buildVer, fresh, built>>
locals == <<seen, saveVer, every, build>>
database == <<row, lists, edits>>
memory == <<flags, ver, stale>>
queue == <<settling, dirty, all>>
pool == <<unit, reloadMu, buildMu>>
vars == <<database, memory, queue, pool, pc, locals>>

On(mode) == mode # "off"

\* hasWorkWithoutGames, in a mode.
WorkWithoutGames(mode) == mode = "points_only" \/ (Forced /\ On(mode))

\* gamesFor: the account's own list while own_games is on, else the chosen one.
GamesFor(r) ==
  [list |-> IF r.own THEN lists.own ELSE lists.chosen, names |-> lists.names]

NewRunner(r, captured) ==
  [kind |-> "runner", mode |-> r.mode, games |-> GamesFor(r), st |-> "picking",
   cancelled |-> FALSE, row |-> captured]

\* Idle: a unit for an account that cannot run.
NewIdle(r, captured) ==
  [NewRunner(r, captured) EXCEPT !.kind = "idle", !.st = "idle"]

\* accountFlags.get, as the unit's runner reads it.
LiveMode == IF flags = None THEN unit.mode ELSE flags

\* The snapshot of a runner that stopped as no_games, about to return or not.
StoppedNoGames == unit.kind = "runner" /\ unit.st \in {"stopping", "returned"}

Init ==
  /\ row \in [exists : {TRUE}, mode : Modes, own : BOOLEAN]
  /\ lists = [chosen |-> 0, own |-> 0, names |-> 0]
  /\ flags = row.mode /\ ver = 0 /\ stale = FALSE
  /\ settling = FALSE /\ dirty = FALSE /\ all = FALSE
  /\ unit = NewRunner(row, row)
  /\ reloadMu = None /\ buildMu = None
  /\ pc = [p \in Procs |-> "idle"]
  /\ seen = [p \in Procs |-> None]
  /\ saveVer = [p \in Procs |-> 0]
  /\ every = FALSE
  /\ buildVer = 0 /\ fresh = None /\ built = None
  /\ edits = 0

At(p, label) == pc[p] = label
Go(p, label) == pc' = [pc EXCEPT ![p] = label]
See(p, r) == seen' = [seen EXCEPT ![p] = r]

-----------------------------------------------------------------------------
(* The saves: the write of a handler; what it does next runs before it      *)
(* answers.                                                                  *)

Save(p) == At(p, "idle") /\ edits < MaxEdits /\ edits' = edits + 1

SaveMode(p) ==
  /\ Save(p) /\ row.exists
  /\ \E m \in Modes : row' = [row EXCEPT !.mode = m]
  /\ Go(p, "bump")
  /\ UNCHANGED <<lists, memory, queue, pool, locals>>

\* The handler reads the list back for its answer first, and answers an error
\* when that fails.
Unanswered == Faults /\ UNCHANGED pc

SaveOwnGames(p) ==
  /\ Save(p) /\ row.exists
  /\ \E own \in BOOLEAN : row' = [row EXCEPT !.own = own]
  /\ lists' = [lists EXCEPT !.own = edits']
  /\ Go(p, "row") \/ Unanswered
  /\ UNCHANGED <<memory, queue, pool, locals>>

SaveChosen(p) ==
  /\ Save(p)
  /\ lists' = [lists EXCEPT !.chosen = edits']
  /\ Go(p, "settle") \/ Unanswered
  /\ UNCHANGED <<row, memory, queue, pool, locals>>

\* The collector saves a game's Twitch name.
SaveName(p) ==
  /\ Save(p)
  /\ lists' = [lists EXCEPT !.names = edits']
  /\ Go(p, "all")
  /\ UNCHANGED <<row, memory, queue, pool, locals>>

Delete(p) ==
  /\ Deletes /\ At(p, "idle") /\ row.exists
  /\ row' = [row EXCEPT !.exists = FALSE]
  /\ Go(p, "forget")
  /\ UNCHANGED <<lists, edits, memory, queue, pool, locals>>

\* A restart asked for, a login: reloadAccount alone.
Restart(p) ==
  /\ At(p, "idle") /\ row.exists
  /\ Go(p, "row")
  /\ UNCHANGED <<database, memory, queue, pool, locals>>

-----------------------------------------------------------------------------
(* The games reload *)

\* requestGamesReloadSoon restarts the timer, which then queues the reload.
Settle(p) ==
  /\ At(p, "settle")
  /\ settling' = TRUE
  /\ Go(p, "idle")
  /\ UNCHANGED <<database, memory, dirty, all, pool, locals>>

SettleFires ==
  /\ settling
  /\ settling' = FALSE /\ dirty' = TRUE
  /\ UNCHANGED <<database, memory, all, pool, pc, locals>>

\* requestAllGamesReload: the flag, then the token.
StoreAll(p) ==
  /\ At(p, "all")
  /\ all' = TRUE
  /\ Go(p, "token")
  /\ UNCHANGED <<database, memory, settling, dirty, pool, locals>>

SendDirty(p) ==
  /\ At(p, "token")
  /\ dirty' = TRUE
  /\ Go(p, "idle")
  /\ UNCHANGED <<database, memory, settling, all, pool, locals>>

TakeDirty ==
  /\ At(Reloader, "idle") /\ dirty
  /\ dirty' = FALSE
  /\ Go(Reloader, "swapAll")
  /\ UNCHANGED <<database, memory, settling, all, pool, locals>>

SwapAll(p) ==
  /\ At(p, "swapAll")
  /\ every' = all
  /\ all' = FALSE
  /\ Go(p, "list")
  /\ UNCHANGED <<database, memory, settling, dirty, pool, seen, saveVer, build>>

\* Accounts on their own list keep running; a points-only one is marked stale.
AfterList ==
  CASE ~row.exists \/ (row.own /\ ~every) -> "idle"
    [] row.mode = "points_only"           -> "mark"
    [] OTHER                              -> "row"

ListAccounts(p) ==
  /\ At(p, "list")
  /\ every' = FALSE
  /\ Go(p, AfterList) \/ (Faults /\ Go(p, "idle"))
  /\ UNCHANGED <<database, memory, queue, pool, seen, saveVer, build>>

Mark(p) ==
  /\ At(p, "mark")
  /\ stale' = TRUE
  /\ Go(p, "check")
  /\ UNCHANGED <<database, flags, ver, queue, pool, locals>>

\* Mutant of CheckMode: a marked account is always left running.
CheckModeNever(p) ==
  /\ At(p, "check")
  /\ Go(p, "idle")
  /\ UNCHANGED <<database, memory, queue, pool, locals>>

\* "Marked before this check: a save that left points only in between either
\* finds the mark or is seen here."
CheckMode(p) ==
  /\ At(p, "check")
  /\ Go(p, IF flags \in {"points_only", None} THEN "idle" ELSE "unmark")
  /\ UNCHANGED <<database, memory, queue, pool, locals>>

Unmark(p) ==
  /\ At(p, "unmark")
  /\ stale' = FALSE
  /\ Go(p, "row")
  /\ UNCHANGED <<database, flags, ver, queue, pool, locals>>

-----------------------------------------------------------------------------
(* accountSettingsChanged *)

Bump(p) ==
  /\ At(p, "bump")
  /\ ver' = ver + 1
  /\ saveVer' = [saveVer EXCEPT ![p] = ver']
  /\ Go(p, "get")
  /\ UNCHANGED <<database, flags, stale, queue, pool, seen, every, build>>

ReadSaved(p) ==
  /\ At(p, "get")
  /\ \/ row.exists /\ See(p, row) /\ Go(p, "set") /\ UNCHANGED saveVer
     \/ /\ Faults \/ ~row.exists
        /\ saveVer' = [saveVer EXCEPT ![p] = 0]
        /\ Go(p, "row")
        /\ UNCHANGED seen
  /\ UNCHANGED <<database, memory, queue, pool, every, build>>

\* Mutant of SetFlags: stored whatever was saved since.
SetAlways(r, v) == flags' = r.mode

\* accountFlags.set: stores r's flags unless a later save changed them.
SetFlags(r, v) == flags' = IF ver = v THEN r.mode ELSE flags

StoreSaved(p) ==
  /\ At(p, "set")
  /\ SetFlags(seen[p], saveVer[p])
  /\ saveVer' = [saveVer EXCEPT ![p] = 0]
  /\ Go(p, IF seen[p].mode # "points_only" THEN "leave" ELSE "snapshot")
  /\ UNCHANGED <<database, ver, stale, queue, pool, seen, every, build>>

\* Left points only after a games reload skipped it: rebuilt.
LeavePointsOnly(p) ==
  /\ At(p, "leave")
  /\ stale' = FALSE
  /\ Go(p, IF stale THEN "row" ELSE "snapshot")
  /\ UNCHANGED <<database, flags, ver, queue, pool, locals>>

\* A runner stopped as no_games is rebuilt when it has work now.  Any other is
\* woken, and reads its mode live.
CheckStopped(p) ==
  /\ At(p, "snapshot")
  /\ Go(p, IF StoppedNoGames /\ WorkWithoutGames(seen[p].mode) THEN "row" ELSE "idle")
  /\ See(p, None)
  /\ UNCHANGED <<database, memory, queue, pool, saveVer, every, build>>

-----------------------------------------------------------------------------
(* reloadAccount and accountRemoved, up to the pool *)

ReadRow(p) ==
  /\ At(p, "row")
  /\ \/ row.exists /\ See(p, row) /\ Go(p, "lock")
     \/ ~row.exists /\ See(p, None) /\ Go(p, "forget")
     \/ Faults /\ See(p, None) /\ Go(p, "idle")
  /\ UNCHANGED <<database, memory, queue, pool, saveVer, every, build>>

ForgetFlags(p) ==
  /\ At(p, "forget")
  /\ flags' = None /\ ver' = 0
  /\ Go(p, "forgetStale")
  /\ UNCHANGED <<database, stale, queue, pool, locals>>

ForgetStale(p) ==
  /\ At(p, "forgetStale")
  /\ stale' = FALSE
  /\ Go(p, "lock")
  /\ UNCHANGED <<database, flags, ver, queue, pool, locals>>

-----------------------------------------------------------------------------
(* Pool.ReloadAccount, Pool.restart and the builder both run *)

LockReload(p) ==
  /\ At(p, "lock") /\ reloadMu = None
  /\ reloadMu' = p
  /\ Go(p, "buildOne")
  /\ UNCHANGED <<database, memory, queue, unit, buildMu, locals>>

\* buildOne takes the lock of the builds, and a removal builds nothing.
LockBuild(p) ==
  /\ At(p, "buildOne") /\ buildMu = None
  /\ buildMu' = p
  /\ Go(p, IF seen[p] = None THEN "cancel" ELSE "version")
  /\ UNCHANGED <<database, memory, queue, unit, reloadMu, locals>>

\* A minute after a panic, unless the unit is being replaced, restart waits for
\* the lock, and looks once more whether it is.
WakeRestart ==
  /\ At(Restarter, "idle") /\ unit.st = "panicked" /\ ~unit.cancelled
  /\ Go(Restarter, "restart")
  /\ UNCHANGED <<database, memory, queue, pool, locals>>

LockRestart(p) ==
  /\ At(p, "restart") /\ buildMu = None
  /\ \/ unit.cancelled /\ Go(p, "idle") /\ UNCHANGED <<buildMu, seen>>
     \/ /\ ~unit.cancelled
        /\ buildMu' = p
        /\ See(p, unit.row)
        /\ Go(p, "version")
  /\ UNCHANGED <<database, memory, queue, unit, reloadMu, saveVer, every, build>>

ReadVersion(p) ==
  /\ At(p, "version")
  /\ buildVer' = ver
  /\ Go(p, "reread")
  /\ UNCHANGED <<database, memory, queue, pool, seen, saveVer, every, fresh, built>>

\* "the captured row is the fallback"
Reread(p) ==
  /\ At(p, "reread")
  /\ \/ row.exists /\ fresh' = row
     \/ (Faults \/ ~row.exists) /\ fresh' = seen[p]
  /\ Go(p, "store")
  /\ UNCHANGED <<database, memory, queue, pool, seen, saveVer, every, buildVer, built>>

StoreBuild(p) ==
  /\ At(p, "store")
  /\ SetFlags(fresh, buildVer)
  /\ Go(p, "session")
  /\ UNCHANGED <<database, ver, stale, queue, pool, locals>>

\* A paused account, or one whose session does not load, gets an idle unit; the
\* session of a removed account is gone.  Otherwise the mark is "cleared before
\* the read: a games change after it marks the account again".
LoadSession(p) ==
  /\ At(p, "session")
  /\ \/ row.exists /\ stale' = FALSE /\ Go(p, "games") /\ UNCHANGED built
     \/ built' = NewIdle(fresh, seen[p]) /\ Go(p, "cancel") /\ UNCHANGED stale
  /\ UNCHANGED <<database, flags, ver, queue, pool, seen, saveVer, every,
                 buildVer, fresh>>

ReadGames(p) ==
  /\ At(p, "games")
  /\ built' = NewRunner(fresh, seen[p])
  /\ Go(p, "cancel")
  /\ UNCHANGED <<database, memory, queue, pool, seen, saveVer, every,
                 buildVer, fresh>>

BuildDone == buildVer' = 0 /\ fresh' = None /\ built' = None

\* restart puts the unit in its slot.
Replace(p) ==
  /\ At(p, "cancel") /\ p = Restarter
  /\ unit' = built
  /\ buildMu' = None
  /\ BuildDone /\ See(p, None)
  /\ Go(p, "idle")
  /\ UNCHANGED <<database, memory, queue, reloadMu, saveVer, every>>

\* Mutant of Cancel: the old unit's exit is awaited under the lock of the builds.
CancelHolds(p) ==
  /\ At(p, "cancel") /\ p # Restarter /\ At(Restarter, "idle")
  /\ unit' = [unit EXCEPT !.cancelled = TRUE]
  /\ buildMu' = None
  /\ Go(p, "spawn")
  /\ UNCHANGED <<database, memory, queue, reloadMu, locals>>

\* buildOne cancels the old unit.
Cancel(p) ==
  /\ At(p, "cancel") /\ p # Restarter
  /\ unit' = [unit EXCEPT !.cancelled = TRUE]
  /\ buildMu' = None
  /\ Go(p, "spawn")
  /\ UNCHANGED <<database, memory, queue, reloadMu, locals>>

NoUnit == [unit EXCEPT !.kind = "none", !.st = "idle"]

\* The old unit has exited: the new one takes its place.
Spawn(p) ==
  /\ At(p, "spawn") /\ At(Restarter, "idle")
  /\ unit' = IF seen[p] = None THEN NoUnit ELSE built
  /\ reloadMu' = None
  /\ BuildDone /\ See(p, None)
  /\ Go(p, "idle")
  /\ UNCHANGED <<database, memory, queue, buildMu, saveVer, every>>

-----------------------------------------------------------------------------
(* The runner, as far as it stops for want of games *)

Move(from, to) ==
  /\ unit.kind = "runner" /\ unit.st = from
  /\ unit' = [unit EXCEPT !.st = to]
  /\ UNCHANGED <<database, memory, queue, reloadMu, buildMu, pc, locals>>

\* pick reads the mode, and goes by it.
Pick ==
  IF unit.games.list = 0 /\ ~WorkWithoutGames(LiveMode)
  THEN Move("picking", "empty") ELSE Move("picking", "busy")

\* It publishes the no_games state, then looks once more before it returns.
StopNoGames == Move("empty", "stopping")

\* Mutant of CheckWork: it returns without a look.
CheckNothing == Move("stopping", "returned")

CheckWork ==
  Move("stopping", IF WorkWithoutGames(LiveMode) THEN "picking" ELSE "returned")

\* A timer, a Rescan or a live settings change.
Repick == Move("busy", "picking")

Panic == \E st \in {"picking", "empty", "stopping", "busy"} : Move(st, "panicked")

-----------------------------------------------------------------------------
Call(p) ==
  SaveMode(p) \/ SaveOwnGames(p) \/ SaveChosen(p) \/ SaveName(p) \/ Delete(p)
    \/ Restart(p)

SettingsChanged(p) ==
  Bump(p) \/ ReadSaved(p) \/ StoreSaved(p) \/ LeavePointsOnly(p) \/ CheckStopped(p)

RequestGames(p) == Settle(p) \/ StoreAll(p) \/ SendDirty(p)

GamesChanged(p) ==
  SwapAll(p) \/ ListAccounts(p) \/ Mark(p) \/ CheckMode(p) \/ Unmark(p)

ReloadAccount(p) ==
  ReadRow(p) \/ ForgetFlags(p) \/ ForgetStale(p) \/ LockReload(p) \/ LockBuild(p)

Build(p) ==
  \/ LockRestart(p) \/ ReadVersion(p) \/ Reread(p) \/ StoreBuild(p) \/ LoadSession(p)
  \/ ReadGames(p) \/ Replace(p) \/ Cancel(p) \/ Spawn(p)

Step(p) ==
  \/ SettingsChanged(p) \/ RequestGames(p) \/ GamesChanged(p)
  \/ ReloadAccount(p) \/ Build(p)

Runner == Pick \/ StopNoGames \/ CheckWork \/ Repick \/ Panic

Next ==
  \/ \E p \in Callers : Call(p)
  \/ \E p \in Procs : Step(p)
  \/ SettleFires \/ TakeDirty \/ WakeRestart \/ Runner

Spec == Init /\ [][Next]_vars

\* A goroutine that can go on does, and a waiter for a Go mutex gets it.
FairSpec ==
  /\ Spec
  /\ \A p \in Procs : WF_vars(Step(p))
  /\ \A p \in Procs : SF_vars(LockReload(p)) /\ SF_vars(LockBuild(p))
  /\ SF_vars(LockRestart(Restarter))
  /\ WF_vars(SettleFires) /\ WF_vars(TakeDirty) /\ WF_vars(WakeRestart)

-----------------------------------------------------------------------------
(* Properties *)

Labels ==
  {"idle", "bump", "get", "set", "leave", "snapshot", "row", "forget",
   "forgetStale", "settle", "all", "token", "swapAll", "list", "mark", "check",
   "unmark", "restart", "lock", "buildOne", "version", "reread", "store", "session",
   "games", "cancel", "spawn"}

Units == [kind : {"none", "idle", "runner"}, mode : Modes,
          games : [list : Nat, names : Nat],
          st : {"idle", "picking", "empty", "stopping", "returned", "busy", "panicked"},
          cancelled : BOOLEAN, row : Rows]

DataOK ==
  /\ row \in Rows
  /\ lists \in [chosen : Nat, own : Nat, names : Nat]
  /\ flags \in Modes \cup {None} /\ ver \in Nat
  /\ unit \in Units
  /\ reloadMu \in Procs \cup {None} /\ buildMu \in Procs \cup {None}
  /\ pc \in [Procs -> Labels]
  /\ seen \in [Procs -> Rows \cup {None}] /\ saveVer \in [Procs -> Nat]
  /\ buildVer \in Nat
  /\ fresh \in Rows \cup {None} /\ built \in Units \cup {None}
  /\ edits \in Nat

FlagsOK ==
  /\ stale \in BOOLEAN /\ settling \in BOOLEAN /\ dirty \in BOOLEAN
  /\ all \in BOOLEAN /\ every \in BOOLEAN

TypeOK == DataOK /\ FlagsOK

Saving(p) == pc[p] \in {"bump", "get", "set"}

\* The mode the runner reads live is the saved one, whenever no save of it is
\* under way: neither two saves nor a build that read the row before a save can
\* leave an older one behind (accountFlags).
FlagsFollowRow ==
  row.exists /\ (\A p \in Procs : ~Saving(p)) => flags = row.mode

\* No reload is queued or running, and no handler is under way.
Quiet == ~settling /\ ~dirty /\ \A p \in Procs : At(p, "idle")

Live == unit.kind = "runner" /\ unit.st # "panicked" /\ row.exists

\* Once the roster is quiet, a runner that mines drops has the account's current
\* games: no save is missed by a reload that already read the lists, folded into
\* one that was running, or left with a stale mark nobody looks at (gamesChanged,
\* builder, accountSettingsChanged).
GamesApplied ==
  Quiet /\ Live /\ row.mode # "points_only" => unit.games = GamesFor(row)

\* Once the roster is quiet, a runner that returned as no_games has no work: the
\* change that gave it some found it stopped, or it found the change itself.
StoppedHasNoWork ==
  Quiet /\ Live /\ unit.st = "returned" => ~WorkWithoutGames(row.mode)

\* Once no handler starts any more, every reload that was queued or under way
\* comes to its end, however often the unit panics meanwhile: the reload of the
\* games, the rebuilds and the restarts never wait for each other for good.
SavesSettle == <>[][~\E p \in Callers : Call(p)]_vars => []<>Quiet

-----------------------------------------------------------------------------
(* What comments of the source say and the code does not do *)

\* "accountRemoved drops a deleted account's runner": the removal done, nothing
\* of the account is left in the pool.
RemovedIsGone == Quiet /\ ~row.exists => unit.kind = "none"

\* "a build whose row read began before one cannot overwrite the flags it stored"
\* (accountFlags): a build never undoes a save that is through.
BuildKeepsSaved ==
  [][\A p \in Procs :
       /\ StoreBuild(p) /\ row.exists /\ \A q \in Procs : ~Saving(q)
       /\ flags = row.mode
       => flags' = row.mode]_vars

\* "A failed row read rebuilds, so the change still applies."
FailedReadApplies == Quiet /\ row.exists => flags = row.mode

\* "own games list - rebuild - the game list is baked into the runner"
\* (accounts.go): a saved own list reaches the runner.
OwnListApplied ==
  Quiet /\ Live /\ row.mode # "points_only" /\ row.own
    => unit.games.list = lists.own

\* requestAllGamesReload "queues a games reload that also rebuilds accounts on
\* their own list, such as after a game's Twitch name changed".
NamesReachRunner ==
  Quiet /\ Live /\ row.mode # "points_only" => unit.games.names = lists.names
=============================================================================
