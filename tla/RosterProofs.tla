---------------------------- MODULE RosterProofs ----------------------------
(***************************************************************************)
(* Roster, for any number of handlers and saves: types, the flags a runner *)
(* reads live following the saved row, its games following the saved list, *)
(* and no work left to a unit of a stopped account.                        *)
(*                                                                         *)
(* FlagsFollowRow is not inductive.  While a save is under way the flags   *)
(* may be old, as long as some save will bring the row's mode to them      *)
(* (Carries); a save or a build about to store at the current version      *)
(* holds the row's mode, unless a later save has yet to bump (Carried).    *)
(* A build keeps its version and row in locals the lock of the builds      *)
(* guards, hence Locks and Captured.                                       *)
(*                                                                         *)
(* GamesApplied and StoppedHasNoWork rest on who owes the next rebuild: a  *)
(* handler past its save that has yet to read, or a token on its way       *)
(* (GamesDue, WorkDue).                                                    *)
(***************************************************************************)
EXTENDS Roster, TLAPS

Building == {"version", "reread", "store", "session", "games", "cancel"}
Pooling == Building \cup {"buildOne", "spawn"}

\* A build and a reload hold their locks, and no restart builds while a reload
\* waits for the unit to exit.
Locks ==
  /\ \A p \in Procs : pc[p] \in Building => buildMu = p
  /\ \A p \in Procs \ {Restarter} : pc[p] \in Pooling => reloadMu = p
  /\ \A p \in Procs \ {Restarter} : pc[p] # "restart"
  /\ pc[Restarter] \in {"idle", "restart"} \cup Building
  /\ \A p \in Procs :
       pc[p] = "spawn" => unit.cancelled /\ pc[Restarter] \notin Building

\* What a label says of the locals.
Captured ==
  /\ \A p \in Procs :
       pc[p] \in {"set", "leave", "snapshot", "version", "reread", "store",
                  "session", "games"} => seen[p] \in Rows
  /\ \A p \in Procs : pc[p] \in {"store", "session", "games"} => fresh \in Rows
  /\ \A p \in Procs :
       pc[p] \in {"cancel", "spawn"} /\ seen[p] # None => built \in Units
  /\ pc[Restarter] \in Building => seen[Restarter] # None

Shape == DataOK /\ Locks /\ Captured

Versions ==
  /\ \A p \in Procs : pc[p] \in {"get", "set"} => saveVer[p] =< ver
  /\ \A p \in Procs : pc[p] \in {"reread", "store"} => buildVer =< ver

\* A save that will bring the row's mode to the flags.
Carries(p) ==
  \/ pc[p] = "bump"
  \/ pc[p] = "get" /\ saveVer[p] = ver
  \/ pc[p] = "set" /\ saveVer[p] = ver /\ seen[p].mode = row.mode

Bumping == \E p \in Procs : pc[p] = "bump"

Carried ==
  /\ flags = row.mode \/ \E p \in Procs : Carries(p)
  /\ \A p \in Procs :
       pc[p] = "set" /\ saveVer[p] = ver => seen[p].mode = row.mode \/ Bumping
  /\ \A p \in Procs :
       pc[p] = "store" /\ buildVer = ver => fresh.mode = row.mode \/ Bumping

\* What the flags need, as long as the account exists.
Kept ==
  /\ \A p \in Procs : pc[p] \in {"forget", "forgetStale"} => ~row.exists
  /\ row.exists => Versions /\ Carried

-----------------------------------------------------------------------------
(* Rows and units *)

\* A row has one of the modes.
LEMMA RowFields == \A r \in Rows : r.mode \in Modes
  BY DEF Rows

\* A removed row is a row.
LEMMA RowGone == \A r \in Rows : [r EXCEPT !.exists = FALSE] \in Rows
  BY DEF Rows

\* A cancelled unit is a unit, and cancelled.
LEMMA UnitCancelled ==
  \A u \in Units : /\ [u EXCEPT !.cancelled = TRUE] \in Units
                   /\ [u EXCEPT !.cancelled = TRUE].cancelled
  BY DEF Units

\* So is a removed one.
LEMMA UnitGone ==
  \A u \in Units : [u EXCEPT !.kind = "none", !.st = "idle"] \in Units
  BY DEF Units

\* What a builder makes is a unit.
LEMMA UnitMade ==
  ASSUME NEW r \in Rows, NEW c \in Rows,
         lists \in [chosen : Nat, own : Nat, names : Nat]
  PROVE  NewRunner(r, c) \in Units /\ NewIdle(r, c) \in Units
<1>1. NewRunner(r, c) \in Units
  BY DEF Units, NewRunner, Rows, GamesFor
<1>2. NewIdle(r, c) \in Units
  BY <1>1 DEF Units, NewIdle
<1> QED
  BY <1>1, <1>2

-----------------------------------------------------------------------------
(* Types, locks and the locals of a build *)

\* The initial states have the shape.
LEMMA ShapeInit == Init => Shape
<1> SUFFICES ASSUME Init PROVE Shape
  OBVIOUS
<1> QED
  BY RosterAssumption DEF Init, Shape, DataOK, Locks, Captured, Procs, Labels,
     Units, Rows, NewRunner, GamesFor, Building, Pooling

\* Every step keeps it, one leaf per action.
LEMMA ShapeStep == Shape /\ [Next]_vars => Shape'
<1> SUFFICES ASSUME Shape, [Next]_vars PROVE Shape'
  OBVIOUS
<1> USE RosterAssumption DEF Shape, DataOK, Locks, Captured, Procs, Labels,
        Building, Pooling, database, memory, queue, pool, locals, build, At, Go, See
<1>1. ASSUME NEW p \in Callers, SaveMode(p) PROVE Shape'
  BY <1>1 DEF SaveMode, Save, Rows
<1>2. ASSUME NEW p \in Callers, SaveOwnGames(p) PROVE Shape'
  BY <1>2 DEF SaveOwnGames, Save, Rows, Unanswered
<1>3. ASSUME NEW p \in Callers, SaveChosen(p) PROVE Shape'
  BY <1>3 DEF SaveChosen, Save, Unanswered
<1>4. ASSUME NEW p \in Callers, SaveName(p) PROVE Shape'
  BY <1>4 DEF SaveName, Save
<1>5. ASSUME NEW p \in Callers, Delete(p) PROVE Shape'
  BY <1>5, RowGone DEF Delete
<1>6. ASSUME NEW p \in Callers, Restart(p) PROVE Shape'
  BY <1>6 DEF Restart
<1>7. ASSUME NEW p \in Procs, Bump(p) PROVE Shape'
  BY <1>7 DEF Bump
<1>8. ASSUME NEW p \in Procs, ReadSaved(p) PROVE Shape'
  BY <1>8 DEF ReadSaved
<1>9. ASSUME NEW p \in Procs, StoreSaved(p) PROVE Shape'
  BY <1>9, RowFields DEF StoreSaved, SetFlags
<1>10. ASSUME NEW p \in Procs, LeavePointsOnly(p) PROVE Shape'
  BY <1>10 DEF LeavePointsOnly
<1>11. ASSUME NEW p \in Procs, CheckStopped(p) PROVE Shape'
  BY <1>11 DEF CheckStopped, StoppedNoGames, WorkWithoutGames
<1>12. ASSUME NEW p \in Procs, Settle(p) PROVE Shape'
  BY <1>12 DEF Settle
<1>13. ASSUME NEW p \in Procs, StoreAll(p) PROVE Shape'
  BY <1>13 DEF StoreAll
<1>14. ASSUME NEW p \in Procs, SendDirty(p) PROVE Shape'
  BY <1>14 DEF SendDirty
<1>15. ASSUME NEW p \in Procs, SwapAll(p) PROVE Shape'
  BY <1>15 DEF SwapAll
<1>16. ASSUME NEW p \in Procs, ListAccounts(p) PROVE Shape'
  BY <1>16 DEF ListAccounts, AfterList
<1>17. ASSUME NEW p \in Procs, Mark(p) PROVE Shape'
  BY <1>17 DEF Mark
<1>18. ASSUME NEW p \in Procs, CheckMode(p) PROVE Shape'
  BY <1>18 DEF CheckMode
<1>19. ASSUME NEW p \in Procs, Unmark(p) PROVE Shape'
  BY <1>19 DEF Unmark
<1>20. ASSUME NEW p \in Procs, ReadRow(p) PROVE Shape'
  BY <1>20 DEF ReadRow
<1>21. ASSUME NEW p \in Procs, ForgetFlags(p) PROVE Shape'
  BY <1>21 DEF ForgetFlags
<1>22. ASSUME NEW p \in Procs, ForgetStale(p) PROVE Shape'
  BY <1>22 DEF ForgetStale
<1>23. ASSUME NEW p \in Procs, LockReload(p) PROVE Shape'
  BY <1>23 DEF LockReload
<1>24. ASSUME NEW p \in Procs, LockBuild(p) PROVE Shape'
  BY <1>24 DEF LockBuild
<1>25. ASSUME NEW p \in Procs, LockRestart(p) PROVE Shape'
  BY <1>25 DEF LockRestart, Units
<1>26. ASSUME NEW p \in Procs, ReadVersion(p) PROVE Shape'
  BY <1>26 DEF ReadVersion
<1>27. ASSUME NEW p \in Procs, Reread(p) PROVE Shape'
  BY <1>27 DEF Reread
<1>28. ASSUME NEW p \in Procs, StoreBuild(p) PROVE Shape'
  BY <1>28, RowFields DEF StoreBuild, SetFlags
<1>29. ASSUME NEW p \in Procs, LoadSession(p) PROVE Shape'
  BY <1>29, UnitMade DEF LoadSession
<1>30. ASSUME NEW p \in Procs, ReadGames(p) PROVE Shape'
  BY <1>30, UnitMade DEF ReadGames
<1>31. ASSUME NEW p \in Procs, Replace(p) PROVE Shape'
  BY <1>31 DEF Replace, BuildDone
<1>32. ASSUME NEW p \in Procs, Cancel(p) PROVE Shape'
  BY <1>32, UnitCancelled DEF Cancel
<1>33. ASSUME NEW p \in Procs, Spawn(p) PROVE Shape'
  BY <1>33, UnitGone DEF Spawn, BuildDone, NoUnit
<1>34. CASE SettleFires
  BY <1>34 DEF SettleFires
<1>35. CASE TakeDirty
  BY <1>35 DEF TakeDirty
<1>36. CASE WakeRestart
  BY <1>36 DEF WakeRestart
<1>37. CASE Pick
  BY <1>37 DEF Pick, Move, Units
<1>38. CASE StopNoGames
  BY <1>38 DEF StopNoGames, Move, Units
<1>39. CASE CheckWork
  BY <1>39 DEF CheckWork, Move, Units
<1>40. CASE Repick
  BY <1>40 DEF Repick, Move, Units
<1>41. CASE Panic
  BY <1>41 DEF Panic, Move, Units
<1>42. CASE UNCHANGED vars
  BY <1>42 DEF vars
<1> QED
  BY <1>1, <1>2, <1>3, <1>4, <1>5, <1>6, <1>7, <1>8, <1>9, <1>10, <1>11, <1>12, <1>13, <1>14, <1>15, <1>16, <1>17, <1>18, <1>19, <1>20, <1>21, <1>22, <1>23, <1>24, <1>25, <1>26, <1>27, <1>28, <1>29, <1>30, <1>31, <1>32, <1>33, <1>34, <1>35, <1>36, <1>37, <1>38, <1>39, <1>40, <1>41, <1>42
     DEF Next, Call, Step, SettingsChanged, RequestGames, GamesChanged,
         ReloadAccount, Build, Runner

-----------------------------------------------------------------------------
(* Flags *)

\* Every step keeps the flags Boolean.
LEMMA FlagsKept == FlagsOK /\ [Next]_vars => FlagsOK'
<1> SUFFICES ASSUME FlagsOK, [Next]_vars PROVE FlagsOK'
  OBVIOUS
<1> USE DEF FlagsOK, database, memory, queue, pool, locals, build
<1>1. ASSUME NEW p \in Callers, Call(p) PROVE FlagsOK'
  BY <1>1, Zenon DEF Call, SaveMode, SaveOwnGames, SaveChosen, SaveName, Delete, Restart
<1>2. ASSUME NEW p \in Procs, Step(p) PROVE FlagsOK'
  <2>1. CASE SettingsChanged(p)
    BY <2>1, Zenon DEF SettingsChanged, Bump, ReadSaved, StoreSaved,
       LeavePointsOnly, CheckStopped
  <2>2. CASE RequestGames(p) \/ GamesChanged(p)
    BY <2>2, Zenon DEF RequestGames, GamesChanged, Settle, StoreAll, SendDirty,
       SwapAll, ListAccounts, Mark, CheckMode, Unmark
  <2>3. CASE ReloadAccount(p)
    BY <2>3, Zenon DEF ReloadAccount, ReadRow, ForgetFlags, ForgetStale,
       LockReload, LockBuild
  <2>4. CASE Build(p)
    BY <2>4, Zenon DEF Build, LockRestart, ReadVersion, Reread, StoreBuild,
       LoadSession, ReadGames, Replace, Cancel, Spawn
  <2> QED
    BY <1>2, <2>1, <2>2, <2>3, <2>4 DEF Step
<1>3. CASE SettleFires \/ TakeDirty \/ WakeRestart \/ Runner
  BY <1>3, Zenon DEF SettleFires, TakeDirty, WakeRestart, Runner, Pick,
     StopNoGames, CheckWork, Repick, Panic, Move
<1>4. CASE UNCHANGED vars
  BY <1>4, Zenon DEF vars
<1> QED
  BY <1>1, <1>2, <1>3, <1>4 DEF Next

-----------------------------------------------------------------------------
(* The flags follow the row *)

\* At first the flags are the row's.
LEMMA KeptInit == Init => Kept
<1> SUFFICES ASSUME Init PROVE Kept
  OBVIOUS
<1> QED
  BY DEF Init, Kept, Versions, Carried, Carries, Bumping

\* Every step keeps the flags carried.
LEMMA KeptStep ==
  ASSUME ~Faults, Shape, Kept, [Next]_vars
  PROVE  Kept'
<1> USE RosterAssumption DEF Shape, DataOK, Captured, Labels, Kept, Versions,
        Carried, Carries, Bumping, database, memory, queue, pool, locals,
        build, At, Go, See
<1>1. ASSUME NEW p \in Callers, SaveMode(p) PROVE Kept'
  BY <1>1 DEF SaveMode, Save, Rows, Procs
<1>2. ASSUME NEW p \in Callers, SaveOwnGames(p) PROVE Kept'
  BY <1>2 DEF SaveOwnGames, Save, Rows, Unanswered, Procs
<1>3. ASSUME NEW p \in Callers, SaveChosen(p) PROVE Kept'
  BY <1>3 DEF SaveChosen, Save, Unanswered, Procs
<1>4. ASSUME NEW p \in Callers, SaveName(p) PROVE Kept'
  BY <1>4 DEF SaveName, Save, Procs
<1>5. ASSUME NEW p \in Callers, Delete(p) PROVE Kept'
  BY <1>5 DEF Delete, Rows, Procs
<1>6. ASSUME NEW p \in Callers, Restart(p) PROVE Kept'
  BY <1>6 DEF Restart, Procs
<1>7. ASSUME NEW p \in Procs, Bump(p) PROVE Kept'
  BY <1>7 DEF Bump
<1>8. ASSUME NEW p \in Procs, ReadSaved(p) PROVE Kept'
  BY <1>8 DEF ReadSaved
<1>9. ASSUME NEW p \in Procs, StoreSaved(p) PROVE Kept'
  BY <1>9 DEF StoreSaved, SetFlags
<1>10. ASSUME NEW p \in Procs, LeavePointsOnly(p) PROVE Kept'
  BY <1>10 DEF LeavePointsOnly
<1>11. ASSUME NEW p \in Procs, CheckStopped(p) PROVE Kept'
  BY <1>11 DEF CheckStopped
<1>12. ASSUME NEW p \in Procs, Settle(p) PROVE Kept'
  BY <1>12 DEF Settle
<1>13. ASSUME NEW p \in Procs, StoreAll(p) PROVE Kept'
  BY <1>13 DEF StoreAll
<1>14. ASSUME NEW p \in Procs, SendDirty(p) PROVE Kept'
  BY <1>14 DEF SendDirty
<1>15. ASSUME NEW p \in Procs, SwapAll(p) PROVE Kept'
  BY <1>15 DEF SwapAll
<1>16. ASSUME NEW p \in Procs, ListAccounts(p) PROVE Kept'
  BY <1>16 DEF ListAccounts, AfterList
<1>17. ASSUME NEW p \in Procs, Mark(p) PROVE Kept'
  BY <1>17 DEF Mark
<1>18. ASSUME NEW p \in Procs, CheckMode(p) PROVE Kept'
  BY <1>18 DEF CheckMode
<1>19. ASSUME NEW p \in Procs, Unmark(p) PROVE Kept'
  BY <1>19 DEF Unmark
<1>20. ASSUME NEW p \in Procs, ReadRow(p) PROVE Kept'
  BY <1>20 DEF ReadRow
<1>21. ASSUME NEW p \in Procs, ForgetFlags(p) PROVE Kept'
  BY <1>21 DEF ForgetFlags
<1>22. ASSUME NEW p \in Procs, ForgetStale(p) PROVE Kept'
  BY <1>22 DEF ForgetStale
<1>23. ASSUME NEW p \in Procs, LockReload(p) PROVE Kept'
  BY <1>23 DEF LockReload
<1>24. ASSUME NEW p \in Procs, LockBuild(p) PROVE Kept'
  BY <1>24 DEF LockBuild
<1>25. ASSUME NEW p \in Procs, LockRestart(p) PROVE Kept'
  BY <1>25 DEF LockRestart
<1>26. ASSUME NEW p \in Procs, ReadVersion(p) PROVE Kept'
  BY <1>26 DEF ReadVersion, Locks, Building
<1>27. ASSUME NEW p \in Procs, Reread(p) PROVE Kept'
  BY <1>27 DEF Reread
<1>28. ASSUME NEW p \in Procs, StoreBuild(p) PROVE Kept'
  BY <1>28 DEF StoreBuild, SetFlags
<1>29. ASSUME NEW p \in Procs, LoadSession(p) PROVE Kept'
  BY <1>29 DEF LoadSession
<1>30. ASSUME NEW p \in Procs, ReadGames(p) PROVE Kept'
  BY <1>30 DEF ReadGames
<1>31. ASSUME NEW p \in Procs, Replace(p) PROVE Kept'
  BY <1>31 DEF Replace, BuildDone, Locks, Building
<1>32. ASSUME NEW p \in Procs, Cancel(p) PROVE Kept'
  BY <1>32 DEF Cancel
<1>33. ASSUME NEW p \in Procs, Spawn(p) PROVE Kept'
  BY <1>33 DEF Spawn, BuildDone, Locks, Building, Pooling, Procs
<1>34. CASE SettleFires
  BY <1>34 DEF SettleFires
<1>35. CASE TakeDirty
  BY <1>35 DEF TakeDirty, Procs
<1>36. CASE WakeRestart
  BY <1>36 DEF WakeRestart, Procs
<1>37. CASE Pick
  BY <1>37 DEF Pick, Move
<1>38. CASE StopNoGames
  BY <1>38 DEF StopNoGames, Move
<1>39. CASE CheckWork
  BY <1>39 DEF CheckWork, Move
<1>40. CASE Repick
  BY <1>40 DEF Repick, Move
<1>41. CASE Panic
  BY <1>41 DEF Panic, Move
<1>42. CASE UNCHANGED vars
  BY <1>42 DEF vars
<1> QED
  BY <1>1, <1>2, <1>3, <1>4, <1>5, <1>6, <1>7, <1>8, <1>9, <1>10, <1>11, <1>12, <1>13, <1>14, <1>15, <1>16, <1>17, <1>18, <1>19, <1>20, <1>21, <1>22, <1>23, <1>24, <1>25, <1>26, <1>27, <1>28, <1>29, <1>30, <1>31, <1>32, <1>33, <1>34, <1>35, <1>36, <1>37, <1>38, <1>39, <1>40, <1>41, <1>42
     DEF Next, Call, Step, SettingsChanged, RequestGames, GamesChanged,
         ReloadAccount, Build, Runner

-----------------------------------------------------------------------------
\* The shape holds whatever fails.
LEMMA ShapeInvariance == Spec => []Shape
BY ShapeInit, ShapeStep, PTL DEF Spec

\* Every variable keeps its type, whatever fails.
THEOREM TypeCorrect == Spec => []TypeOK
<1>1. Init => FlagsOK
  BY Zenon DEF Init, FlagsOK
<1>2. Shape => DataOK
  BY DEF Shape
<1>3. DataOK /\ FlagsOK => TypeOK
  BY DEF TypeOK
<1> QED
  BY <1>1, <1>2, <1>3, FlagsKept, ShapeInvariance, PTL DEF Spec

\* With no failed read, the mode a runner reads live is the saved one whenever no
\* save of it is under way, for any number of handlers and saves, in any order
\* with any number of rebuilds.
THEOREM FlagsHold ==
  ASSUME ~Faults
  PROVE  Spec => []FlagsFollowRow
<1>1. Init => Kept
  BY KeptInit
<1>2. Shape /\ Kept /\ [Next]_vars => Kept'
  BY KeptStep
<1>3. Kept => FlagsFollowRow
  BY DEF Kept, Carried, Carries, FlagsFollowRow, Saving
<1> QED
  BY <1>1, <1>2, <1>3, ShapeInvariance, PTL DEF Spec

-----------------------------------------------------------------------------
(***************************************************************************)
(* What is due, as long as the account exists and no read fails.  While    *)
(* the runner's games are old a rebuild is under way that has yet to read  *)
(* them, or a reload is queued that covers the account, or the account is  *)
(* marked, and who leaves points only will find the mark (GamesDue); while *)
(* a runner that returned has work, a rebuild or the save that gave it     *)
(* some is under way (WorkDue).  A reload that has built replaces the unit *)
(* by what it built.                                                       *)
(***************************************************************************)
SomeAt(labels) == \E p \in Procs : pc[p] \in labels

BeforeBuild == {"unmark", "row", "lock", "buildOne", "version", "reread"}
Rebuilding == BeforeBuild \cup {"store", "session", "games"}
Installing == SomeAt({"cancel", "spawn"})

\* What a build goes by, and makes.
Built ==
  /\ \A p \in Procs : pc[p] \in {"swapAll", "list"} => p = Reloader
  /\ row.exists =>
       \A p \in Procs : pc[p] \in {"lock", "buildOne", "cancel", "spawn"} => seen[p] # None
  /\ \A p \in Procs :
       pc[p] \in {"cancel", "spawn"} /\ seen[p] # None => built.st \in {"picking", "idle"}
  /\ row.exists /\ SomeAt({"store", "session", "games"}) =>
       fresh.own = row.own \/ SomeAt(BeforeBuild)

ListDue == settling \/ dirty \/ SomeAt({"settle", "all", "token", "swapAll", "list"})

AllDue ==
  \/ SomeAt({"all"})
  \/ all /\ (dirty \/ SomeAt({"token", "swapAll"}))
  \/ every /\ SomeAt({"list"})

\* A save that will look at the mark.
Leaver(p) ==
  pc[p] \in {"bump", "get", "leave"} \/ (pc[p] = "set" /\ seen[p].mode # "points_only")

MarkDue ==
  \/ SomeAt({"mark"})
  \/ stale /\ (SomeAt({"check"}) \/ row.mode = "points_only" \/ \E p \in Procs : Leaver(p))

Current(u) == u.kind = "runner" => u.games = GamesFor(row)

GamesDue ==
  row.exists =>
    \/ SomeAt(Rebuilding) \/ (ListDue /\ ~row.own) \/ AllDue \/ MarkDue
    \/ IF Installing THEN Current(built) ELSE Current(unit)

\* A save that will look at the runner.
Saver(p) ==
  \/ pc[p] \in {"bump", "get"}
  \/ pc[p] \in {"set", "leave", "snapshot"} /\ WorkWithoutGames(seen[p].mode)

WorkDue ==
  row.exists /\ unit.kind = "runner" /\ unit.st = "returned" /\ WorkWithoutGames(row.mode)
    => SomeAt(Rebuilding) \/ Installing \/ \E p \in Procs : Saver(p)

\* What a new unit is.
LEMMA UnitFields ==
  \A r, c : /\ NewRunner(r, c).st = "picking" /\ NewRunner(r, c).games = GamesFor(r)
            /\ NewIdle(r, c).st = "idle" /\ NewIdle(r, c).kind = "idle"
BY DEF NewRunner, NewIdle

LEMMA BuiltStep ==
  ASSUME ~Faults, Shape, Kept, Built, [Next]_vars
  PROVE  Built'
<1> USE RosterAssumption DEF Shape, DataOK, Captured, Labels, database, memory, queue, pool,
        locals, build, At, Go, See, SomeAt, BeforeBuild, Built
<1>1. ASSUME NEW p \in Callers, SaveMode(p) PROVE Built'
  BY <1>1 DEF SaveMode, Save, Rows, Procs
<1>2. ASSUME NEW p \in Callers, SaveOwnGames(p) PROVE Built'
  BY <1>2 DEF SaveOwnGames, Save, Rows, Unanswered, Procs
<1>3. ASSUME NEW p \in Callers, SaveChosen(p) PROVE Built'
  BY <1>3 DEF SaveChosen, Save, Unanswered, Procs
<1>4. ASSUME NEW p \in Callers, SaveName(p) PROVE Built'
  BY <1>4 DEF SaveName, Save, Procs
<1>5. ASSUME NEW p \in Callers, Delete(p) PROVE Built'
  BY <1>5 DEF Delete, Rows, Procs
<1>6. ASSUME NEW p \in Callers, Restart(p) PROVE Built'
  BY <1>6 DEF Restart, Procs
<1>7. ASSUME NEW p \in Procs, Bump(p) PROVE Built'
  BY <1>7 DEF Bump
<1>8. ASSUME NEW p \in Procs, ReadSaved(p) PROVE Built'
  BY <1>8 DEF ReadSaved
<1>9. ASSUME NEW p \in Procs, StoreSaved(p) PROVE Built'
  BY <1>9 DEF StoreSaved, SetFlags
<1>10. ASSUME NEW p \in Procs, LeavePointsOnly(p) PROVE Built'
  BY <1>10 DEF LeavePointsOnly
<1>11. ASSUME NEW p \in Procs, CheckStopped(p) PROVE Built'
  BY <1>11 DEF CheckStopped, StoppedNoGames
<1>12. ASSUME NEW p \in Procs, Settle(p) PROVE Built'
  BY <1>12 DEF Settle
<1>13. ASSUME NEW p \in Procs, StoreAll(p) PROVE Built'
  BY <1>13 DEF StoreAll
<1>14. ASSUME NEW p \in Procs, SendDirty(p) PROVE Built'
  BY <1>14 DEF SendDirty
<1>15. ASSUME NEW p \in Procs, SwapAll(p) PROVE Built'
  BY <1>15 DEF SwapAll
<1>16. ASSUME NEW p \in Procs, ListAccounts(p) PROVE Built'
  BY <1>16 DEF ListAccounts, AfterList
<1>17. ASSUME NEW p \in Procs, Mark(p) PROVE Built'
  BY <1>17 DEF Mark
<1>18. ASSUME NEW p \in Procs, CheckMode(p) PROVE Built'
  BY <1>18 DEF CheckMode
<1>19. ASSUME NEW p \in Procs, Unmark(p) PROVE Built'
  BY <1>19 DEF Unmark
<1>20. ASSUME NEW p \in Procs, ReadRow(p) PROVE Built'
  BY <1>20 DEF ReadRow
<1>21. ASSUME NEW p \in Procs, ForgetFlags(p) PROVE Built'
  BY <1>21 DEF ForgetFlags
<1>22. ASSUME NEW p \in Procs, ForgetStale(p) PROVE Built'
  BY <1>22 DEF ForgetStale, Kept
<1>23. ASSUME NEW p \in Procs, LockReload(p) PROVE Built'
  BY <1>23 DEF LockReload
<1>24. ASSUME NEW p \in Procs, LockBuild(p) PROVE Built'
  BY <1>24 DEF LockBuild
<1>25. ASSUME NEW p \in Procs, LockRestart(p) PROVE Built'
  BY <1>25 DEF LockRestart
<1>26. ASSUME NEW p \in Procs, ReadVersion(p) PROVE Built'
  BY <1>26 DEF ReadVersion
<1>27. ASSUME NEW p \in Procs, Reread(p) PROVE Built'
  BY <1>27 DEF Reread
<1>28. ASSUME NEW p \in Procs, StoreBuild(p) PROVE Built'
  BY <1>28 DEF StoreBuild, SetFlags
<1>29. ASSUME NEW p \in Procs, LoadSession(p) PROVE Built'
  BY <1>29, UnitFields DEF LoadSession, Locks, Building, Pooling, Procs
<1>30. ASSUME NEW p \in Procs, ReadGames(p) PROVE Built'
  BY <1>30, UnitFields DEF ReadGames, Locks, Building, Pooling, Procs
<1>31. ASSUME NEW p \in Procs, Replace(p) PROVE Built'
  BY <1>31 DEF Replace, BuildDone, Locks, Building, Pooling, Procs
<1>32. ASSUME NEW p \in Procs, Cancel(p) PROVE Built'
  BY <1>32 DEF Cancel
<1>33. ASSUME NEW p \in Procs, Spawn(p) PROVE Built'
  BY <1>33 DEF Spawn, BuildDone, NoUnit, Locks, Building, Pooling, Procs
<1>34. CASE SettleFires \/ TakeDirty \/ WakeRestart
  BY <1>34 DEF SettleFires, TakeDirty, WakeRestart, Procs
<1>35. CASE Runner
  BY <1>35 DEF Runner, Pick, StopNoGames, CheckWork, Repick, Panic, Move, Units
<1>36. CASE UNCHANGED vars
  BY <1>36 DEF vars
<1> QED
  BY <1>1, <1>2, <1>3, <1>4, <1>5, <1>6, <1>7, <1>8, <1>9, <1>10, <1>11, <1>12, <1>13, <1>14, <1>15, <1>16, <1>17, <1>18, <1>19, <1>20, <1>21, <1>22, <1>23, <1>24, <1>25, <1>26, <1>27, <1>28, <1>29, <1>30, <1>31, <1>32, <1>33, <1>34, <1>35, <1>36
     DEF Next, Call, Step, SettingsChanged, RequestGames, GamesChanged,
         ReloadAccount, Build

LEMMA WorkStep ==
  ASSUME ~Faults, Shape, Kept, Built, WorkDue, [Next]_vars
  PROVE  WorkDue'
<1> USE RosterAssumption DEF Shape, DataOK, Captured, Labels, database, memory, queue, pool,
        locals, build, At, Go, See, SomeAt, BeforeBuild, Built, WorkDue, Rebuilding, Installing, Saver
<1>1. ASSUME NEW p \in Callers, SaveMode(p) PROVE WorkDue'
  BY <1>1 DEF SaveMode, Save, Rows, Procs
<1>2. ASSUME NEW p \in Callers, SaveOwnGames(p) PROVE WorkDue'
  BY <1>2 DEF SaveOwnGames, Save, Rows, Unanswered, Procs
<1>3. ASSUME NEW p \in Callers, SaveChosen(p) PROVE WorkDue'
  BY <1>3 DEF SaveChosen, Save, Unanswered, Procs
<1>4. ASSUME NEW p \in Callers, SaveName(p) PROVE WorkDue'
  BY <1>4 DEF SaveName, Save, Procs
<1>5. ASSUME NEW p \in Callers, Delete(p) PROVE WorkDue'
  BY <1>5 DEF Delete, Rows, Procs
<1>6. ASSUME NEW p \in Callers, Restart(p) PROVE WorkDue'
  BY <1>6 DEF Restart, Procs
<1>7. ASSUME NEW p \in Procs, Bump(p) PROVE WorkDue'
  BY <1>7 DEF Bump
<1>8. ASSUME NEW p \in Procs, ReadSaved(p) PROVE WorkDue'
  BY <1>8 DEF ReadSaved
<1>9. ASSUME NEW p \in Procs, StoreSaved(p) PROVE WorkDue'
  BY <1>9 DEF StoreSaved, SetFlags
<1>10. ASSUME NEW p \in Procs, LeavePointsOnly(p) PROVE WorkDue'
  BY <1>10 DEF LeavePointsOnly
<1>11. ASSUME NEW p \in Procs, CheckStopped(p) PROVE WorkDue'
  BY <1>11 DEF CheckStopped, StoppedNoGames
<1>12. ASSUME NEW p \in Procs, Settle(p) PROVE WorkDue'
  BY <1>12 DEF Settle
<1>13. ASSUME NEW p \in Procs, StoreAll(p) PROVE WorkDue'
  BY <1>13 DEF StoreAll
<1>14. ASSUME NEW p \in Procs, SendDirty(p) PROVE WorkDue'
  BY <1>14 DEF SendDirty
<1>15. ASSUME NEW p \in Procs, SwapAll(p) PROVE WorkDue'
  BY <1>15 DEF SwapAll
<1>16. ASSUME NEW p \in Procs, ListAccounts(p) PROVE WorkDue'
  BY <1>16 DEF ListAccounts, AfterList
<1>17. ASSUME NEW p \in Procs, Mark(p) PROVE WorkDue'
  BY <1>17 DEF Mark
<1>18. ASSUME NEW p \in Procs, CheckMode(p) PROVE WorkDue'
  BY <1>18 DEF CheckMode
<1>19. ASSUME NEW p \in Procs, Unmark(p) PROVE WorkDue'
  BY <1>19 DEF Unmark
<1>20. ASSUME NEW p \in Procs, ReadRow(p) PROVE WorkDue'
  BY <1>20 DEF ReadRow
<1>21. ASSUME NEW p \in Procs, ForgetFlags(p) PROVE WorkDue'
  BY <1>21 DEF ForgetFlags
<1>22. ASSUME NEW p \in Procs, ForgetStale(p) PROVE WorkDue'
  BY <1>22 DEF ForgetStale
<1>23. ASSUME NEW p \in Procs, LockReload(p) PROVE WorkDue'
  BY <1>23 DEF LockReload
<1>24. ASSUME NEW p \in Procs, LockBuild(p) PROVE WorkDue'
  BY <1>24 DEF LockBuild
<1>25. ASSUME NEW p \in Procs, LockRestart(p) PROVE WorkDue'
  BY <1>25 DEF LockRestart
<1>26. ASSUME NEW p \in Procs, ReadVersion(p) PROVE WorkDue'
  BY <1>26 DEF ReadVersion
<1>27. ASSUME NEW p \in Procs, Reread(p) PROVE WorkDue'
  BY <1>27 DEF Reread
<1>28. ASSUME NEW p \in Procs, StoreBuild(p) PROVE WorkDue'
  BY <1>28 DEF StoreBuild, SetFlags
<1>29. ASSUME NEW p \in Procs, LoadSession(p) PROVE WorkDue'
  BY <1>29 DEF LoadSession
<1>30. ASSUME NEW p \in Procs, ReadGames(p) PROVE WorkDue'
  BY <1>30 DEF ReadGames
<1>31. ASSUME NEW p \in Procs, Replace(p) PROVE WorkDue'
  BY <1>31 DEF Replace, BuildDone, Locks, Building
<1>32. ASSUME NEW p \in Procs, Cancel(p) PROVE WorkDue'
  BY <1>32 DEF Cancel
<1>33. ASSUME NEW p \in Procs, Spawn(p) PROVE WorkDue'
  BY <1>33 DEF Spawn, BuildDone, NoUnit, Locks, Building, Pooling, Procs
<1>34. CASE SettleFires \/ TakeDirty \/ WakeRestart
  BY <1>34 DEF SettleFires, TakeDirty, WakeRestart, Procs
<1>35. CASE Runner
  <2>1. CASE CheckWork
    <3>1. row.exists => LiveMode = row.mode \/ \E p \in Procs : Carries(p)
      BY RowFields DEF LiveMode, Kept, Carried
    <3>2. \A p \in Procs : Carries(p) /\ WorkWithoutGames(row.mode) => Saver(p)
      BY DEF Carries
    <3> QED
      BY <2>1, <3>1, <3>2 DEF CheckWork, Move, Units
  <2>2. CASE Pick \/ StopNoGames \/ Repick \/ Panic
    BY <2>2 DEF Pick, StopNoGames, Repick, Panic, Move, Units
  <2> QED
    BY <1>35, <2>1, <2>2 DEF Runner
<1>36. CASE UNCHANGED vars
  BY <1>36 DEF vars
<1> QED
  BY <1>1, <1>2, <1>3, <1>4, <1>5, <1>6, <1>7, <1>8, <1>9, <1>10, <1>11, <1>12, <1>13, <1>14, <1>15, <1>16, <1>17, <1>18, <1>19, <1>20, <1>21, <1>22, <1>23, <1>24, <1>25, <1>26, <1>27, <1>28, <1>29, <1>30, <1>31, <1>32, <1>33, <1>34, <1>35, <1>36
     DEF Next, Call, Step, SettingsChanged, RequestGames, GamesChanged,
         ReloadAccount, Build

LEMMA GamesStep ==
  ASSUME ~Faults, Shape, Kept, Built, GamesDue, [Next]_vars
  PROVE  GamesDue'
<1> USE RosterAssumption DEF Shape, DataOK, Captured, Labels, database, memory, queue, pool,
        locals, build, At, Go, See, SomeAt, BeforeBuild, Built, GamesDue, Rebuilding, Installing,
        ListDue, AllDue, Leaver, MarkDue, Current, GamesFor
<1>1. ASSUME NEW p \in Callers, SaveMode(p) PROVE GamesDue'
  BY <1>1 DEF SaveMode, Save, Rows, Procs
<1>2. ASSUME NEW p \in Callers, SaveOwnGames(p) PROVE GamesDue'
  BY <1>2 DEF SaveOwnGames, Save, Rows, Unanswered, Procs
<1>3. ASSUME NEW p \in Callers, SaveChosen(p) PROVE GamesDue'
  BY <1>3 DEF SaveChosen, Save, Unanswered, Procs
<1>4. ASSUME NEW p \in Callers, SaveName(p) PROVE GamesDue'
  BY <1>4 DEF SaveName, Save, Procs
<1>5. ASSUME NEW p \in Callers, Delete(p) PROVE GamesDue'
  BY <1>5 DEF Delete, Rows, Procs
<1>6. ASSUME NEW p \in Callers, Restart(p) PROVE GamesDue'
  BY <1>6 DEF Restart, Procs
<1>7. ASSUME NEW p \in Procs, Bump(p) PROVE GamesDue'
  BY <1>7 DEF Bump
<1>8. ASSUME NEW p \in Procs, ReadSaved(p) PROVE GamesDue'
  BY <1>8 DEF ReadSaved
<1>9. ASSUME NEW p \in Procs, StoreSaved(p) PROVE GamesDue'
  BY <1>9 DEF StoreSaved, SetFlags
<1>10. ASSUME NEW p \in Procs, LeavePointsOnly(p) PROVE GamesDue'
  BY <1>10 DEF LeavePointsOnly
<1>11. ASSUME NEW p \in Procs, CheckStopped(p) PROVE GamesDue'
  BY <1>11 DEF CheckStopped, StoppedNoGames
<1>12. ASSUME NEW p \in Procs, Settle(p) PROVE GamesDue'
  BY <1>12 DEF Settle
<1>13. ASSUME NEW p \in Procs, StoreAll(p) PROVE GamesDue'
  BY <1>13 DEF StoreAll
<1>14. ASSUME NEW p \in Procs, SendDirty(p) PROVE GamesDue'
  BY <1>14 DEF SendDirty
<1>15. ASSUME NEW p \in Procs, SwapAll(p) PROVE GamesDue'
  BY <1>15 DEF SwapAll
<1>16. ASSUME NEW p \in Procs, ListAccounts(p) PROVE GamesDue'
  BY <1>16 DEF ListAccounts, AfterList
<1>17. ASSUME NEW p \in Procs, Mark(p) PROVE GamesDue'
  BY <1>17 DEF Mark
<1>18. ASSUME NEW p \in Procs, CheckMode(p) PROVE GamesDue'
  BY <1>18, RowFields DEF CheckMode, Kept, Carried, Carries
<1>19. ASSUME NEW p \in Procs, Unmark(p) PROVE GamesDue'
  BY <1>19 DEF Unmark
<1>20. ASSUME NEW p \in Procs, ReadRow(p) PROVE GamesDue'
  BY <1>20 DEF ReadRow
<1>21. ASSUME NEW p \in Procs, ForgetFlags(p) PROVE GamesDue'
  BY <1>21 DEF ForgetFlags
<1>22. ASSUME NEW p \in Procs, ForgetStale(p) PROVE GamesDue'
  BY <1>22 DEF ForgetStale
<1>23. ASSUME NEW p \in Procs, LockReload(p) PROVE GamesDue'
  BY <1>23 DEF LockReload
<1>24. ASSUME NEW p \in Procs, LockBuild(p) PROVE GamesDue'
  BY <1>24 DEF LockBuild
<1>25. ASSUME NEW p \in Procs, LockRestart(p) PROVE GamesDue'
  BY <1>25 DEF LockRestart
<1>26. ASSUME NEW p \in Procs, ReadVersion(p) PROVE GamesDue'
  BY <1>26 DEF ReadVersion
<1>27. ASSUME NEW p \in Procs, Reread(p) PROVE GamesDue'
  BY <1>27 DEF Reread
<1>28. ASSUME NEW p \in Procs, StoreBuild(p) PROVE GamesDue'
  BY <1>28 DEF StoreBuild, SetFlags
<1>29. ASSUME NEW p \in Procs, LoadSession(p) PROVE GamesDue'
  BY <1>29, UnitFields DEF LoadSession
<1>30. ASSUME NEW p \in Procs, ReadGames(p) PROVE GamesDue'
  BY <1>30, UnitFields DEF ReadGames
<1>31. ASSUME NEW p \in Procs, Replace(p) PROVE GamesDue'
  BY <1>31 DEF Replace, BuildDone, Locks, Building
<1>32. ASSUME NEW p \in Procs, Cancel(p) PROVE GamesDue'
  BY <1>32 DEF Cancel
<1>33. ASSUME NEW p \in Procs, Spawn(p) PROVE GamesDue'
  BY <1>33 DEF Spawn, BuildDone, NoUnit, Locks, Building, Pooling, Procs
<1>34. CASE SettleFires \/ TakeDirty \/ WakeRestart
  BY <1>34 DEF SettleFires, TakeDirty, WakeRestart, Procs
<1>35. CASE Runner
  BY <1>35 DEF Runner, Pick, StopNoGames, CheckWork, Repick, Panic, Move, Units
<1>36. CASE UNCHANGED vars
  BY <1>36 DEF vars
<1> QED
  BY <1>1, <1>2, <1>3, <1>4, <1>5, <1>6, <1>7, <1>8, <1>9, <1>10, <1>11, <1>12, <1>13, <1>14, <1>15, <1>16, <1>17, <1>18, <1>19, <1>20, <1>21, <1>22, <1>23, <1>24, <1>25, <1>26, <1>27, <1>28, <1>29, <1>30, <1>31, <1>32, <1>33, <1>34, <1>35, <1>36
     DEF Next, Call, Step, SettingsChanged, RequestGames, GamesChanged,
         ReloadAccount, Build

\* What is due at first, and for good.
LEMMA DueInvariance ==
  ASSUME ~Faults
  PROVE  Spec => [](Kept /\ Built /\ GamesDue /\ WorkDue)
<1>1. Init => Kept /\ Built /\ GamesDue /\ WorkDue
  <2> SUFFICES ASSUME Init PROVE Built /\ GamesDue /\ WorkDue
    BY KeptInit
  <2>1. \A p \in Procs : pc[p] = "idle"
    BY DEF Init
  <2>2. unit.games = GamesFor(row) /\ unit.st = "picking"
    BY UnitFields DEF Init
  <2> QED
    BY <2>1, <2>2 DEF Built, GamesDue, WorkDue, SomeAt, Installing, Current
<1>2. Shape /\ Kept /\ Built /\ [Next]_vars => Kept' /\ Built'
  BY KeptStep, BuiltStep
<1>3. Shape /\ Kept /\ Built /\ GamesDue /\ WorkDue /\ [Next]_vars => GamesDue' /\ WorkDue'
  BY WorkStep, GamesStep
<1> QED
  BY <1>1, <1>2, <1>3, ShapeInvariance, PTL DEF Spec

\* With no failed read, a runner that mines drops has the account's current games
\* once the roster is quiet, whatever was saved, marked, reloaded, restarted or
\* deleted meanwhile, for any number of handlers and saves.
THEOREM GamesAppliedHolds ==
  ASSUME ~Faults
  PROVE  Spec => []GamesApplied
<1>1. Shape /\ GamesDue => GamesApplied
  <2> SUFFICES ASSUME GamesDue, Quiet, Live, row.mode # "points_only"
               PROVE  unit.games = GamesFor(row)
    BY DEF GamesApplied
  <2>1. \A p \in Procs : pc[p] = "idle"
    BY DEF Quiet, At
  <2>2. ~SomeAt(Rebuilding) /\ ~ListDue /\ ~AllDue /\ ~MarkDue /\ ~Installing
    BY <2>1 DEF Quiet, SomeAt, Rebuilding, BeforeBuild, ListDue, AllDue, MarkDue, Leaver,
       Installing
  <2> QED
    BY <2>2 DEF GamesDue, Current, Live
<1> QED
  BY <1>1, DueInvariance, ShapeInvariance, PTL

\* With no failed read, a runner that returned as no_games has no work in the
\* saved mode once the roster is quiet, for any number of handlers and saves.
THEOREM StoppedHasNoWorkHolds ==
  ASSUME ~Faults
  PROVE  Spec => []StoppedHasNoWork
<1>1. WorkDue => StoppedHasNoWork
  <2> SUFFICES ASSUME WorkDue, Quiet, Live, unit.st = "returned"
               PROVE  ~WorkWithoutGames(row.mode)
    BY DEF StoppedHasNoWork
  <2>1. \A p \in Procs : pc[p] = "idle"
    BY DEF Quiet, At
  <2> QED
    BY <2>1 DEF WorkDue, Live, SomeAt, Rebuilding, BeforeBuild, Installing, Saver
<1> QED
  BY <1>1, DueInvariance, PTL

=============================================================================
