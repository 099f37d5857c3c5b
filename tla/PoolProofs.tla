----------------------------- MODULE PoolProofs -----------------------------
(***************************************************************************)
(* Pool, for any accounts and callers and any number of builds: types, the *)
(* turns its runners take, the drain of Stop, and the hooks of the slot.   *)
(*                                                                         *)
(* OneRunner needs more than itself: a reload may spawn what it built for  *)
(* the unit it awaited was the account's only one, listed where the reload *)
(* looked for it (Listed, Replacing); and what it built is newer than      *)
(* anything that has run, for the awaited unit cannot rebuild any more     *)
(* (Awaited, Newer).  All of it rests on who holds the two locks (Locks).  *)
(***************************************************************************)
EXTENDS Pool, TLAPS

Holding == {"build", "remove", "cancel", "await", "drop", "spawn", "swap"}

\* The types, and what a label says of the locals.
Shape ==
  /\ DataOK
  /\ \A c \in Callers : pc[c] # "idle" => target[c] \in Accounts
  /\ \A c \in Callers :
       /\ pc[c] \in {"spawn", "swap"} => new[c] \in Ids
       /\ pc[c] \in {"idle", "lock", "lockRemove", "build", "remove"} => new[c] = None
       /\ pc[c] \in {"idle", "lock", "lockRemove", "build", "remove", "cancel"}
            => old[c] = None

Locks ==
  /\ \A c \in Callers : pc[c] \in Holding => reloadMu = c
  /\ main \in {"spawn", "await"} => reloadMu = Main
  /\ \A c \in Callers : pc[c] = "cancel" => buildMu = c
  /\ \A u \in Ids : at[u] = "rebuild" => buildMu = u

\* The phases of main: reloads run between the boot and Stop.
Phases ==
  /\ base <=> main \in {"spawn", "up", "stop"}
  /\ \A c \in Callers : pc[c] \in Holding => base
  /\ main # "await" => stopping = {}
  /\ ~base => units = {}

Live(u) == at[u] \notin {"none", "done"}

\* A unit that still runs is one the pool lists, Stop waits for, or a reload has
\* just spawned.
Listed ==
  /\ \A u \in Ids :
       Live(u) => \/ u \in units \cup stopping
                  \/ \E c \in Callers : pc[c] = "swap" /\ new[c] = u
  /\ \A u, v \in units : acct[u] = acct[v] => u = v

\* A unit has a number that was built, and an account.
Numbered ==
  /\ \A u \in Ids :
       at[u] # "none" => u =< builds /\ acct[u] \in Accounts /\ entry[u] \in Ids
  /\ \A u \in units : at[u] # "none"
  /\ \A c \in Callers : new[c] # None => new[c] =< builds
  /\ \A a \in Accounts : ran[a] =< builds

\* The unit a reload replaces is the only one listed of its account, and has
\* exited before the new one is spawned.
Replacing ==
  \A c \in Callers :
    /\ pc[c] \in {"await", "drop", "spawn", "swap"} =>
         \A u \in units : acct[u] = target[c] => u = old[c]
    /\ pc[c] \in {"drop", "spawn", "swap"} /\ old[c] # None => at[old[c]] = "done"
    /\ pc[c] = "swap" => at[new[c]] # "none" /\ acct[new[c]] = target[c]

\* The unit awaited is cancelled, and no longer rebuilds.
Awaited ==
  \A c \in Callers :
    pc[c] = "await" /\ old[c] # None => old[c] \in cancelled /\ at[old[c]] # "rebuild"

\* What a reload built has not run, and is newer than what has.
Newer ==
  \A c \in Callers :
    pc[c] \in {"cancel", "await", "spawn"} /\ new[c] # None =>
      at[new[c]] = "none" /\ ran[target[c]] < new[c]

OnePerAccount ==
  \A u, v \in Ids : Live(u) /\ Live(v) /\ acct[u] = acct[v] => u = v

Units == Listed /\ Numbered /\ Replacing
Turn == Awaited /\ Newer

Inv == Shape /\ Locks /\ Phases /\ Units /\ Turn /\ OnePerAccount

-----------------------------------------------------------------------------
LEMMA IdFacts ==
  /\ Ids \subseteq Nat /\ Ids \subseteq 0 .. MaxBuilds
  /\ None \notin Ids /\ None \notin Accounts /\ None \notin Callers
  /\ Main \notin Callers /\ None # Main
  /\ \A c \in Callers : c \notin Ids
BY PoolAssumption DEF Ids

\* A build has a number that was not built before.
LEMMA BuildFacts ==
  ASSUME DataOK, NEW a, BuildEntry(a)
  PROVE  /\ builds' = builds + 1 /\ builds \in Nat
         /\ builds' \in Ids /\ builds' \in 0 .. MaxBuilds
         /\ runners' \subseteq Ids
         /\ hooks' \in [Accounts -> Ids \cup {None}]
         /\ \A n \in 0 .. MaxBuilds : n =< builds => n < builds'
<1>1. /\ builds' = builds + 1 /\ builds \in Nat
      /\ builds' \in Ids /\ builds' \in 0 .. MaxBuilds
  BY PoolAssumption DEF DataOK, BuildEntry, Ids
<1>2. \A n \in 0 .. MaxBuilds : n =< builds => n < builds'
  BY <1>1
<1> QED
  BY <1>1, <1>2 DEF DataOK, BuildEntry

-----------------------------------------------------------------------------
(* Types and locks *)

LEMMA InitHolds == Init => Inv
BY IdFacts, PoolAssumption
   DEF Init, Inv, Shape, DataOK, Locks, Holding, Phases, Units, Listed, Numbered,
       Replacing, Turn, Awaited, Newer, OnePerAccount, Live

LEMMA NextShape == Shape /\ [Next]_vars => Shape'
<1> SUFFICES ASSUME Shape, [Next]_vars PROVE Shape' OBVIOUS
<1> USE IdFacts DEF Shape, entries, locks, process, unit, locals
<1>1. ASSUME NEW u \in Ids, Return(u)
      PROVE  Shape'
  BY <1>1 DEF DataOK, Return
<1>2. ASSUME NEW u \in Ids, Panic(u)
      PROVE  Shape'
  BY <1>2 DEF DataOK, Panic
<1>3. ASSUME NEW u \in Ids, Timer(u)
      PROVE  Shape'
  BY <1>3 DEF DataOK, Timer
<1>4. ASSUME NEW u \in Ids, LockRestart(u)
      PROVE  Shape'
  BY <1>4 DEF DataOK, LockRestart, Release
<1>5. ASSUME NEW u \in Ids, Rebuild(u)
      PROVE  Shape'
  BY <1>5, BuildFacts DEF DataOK, Rebuild
<1>6. ASSUME NEW u \in Ids, RebuildPanics(u)
      PROVE  Shape'
  BY <1>6 DEF DataOK, RebuildPanics
<1>7. ASSUME NEW c \in Callers, Call(c)
      PROVE  Shape'
  BY <1>7 DEF DataOK, Call, Go
<1>8. ASSUME NEW c \in Callers, Lock(c)
      PROVE  Shape'
  BY <1>8 DEF DataOK, Lock, Go, IdleCaller
<1>9. ASSUME NEW c \in Callers, Build(c)
      PROVE  Shape'
  BY <1>9, BuildFacts DEF DataOK, Build, Go
<1>10. ASSUME NEW c \in Callers, BuildPanics(c)
      PROVE  Shape'
  BY <1>10 DEF DataOK, BuildPanics, Go, IdleCaller
<1>11. ASSUME NEW c \in Callers, NoBuild(c)
      PROVE  Shape'
  BY <1>11 DEF DataOK, NoBuild, Go
<1>12. ASSUME NEW c \in Callers, Cancel(c)
      PROVE  Shape'
  <2>1. \/ \E u \in Ids : old' = [old EXCEPT ![c] = u] /\ cancelled' = cancelled \cup {u}
       \/ UNCHANGED <<old, cancelled>>
    BY <1>12 DEF DataOK, DataOK, Cancel
  <2> QED
    BY <1>12, <2>1 DEF DataOK, DataOK, Cancel, Go
<1>13. ASSUME NEW c \in Callers, Await(c)
      PROVE  Shape'
  BY <1>13 DEF DataOK, Await, Go, Release
<1>14. ASSUME NEW c \in Callers, Drop(c)
      PROVE  Shape'
  BY <1>14 DEF DataOK, Drop, Go, IdleCaller
<1>15. ASSUME NEW c \in Callers, SpawnNew(c)
      PROVE  Shape'
  BY <1>15 DEF DataOK, SpawnNew, Go, Spawn
<1>16. ASSUME NEW c \in Callers, Swap(c)
      PROVE  Shape'
  BY <1>16 DEF DataOK, Swap, Go, IdleCaller
<1>17. ASSUME NEW a \in Accounts, Boot(a)
      PROVE  Shape'
  BY <1>17, BuildFacts DEF DataOK, Boot, Spawn
<1>18. CASE BootLock
  BY <1>18 DEF DataOK, BootLock
<1>19. CASE Booted
  BY <1>19 DEF DataOK, Booted
<1>20. CASE Shutdown
  BY <1>20 DEF DataOK, Shutdown
<1>21. CASE StopLock
  BY <1>21 DEF DataOK, StopLock
<1>22. CASE StopDone
  BY <1>22 DEF DataOK, StopDone
<1>23. CASE UNCHANGED vars
  BY <1>23 DEF DataOK, vars
<1> QED
  BY <1>1, <1>2, <1>3, <1>4, <1>5, <1>6, <1>7, <1>8, <1>9, <1>10, <1>11,
     <1>12, <1>13, <1>14, <1>15, <1>16, <1>17, <1>18, <1>19, <1>20, <1>21,
     <1>22, <1>23
     DEF Next, Loop, ReloadAccount, BootUp, Stop

LEMMA NextLocks == Shape /\ Locks /\ [Next]_vars => Locks'
<1> SUFFICES ASSUME Shape, Locks, [Next]_vars PROVE Locks' OBVIOUS
<1> USE IdFacts
    DEF Shape, DataOK, Locks, Holding, entries, locks, process, unit, locals
<1>1. ASSUME NEW u \in Ids, Return(u)
      PROVE  Locks'
  BY <1>1 DEF Return
<1>2. ASSUME NEW u \in Ids, Panic(u)
      PROVE  Locks'
  BY <1>2 DEF Panic
<1>3. ASSUME NEW u \in Ids, Timer(u)
      PROVE  Locks'
  BY <1>3 DEF Timer
<1>4. ASSUME NEW u \in Ids, LockRestart(u)
      PROVE  Locks'
  BY <1>4 DEF LockRestart, Release
<1>5. ASSUME NEW u \in Ids, Rebuild(u)
      PROVE  Locks'
  BY <1>5, BuildFacts DEF Rebuild
<1>6. ASSUME NEW u \in Ids, RebuildPanics(u)
      PROVE  Locks'
  BY <1>6 DEF RebuildPanics
<1>7. ASSUME NEW c \in Callers, Call(c)
      PROVE  Locks'
  BY <1>7 DEF Call, Go
<1>8. ASSUME NEW c \in Callers, Lock(c)
      PROVE  Locks'
  BY <1>8 DEF Lock, Go, IdleCaller
<1>9. ASSUME NEW c \in Callers, Build(c)
      PROVE  Locks'
  BY <1>9, BuildFacts DEF Build, Go
<1>10. ASSUME NEW c \in Callers, BuildPanics(c)
      PROVE  Locks'
  BY <1>10 DEF BuildPanics, Go, IdleCaller
<1>11. ASSUME NEW c \in Callers, NoBuild(c)
      PROVE  Locks'
  BY <1>11 DEF NoBuild, Go
<1>12. ASSUME NEW c \in Callers, Cancel(c)
      PROVE  Locks'
  BY <1>12 DEF Cancel, Go
<1>13. ASSUME NEW c \in Callers, Await(c)
      PROVE  Locks'
  BY <1>13 DEF Await, Go, Release
<1>14. ASSUME NEW c \in Callers, Drop(c)
      PROVE  Locks'
  BY <1>14 DEF Drop, Go, IdleCaller
<1>15. ASSUME NEW c \in Callers, SpawnNew(c)
      PROVE  Locks'
  BY <1>15 DEF SpawnNew, Go, Spawn
<1>16. ASSUME NEW c \in Callers, Swap(c)
      PROVE  Locks'
  BY <1>16 DEF Swap, Go, IdleCaller
<1>17. ASSUME NEW a \in Accounts, Boot(a)
      PROVE  Locks'
  BY <1>17, BuildFacts DEF Boot, Spawn
<1>18. CASE BootLock
  BY <1>18 DEF BootLock
<1>19. CASE Booted
  BY <1>19 DEF Booted
<1>20. CASE Shutdown
  BY <1>20 DEF Shutdown
<1>21. CASE StopLock
  BY <1>21 DEF StopLock
<1>22. CASE StopDone
  BY <1>22 DEF StopDone
<1>23. CASE UNCHANGED vars
  BY <1>23 DEF vars
<1> QED
  BY <1>1, <1>2, <1>3, <1>4, <1>5, <1>6, <1>7, <1>8, <1>9, <1>10, <1>11,
     <1>12, <1>13, <1>14, <1>15, <1>16, <1>17, <1>18, <1>19, <1>20, <1>21,
     <1>22, <1>23
     DEF Next, Loop, ReloadAccount, BootUp, Stop

-----------------------------------------------------------------------------
(* The phases of main *)

LEMMA NextPhases == Shape /\ Locks /\ Phases /\ [Next]_vars => Phases'
<1> SUFFICES ASSUME Shape, Locks, Phases, [Next]_vars PROVE Phases' OBVIOUS
<1> USE IdFacts
    DEF Shape, DataOK, Locks, Holding, Phases, entries, locks, process, unit, locals
<1>1. ASSUME NEW u \in Ids, Return(u)
      PROVE  Phases'
  BY <1>1 DEF Return
<1>2. ASSUME NEW u \in Ids, Panic(u)
      PROVE  Phases'
  BY <1>2 DEF Panic
<1>3. ASSUME NEW u \in Ids, Timer(u)
      PROVE  Phases'
  BY <1>3 DEF Timer
<1>4. ASSUME NEW u \in Ids, LockRestart(u)
      PROVE  Phases'
  BY <1>4 DEF LockRestart, Release
<1>5. ASSUME NEW u \in Ids, Rebuild(u)
      PROVE  Phases'
  BY <1>5, BuildFacts DEF Rebuild
<1>6. ASSUME NEW u \in Ids, RebuildPanics(u)
      PROVE  Phases'
  BY <1>6 DEF RebuildPanics
<1>7. ASSUME NEW c \in Callers, Call(c)
      PROVE  Phases'
  BY <1>7 DEF Call, Go
<1>8. ASSUME NEW c \in Callers, Lock(c)
      PROVE  Phases'
  BY <1>8 DEF Lock, Go, IdleCaller
<1>9. ASSUME NEW c \in Callers, Build(c)
      PROVE  Phases'
  BY <1>9, BuildFacts DEF Build, Go
<1>10. ASSUME NEW c \in Callers, BuildPanics(c)
      PROVE  Phases'
  BY <1>10 DEF BuildPanics, Go, IdleCaller
<1>11. ASSUME NEW c \in Callers, NoBuild(c)
      PROVE  Phases'
  BY <1>11 DEF NoBuild, Go
<1>12. ASSUME NEW c \in Callers, Cancel(c)
      PROVE  Phases'
  BY <1>12 DEF Cancel, Go
<1>13. ASSUME NEW c \in Callers, Await(c)
      PROVE  Phases'
  BY <1>13 DEF Await, Go, Release
<1>14. ASSUME NEW c \in Callers, Drop(c)
      PROVE  Phases'
  BY <1>14 DEF Drop, Go, IdleCaller
<1>15. ASSUME NEW c \in Callers, SpawnNew(c)
      PROVE  Phases'
  BY <1>15 DEF SpawnNew, Go, Spawn
<1>16. ASSUME NEW c \in Callers, Swap(c)
      PROVE  Phases'
  BY <1>16 DEF Swap, Go, IdleCaller
<1>17. ASSUME NEW a \in Accounts, Boot(a)
      PROVE  Phases'
  BY <1>17, BuildFacts DEF Boot, Spawn
<1>18. CASE BootLock
  BY <1>18 DEF BootLock
<1>19. CASE Booted
  BY <1>19 DEF Booted
<1>20. CASE Shutdown
  BY <1>20 DEF Shutdown
<1>21. CASE StopLock
  BY <1>21 DEF StopLock
<1>22. CASE StopDone
  BY <1>22 DEF StopDone
<1>23. CASE UNCHANGED vars
  BY <1>23 DEF vars
<1> QED
  BY <1>1, <1>2, <1>3, <1>4, <1>5, <1>6, <1>7, <1>8, <1>9, <1>10, <1>11,
     <1>12, <1>13, <1>14, <1>15, <1>16, <1>17, <1>18, <1>19, <1>20, <1>21,
     <1>22, <1>23
     DEF Next, Loop, ReloadAccount, BootUp, Stop

-----------------------------------------------------------------------------
(* The units *)

LEMMA NextUnits ==
  Shape /\ Locks /\ Phases /\ Units /\ Turn /\ [Next]_vars => Units'
<1> SUFFICES ASSUME Shape, Locks, Phases, Units, Turn, [Next]_vars PROVE Units'
  OBVIOUS
<1> USE IdFacts
    DEF Shape, DataOK, Locks, Holding, Phases, Units, Listed, Numbered, Replacing,
        Turn, Newer, Live, entries, locks, process, unit, locals
<1>1. ASSUME NEW u \in Ids, Return(u)
      PROVE  Units'
  BY <1>1 DEF Return
<1>2. ASSUME NEW u \in Ids, Panic(u)
      PROVE  Units'
  BY <1>2 DEF Panic
<1>3. ASSUME NEW u \in Ids, Timer(u)
      PROVE  Units'
  <2>1. PICK x \in {"done", "restart"} : at' = [at EXCEPT ![u] = x]
    BY <1>3 DEF Timer
  <2>2. Listed'
    BY <1>3, <2>1 DEF Timer
  <2>3. Numbered'
    BY <1>3, <2>1 DEF Timer
  <2>4. Replacing'
    BY <1>3, <2>1 DEF Timer
  <2> QED
    BY <2>2, <2>3, <2>4
<1>4. ASSUME NEW u \in Ids, LockRestart(u)
      PROVE  Units'
  <2>1. PICK x \in {"done", "rebuild"} : at' = [at EXCEPT ![u] = x]
    BY <1>4 DEF LockRestart, Release
  <2>2. Listed'
    BY <1>4, <2>1 DEF LockRestart, Release
  <2>3. Numbered'
    BY <1>4, <2>1 DEF LockRestart, Release
  <2>4. Replacing'
    BY <1>4, <2>1 DEF LockRestart, Release
  <2> QED
    BY <2>2, <2>3, <2>4
<1>5. ASSUME NEW u \in Ids, Rebuild(u)
      PROVE  Units'
  <2>1. Listed'
    BY <1>5, BuildFacts DEF Rebuild
  <2>2. Numbered'
    <3>1. \A v \in Ids :
            at'[v] # "none" => v =< builds' /\ acct'[v] \in Accounts /\ entry'[v] \in Ids
      BY <1>5, BuildFacts DEF Rebuild
    <3>2. \A v \in units' : at'[v] # "none"
      BY <1>5 DEF Rebuild
    <3>3. \A c \in Callers : new'[c] # None => new'[c] =< builds'
      <4>1. UNCHANGED new /\ \A n \in 0 .. MaxBuilds : n =< builds => n =< builds'
        BY <1>5, BuildFacts DEF Rebuild
      <4>2. new \in [Callers -> Ids \cup {None}]
        OBVIOUS
      <4>3. \A c \in Callers : new[c] # None => new[c] =< builds
        OBVIOUS
      <4>4. \A c \in Callers : new[c] # None => new[c] \in 0 .. MaxBuilds
        BY <4>2, IdFacts
      <4> QED
        BY <4>1, <4>3, <4>4
    <3>4. \A a \in Accounts : ran'[a] =< builds'
      BY <1>5, BuildFacts DEF Rebuild
    <3> QED
      BY <3>1, <3>2, <3>3, <3>4
  <2>3. Replacing'
    BY <1>5, BuildFacts DEF Rebuild
  <2> QED
    BY <2>1, <2>2, <2>3
<1>6. ASSUME NEW u \in Ids, RebuildPanics(u)
      PROVE  Units'
  BY <1>6 DEF RebuildPanics
<1>7. ASSUME NEW c \in Callers, Call(c)
      PROVE  Units'
  BY <1>7 DEF Call, Go
<1>8. ASSUME NEW c \in Callers, Lock(c)
      PROVE  Units'
  BY <1>8 DEF Lock, Go, IdleCaller
<1>9. ASSUME NEW c \in Callers, Build(c)
      PROVE  Units'
  <2>1. Listed'
    BY <1>9, BuildFacts DEF Build, Go
  <2>2. Numbered'
    BY <1>9, BuildFacts DEF Build, Go
  <2>3. Replacing'
    BY <1>9, BuildFacts DEF Build, Go
  <2> QED
    BY <2>1, <2>2, <2>3
<1>10. ASSUME NEW c \in Callers, BuildPanics(c)
      PROVE  Units'
  BY <1>10 DEF BuildPanics, Go, IdleCaller
<1>11. ASSUME NEW c \in Callers, NoBuild(c)
      PROVE  Units'
  BY <1>11 DEF NoBuild, Go
<1>12. ASSUME NEW c \in Callers, Cancel(c)
      PROVE  Units'
  BY <1>12 DEF Cancel, Go
<1>13. ASSUME NEW c \in Callers, Await(c)
      PROVE  Units'
  BY <1>13 DEF Await, Go, Release
<1>14. ASSUME NEW c \in Callers, Drop(c)
      PROVE  Units'
  BY <1>14 DEF Drop, Go, IdleCaller
<1>15. ASSUME NEW c \in Callers, SpawnNew(c)
      PROVE  Units'
  BY <1>15 DEF SpawnNew, Go, Spawn
<1>16. ASSUME NEW c \in Callers, Swap(c)
      PROVE  Units'
  BY <1>16 DEF Swap, Go, IdleCaller
<1>17. ASSUME NEW a \in Accounts, Boot(a)
      PROVE  Units'
  <2>1. Listed'
    BY <1>17, BuildFacts DEF Boot, Spawn
  <2>2. Numbered'
    BY <1>17, BuildFacts DEF Boot, Spawn
  <2>3. Replacing'
    BY <1>17, BuildFacts DEF Boot, Spawn
  <2> QED
    BY <2>1, <2>2, <2>3
<1>18. CASE BootLock
  BY <1>18 DEF BootLock
<1>19. CASE Booted
  BY <1>19 DEF Booted
<1>20. CASE Shutdown
  BY <1>20 DEF Shutdown
<1>21. CASE StopLock
  BY <1>21 DEF StopLock
<1>22. CASE StopDone
  BY <1>22 DEF StopDone
<1>23. CASE UNCHANGED vars
  BY <1>23 DEF vars
<1> QED
  BY <1>1, <1>2, <1>3, <1>4, <1>5, <1>6, <1>7, <1>8, <1>9, <1>10, <1>11,
     <1>12, <1>13, <1>14, <1>15, <1>16, <1>17, <1>18, <1>19, <1>20, <1>21,
     <1>22, <1>23
     DEF Next, Loop, ReloadAccount, BootUp, Stop

LEMMA NextTurn ==
  Shape /\ Locks /\ Phases /\ Units /\ Turn /\ [Next]_vars => Turn'
<1> SUFFICES ASSUME Shape, Locks, Phases, Units, Turn, [Next]_vars PROVE Turn'
  OBVIOUS
<1> USE IdFacts
    DEF Shape, DataOK, Locks, Holding, Phases, Units, Listed, Numbered, Replacing,
        Turn, Awaited, Newer, Live, Done, entries, locks, process, unit, locals
<1>1. ASSUME NEW u \in Ids, Return(u)
      PROVE  Turn'
  BY <1>1 DEF Return
<1>2. ASSUME NEW u \in Ids, Panic(u)
      PROVE  Turn'
  BY <1>2 DEF Panic
<1>3. ASSUME NEW u \in Ids, Timer(u)
      PROVE  Turn'
  <2>1. PICK x \in {"done", "restart"} : at' = [at EXCEPT ![u] = x]
    BY <1>3 DEF Timer
  <2>2. Awaited'
    BY <1>3, <2>1 DEF Timer
  <2>3. Newer'
    BY <1>3, <2>1 DEF Timer
  <2> QED
    BY <2>2, <2>3
<1>4. ASSUME NEW u \in Ids, LockRestart(u)
      PROVE  Turn'
  <2>1. PICK x \in {"done", "rebuild"} : at' = [at EXCEPT ![u] = x]
    BY <1>4 DEF LockRestart, Release
  <2>2. Awaited'
    BY <1>4, <2>1 DEF LockRestart, Release
  <2>3. Newer'
    BY <1>4, <2>1 DEF LockRestart, Release
  <2> QED
    BY <2>2, <2>3
<1>5. ASSUME NEW u \in Ids, Rebuild(u)
      PROVE  Turn'
  BY <1>5, BuildFacts DEF Rebuild
<1>6. ASSUME NEW u \in Ids, RebuildPanics(u)
      PROVE  Turn'
  BY <1>6 DEF RebuildPanics
<1>7. ASSUME NEW c \in Callers, Call(c)
      PROVE  Turn'
  BY <1>7 DEF Call, Go
<1>8. ASSUME NEW c \in Callers, Lock(c)
      PROVE  Turn'
  BY <1>8 DEF Lock, Go, IdleCaller
<1>9. ASSUME NEW c \in Callers, Build(c)
      PROVE  Turn'
  BY <1>9, BuildFacts DEF Build, Go
<1>10. ASSUME NEW c \in Callers, BuildPanics(c)
      PROVE  Turn'
  BY <1>10 DEF BuildPanics, Go, IdleCaller
<1>11. ASSUME NEW c \in Callers, NoBuild(c)
      PROVE  Turn'
  BY <1>11 DEF NoBuild, Go
<1>12. ASSUME NEW c \in Callers, Cancel(c)
      PROVE  Turn'
  <2>1. Awaited'
    BY <1>12 DEF Cancel, Go
  <2>2. Newer'
    BY <1>12 DEF Cancel, Go
  <2> QED
    BY <2>1, <2>2
<1>13. ASSUME NEW c \in Callers, Await(c)
      PROVE  Turn'
  BY <1>13 DEF Await, Go, Release
<1>14. ASSUME NEW c \in Callers, Drop(c)
      PROVE  Turn'
  BY <1>14 DEF Drop, Go, IdleCaller
<1>15. ASSUME NEW c \in Callers, SpawnNew(c)
      PROVE  Turn'
  BY <1>15 DEF SpawnNew, Go, Spawn
<1>16. ASSUME NEW c \in Callers, Swap(c)
      PROVE  Turn'
  BY <1>16 DEF Swap, Go, IdleCaller
<1>17. ASSUME NEW a \in Accounts, Boot(a)
      PROVE  Turn'
  BY <1>17, BuildFacts DEF Boot, Spawn
<1>18. CASE BootLock
  BY <1>18 DEF BootLock
<1>19. CASE Booted
  BY <1>19 DEF Booted
<1>20. CASE Shutdown
  BY <1>20 DEF Shutdown
<1>21. CASE StopLock
  BY <1>21 DEF StopLock
<1>22. CASE StopDone
  BY <1>22 DEF StopDone
<1>23. CASE UNCHANGED vars
  BY <1>23 DEF vars
<1> QED
  BY <1>1, <1>2, <1>3, <1>4, <1>5, <1>6, <1>7, <1>8, <1>9, <1>10, <1>11,
     <1>12, <1>13, <1>14, <1>15, <1>16, <1>17, <1>18, <1>19, <1>20, <1>21,
     <1>22, <1>23
     DEF Next, Loop, ReloadAccount, BootUp, Stop

LEMMA NextOne ==
  Inv /\ [Next]_vars => OnePerAccount'
<1> SUFFICES ASSUME Inv, [Next]_vars PROVE OnePerAccount'
  OBVIOUS
<1> USE IdFacts
    DEF Inv, Shape, DataOK, Locks, Holding, Phases, Units, Listed, Numbered, Replacing,
        Turn, Newer, OnePerAccount, Live, entries, locks, process, unit, locals
<1>1. ASSUME NEW u \in Ids, Return(u)
      PROVE  OnePerAccount'
  BY <1>1 DEF Return
<1>2. ASSUME NEW u \in Ids, Panic(u)
      PROVE  OnePerAccount'
  BY <1>2 DEF Panic
<1>3. ASSUME NEW u \in Ids, Timer(u)
      PROVE  OnePerAccount'
  BY <1>3 DEF Timer
<1>4. ASSUME NEW u \in Ids, LockRestart(u)
      PROVE  OnePerAccount'
  BY <1>4 DEF LockRestart, Release
<1>5. ASSUME NEW u \in Ids, Rebuild(u)
      PROVE  OnePerAccount'
  BY <1>5, BuildFacts DEF Rebuild
<1>6. ASSUME NEW u \in Ids, RebuildPanics(u)
      PROVE  OnePerAccount'
  BY <1>6 DEF RebuildPanics
<1>7. ASSUME NEW c \in Callers, Call(c)
      PROVE  OnePerAccount'
  BY <1>7 DEF Call, Go
<1>8. ASSUME NEW c \in Callers, Lock(c)
      PROVE  OnePerAccount'
  BY <1>8 DEF Lock, Go, IdleCaller
<1>9. ASSUME NEW c \in Callers, Build(c)
      PROVE  OnePerAccount'
  BY <1>9, BuildFacts DEF Build, Go
<1>10. ASSUME NEW c \in Callers, BuildPanics(c)
      PROVE  OnePerAccount'
  BY <1>10 DEF BuildPanics, Go, IdleCaller
<1>11. ASSUME NEW c \in Callers, NoBuild(c)
      PROVE  OnePerAccount'
  BY <1>11 DEF NoBuild, Go
<1>12. ASSUME NEW c \in Callers, Cancel(c)
      PROVE  OnePerAccount'
  BY <1>12 DEF Cancel, Go
<1>13. ASSUME NEW c \in Callers, Await(c)
      PROVE  OnePerAccount'
  BY <1>13 DEF Await, Go, Release
<1>14. ASSUME NEW c \in Callers, Drop(c)
      PROVE  OnePerAccount'
  BY <1>14 DEF Drop, Go, IdleCaller
<1>15. ASSUME NEW c \in Callers, SpawnNew(c)
      PROVE  OnePerAccount'
  BY <1>15 DEF SpawnNew, Go, Spawn
<1>16. ASSUME NEW c \in Callers, Swap(c)
      PROVE  OnePerAccount'
  BY <1>16 DEF Swap, Go, IdleCaller
<1>17. ASSUME NEW a \in Accounts, Boot(a)
      PROVE  OnePerAccount'
  BY <1>17, BuildFacts DEF Boot, Spawn
<1>18. CASE BootLock
  BY <1>18 DEF BootLock
<1>19. CASE Booted
  BY <1>19 DEF Booted
<1>20. CASE Shutdown
  BY <1>20 DEF Shutdown
<1>21. CASE StopLock
  BY <1>21 DEF StopLock
<1>22. CASE StopDone
  BY <1>22 DEF StopDone
<1>23. CASE UNCHANGED vars
  BY <1>23 DEF vars
<1> QED
  BY <1>1, <1>2, <1>3, <1>4, <1>5, <1>6, <1>7, <1>8, <1>9, <1>10, <1>11,
     <1>12, <1>13, <1>14, <1>15, <1>16, <1>17, <1>18, <1>19, <1>20, <1>21,
     <1>22, <1>23
     DEF Next, Loop, ReloadAccount, BootUp, Stop

-----------------------------------------------------------------------------
(* The theorems *)

\* The invariant that the theorems rest on, for any number of accounts, callers
\* and builds of pool.go.
THEOREM InvHolds == Spec => []Inv
<1>1. Inv /\ [Next]_vars => Inv'
  BY NextShape, NextLocks, NextPhases, NextUnits, NextTurn, NextOne DEF Inv
<1> QED
  BY InitHolds, <1>1, PTL DEF Spec

LEMMA FlagsHold == Spec => [](base \in BOOLEAN /\ ended \in BOOLEAN)
<1> DEFINE Flags == base \in BOOLEAN /\ ended \in BOOLEAN
<1>1. Init => Flags
  BY DEF Init
<1>2. Flags /\ [Next]_vars => Flags'
  <2> SUFFICES ASSUME Flags, [Next]_vars PROVE Flags'
    OBVIOUS
  <2>1. base' \in {base, TRUE, FALSE}
    BY DEF Next, Loop, ReloadAccount, BootUp, Stop, vars, entries, locks, process,
           unit, locals, Return, Panic, Timer, LockRestart, Rebuild, RebuildPanics,
           Call, Lock, Build, BuildPanics, NoBuild, Cancel, Await, Drop, SpawnNew,
           Swap, BootLock, Boot, Booted, Shutdown, StopLock, StopDone
  <2>2. ended' \in {ended, TRUE}
    BY DEF Next, Loop, ReloadAccount, BootUp, Stop, vars, entries, locks, process,
           unit, locals, Return, Panic, Timer, LockRestart, Rebuild, RebuildPanics,
           Call, Lock, Build, BuildPanics, NoBuild, Cancel, Await, Drop, SpawnNew,
           Swap, BootLock, Boot, Booted, Shutdown, StopLock, StopDone
  <2> QED
    BY <2>1, <2>2
<1> QED
  BY <1>1, <1>2, PTL DEF Spec

\* Every field of the pool, its units and its callers keeps its type.
THEOREM TypeCorrect == Spec => []TypeOK
<1>1. Inv => DataOK
  BY DEF Inv, Shape
<1>2. DataOK /\ base \in BOOLEAN /\ ended \in BOOLEAN => TypeOK
  BY DEF TypeOK
<1> QED
  BY InvHolds, FlagsHold, <1>1, <1>2, PTL

\* When Pool.Stop has returned, no goroutine of the pool is left.
THEOREM StopDrainsHolds == Spec => []StopDrains
<1>1. Inv => StopDrains
  <2> SUFFICES ASSUME Inv, main = "stopped", NEW u \in Ids, Live(u) PROVE FALSE
    BY DEF StopDrains, Live
  <2>1. units = {} /\ stopping = {}
    BY DEF Inv, Phases
  <2>2. \A c \in Callers : pc[c] # "swap"
    BY DEF Inv, Phases, Holding
  <2> QED
    BY <2>1, <2>2 DEF Inv, Units, Listed
<1> QED
  BY InvHolds, <1>1, PTL

Pairs == {<<acct[u], entry[u]>> : u \in Running}

\* What runs of an account is one unit.
LEMMA RunningFacts ==
  ASSUME Inv
  PROVE  /\ \A u \in Running : u \in Ids /\ Live(u) /\ acct[u] \in Accounts
         /\ \A u, v \in Running : acct[u] = acct[v] => u = v
BY DEF Inv, Running, Live, OnePerAccount, Units, Numbered

\* A step that starts entry n of account a in unit w, which did not run.
LEMMA BeginFacts ==
  ASSUME Inv, NEW a \in Accounts, NEW n \in Ids, NEW w \in Ids,
         \A u \in Running : acct[u] # a,
         ran[a] < n, ran' = [ran EXCEPT ![a] = n],
         Running' = Running \cup {w},
         acct'[w] = a, entry'[w] = n,
         \A u \in Running : acct'[u] = acct[u] /\ entry'[u] = entry[u]
  PROVE  Turns!Begin(a, n)
<1>1. Pairs' = Pairs \cup {<<a, n>>}
  BY DEF Pairs
<1>2. \A r \in Pairs : r[1] # a
  BY DEF Pairs
<1> QED
  BY <1>1, <1>2 DEF Turns!Begin, Pairs

\* A step after which unit w runs no more.
LEMMA EndFacts ==
  ASSUME Inv, NEW w \in Running, Running' = Running \ {w},
         UNCHANGED <<acct, entry, ran>>
  PROVE  \E r \in Pairs : Turns!End(r)
<1> DEFINE r == <<acct[w], entry[w]>>
<1>1. r \in Pairs
  BY DEF Pairs
<1>2. Pairs' = Pairs \ {r}
  BY RunningFacts DEF Pairs
<1> QED
  BY <1>1, <1>2 DEF Turns!End, Pairs

LEMMA SameFacts ==
  ASSUME Running' = Running, UNCHANGED ran,
         \A u \in Running : acct'[u] = acct[u] /\ entry'[u] = entry[u]
  PROVE  UNCHANGED Turns!vars
<1>1. Pairs' = Pairs
  BY DEF Pairs
<1> QED
  BY <1>1 DEF Turns!vars, Pairs

\* Every step of the pool is a runner's turn that begins or ends, or neither.
LEMMA StepTurns ==
  Inv /\ Inv' /\ [Next]_vars => [Turns!Next]_(Turns!vars)
<1> SUFFICES ASSUME Inv, Inv', [Next]_vars PROVE [Turns!Next]_(Turns!vars)
  OBVIOUS
<1> USE IdFacts DEF entries, locks, process, unit, locals
<1>1. ASSUME NEW u \in Ids, Return(u)
      PROVE  [Turns!Next]_(Turns!vars)
  <2>1. u \in Running /\ Running' = Running \ {u}
    BY <1>1 DEF Return, Running, Inv, Shape, DataOK
  <2>2. UNCHANGED <<acct, entry, ran>>
    BY <1>1 DEF Return
  <2> QED
    BY <2>1, <2>2, EndFacts DEF Turns!Next, Pairs
<1>2. ASSUME NEW u \in Ids, Panic(u)
      PROVE  [Turns!Next]_(Turns!vars)
  <2>1. u \in Running /\ Running' = Running \ {u}
    BY <1>2 DEF Panic, Running, Inv, Shape, DataOK
  <2>2. UNCHANGED <<acct, entry, ran>>
    BY <1>2 DEF Panic
  <2> QED
    BY <2>1, <2>2, EndFacts DEF Turns!Next, Pairs
<1>3. ASSUME NEW u \in Ids, Timer(u)
      PROVE  [Turns!Next]_(Turns!vars)
  <2>1. Running' = Running
    BY <1>3 DEF Timer, Running, Inv, Shape, DataOK
  <2>2. UNCHANGED <<acct, entry, ran>>
    BY <1>3 DEF Timer
  <2> QED
    BY <2>1, <2>2, SameFacts
<1>4. ASSUME NEW u \in Ids, LockRestart(u)
      PROVE  [Turns!Next]_(Turns!vars)
  <2>1. Running' = Running
    BY <1>4 DEF LockRestart, Running, Inv, Shape, DataOK
  <2>2. UNCHANGED <<acct, entry, ran>>
    BY <1>4 DEF LockRestart
  <2> QED
    BY <2>1, <2>2, SameFacts
<1>5. ASSUME NEW u \in Ids, Rebuild(u)
      PROVE  [Turns!Next]_(Turns!vars)
  <2>1. PICK b \in Accounts, n \in Ids, w \in Ids :
               b = acct[u] /\ n = builds' /\ w = u
    BY <1>5, BuildFacts DEF Rebuild, Inv, Shape, DataOK, Units, Numbered
  <2>2. \A v \in Running : acct[v] # b
    BY <1>5, <2>1, BuildFacts
       DEF Rebuild, Running, Inv, Shape, DataOK, Locks, Holding, Phases, Units, Listed,
           Numbered, Replacing, Turn, Newer, OnePerAccount, Live
  <2>3. ran[b] < n /\ ran' = [ran EXCEPT ![b] = n]
    BY <1>5, <2>1, BuildFacts DEF Rebuild, Inv, Shape, DataOK, Units, Numbered, Turn, Newer
  <2>4. Running' = Running \cup {w}
    BY <1>5, <2>1, BuildFacts DEF Rebuild, Running, Inv, Shape, DataOK
  <2>5. acct'[w] = b /\ entry'[w] = n
    BY <1>5, <2>1, BuildFacts DEF Rebuild, Inv, Shape, DataOK
  <2>6. \A v \in Running : acct'[v] = acct[v] /\ entry'[v] = entry[v]
    BY <1>5, <2>1, BuildFacts DEF Rebuild, Running, Inv, Shape, DataOK, Units, Numbered, Turn, Newer
  <2>7. Turns!Begin(b, n)
    BY <2>2, <2>3, <2>4, <2>5, <2>6, BeginFacts
  <2> QED
    BY <2>7 DEF Turns!Next
<1>6. ASSUME NEW u \in Ids, RebuildPanics(u)
      PROVE  [Turns!Next]_(Turns!vars)
  <2>1. Running' = Running
    BY <1>6 DEF RebuildPanics, Running, Inv, Shape, DataOK
  <2>2. UNCHANGED <<acct, entry, ran>>
    BY <1>6 DEF RebuildPanics
  <2> QED
    BY <2>1, <2>2, SameFacts
<1>7. ASSUME NEW c \in Callers, Call(c)
      PROVE  [Turns!Next]_(Turns!vars)
  <2>1. UNCHANGED <<at, acct, entry, ran>>
    BY <1>7 DEF Call
  <2> QED
    BY <2>1, SameFacts DEF Running
<1>8. ASSUME NEW c \in Callers, Lock(c)
      PROVE  [Turns!Next]_(Turns!vars)
  <2>1. UNCHANGED <<at, acct, entry, ran>>
    BY <1>8 DEF Lock
  <2> QED
    BY <2>1, SameFacts DEF Running
<1>9. ASSUME NEW c \in Callers, Build(c)
      PROVE  [Turns!Next]_(Turns!vars)
  <2>1. UNCHANGED <<at, acct, entry, ran>>
    BY <1>9 DEF Build
  <2> QED
    BY <2>1, SameFacts DEF Running
<1>10. ASSUME NEW c \in Callers, BuildPanics(c)
      PROVE  [Turns!Next]_(Turns!vars)
  <2>1. UNCHANGED <<at, acct, entry, ran>>
    BY <1>10 DEF BuildPanics
  <2> QED
    BY <2>1, SameFacts DEF Running
<1>11. ASSUME NEW c \in Callers, NoBuild(c)
      PROVE  [Turns!Next]_(Turns!vars)
  <2>1. UNCHANGED <<at, acct, entry, ran>>
    BY <1>11 DEF NoBuild
  <2> QED
    BY <2>1, SameFacts DEF Running
<1>12. ASSUME NEW c \in Callers, Cancel(c)
      PROVE  [Turns!Next]_(Turns!vars)
  <2>1. UNCHANGED <<at, acct, entry, ran>>
    BY <1>12 DEF Cancel
  <2> QED
    BY <2>1, SameFacts DEF Running
<1>13. ASSUME NEW c \in Callers, Await(c)
      PROVE  [Turns!Next]_(Turns!vars)
  <2>1. UNCHANGED <<at, acct, entry, ran>>
    BY <1>13 DEF Await
  <2> QED
    BY <2>1, SameFacts DEF Running
<1>14. ASSUME NEW c \in Callers, Drop(c)
      PROVE  [Turns!Next]_(Turns!vars)
  <2>1. UNCHANGED <<at, acct, entry, ran>>
    BY <1>14 DEF Drop
  <2> QED
    BY <2>1, SameFacts DEF Running
<1>15. ASSUME NEW c \in Callers, SpawnNew(c)
      PROVE  [Turns!Next]_(Turns!vars)
  <2>1. PICK b \in Accounts, n \in Ids, w \in Ids :
               b = target[c] /\ n = new[c] /\ w = new[c]
    BY <1>15 DEF SpawnNew, Spawn, Go, Inv, Shape, DataOK, Units, Numbered
  <2>2. \A v \in Running : acct[v] # b
    BY <1>15, <2>1
       DEF SpawnNew, Spawn, Go, Running, Inv, Shape, DataOK, Locks, Holding, Phases, Units, Listed,
           Numbered, Replacing, Turn, Newer, OnePerAccount, Live
  <2>3. ran[b] < n /\ ran' = [ran EXCEPT ![b] = n]
    BY <1>15, <2>1 DEF SpawnNew, Spawn, Go, Inv, Shape, DataOK, Units, Numbered, Turn, Newer
  <2>4. Running' = Running \cup {w}
    BY <1>15, <2>1 DEF SpawnNew, Spawn, Go, Running, Inv, Shape, DataOK
  <2>5. acct'[w] = b /\ entry'[w] = n
    BY <1>15, <2>1 DEF SpawnNew, Spawn, Go, Inv, Shape, DataOK
  <2>6. \A v \in Running : acct'[v] = acct[v] /\ entry'[v] = entry[v]
    BY <1>15, <2>1 DEF SpawnNew, Spawn, Go, Running, Inv, Shape, DataOK, Units, Numbered, Turn, Newer
  <2>7. Turns!Begin(b, n)
    BY <2>2, <2>3, <2>4, <2>5, <2>6, BeginFacts
  <2> QED
    BY <2>7 DEF Turns!Next
<1>16. ASSUME NEW c \in Callers, Swap(c)
      PROVE  [Turns!Next]_(Turns!vars)
  <2>1. UNCHANGED <<at, acct, entry, ran>>
    BY <1>16 DEF Swap
  <2> QED
    BY <2>1, SameFacts DEF Running
<1>17. ASSUME NEW a \in Accounts, Boot(a)
      PROVE  [Turns!Next]_(Turns!vars)
  <2>1. PICK b \in Accounts, n \in Ids, w \in Ids :
               b = a /\ n = builds' /\ w = builds'
    BY <1>17, BuildFacts DEF Boot, Spawn, Inv, Shape, DataOK, Units, Numbered
  <2>2. \A v \in Running : acct[v] # b
    BY <1>17, <2>1, BuildFacts
       DEF Boot, Spawn, Running, Inv, Shape, DataOK, Locks, Holding, Phases, Units, Listed,
           Numbered, Replacing, Turn, Newer, OnePerAccount, Live
  <2>3. ran[b] < n /\ ran' = [ran EXCEPT ![b] = n]
    BY <1>17, <2>1, BuildFacts DEF Boot, Spawn, Inv, Shape, DataOK, Units, Numbered, Turn, Newer
  <2>4. Running' = Running \cup {w}
    BY <1>17, <2>1, BuildFacts DEF Boot, Spawn, Running, Inv, Shape, DataOK
  <2>5. acct'[w] = b /\ entry'[w] = n
    BY <1>17, <2>1, BuildFacts DEF Boot, Spawn, Inv, Shape, DataOK
  <2>6. \A v \in Running : acct'[v] = acct[v] /\ entry'[v] = entry[v]
    BY <1>17, <2>1, BuildFacts DEF Boot, Spawn, Running, Inv, Shape, DataOK, Units, Numbered, Turn, Newer
  <2>7. Turns!Begin(b, n)
    BY <2>2, <2>3, <2>4, <2>5, <2>6, BeginFacts
  <2> QED
    BY <2>7 DEF Turns!Next
<1>18. CASE BootLock
  <2>1. UNCHANGED <<at, acct, entry, ran>>
    BY <1>18 DEF BootLock
  <2> QED
    BY <2>1, SameFacts DEF Running
<1>19. CASE Booted
  <2>1. UNCHANGED <<at, acct, entry, ran>>
    BY <1>19 DEF Booted
  <2> QED
    BY <2>1, SameFacts DEF Running
<1>20. CASE Shutdown
  <2>1. UNCHANGED <<at, acct, entry, ran>>
    BY <1>20 DEF Shutdown
  <2> QED
    BY <2>1, SameFacts DEF Running
<1>21. CASE StopLock
  <2>1. UNCHANGED <<at, acct, entry, ran>>
    BY <1>21 DEF StopLock
  <2> QED
    BY <2>1, SameFacts DEF Running
<1>22. CASE StopDone
  <2>1. UNCHANGED <<at, acct, entry, ran>>
    BY <1>22 DEF StopDone
  <2> QED
    BY <2>1, SameFacts DEF Running
<1>23. CASE UNCHANGED vars
  BY <1>23, SameFacts DEF vars, Running
<1> QED
  BY <1>1, <1>2, <1>3, <1>4, <1>5, <1>6, <1>7, <1>8, <1>9, <1>10, <1>11,
     <1>12, <1>13, <1>14, <1>15, <1>16, <1>17, <1>18, <1>19, <1>20, <1>21,
     <1>22, <1>23
     DEF Next, Loop, ReloadAccount, BootUp, Stop


\* For any accounts, callers and number of builds, the pool implements
\* RunnerTurns: one runner of an account at a time, and the newer after the older.
THEOREM OneRunnerHolds == Spec => OneRunner
<1>1. Init => Turns!Init
  <2> SUFFICES ASSUME Init PROVE Turns!Init
    OBVIOUS
  <2>1. Running = {}
    BY DEF Init, Running
  <2> QED
    BY <2>1 DEF Init, Turns!Init
<1> QED
  BY <1>1, InvHolds, StepTurns, PTL DEF Spec, OneRunner, Turns!Spec
-----------------------------------------------------------------------------
(***************************************************************************)
(* HooksFollowSlot.  Between its reloads an account's trampoline follows   *)
(* the unit in its slot (Fits, SlotHooks); from the build of a reload on,  *)
(* it forwards to what was built, or, when that is no runner, to the unit  *)
(* that is being replaced until that one is released (NewHooks).           *)
(***************************************************************************)
Fits(u) ==
  /\ hooks[acct[u]] \in {None} \cup ({entry[u]} \cap runners)
  /\ at[u] = "rebuild" => hooks[acct[u]] = None
  /\ entry[u] \in runners /\ (at[u] = "run" \/ (at[u] = "done" /\ u \notin cancelled)) =>
       hooks[acct[u]] = entry[u]

Swapping(c, a) == target[c] = a /\ pc[c] \in {"cancel", "await", "drop", "spawn", "swap"}

SlotHooks(a) ==
  (\A c \in Callers : ~Swapping(c, a)) =>
    /\ \A u \in units : acct[u] = a => Fits(u) /\ u \notin cancelled
    /\ (\A u \in units : acct[u] # a) => hooks[a] = None

NewHooks(c) ==
  /\ pc[c] \in {"cancel", "await"} =>
       IF new[c] \in runners THEN hooks[target[c]] = new[c]
       ELSE \/ hooks[target[c]] = None
            \/ \E u \in units : acct[u] = target[c] /\ hooks[target[c]] = entry[u]
  /\ pc[c] = "drop" => hooks[target[c]] = None
  /\ pc[c] = "spawn" => hooks[target[c]] = IF new[c] \in runners THEN new[c] ELSE None
  /\ pc[c] = "swap" => Fits(new[c]) /\ new[c] \notin cancelled
  /\ pc[c] \in {"await", "drop", "spawn", "swap"} /\ old[c] # None => acct[old[c]] = target[c]

\* What has run is no newer than the account's latest, and nothing runs before the boot.
Started ==
  /\ \A u \in Ids : at[u] # "none" => entry[u] =< ran[acct[u]]
  /\ \A u \in cancelled : at[u] # "none"
  /\ \A n \in runners : n =< builds
  /\ main = "boot" => (\A a \in Accounts : hooks[a] = None) /\ \A u \in Ids : at[u] = "none"

Hooked ==
  base /\ ~ended => (\A a \in Accounts : SlotHooks(a)) /\ \A c \in Callers : NewHooks(c)

\* An account's latest entry moves on, and what has run is older.
LEMMA RanGrows ==
  ASSUME Inv, Started, NEW a \in Accounts, NEW n \in Ids, ran[a] =< n,
         ran' = [ran EXCEPT ![a] = n]
  PROVE  /\ ran'[a] = n
         /\ \A v \in Ids : at[v] # "none" => entry[v] =< ran'[acct[v]]
<1>1. /\ \A v \in Ids : at[v] # "none" => acct[v] \in Accounts /\ entry[v] \in Ids
      /\ ran \in [Accounts -> Nat] /\ n \in Nat /\ Ids \subseteq Nat
  BY IdFacts DEF Inv, Shape, DataOK, Units, Numbered
<1>2. ran'[a] = n /\ \A b \in Accounts \ {a} : ran'[b] = ran[b]
  BY <1>1
<1>3. ASSUME NEW v \in Ids, at[v] # "none" PROVE entry[v] =< ran'[acct[v]]
  <2>1. entry[v] =< ran[acct[v]] /\ entry[v] \in Nat /\ acct[v] \in Accounts
    BY <1>1, <1>3 DEF Started
  <2>2. CASE acct[v] = a
    <3>1. entry[v] =< ran[a] /\ ran[a] \in Nat
      BY <1>1, <2>1, <2>2
    <3> QED
      BY <1>1, <1>2, <2>1, <2>2, <3>1
  <2>3. CASE acct[v] # a
    BY <1>2, <2>1, <2>3
  <2> QED
    BY <2>2, <2>3
<1> QED
  BY <1>2, <1>3

LEMMA RunnersBuilt ==
  ASSUME Inv, Started, NEW a, BuildEntry(a)
  PROVE  builds' \notin runners /\ \A n \in runners' : n =< builds'
<1>0. builds' \notin runners
  <2>1. builds' = builds + 1 /\ builds \in Nat /\ \A n \in runners : n =< builds
    BY BuildFacts DEF Inv, Shape, Started
  <2>2. ~(builds + 1 =< builds)
    BY <2>1
  <2> QED
    BY <2>1, <2>2
<1> SUFFICES ASSUME NEW n \in runners' PROVE n =< builds'
  BY <1>0
<1>1. n = builds' \/ (n \in runners /\ n =< builds)
  BY DEF BuildEntry, Started
<1>2. builds' = builds + 1 /\ builds \in Nat /\ n \in Nat
  BY BuildFacts, IdFacts DEF Inv, Shape, DataOK
<1> QED
  BY <1>1, <1>2

LEMMA NextStarted == Inv /\ Started /\ [Next]_vars => Started'
<1> SUFFICES ASSUME Inv, Started, [Next]_vars PROVE Started' OBVIOUS
<1> USE IdFacts
    DEF Inv, Shape, DataOK, Started, entries, locks, process, unit, locals
<1>1. ASSUME NEW u \in Ids, Loop(u) PROVE Started'
  <2>1. /\ main' = main /\ at[u] # "none" /\ at'[u] # "none" /\ UNCHANGED <<acct, cancelled>>
        /\ \A v \in Ids \ {u} : at'[v] = at[v]
    BY <1>1 DEF Loop, Return, Panic, Timer, LockRestart, Rebuild, RebuildPanics
  <2>2. \A v \in Ids : at[v] # "none" => entry'[v] =< ran'[acct[v]]
    <3>1. CASE Rebuild(u)
      <4>1. /\ acct[u] \in Accounts /\ builds' \in Ids /\ ran[acct[u]] =< builds'
            /\ ran' = [ran EXCEPT ![acct[u]] = builds'] /\ entry' = [entry EXCEPT ![u] = builds']
        BY <3>1, BuildFacts DEF Rebuild, Units, Numbered
      <4>2. \A v \in Ids : at[v] # "none" => entry[v] =< ran'[acct[v]]
        BY <4>1, RanGrows
      <4>3. ran'[acct[u]] = builds' /\ builds' \in Nat /\ entry'[u] = builds'
        BY <4>1, IdFacts
      <4>4. \A v \in Ids \ {u} : entry'[v] = entry[v]
        BY <4>1
      <4> QED
        BY <4>2, <4>3, <4>4
    <3>2. CASE UNCHANGED <<entry, ran>>
      BY <3>2
    <3> QED
      BY <1>1, <3>1, <3>2 DEF Loop, Return, Panic, Timer, LockRestart, RebuildPanics
  <2>3. \A n \in runners' : n =< builds'
    <3>1. CASE Rebuild(u)
      BY <3>1, RunnersBuilt DEF Rebuild
    <3>2. CASE UNCHANGED entries
      BY <3>2
    <3> QED
      BY <1>1, <3>1, <3>2 DEF Loop, Return, Panic, Timer, LockRestart, RebuildPanics
  <2> QED
    BY <2>1, <2>2, <2>3
<1>2. ASSUME NEW c \in Callers, Call(c) \/ ReloadAccount(c) PROVE Started'
  <2>1. CASE Build(c)
    <3>1. \A n \in runners' : n =< builds'
      BY <2>1, RunnersBuilt DEF Build
    <3> QED
      BY <2>1, <3>1 DEF Build, Phases, Holding
  <2>2. CASE SpawnNew(c)
    <3>1. target[c] \in Accounts /\ new[c] \in Ids /\ at[new[c]] = "none"
      BY <2>2, IdFacts DEF SpawnNew, Turn, Newer
    <3>4. new[c] \in Nat /\ ran[target[c]] =< new[c]
      <4>1. ran[target[c]] < new[c]
        BY <2>2, <3>1, IdFacts DEF SpawnNew, Turn, Newer
      <4>2. ran[target[c]] \in 0 .. MaxBuilds /\ new[c] \in Nat
        BY <3>1, IdFacts
      <4> QED
        BY <4>1, <4>2
    <3>5. ran' = [ran EXCEPT ![target[c]] = new[c]]
      BY <2>2 DEF SpawnNew, Spawn
    <3>6. ran'[target[c]] = new[c] /\ \A v \in Ids : at[v] # "none" => entry[v] =< ran'[acct[v]]
      BY <3>1, <3>4, <3>5, RanGrows
    <3>2. /\ entry' = [entry EXCEPT ![new[c]] = new[c]]
          /\ acct' = [acct EXCEPT ![new[c]] = target[c]]
          /\ at' = [at EXCEPT ![new[c]] = "run"] /\ UNCHANGED <<cancelled, main>>
      BY <2>2 DEF SpawnNew, Spawn
    <3>3. main # "boot"
      BY <2>2 DEF SpawnNew, Phases, Holding
    <3>7. \A v \in Ids : at'[v] # "none" => entry'[v] =< ran'[acct'[v]]
      <4>1. entry'[new[c]] = new[c] /\ acct'[new[c]] = target[c] /\ new[c] =< ran'[target[c]]
        BY <3>1, <3>2, <3>4, <3>6
      <4>2. \A v \in Ids \ {new[c]} :
              at'[v] = at[v] /\ entry'[v] = entry[v] /\ acct'[v] = acct[v]
        BY <3>2
      <4> QED
        BY <3>6, <4>1, <4>2
    <3>8. (\A v \in cancelled' : at'[v] # "none") /\ UNCHANGED entries
      BY <2>2, <3>1, <3>2 DEF SpawnNew
    <3> QED
      BY <3>2, <3>3, <3>7, <3>8
  <2>3. CASE Cancel(c)
    BY <2>3 DEF Cancel, Units, Numbered
  <2>4. CASE Await(c)
    BY <2>4 DEF Await, Release, Phases, Holding
  <2>5. CASE Call(c) \/ Lock(c) \/ BuildPanics(c) \/ NoBuild(c) \/ Drop(c) \/ Swap(c)
    <3>1. UNCHANGED <<builds, runners, main, acct, entry, at, cancelled, hooks, ran>>
      BY <2>5 DEF Call, Lock, BuildPanics, NoBuild, Drop, Swap
    <3> QED
      BY <3>1
  <2> QED
    BY <1>2, <2>1, <2>2, <2>3, <2>4, <2>5
       DEF ReloadAccount
<1>3. ASSUME NEW a \in Accounts, Boot(a) PROVE Started'
  <2>1. /\ builds' \in Ids /\ ran[a] =< builds' /\ ran' = [ran EXCEPT ![a] = builds']
        /\ at[builds'] = "none" /\ main' # "boot" /\ UNCHANGED cancelled
    BY <1>3, BuildFacts DEF Boot, Spawn, Units, Numbered
  <2>2. /\ entry' = [entry EXCEPT ![builds'] = builds']
        /\ acct' = [acct EXCEPT ![builds'] = a] /\ at' = [at EXCEPT ![builds'] = "run"]
    BY <1>3 DEF Boot, Spawn
  <2>3. ran'[a] = builds' /\ \A v \in Ids : at[v] # "none" => entry[v] =< ran'[acct[v]]
    BY <2>1, RanGrows
  <2>4. builds' \in Nat /\ \A n \in runners' : n =< builds'
    BY <2>1, <1>3, RunnersBuilt, IdFacts DEF Boot
  <2> QED
    BY <2>1, <2>2, <2>3, <2>4
<1>4. CASE BootLock \/ Booted \/ Shutdown \/ Stop \/ UNCHANGED vars
  <2>1. (main = "boot")' => main = "boot"
    BY <1>4 DEF BootLock, Booted, Shutdown, Stop, StopLock, StopDone, vars
  <2>2. UNCHANGED <<entries, unit, cancelled, hooks, ran>>
    BY <1>4 DEF BootLock, Booted, Shutdown, Stop, StopLock, StopDone, vars
  <2> QED
    BY <2>1, <2>2
<1> QED
  BY <1>1, <1>2, <1>3, <1>4 DEF Next, BootUp

\* A build makes no earlier entry a runner.
LEMMA BuildRunners ==
  ASSUME Inv, Started, NEW a, BuildEntry(a)
  PROVE  /\ \A n \in Ids : n =< builds => (n \in runners' <=> n \in runners)
         /\ \A u \in Ids : at[u] # "none" => (entry[u] \in runners' <=> entry[u] \in runners)
         /\ \A c \in Callers : new[c] \in runners' <=> new[c] \in runners
<1>1. \A n \in Ids : n =< builds => (n \in runners' <=> n \in runners)
  BY BuildFacts, IdFacts DEF Inv, Shape, DataOK, BuildEntry
<1>2. \A u \in Ids : at[u] # "none" => entry[u] \in Ids /\ entry[u] =< builds
  <2> SUFFICES ASSUME NEW u \in Ids, at[u] # "none"
               PROVE  entry[u] \in Ids /\ entry[u] =< builds
    OBVIOUS
  <2>1. entry[u] \in Ids /\ acct[u] \in Accounts
    BY DEF Inv, Units, Numbered
  <2>2. entry[u] =< ran[acct[u]] /\ ran[acct[u]] =< builds
    BY <2>1 DEF Started, Inv, Units, Numbered
  <2>3. ran[acct[u]] \in 0 .. MaxBuilds /\ builds \in 0 .. MaxBuilds /\ entry[u] \in Nat
    BY <2>1, IdFacts DEF Inv, Shape, DataOK
  <2> QED
    BY <2>1, <2>2, <2>3
<1>3. runners \subseteq Ids /\ runners' \subseteq Ids
  BY BuildFacts DEF Inv, Shape, DataOK
<1>4. \A c \in Callers : new[c] \in Ids => new[c] =< builds
  BY IdFacts DEF Inv, Units, Numbered
<1> QED
  BY <1>1, <1>2, <1>3, <1>4

\* What a step of unit u's goroutine leaves alone.
LEMMA LoopFrame ==
  ASSUME Inv, Started, NEW u \in Ids, Loop(u)
  PROVE  /\ UNCHANGED <<units, acct, cancelled, process, locals>> /\ at[u] \notin {"none", "done"}
         /\ \A v \in Ids \ {u} : at'[v] = at[v] /\ entry'[v] = entry[v]
         /\ \A a \in Accounts : a # acct[u] => hooks'[a] = hooks[a]
         /\ \A v \in Ids : at[v] # "none" => (entry[v] \in runners' <=> entry[v] \in runners)
         /\ \A c \in Callers : new[c] \in runners' <=> new[c] \in runners
<1> USE IdFacts DEF Inv, Shape, DataOK, entries, locks, process, unit, locals
<1>1. CASE Rebuild(u)
  BY <1>1, BuildFacts, BuildRunners DEF Rebuild, BuildEntry
<1>2. CASE ~Rebuild(u)
  BY <1>2 DEF Loop, Return, Panic, Timer, LockRestart, Release, RebuildPanics
<1> QED
  BY <1>1, <1>2

\* The goroutine of the unit in the slot keeps the trampoline with it.
LEMMA LoopFits ==
  ASSUME Inv, Started, ~ended, NEW u \in Ids, Loop(u), Fits(u), u \notin cancelled
  PROVE  Fits(u)'
<1> USE IdFacts DEF Inv, Shape, DataOK, Fits, Done, entries, locks, process, unit, locals
<1>1. acct[u] \in Accounts /\ entry[u] \in Ids
  BY LoopFrame DEF Units, Numbered
<1>2. CASE Return(u) \/ Panic(u) \/ Timer(u)
  BY <1>1, <1>2 DEF Return, Panic, Timer
<1>3. CASE LockRestart(u)
  BY <1>1, <1>3 DEF LockRestart, Release
<1>4. CASE Rebuild(u)
  <2>1. /\ UNCHANGED <<acct, cancelled>> /\ entry'[u] = builds' /\ at'[u] = "run"
        /\ hooks[acct[u]] = None
    BY <1>4 DEF Rebuild
  <2>2. \/ builds' \in runners' /\ hooks'[acct[u]] = builds'
        \/ builds' \notin runners' /\ hooks'[acct[u]] = None
    <3>1. builds' \notin runners
      BY <1>4, RunnersBuilt DEF Rebuild
    <3> QED
      BY <1>1, <1>4, <2>1, <3>1 DEF Rebuild, BuildEntry
  <2> QED
    BY <2>1, <2>2
<1>5. CASE RebuildPanics(u)
  BY <1>1, <1>5 DEF RebuildPanics
<1> QED
  BY <1>2, <1>3, <1>4, <1>5 DEF Loop

\* The unit a reload replaces leaves the trampoline alone.
LEMMA LoopReplaced ==
  ASSUME Inv, Started, ~ended, NEW u \in Ids, Loop(u), u \in units,
         NEW c \in Callers, Swapping(c, acct[u])
  PROVE  pc[c] \in {"cancel", "await"} /\ UNCHANGED <<hooks, entry, runners>>
<1> USE IdFacts DEF Inv, Shape, DataOK, Locks, Swapping, Done, entries, locks, process, unit, locals
<1>1. pc[c] # "cancel" => u = old[c]
  BY DEF Units, Replacing
<1>2. pc[c] \in {"cancel", "await"}
  BY <1>1, LoopFrame DEF Units, Replacing
<1>3. at[u] # "rebuild" /\ (pc[c] = "await" => u \in cancelled) /\ (pc[c] = "cancel" => buildMu = c)
  BY <1>1, <1>2 DEF Turn, Awaited
<1> QED
  BY <1>2, <1>3 DEF Loop, Return, Panic, Timer, LockRestart, Rebuild, RebuildPanics

LEMMA LoopHooks ==
  ASSUME Inv, Started, Hooked, base, ~ended, NEW u \in Ids, Loop(u)
  PROVE  Hooked'
<1> USE IdFacts DEF Hooked
<1>1. /\ UNCHANGED <<units, acct, cancelled, pc, target, new, old>>
      /\ \A v \in Ids \ {u} : at'[v] = at[v] /\ entry'[v] = entry[v]
      /\ \A a \in Accounts : a # acct[u] => hooks'[a] = hooks[a]
  BY LoopFrame DEF locals
<1>2. \A v \in Ids \ {u} : at[v] # "none" /\ acct[v] \in Accounts /\ acct[v] # acct[u] =>
        (Fits(v) => Fits(v)')
  BY <1>1, LoopFrame DEF Fits
<1>3. \/ u \in units
      \/ \E c \in Callers : pc[c] = "swap" /\ new[c] = u
  <2>1. stopping = {}
    BY DEF Inv, Phases
  <2> QED
    BY <2>1, LoopFrame DEF Inv, Units, Listed, Live
<1>4. acct[u] \in Accounts /\ (\A v \in units : v \in Ids /\ at[v] # "none" /\ acct[v] \in Accounts)
  BY LoopFrame DEF Inv, Shape, DataOK, Units, Numbered
<1>5. \A c, d \in Callers : pc[c] \in Holding /\ pc[d] \in Holding => c = d
  BY DEF Inv, Locks
<1>6. \A c \in Callers : pc[c] = "swap" => new[c] \in Ids /\ acct[new[c]] = target[c] /\ at[new[c]] # "none"
  BY DEF Inv, Shape, Units, Replacing
<1>7. \A c \in Callers : pc[c] \in Holding => target[c] \in Accounts
  BY DEF Inv, Shape, Holding
<1>8. ASSUME NEW a \in Accounts, a # acct[u] PROVE SlotHooks(a)'
  BY <1>1, <1>2, <1>4, <1>8 DEF SlotHooks, Swapping
<1>9. ASSUME NEW c \in Callers, target[c] # acct[u] \/ pc[c] \notin Holding PROVE NewHooks(c)'
  <2>1. NewHooks(c) /\ UNCHANGED <<units, acct, cancelled, pc, target, new, old>>
    BY <1>1
  <2>2. CASE pc[c] \in {"cancel", "await", "spawn", "drop"}
    <3>1. target[c] \in Accounts /\ target[c] # acct[u]
      BY <1>7, <1>9, <2>2 DEF Holding
    <3>2. hooks'[target[c]] = hooks[target[c]]
      BY <1>1, <3>1
    <3>3. new[c] \in runners' <=> new[c] \in runners
      BY LoopFrame
    <3>4. \A v \in units : acct[v] = target[c] => entry'[v] = entry[v]
      BY <1>1, <1>4, <3>1
    <3> QED
      BY <2>1, <2>2, <3>2, <3>3, <3>4 DEF NewHooks
  <2>3. CASE pc[c] = "swap"
    <3>1. new[c] \in Ids \ {u} /\ at[new[c]] # "none" /\ acct[new[c]] \in Accounts /\ acct[new[c]] # acct[u]
      BY <1>6, <1>7, <1>9, <2>3 DEF Holding
    <3>2. Fits(new[c])'
      BY <1>2, <2>1, <2>3, <3>1 DEF NewHooks
    <3> QED
      BY <2>1, <2>3, <3>2 DEF NewHooks, Fits
  <2> QED
    BY <2>1, <2>2, <2>3 DEF NewHooks
<1>10. SlotHooks(acct[u])' /\ \A c \in Callers : target[c] = acct[u] => NewHooks(c)'
  <2>1. CASE \E c \in Callers : pc[c] = "swap" /\ new[c] = u
    <3>1. PICK c \in Callers : pc[c] = "swap" /\ new[c] = u
      BY <2>1
    <3>2. Fits(u)' /\ u \notin cancelled
      BY <3>1, LoopFits DEF NewHooks
    <3>3. NewHooks(c)'
      BY <1>1, <3>1, <3>2 DEF NewHooks, Fits
    <3>4. SlotHooks(acct[u])'
      BY <1>1, <1>6, <3>1 DEF SlotHooks, Swapping
    <3>5. ASSUME NEW d \in Callers \ {c} PROVE NewHooks(d)'
      BY <1>5, <1>9, <3>1, <3>5 DEF Holding
    <3> QED
      BY <3>3, <3>4, <3>5
  <2>2. CASE u \in units /\ \E c \in Callers : Swapping(c, acct[u])
    <3>1. PICK c \in Callers : Swapping(c, acct[u])
      BY <2>2
    <3>2. pc[c] \in {"cancel", "await"} /\ UNCHANGED <<hooks, entry, runners>>
      BY <2>2, <3>1, LoopReplaced
    <3>3. NewHooks(c)'
      BY <1>1, <3>2 DEF NewHooks
    <3>4. SlotHooks(acct[u])'
      BY <1>1, <3>1 DEF SlotHooks, Swapping
    <3>5. ASSUME NEW d \in Callers \ {c} PROVE NewHooks(d)'
      BY <1>5, <1>9, <3>2, <3>5 DEF Holding
    <3> QED
      BY <3>3, <3>4, <3>5
  <2>3. CASE u \in units /\ \A c \in Callers : ~Swapping(c, acct[u])
    <3>1. Fits(u)' /\ u \notin cancelled
      BY <1>4, <2>3, LoopFits DEF SlotHooks
    <3>2. \A v \in units : acct[v] = acct[u] => v = u
      BY <2>3 DEF Inv, Units, Listed
    <3>3. SlotHooks(acct[u])'
      BY <1>1, <2>3, <3>1, <3>2 DEF SlotHooks, Swapping
    <3>4. ASSUME NEW c \in Callers, target[c] = acct[u] PROVE NewHooks(c)'
      BY <1>1, <2>3, <3>4 DEF Swapping, NewHooks
    <3> QED
      BY <3>3, <3>4
  <2> QED
    BY <1>3, <2>1, <2>2, <2>3
<1>11. \A a \in Accounts : SlotHooks(a)'
  BY <1>1, <1>8, <1>10
<1>12. \A c \in Callers : NewHooks(c)'
  BY <1>1, <1>9, <1>10
<1> QED
  BY <1>11, <1>12
\* The callers: one at a time holds the lock of the reloads.
LEMMA OneHolder ==
  ASSUME Inv, NEW c \in Callers, pc[c] \in Holding
  PROVE  /\ target[c] \in Accounts
         /\ \A d \in Callers \ {c} : pc[d] \notin Holding
BY DEF Inv, Shape, Locks, Holding

\* A step of c, which works on account a: the other accounts and callers are as they were.
LEMMA CallerHooks ==
  ASSUME Inv, Hooked, base, ~ended, NEW c \in Callers, NEW a \in Accounts,
         pc[c] \in Holding, target[c] = a,
         \A d \in Callers \ {c} : pc'[d] = pc[d] /\ target'[d] = target[d],
         target'[c] = a \/ pc'[c] \notin Holding,
         \A b \in Accounts \ {a} :
           /\ hooks'[b] = hooks[b]
           /\ \A u \in Ids : u \in units' /\ acct'[u] = b <=> u \in units /\ acct[u] = b
           /\ \A u \in units : acct[u] = b =>
                /\ at'[u] = at[u] /\ entry'[u] = entry[u]
                /\ (u \in cancelled' <=> u \in cancelled)
                /\ (entry[u] \in runners' <=> entry[u] \in runners),
         SlotHooks(a)', NewHooks(c)', units' \subseteq Ids
  PROVE  Hooked'
<1>1. ASSUME NEW b \in Accounts \ {a} PROVE SlotHooks(b)'
  <2>1. SlotHooks(b) /\ \A d \in Callers : ~Swapping(d, b)
    BY OneHolder DEF Hooked, Swapping, Holding
  <2>2. units \subseteq Ids
    BY DEF Inv, Shape, DataOK
  <2>3. ASSUME NEW u \in units', acct'[u] = b PROVE Fits(u)' /\ u \notin cancelled'
    <3>1. u \in units /\ acct[u] = b /\ Fits(u) /\ u \notin cancelled
      BY <2>1, <2>3 DEF SlotHooks
    <3> QED
      BY <2>3, <3>1 DEF Fits
  <2>4. (\A u \in units' : acct'[u] # b) => hooks'[b] = None
    BY <2>1, <2>2 DEF SlotHooks
  <2> QED
    BY <2>3, <2>4 DEF SlotHooks
<1>2. ASSUME NEW d \in Callers \ {c} PROVE NewHooks(d)'
  BY <1>2, OneHolder DEF NewHooks, Holding
<1>3. \A b \in Accounts : SlotHooks(b)'
  BY <1>1
<1>4. \A d \in Callers : NewHooks(d)'
  BY <1>2
<1> QED
  BY <1>3, <1>4 DEF Hooked

LEMMA ReloadHooks ==
  ASSUME Inv, Started, Hooked, base, ~ended, NEW c \in Callers, ReloadAccount(c), ~Lock(c)
  PROVE  Hooked'
<1> DEFINE a == target[c]
<1> USE IdFacts DEF entries, locks, process, unit, locals
<1>0. pc[c] \in Holding
  BY DEF ReloadAccount, Holding, Build, BuildPanics, NoBuild, Cancel, Await, Drop, SpawnNew, Swap
<1>1. a \in Accounts /\ \A d \in Callers \ {c} : pc[d] \notin Holding
  BY <1>0, OneHolder
<1>3. \A u \in units : u \in Ids /\ at[u] # "none" /\ acct[u] \in Accounts
  BY DEF Inv, Shape, DataOK, Units, Numbered
<1>4. NewHooks(c) /\ SlotHooks(a)
  BY <1>1 DEF Hooked
<1>5. pc \in [Callers -> {"idle", "lock", "lockRemove", "build", "remove", "cancel",
                          "await", "drop", "spawn", "swap"}]
      /\ units \subseteq Ids /\ new \in [Callers -> Ids \cup {None}]
      /\ old \in [Callers -> Ids \cup {None}] /\ target \in [Callers -> Accounts \cup {None}]
      /\ hooks \in [Accounts -> Ids \cup {None}] /\ runners \subseteq Ids
  BY DEF Inv, Shape, DataOK
<1>2. \A d \in Callers \ {c} : pc'[d] = pc[d] /\ target'[d] = target[d]
  <2>1. \/ Go(c, "cancel") \/ Go(c, "await") \/ Go(c, "drop") \/ Go(c, "spawn")
        \/ Go(c, "swap") \/ IdleCaller(c)
    BY DEF ReloadAccount, Build, BuildPanics, NoBuild, Cancel, Await, Drop, SpawnNew, Swap
  <2>2. UNCHANGED target \/ IdleCaller(c)
    BY DEF ReloadAccount, Build, BuildPanics, NoBuild, Cancel, Await, Drop, SpawnNew, Swap
  <2> QED
    BY <1>5, <2>1, <2>2 DEF Go, IdleCaller
<1>6. pc[c] \in {"build", "remove"} =>
        \/ hooks[a] = None
        \/ \E u \in units : acct[u] = a /\ hooks[a] = entry[u]
  <2>1. pc[c] \in {"build", "remove"} => \A d \in Callers : ~Swapping(d, a)
    BY <1>1 DEF Swapping, Holding
  <2> QED
    BY <1>4, <2>1 DEF SlotHooks, Fits
<1>7. CASE Build(c)
  <2>1. /\ UNCHANGED <<units, acct, at, entry, cancelled, target>> /\ pc'[c] = "cancel"
        /\ new'[c] = builds' /\ \A b \in Accounts \ {a} : hooks'[b] = hooks[b]
    BY <1>1, <1>5, <1>7 DEF Build, BuildEntry, Go
  <2>2. \A u \in units : entry[u] \in runners' <=> entry[u] \in runners
    BY <1>3, <1>7, BuildRunners DEF Build
  <2>3. builds' \notin runners
    BY <1>7, RunnersBuilt DEF Build
  <2>4. NewHooks(c)'
    BY <1>1, <1>5, <1>6, <1>7, <2>1, <2>3 DEF Build, BuildEntry, NewHooks
  <2>5. SlotHooks(a)'
    BY <2>1 DEF SlotHooks, Swapping
  <2> QED
    BY <1>0, <1>1, <1>2, <1>5, <2>1, <2>2, <2>4, <2>5, CallerHooks
<1>8. CASE BuildPanics(c)
  <2>1. UNCHANGED <<units, acct, at, entry, cancelled, hooks, runners>> /\ pc'[c] = "idle"
    BY <1>5, <1>8 DEF BuildPanics, Go, IdleCaller
  <2>2. \A d \in Callers : ~Swapping(d, a)
    BY <1>1, <1>8 DEF Swapping, Holding, BuildPanics
  <2>3. \A b \in Accounts : b = a => SlotHooks(b)'
    BY <1>4, <2>1, <2>2 DEF SlotHooks, Fits
  <2>4. NewHooks(c)' /\ pc'[c] \notin Holding
    BY <2>1 DEF NewHooks, Holding
  <2> QED
    BY <1>0, <1>1, <1>2, <1>5, <2>1, <2>3, <2>4, CallerHooks
<1>9. CASE NoBuild(c)
  <2>1. /\ UNCHANGED <<units, acct, at, entry, cancelled, hooks, runners, target, new>>
        /\ pc'[c] = "cancel" /\ new[c] = None
    BY <1>5, <1>9 DEF NoBuild, Go, Inv, Shape
  <2>2. NewHooks(c)'
    BY <1>5, <1>6, <1>9, <2>1 DEF NoBuild, NewHooks
  <2>3. SlotHooks(a)'
    BY <2>1 DEF SlotHooks, Swapping
  <2> QED
    BY <1>0, <1>1, <1>2, <1>5, <2>1, <2>2, <2>3, CallerHooks
<1>10. CASE Cancel(c)
  <2>1. /\ UNCHANGED <<units, acct, at, entry, hooks, runners, target, new>>
        /\ pc[c] = "cancel" /\ pc'[c] = "await"
    BY <1>5, <1>10 DEF Cancel, Go
  <2>2. \A u \in units : acct[u] # a => (u \in cancelled' <=> u \in cancelled)
    BY <1>10 DEF Cancel
  <2>3. NewHooks(c)'
    <3>1. old'[c] # None => acct[old'[c]] = a
      BY <1>5, <1>10 DEF Cancel, Inv, Shape
    <3> QED
      BY <1>4, <2>1, <3>1 DEF NewHooks
  <2>4. SlotHooks(a)'
    BY <2>1 DEF SlotHooks, Swapping
  <2> QED
    BY <1>0, <1>1, <1>2, <1>5, <2>1, <2>2, <2>3, <2>4, CallerHooks
<1>11. CASE Await(c)
  <2>1. /\ UNCHANGED <<units, acct, at, entry, cancelled, runners, target, new, old>>
        /\ pc[c] = "await" /\ pc'[c] = IF new[c] = None THEN "drop" ELSE "spawn"
        /\ \A b \in Accounts \ {a} : hooks'[b] = hooks[b]
    BY <1>5, <1>11 DEF Await, Go, Release
  <2>2. \A u \in units : acct[u] = a => u = old[c]
    BY <2>1 DEF Inv, Units, Replacing
  <2>7. old'[c] # None => acct'[old'[c]] = target'[c]
    BY <1>4, <2>1 DEF NewHooks
  <2>3. ASSUME new[c] \in runners PROVE NewHooks(c)'
    <3>1. hooks[a] = new[c] /\ new[c] \in Ids /\ new[c] # None
      BY <1>4, <1>5, <2>1, <2>3 DEF NewHooks
    <3>2. old[c] # None => entry[old[c]] # new[c]
      <4> SUFFICES ASSUME old[c] # None PROVE entry[old[c]] # new[c]
        OBVIOUS
      <4>1. at[old[c]] = "done" /\ acct[old[c]] = a /\ old[c] \in Ids
        BY <1>4, <1>5, <1>11, <2>1 DEF Await, NewHooks
      <4>2. entry[old[c]] =< ran[a] /\ ran[a] < new[c]
        BY <2>1, <3>1, <4>1 DEF Started, Inv, Turn, Newer
      <4>3. entry[old[c]] \in Ids /\ ran[a] \in 0 .. MaxBuilds
        BY <1>1, <4>1 DEF Inv, Shape, DataOK, Units, Numbered
      <4>4. \A i, j, k \in Nat : i =< j /\ j < k => i # k
        OBVIOUS
      <4>5. Ids \subseteq Nat /\ 0 .. MaxBuilds \subseteq Nat
        BY IdFacts
      <4> QED
        BY <3>1, <4>2, <4>3, <4>4, <4>5
    <3>3. hooks'[a] = new[c]
      BY <1>1, <1>5, <1>11, <3>1, <3>2 DEF Await, Release
    <3>4. pc'[c] = "spawn" /\ target'[c] = a /\ new'[c] = new[c] /\ new'[c] \in runners'
      BY <2>1, <2>3, <3>1
    <3>5. hooks'[target'[c]] = new'[c]
      BY <3>3, <3>4
    <3> QED
      BY <2>7, <3>4, <3>5 DEF NewHooks, Fits
  <2>4. ASSUME new[c] \notin runners PROVE NewHooks(c)'
    <3>1. hooks[a] = None \/ (old[c] \in units /\ hooks[a] = entry[old[c]])
      BY <1>4, <2>1, <2>2, <2>4 DEF NewHooks
    <3>2. hooks'[a] = None
      BY <1>1, <1>5, <1>11, <3>1 DEF Await, Release
    <3>3. pc'[c] \in {"drop", "spawn"} /\ target'[c] = a /\ new'[c] \notin runners'
      BY <2>1, <2>4
    <3>4. hooks'[target'[c]] = None
      BY <3>2, <3>3
    <3> QED
      BY <2>7, <3>3, <3>4 DEF NewHooks, Fits
  <2>5. NewHooks(c)'
    BY <2>3, <2>4
  <2>6. SlotHooks(a)'
    BY <2>1 DEF SlotHooks, Swapping
  <2> QED
    BY <1>0, <1>1, <1>2, <1>5, <2>1, <2>5, <2>6, CallerHooks
<1>12. CASE Drop(c) \/ Swap(c)
  <2> DEFINE extra == IF pc[c] = "swap" THEN {new[c]} ELSE {}
  <2>1. /\ UNCHANGED <<acct, at, entry, cancelled, runners, hooks>>
        /\ units' = (units \ {old[c]}) \cup extra
        /\ pc[c] \in {"drop", "swap"} /\ pc'[c] = "idle"
    BY <1>5, <1>12 DEF Drop, Swap, Go, IdleCaller
  <2>2. \A u \in units : acct[u] = a => u = old[c]
    BY <2>1 DEF Inv, Units, Replacing
  <2>3. pc[c] = "swap" => /\ new[c] \in Ids /\ acct[new[c]] = a
                          /\ Fits(new[c]) /\ new[c] \notin cancelled
    BY <1>4, <2>1 DEF Inv, Shape, Units, Replacing, NewHooks
  <2>4. old[c] # None => acct[old[c]] = a
    BY <1>4, <2>1 DEF NewHooks
  <2>5. \A b \in Accounts \ {a} : \A u \in Ids :
          u \in units' /\ acct'[u] = b <=> u \in units /\ acct[u] = b
    BY <2>1, <2>3, <2>4
  <2>6. \A b \in Accounts : b = a => SlotHooks(b)'
    <3>1. pc[c] = "drop" => hooks[a] = None
      BY <1>4 DEF NewHooks
    <3>2. \A u \in units' : acct'[u] = a => pc[c] = "swap" /\ u = new[c]
      BY <2>1, <2>2
    <3>3. pc[c] = "swap" => new[c] \in units'
      BY <2>1
    <3>4. pc[c] = "swap" => \A u \in units' : u = new[c] => Fits(u)' /\ u \notin cancelled'
      BY <2>1, <2>3 DEF Fits
    <3> QED
      BY <2>1, <2>3, <3>1, <3>2, <3>3, <3>4 DEF SlotHooks
  <2>7. NewHooks(c)' /\ pc'[c] \notin Holding /\ units' \subseteq Ids
    BY <1>5, <2>1, <2>3 DEF NewHooks, Holding
  <2> QED
    BY <1>0, <1>1, <1>2, <2>1, <2>5, <2>6, <2>7, CallerHooks
<1>13. CASE SpawnNew(c)
  <2>1. /\ UNCHANGED <<units, cancelled, runners, hooks, target, new, old>>
        /\ pc[c] = "spawn" /\ pc'[c] = "swap"
    BY <1>5, <1>13 DEF SpawnNew, Go
  <2>2. new[c] \in Ids /\ at[new[c]] = "none" /\ new[c] \notin cancelled
    BY <2>1, IdFacts DEF Inv, Shape, Turn, Newer, Started
  <2>3. /\ acct'[new[c]] = a /\ entry'[new[c]] = new[c] /\ at'[new[c]] = "run"
        /\ \A u \in Ids \ {new[c]} : acct'[u] = acct[u] /\ entry'[u] = entry[u] /\ at'[u] = at[u]
    BY <1>13, <2>2 DEF SpawnNew, Spawn, Inv, Shape, DataOK
  <2>4. \A u \in units : u # new[c]
    BY <1>3, <2>2
  <2>5. NewHooks(c)'
    <3>1. hooks[a] = IF new[c] \in runners THEN new[c] ELSE None
      BY <1>4, <2>1 DEF NewHooks
    <3>2. Fits(new[c])'
      BY <2>1, <2>3, <3>1 DEF Fits
    <3>3. old[c] # None => acct'[old[c]] = a
      BY <1>4, <1>5, <2>1, <2>3 DEF NewHooks
    <3> QED
      BY <2>1, <2>2, <3>2, <3>3 DEF NewHooks
  <2>6. SlotHooks(a)'
    BY <2>1 DEF SlotHooks, Swapping
  <2> QED
    BY <1>0, <1>1, <1>2, <1>3, <1>5, <2>1, <2>3, <2>4, <2>5, <2>6, CallerHooks
<1> QED
  BY <1>7, <1>8, <1>9, <1>10, <1>11, <1>12, <1>13 DEF ReloadAccount

LEMMA NextHooked == Inv /\ Started /\ Hooked /\ [Next]_vars => Hooked'
<1> SUFFICES ASSUME Inv, Started, Hooked, [Next]_vars PROVE Hooked'
  OBVIOUS
<1> USE IdFacts DEF entries, locks, process, unit, locals
<1>1. ASSUME NEW u \in Ids, Loop(u) PROVE Hooked'
  <2>1. UNCHANGED <<base, ended>>
    BY <1>1, LoopFrame
  <2> QED
    BY <1>1, <2>1, LoopHooks DEF Hooked
<1>2. ASSUME NEW c \in Callers, Call(c) \/ Lock(c) PROVE Hooked'
  <2>1. /\ UNCHANGED <<base, ended, units, acct, at, entry, cancelled, runners, hooks>>
        /\ pc[c] \in {"idle", "lock", "lockRemove"}
        /\ pc'[c] \in {"idle", "lock", "lockRemove", "build", "remove"}
        /\ \A d \in Callers \ {c} :
             pc'[d] = pc[d] /\ target'[d] = target[d] /\ new'[d] = new[d] /\ old'[d] = old[d]
    BY <1>2 DEF Call, Lock, Go, IdleCaller, Inv, Shape, DataOK
  <2>2. \A d \in Callers, b \in Accounts : Swapping(d, b)' <=> Swapping(d, b)
    BY <2>1 DEF Swapping
  <2>3. ASSUME NEW b \in Accounts, SlotHooks(b) PROVE SlotHooks(b)'
    BY <2>1, <2>2, <2>3 DEF SlotHooks, Fits
  <2>4. ASSUME NEW d \in Callers, NewHooks(d) PROVE NewHooks(d)'
    BY <2>1, <2>4 DEF NewHooks, Fits
  <2> QED
    BY <2>1, <2>3, <2>4 DEF Hooked
<1>3. ASSUME NEW c \in Callers, ReloadAccount(c), ~Lock(c) PROVE Hooked'
  <2>1. UNCHANGED <<base, ended>>
    BY <1>3 DEF ReloadAccount, Build, BuildPanics, NoBuild, Cancel, Await, Drop, SpawnNew, Swap
  <2> QED
    BY <1>3, <2>1, ReloadHooks DEF Hooked
<1>4. ASSUME NEW a \in Accounts, Boot(a), ~ended PROVE Hooked'
  <2>1. \A c \in Callers : pc[c] \notin Holding
    BY <1>4 DEF Boot, Inv, Locks
  <2>2. /\ UNCHANGED <<base, ended, cancelled, pc, target, new, old>> /\ base
        /\ units' = units \cup {builds'} /\ \A u \in units : acct[u] # a
        /\ \A b \in Accounts \ {a} : hooks'[b] = hooks[b]
    <3>1. main = "spawn" => base
      BY DEF Inv, Phases
    <3>2. hooks \in [Accounts -> Ids \cup {None}]
      BY DEF Inv, Shape, DataOK
    <3> QED
      BY <1>4, <3>1, <3>2 DEF Boot, BuildEntry
  <2>3. builds' \in Ids /\ at[builds'] = "none" /\ builds' \notin cancelled /\ builds' \notin runners
    <3>1. BuildEntry(a) /\ DataOK
      BY <1>4 DEF Boot, Inv, Shape
    <3>2. builds' = builds + 1 /\ builds \in Nat /\ builds' \in Ids
      BY <3>1, BuildFacts
    <3>3. ~(builds' =< builds)
      BY <3>2
    <3>4. at[builds'] = "none"
      BY <3>2, <3>3 DEF Inv, Units, Numbered
    <3> QED
      BY <3>1, <3>2, <3>4, RunnersBuilt DEF Started
  <2>4. /\ acct'[builds'] = a /\ entry'[builds'] = builds' /\ at'[builds'] = "run"
        /\ \A u \in Ids \ {builds'} : acct'[u] = acct[u] /\ entry'[u] = entry[u] /\ at'[u] = at[u]
    BY <1>4, <2>3 DEF Boot, Spawn, Inv, Shape, DataOK
  <2>5. \A c \in Callers, b \in Accounts : ~Swapping(c, b) /\ ~Swapping(c, b)'
    BY <2>1, <2>2 DEF Swapping, Holding
  <2>6. \A u \in units : u \in Ids \ {builds'} /\ (entry[u] \in runners' <=> entry[u] \in runners)
    BY <1>4, <2>3, BuildRunners DEF Boot, Inv, Shape, DataOK, Units, Numbered
  <2>7. ASSUME NEW b \in Accounts \ {a} PROVE SlotHooks(b)'
    <3>1. SlotHooks(b) /\ \A c \in Callers : ~Swapping(c, b)
      BY <1>4, <2>2, <2>5 DEF Hooked
    <3>2. ASSUME NEW u \in units', acct'[u] = b PROVE Fits(u)' /\ u \notin cancelled'
      <4>1. u \in units /\ acct[u] = b /\ at'[u] = at[u] /\ entry'[u] = entry[u]
            /\ (entry[u] \in runners' <=> entry[u] \in runners)
        BY <2>2, <2>4, <2>6, <3>2
      <4>2. Fits(u) /\ u \notin cancelled /\ hooks'[b] = hooks[b]
        BY <2>2, <3>1, <4>1 DEF SlotHooks
      <4> QED
        BY <2>2, <3>2, <4>1, <4>2 DEF Fits
    <3>3. (\A u \in units' : acct'[u] # b) => hooks'[b] = None
      BY <2>2, <2>4, <2>6, <3>1 DEF SlotHooks
    <3> QED
      BY <3>2, <3>3 DEF SlotHooks
  <2>8. SlotHooks(a)'
    <3>1. hooks[a] = None
      BY <1>4, <2>2, <2>5 DEF Hooked, SlotHooks
    <3>2. hooks'[a] = IF builds' \in runners' THEN builds' ELSE None
      BY <1>4, <2>3, <3>1 DEF Boot, BuildEntry, Inv, Shape, DataOK
    <3>3. \A u \in units' : acct'[u] = a => u = builds'
      BY <2>2, <2>4, <2>6
    <3>4. \A u \in units' : u = builds' => Fits(u)' /\ u \notin cancelled'
      BY <2>2, <2>3, <2>4, <3>2 DEF Fits
    <3> QED
      BY <2>2, <2>4, <3>3, <3>4 DEF SlotHooks
  <2>9. \A c \in Callers : NewHooks(c)'
    BY <2>1, <2>2 DEF NewHooks, Holding
  <2> QED
    BY <2>7, <2>8, <2>9 DEF Hooked
<1>5. CASE BootLock
  <2>1. /\ units = {} /\ (\A a \in Accounts : hooks[a] = None) /\ \A c \in Callers : pc[c] \notin Holding
    BY <1>5 DEF BootLock, Inv, Phases, Started
  <2>2. UNCHANGED <<units, hooks, pc>>
    BY <1>5 DEF BootLock
  <2> QED
    BY <2>1, <2>2 DEF Hooked, SlotHooks, NewHooks, Holding
<1>6. CASE Booted \/ UNCHANGED vars
  <2>1. UNCHANGED <<base, ended, units, acct, at, entry, cancelled, runners, hooks, pc, target, new, old>>
    BY <1>6 DEF Booted, vars
  <2> QED
    BY <2>1 DEF Hooked, SlotHooks, NewHooks, Swapping, Fits
<1>7. CASE Shutdown \/ Stop
  BY <1>7 DEF Shutdown, Stop, StopLock, StopDone, Hooked, Inv, Phases
<1>8. ASSUME NEW a \in Accounts, Boot(a), ended PROVE Hooked'
  BY <1>8 DEF Boot, Hooked
<1> QED
  BY <1>1, <1>2, <1>3, <1>4, <1>5, <1>6, <1>7, <1>8 DEF Next, BootUp, ReloadAccount

\* Until the shutdown, with no reload under way, pushes for an account reach the
\* runner in its slot, or nobody while that one waits for its restart, whatever
\* panicked, was rebuilt, replaced or removed before.
THEOREM HooksFollowSlotHolds == Spec => []HooksFollowSlot
<1>1. Init => Started /\ Hooked
  BY DEF Init, Started, Hooked
<1>2. Spec => [](Inv /\ Started /\ Hooked)
  BY <1>1, InvHolds, NextStarted, NextHooked, PTL DEF Spec
<1>3. Inv /\ Started /\ Hooked => HooksFollowSlot
  <2> SUFFICES ASSUME Inv, Hooked, Settled, base, ~ended, NEW a \in Accounts
               PROVE  LET slot == {u \in units : acct[u] = a /\ entry[u] \in runners}
                      IN  /\ hooks[a] \in {None} \cup {entry[u] : u \in slot}
                          /\ \A u \in slot : at[u] \in {"run", "done"} => hooks[a] = entry[u]
    BY DEF HooksFollowSlot
  <2>1. \A c \in Callers : ~Swapping(c, a)
    BY IdFacts DEF Settled, Swapping, Inv, Locks, Holding
  <2>2. /\ \A u \in units : acct[u] = a => Fits(u) /\ u \notin cancelled
        /\ (\A u \in units : acct[u] # a) => hooks[a] = None
    BY <2>1 DEF Hooked, SlotHooks
  <2> QED
    BY <2>2 DEF Fits
<1> QED
  BY <1>2, <1>3, PTL
=============================================================================
