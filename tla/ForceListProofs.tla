--------------------------- MODULE ForceListProofs ---------------------------
(***************************************************************************)
(* ForceList, for any accounts, channels and handlers and any number of    *)
(* saves: types, CacheFollows, and StoppedIsRebuilt.                       *)
(*                                                                         *)
(* A list that is not the saved one may be cached, or about to be, while a *)
(* save is not answered; what makes it inductive is that the handler of    *)
(* the last save has then still to take the lock (Stale), and that no two  *)
(* read under it at once (Locked).  A stopped account whose list has grown *)
(* has a rebuild owed to it, by the handler that read the list or by the   *)
(* wake it sent (OnItsWay, Owed).                                          *)
(***************************************************************************)
EXTENDS ForceList, TLAPS

FlagsOK == wake \in BOOLEAN /\ failed \in BOOLEAN

\* Whoever queries the list, or has a list to store, holds the lock.
Locked ==
  /\ \A a \in Accounts : at[a] \in {"query", "store"} => forceMu = a
  /\ \A h \in Handlers : hat[h] \in {"query", "store"} => forceMu = h

\* A handler that has not asked the store since its save.
Behind == \E h \in Handlers : hat[h] = "snap"
Coming(h) ==
  \/ hat[h] \in {"snap", "query"}
  \/ hat[h] = "store" /\ read[h] = table

Stale ==
  /\ cache # None /\ cache # table => \E h \in Handlers : Coming(h)
  /\ \A a \in Accounts : at[a] = "store" /\ read[a] # table => Behind
  /\ \A h \in Handlers : hat[h] = "store" /\ read[h] # table => Behind

Inv == DataOK /\ Locked /\ Stale

-----------------------------------------------------------------------------
LEMMA ListFacts ==
  /\ NoList \in Lists /\ None \notin Accounts \cup Handlers \cup Lists
  /\ Accounts \cap Handlers = {}
  /\ \A l \in Lists, a \in Accounts : l[a] \subseteq Channels
  /\ NoSnap \in [Accounts -> States \cup {None}]
BY ForceAssumption DEF NoList, Lists, NoSnap

LEMMA InitHolds == Init => Inv
BY ListFacts, ForceAssumption DEF Init, Inv, DataOK, Locked, Stale, States

LEMMA NextData == DataOK /\ [Next]_vars => DataOK'
<1> SUFFICES ASSUME DataOK, [Next]_vars PROVE DataOK'
  OBVIOUS
<1> USE ListFacts, ForceAssumption
    DEF DataOK, list, goroutine, signals, handler, reloader, history, States
<1>1. ASSUME NEW a \in Accounts, ReadList(a)
      PROVE  DataOK'
  <2>1. \/ seen' = [seen EXCEPT ![a] = cache[a]] /\ cache[a] \subseteq Channels
        \/ UNCHANGED seen
    BY <1>1 DEF ReadList
  <2>2. forceMu' \in {forceMu, a}
    BY <1>1 DEF ReadList
  <2>3. PICK x \in {"got", "query"} : at' = [at EXCEPT ![a] = x]
    BY <1>1 DEF ReadList, At
  <2> QED
    BY <1>1, <2>1, <2>2, <2>3 DEF ReadList
<1>2. ASSUME NEW a \in Accounts, Query(a)
      PROVE  DataOK'
  BY <1>2 DEF Query, At
<1>3. ASSUME NEW a \in Accounts, QueryFails(a)
      PROVE  DataOK'
  BY <1>3 DEF QueryFails, At
<1>4. ASSUME NEW a \in Accounts, Store(a)
      PROVE  DataOK'
  BY <1>4 DEF Store, At
<1>5. ASSUME NEW a \in Accounts, Pick(a)
      PROVE  DataOK'
  BY <1>5 DEF Pick, At
<1>6. ASSUME NEW a \in Accounts, PickForce(a)
      PROVE  DataOK'
  BY <1>6 DEF PickForce, BeginForce, Move, At
<1>7. ASSUME NEW a \in Accounts, PickNone(a)
      PROVE  DataOK'
  BY <1>7 DEF PickNone, Move, At
<1>8. ASSUME NEW a \in Accounts, PickNoGames(a)
      PROVE  DataOK'
  BY <1>8 DEF PickNoGames, Move, At
<1>9. ASSUME NEW a \in Accounts, CheckWork(a)
      PROVE  DataOK'
  <2>1. PICK x \in {"step", "exited"} : at' = [at EXCEPT ![a] = x]
    BY <1>9 DEF CheckWork, At
  <2>2. state' = [state EXCEPT ![a] = "picking"] \/ UNCHANGED state
    BY <1>9 DEF CheckWork, Move
  <2> QED
    BY <1>9, <2>1, <2>2 DEF CheckWork
<1>10. ASSUME NEW a \in Accounts, WakeIdle(a)
      PROVE  DataOK'
  BY <1>10 DEF WakeIdle, Move, At
<1>11. ASSUME NEW a \in Accounts, ForceTick(a)
      PROVE  DataOK'
  BY <1>11 DEF ForceTick, At
<1>12. ASSUME NEW a \in Accounts, Recheck(a)
      PROVE  DataOK'
  <2>1. at' = [at EXCEPT ![a] = "wait"]
    BY <1>12 DEF Recheck, BeginForce, At
  <2>2. \/ \E x \in {"sleeping", "force_watching"} : state' = [state EXCEPT ![a] = x]
        \/ UNCHANGED state
    BY <1>12 DEF Recheck, BeginForce, Move
  <2>3. \/ \E c \in Channels \cup {None} : chan' = [chan EXCEPT ![a] = c]
        \/ UNCHANGED chan
    BY <1>12 DEF Recheck, BeginForce
  <2>4. due' \subseteq Accounts
    BY <1>12 DEF Recheck, BeginForce
  <2>5. state' \in [Accounts -> States]
    BY <2>2
  <2>6. chan' \in [Accounts -> Channels \cup {None}]
    BY <2>3
  <2>7. at' \in [Accounts -> {"step", "list", "query", "store", "got", "wait", "exited"}]
    BY <2>1
  <2>8. UNCHANGED <<table, list, seen, forceScan, rescan, handler, reloader, history>>
    BY <1>12 DEF Recheck
  <2> QED
    BY <2>4, <2>5, <2>6, <2>7, <2>8
<1>13. ASSUME NEW a \in Accounts, MoveFails(a)
      PROVE  DataOK'
  BY <1>13 DEF MoveFails, Move, At
<1>14. ASSUME NEW h \in Handlers, Save(h)
      PROVE  DataOK'
  BY <1>14 DEF Save, HAt
<1>15. ASSUME NEW h \in Handlers, Snapshot(h)
      PROVE  DataOK'
  BY <1>15 DEF Snapshot
<1>16. ASSUME NEW h \in Handlers, LockChanged(h)
      PROVE  DataOK'
  BY <1>16 DEF LockChanged, HAt, Old
<1>17. ASSUME NEW h \in Handlers, QueryChanged(h)
      PROVE  DataOK'
  BY <1>17 DEF QueryChanged, HAt
<1>18. ASSUME NEW h \in Handlers, QueryChangedFails(h)
      PROVE  DataOK'
  BY <1>18 DEF QueryChangedFails, HAt, ForceWatching
<1>19. ASSUME NEW h \in Handlers, StoreChanged(h)
      PROVE  DataOK'
  BY <1>19 DEF StoreChanged, HAt, ForceWatching
<1>20. ASSUME NEW h \in Handlers, Tell(h)
      PROVE  DataOK'
  BY <1>20 DEF Tell, Told, Rebuilt
<1>21. ASSUME NEW h \in Handlers, Enqueue(h)
      PROVE  DataOK'
  BY <1>21 DEF Enqueue, HAt, HIdle, Rebuilt
<1>22. ASSUME NEW a \in Accounts, Rebuild(a)
      PROVE  DataOK'
  BY <1>22 DEF Rebuild, Move, At
<1>23. ASSUME NEW a \in Accounts, RebuildFails(a)
      PROVE  DataOK'
  BY <1>23 DEF RebuildFails
<1>24. CASE Take
  BY <1>24 DEF Take
<1>25. CASE UNCHANGED vars
  BY <1>25 DEF vars
<1> QED
  BY <1>1, <1>2, <1>3, <1>4, <1>5, <1>6, <1>7, <1>8, <1>9, <1>10, <1>11,
     <1>12, <1>13, <1>14, <1>15, <1>16, <1>17, <1>18, <1>19, <1>20, <1>21,
     <1>22, <1>23, <1>24, <1>25
     DEF Next, Run, ForceList, ForceChanged, Reloader

LEMMA NextLocked == DataOK /\ Locked /\ [Next]_vars => Locked'
<1> SUFFICES ASSUME DataOK, Locked, [Next]_vars PROVE Locked'
  OBVIOUS
<1> USE ListFacts DEF DataOK, Locked, list, goroutine, signals, handler, reloader, history
<1>1. ASSUME NEW a \in Accounts, ReadList(a)
      PROVE  Locked'
  BY <1>1 DEF ReadList, At
<1>2. ASSUME NEW a \in Accounts, Query(a)
      PROVE  Locked'
  BY <1>2 DEF Query, At
<1>3. ASSUME NEW a \in Accounts, QueryFails(a)
      PROVE  Locked'
  BY <1>3 DEF QueryFails, At
<1>4. ASSUME NEW a \in Accounts, Store(a)
      PROVE  Locked'
  BY <1>4 DEF Store, At
<1>5. ASSUME NEW a \in Accounts, Pick(a)
      PROVE  Locked'
  BY <1>5 DEF Pick, At
<1>6. ASSUME NEW a \in Accounts, PickForce(a)
      PROVE  Locked'
  BY <1>6 DEF PickForce, BeginForce, Move, At
<1>7. ASSUME NEW a \in Accounts, PickNone(a)
      PROVE  Locked'
  BY <1>7 DEF PickNone, Move, At
<1>8. ASSUME NEW a \in Accounts, PickNoGames(a)
      PROVE  Locked'
  BY <1>8 DEF PickNoGames, Move, At
<1>9. ASSUME NEW a \in Accounts, CheckWork(a)
      PROVE  Locked'
  BY <1>9 DEF CheckWork, Move, At
<1>10. ASSUME NEW a \in Accounts, WakeIdle(a)
      PROVE  Locked'
  BY <1>10 DEF WakeIdle, Move, At
<1>11. ASSUME NEW a \in Accounts, ForceTick(a)
      PROVE  Locked'
  BY <1>11 DEF ForceTick, At
<1>12. ASSUME NEW a \in Accounts, Recheck(a)
      PROVE  Locked'
  BY <1>12 DEF Recheck, BeginForce, Move, At
<1>13. ASSUME NEW a \in Accounts, MoveFails(a)
      PROVE  Locked'
  BY <1>13 DEF MoveFails, Move, At
<1>14. ASSUME NEW h \in Handlers, Save(h)
      PROVE  Locked'
  BY <1>14 DEF Save, HAt
<1>15. ASSUME NEW h \in Handlers, Snapshot(h)
      PROVE  Locked'
  BY <1>15 DEF Snapshot
<1>16. ASSUME NEW h \in Handlers, LockChanged(h)
      PROVE  Locked'
  BY <1>16 DEF LockChanged, HAt
<1>17. ASSUME NEW h \in Handlers, QueryChanged(h)
      PROVE  Locked'
  BY <1>17 DEF QueryChanged, HAt
<1>18. ASSUME NEW h \in Handlers, QueryChangedFails(h)
      PROVE  Locked'
  BY <1>18 DEF QueryChangedFails, HAt, ForceWatching
<1>19. ASSUME NEW h \in Handlers, StoreChanged(h)
      PROVE  Locked'
  BY <1>19 DEF StoreChanged, HAt, ForceWatching
<1>20. ASSUME NEW h \in Handlers, Tell(h)
      PROVE  Locked'
  BY <1>20 DEF Tell, Told, Rebuilt
<1>21. ASSUME NEW h \in Handlers, Enqueue(h)
      PROVE  Locked'
  BY <1>21 DEF Enqueue, HAt, HIdle, Rebuilt
<1>22. ASSUME NEW a \in Accounts, Rebuild(a)
      PROVE  Locked'
  BY <1>22 DEF Rebuild, Move, At
<1>23. ASSUME NEW a \in Accounts, RebuildFails(a)
      PROVE  Locked'
  BY <1>23 DEF RebuildFails
<1>24. CASE Take
  BY <1>24 DEF Take
<1>25. CASE UNCHANGED vars
  BY <1>25 DEF vars
<1> QED
  BY <1>1, <1>2, <1>3, <1>4, <1>5, <1>6, <1>7, <1>8, <1>9, <1>10, <1>11,
     <1>12, <1>13, <1>14, <1>15, <1>16, <1>17, <1>18, <1>19, <1>20, <1>21,
     <1>22, <1>23, <1>24, <1>25
     DEF Next, Run, ForceList, ForceChanged, Reloader

LEMMA NextStale == Inv /\ [Next]_vars => Stale'
<1> SUFFICES ASSUME Inv, [Next]_vars PROVE Stale'
  OBVIOUS
<1> USE ListFacts
    DEF Inv, DataOK, Locked, Stale, Behind, Coming, list, goroutine, signals, handler,
        reloader, history
<1>1. ASSUME NEW a \in Accounts, ReadList(a)
      PROVE  Stale'
  BY <1>1 DEF ReadList, At
<1>2. ASSUME NEW a \in Accounts, Query(a)
      PROVE  Stale'
  BY <1>2 DEF Query, At
<1>3. ASSUME NEW a \in Accounts, QueryFails(a)
      PROVE  Stale'
  BY <1>3 DEF QueryFails, At
<1>4. ASSUME NEW a \in Accounts, Store(a)
      PROVE  Stale'
  <2>1. \A h \in Handlers : hat[h] \notin {"query", "store"}
    BY <1>4 DEF Store
  <2>2. \A b \in Accounts : at'[b] # "store"
    BY <1>4 DEF Store, At
  <2>3. cache' = read[a] /\ UNCHANGED <<table, hat>>
    BY <1>4 DEF Store
  <2> QED
    BY <1>4, <2>1, <2>2, <2>3 DEF Store
<1>5. ASSUME NEW a \in Accounts, Pick(a)
      PROVE  Stale'
  BY <1>5 DEF Pick, At
<1>6. ASSUME NEW a \in Accounts, PickForce(a)
      PROVE  Stale'
  BY <1>6 DEF PickForce, BeginForce, Move, At
<1>7. ASSUME NEW a \in Accounts, PickNone(a)
      PROVE  Stale'
  BY <1>7 DEF PickNone, Move, At
<1>8. ASSUME NEW a \in Accounts, PickNoGames(a)
      PROVE  Stale'
  BY <1>8 DEF PickNoGames, Move, At
<1>9. ASSUME NEW a \in Accounts, CheckWork(a)
      PROVE  Stale'
  BY <1>9 DEF CheckWork, Move, At
<1>10. ASSUME NEW a \in Accounts, WakeIdle(a)
      PROVE  Stale'
  BY <1>10 DEF WakeIdle, Move, At
<1>11. ASSUME NEW a \in Accounts, ForceTick(a)
      PROVE  Stale'
  BY <1>11 DEF ForceTick, At
<1>12. ASSUME NEW a \in Accounts, Recheck(a)
      PROVE  Stale'
  BY <1>12 DEF Recheck, BeginForce, Move, At
<1>13. ASSUME NEW a \in Accounts, MoveFails(a)
      PROVE  Stale'
  BY <1>13 DEF MoveFails, Move, At
<1>14. ASSUME NEW h \in Handlers, Save(h)
      PROVE  Stale'
  <2>1. hat'[h] = "snap"
    BY <1>14 DEF Save, HAt
  <2> QED
    BY <2>1
<1>15. ASSUME NEW h \in Handlers, Snapshot(h)
      PROVE  Stale'
  BY <1>15 DEF Snapshot
<1>16. ASSUME NEW h \in Handlers, LockChanged(h)
      PROVE  Stale'
  BY <1>16 DEF LockChanged, HAt
<1>17. ASSUME NEW h \in Handlers, QueryChanged(h)
      PROVE  Stale'
  BY <1>17 DEF QueryChanged, HAt
<1>18. ASSUME NEW h \in Handlers, QueryChangedFails(h)
      PROVE  Stale'
  BY <1>18 DEF QueryChangedFails, HAt, ForceWatching
<1>19. ASSUME NEW h \in Handlers, StoreChanged(h)
      PROVE  Stale'
  <2>1. \A a \in Accounts : at'[a] # "store"
    BY <1>19 DEF StoreChanged
  <2>2. \A g \in Handlers : hat'[g] # "store"
    BY <1>19 DEF StoreChanged, HAt
  <2>3. cache' = read[h] /\ UNCHANGED table
    BY <1>19 DEF StoreChanged
  <2>4. read[h] # table => \E g \in Handlers : hat'[g] = "snap"
    BY <1>19 DEF StoreChanged, HAt
  <2> QED
    BY <2>1, <2>2, <2>3, <2>4
<1>20. ASSUME NEW h \in Handlers, Tell(h)
      PROVE  Stale'
  BY <1>20 DEF Tell, Told, Rebuilt
<1>21. ASSUME NEW h \in Handlers, Enqueue(h)
      PROVE  Stale'
  BY <1>21 DEF Enqueue, HAt, HIdle, Rebuilt
<1>22. ASSUME NEW a \in Accounts, Rebuild(a)
      PROVE  Stale'
  BY <1>22 DEF Rebuild, Move, At
<1>23. ASSUME NEW a \in Accounts, RebuildFails(a)
      PROVE  Stale'
  BY <1>23 DEF RebuildFails
<1>24. CASE Take
  BY <1>24 DEF Take
<1>25. CASE UNCHANGED vars
  BY <1>25 DEF vars
<1> QED
  BY <1>1, <1>2, <1>3, <1>4, <1>5, <1>6, <1>7, <1>8, <1>9, <1>10, <1>11,
     <1>12, <1>13, <1>14, <1>15, <1>16, <1>17, <1>18, <1>19, <1>20, <1>21,
     <1>22, <1>23, <1>24, <1>25
     DEF Next, Run, ForceList, ForceChanged, Reloader

-----------------------------------------------------------------------------
\* The invariant behind CacheFollows, for any accounts, channels and handlers.
THEOREM InvHolds == Spec => []Inv
<1>1. Inv /\ [Next]_vars => Inv'
  BY NextData, NextLocked, NextStale DEF Inv
<1> QED
  BY InitHolds, <1>1, PTL DEF Spec

LEMMA NextFlags == FlagsOK /\ [Next]_vars => FlagsOK'
<1> SUFFICES ASSUME FlagsOK, [Next]_vars PROVE FlagsOK'
  OBVIOUS
<1> USE DEF FlagsOK, list, goroutine, signals, handler, reloader, history
<1>1. ASSUME NEW a \in Accounts, ReadList(a)
      PROVE  FlagsOK'
  BY <1>1 DEF ReadList, At
<1>2. ASSUME NEW a \in Accounts, Query(a)
      PROVE  FlagsOK'
  BY <1>2 DEF Query, At
<1>3. ASSUME NEW a \in Accounts, QueryFails(a)
      PROVE  FlagsOK'
  BY <1>3 DEF QueryFails, At
<1>4. ASSUME NEW a \in Accounts, Store(a)
      PROVE  FlagsOK'
  BY <1>4 DEF Store, At
<1>5. ASSUME NEW a \in Accounts, Pick(a)
      PROVE  FlagsOK'
  BY <1>5 DEF Pick, At
<1>6. ASSUME NEW a \in Accounts, PickForce(a)
      PROVE  FlagsOK'
  BY <1>6 DEF PickForce, BeginForce, Move, At
<1>7. ASSUME NEW a \in Accounts, PickNone(a)
      PROVE  FlagsOK'
  BY <1>7 DEF PickNone, Move, At
<1>8. ASSUME NEW a \in Accounts, PickNoGames(a)
      PROVE  FlagsOK'
  BY <1>8 DEF PickNoGames, Move, At
<1>9. ASSUME NEW a \in Accounts, CheckWork(a)
      PROVE  FlagsOK'
  BY <1>9 DEF CheckWork, Move, At
<1>10. ASSUME NEW a \in Accounts, WakeIdle(a)
      PROVE  FlagsOK'
  BY <1>10 DEF WakeIdle, Move, At
<1>11. ASSUME NEW a \in Accounts, ForceTick(a)
      PROVE  FlagsOK'
  BY <1>11 DEF ForceTick, At
<1>12. ASSUME NEW a \in Accounts, Recheck(a)
      PROVE  FlagsOK'
  BY <1>12 DEF Recheck, BeginForce, Move, At
<1>13. ASSUME NEW a \in Accounts, MoveFails(a)
      PROVE  FlagsOK'
  BY <1>13 DEF MoveFails, Move, At
<1>14. ASSUME NEW h \in Handlers, Save(h)
      PROVE  FlagsOK'
  BY <1>14 DEF Save, HAt
<1>15. ASSUME NEW h \in Handlers, Snapshot(h)
      PROVE  FlagsOK'
  BY <1>15 DEF Snapshot
<1>16. ASSUME NEW h \in Handlers, LockChanged(h)
      PROVE  FlagsOK'
  BY <1>16 DEF LockChanged, HAt
<1>17. ASSUME NEW h \in Handlers, QueryChanged(h)
      PROVE  FlagsOK'
  BY <1>17 DEF QueryChanged, HAt
<1>18. ASSUME NEW h \in Handlers, QueryChangedFails(h)
      PROVE  FlagsOK'
  BY <1>18 DEF QueryChangedFails, HAt, ForceWatching
<1>19. ASSUME NEW h \in Handlers, StoreChanged(h)
      PROVE  FlagsOK'
  BY <1>19 DEF StoreChanged, HAt, ForceWatching
<1>20. ASSUME NEW h \in Handlers, Tell(h)
      PROVE  FlagsOK'
  BY <1>20 DEF Tell, Told, Rebuilt
<1>21. ASSUME NEW h \in Handlers, Enqueue(h)
      PROVE  FlagsOK'
  BY <1>21 DEF Enqueue, HAt, HIdle, Rebuilt
<1>22. ASSUME NEW a \in Accounts, Rebuild(a)
      PROVE  FlagsOK'
  BY <1>22 DEF Rebuild, Move, At
<1>23. ASSUME NEW a \in Accounts, RebuildFails(a)
      PROVE  FlagsOK'
  BY <1>23 DEF RebuildFails
<1>24. CASE Take
  BY <1>24 DEF Take
<1>25. CASE UNCHANGED vars
  BY <1>25 DEF vars
<1> QED
  BY <1>1, <1>2, <1>3, <1>4, <1>5, <1>6, <1>7, <1>8, <1>9, <1>10, <1>11,
     <1>12, <1>13, <1>14, <1>15, <1>16, <1>17, <1>18, <1>19, <1>20, <1>21,
     <1>22, <1>23, <1>24, <1>25
     DEF Next, Run, ForceList, ForceChanged, Reloader

\* Every variable of the list's cache, its readers and its handlers keeps its type.
THEOREM TypeCorrect == Spec => []TypeOK
<1>1. Init => FlagsOK
  BY DEF Init, FlagsOK
<1>2. Spec => []FlagsOK
  BY <1>1, NextFlags, PTL DEF Spec
<1>3. Inv => DataOK
  BY DEF Inv
<1>4. DataOK /\ FlagsOK => TypeOK
  BY DEF FlagsOK, TypeOK
<1> QED
  BY InvHolds, <1>2, <1>3, <1>4, PTL

\* Outside a save the cache of forceList and forceChanged holds the saved list.
THEOREM CacheFollowsHolds == Spec => []CacheFollows
<1>1. Inv => CacheFollows
  BY DEF Inv, Stale, Coming, CacheFollows, Quiet
<1> QED
  BY InvHolds, <1>1, PTL
-----------------------------------------------------------------------------
(***************************************************************************)
(* StoppedIsRebuilt.  A runner stopped on a list it read, so from then on  *)
(* the list is cached (NotRead) and only a handler that holds the lock     *)
(* replaces it, by one it compares with the list it found (UnderLock).  An *)
(* account that is owed a rebuild is then told of, or not in the cached    *)
(* list and a handler has yet to read the table it is in (OwedOK).         *)
(***************************************************************************)
NotRead ==
  ~failed /\ cache = None =>
    \A a \in Accounts : state[a] = "picking" /\ at[a] \in {"step", "list", "query", "store"}

UnderLock ==
  /\ \A a \in Accounts : at[a] \in {"query", "store"} => cache = None
  /\ \A h \in Handlers : hat[h] \in {"query", "store"} => was[h] = Old
  /\ \A h \in Handlers : hat[h] \in {"query", "store", "tell"} =>
       \A a \in Accounts : snap[h][a] # None

Adding(a) == Behind \/ \E h \in Handlers : hat[h] = "query" \/ (hat[h] = "store" /\ read[h][a] # {})
OnItsWay(a) ==
  \/ a \in queue \cup pending
  \/ \E h \in Handlers : hat[h] = "tell" /\ a \in ids[h]
  \/ Old[a] = {} /\ Adding(a)

Owed(a) ==
  /\ Stopped(a) /\ table[a] # {}
  /\ \A h \in Handlers : snap[h][a] \in {None, "no_games"}
  /\ OnItsWay(a)
OwedOK == ~failed => \A a \in owed : Owed(a)

OInv == Inv /\ NotRead /\ UnderLock /\ OwedOK

\* What a step of one runner's goroutine leaves alone.
LEMMA RunFrame ==
  ASSUME DataOK, NEW b \in Accounts, Run(b)
  PROVE  /\ UNCHANGED <<table, handler, reloader, owed>>
         /\ at[b] # "exited" /\ (failed => failed')
         /\ \A a \in Accounts \ {b} : at'[a] = at[a] /\ state'[a] = state[a]
         /\ \A h \in Handlers : read'[h] = read[h]
         /\ cache' # cache => Store(b)
<1> USE ListFacts DEF DataOK, list, goroutine, signals, history
<1>1. CASE ForceList(b)
  BY <1>1 DEF ForceList, ReadList, Query, QueryFails, Store, At
<1>2. CASE Pick(b) \/ PickForce(b) \/ PickNone(b) \/ PickNoGames(b) \/ CheckWork(b)
  BY <1>2 DEF Pick, PickForce, BeginForce, PickNone, PickNoGames, CheckWork, Move, At
<1>3. CASE WakeIdle(b) \/ ForceTick(b) \/ Recheck(b) \/ MoveFails(b)
  BY <1>3 DEF WakeIdle, ForceTick, Recheck, BeginForce, MoveFails, Move, At
<1> QED
  BY <1>1, <1>2, <1>3 DEF Run

LEMMA NextNotRead == Inv /\ NotRead /\ [Next]_vars => NotRead'
<1> SUFFICES ASSUME Inv, NotRead, [Next]_vars PROVE NotRead'
  OBVIOUS
<1> USE ListFacts DEF Inv, DataOK, NotRead, list, goroutine, signals, handler, reloader, history
<1>1. ASSUME NEW b \in Accounts, Run(b) PROVE NotRead'
  <2>1. CASE ForceList(b)
    BY <2>1 DEF ForceList, ReadList, Query, QueryFails, Store, At
  <2>2. CASE UNCHANGED <<cache, failed>> /\ ~ForceList(b)
    <3> SUFFICES ASSUME ~failed, cache = None PROVE NotRead'
      BY <2>2
    <3>1. CASE Pick(b)
      BY <2>2, <3>1 DEF Pick, At
    <3>2. at[b] \in {"step", "list", "query", "store"} /\ state[b] = "picking"
      BY <2>2
    <3> QED
      BY <1>1, <2>2, <3>1, <3>2
         DEF Run, PickForce, PickNone, PickNoGames, CheckWork, WakeIdle, ForceTick, Recheck,
             MoveFails
  <2> QED
    BY <1>1, <2>1, <2>2 DEF Run, Pick, PickForce, PickNone, PickNoGames, CheckWork, WakeIdle,
                            ForceTick, Recheck, MoveFails
<1>2. ASSUME NEW h \in Handlers, Save(h) \/ ForceChanged(h) PROVE NotRead'
  <2> (~failed /\ cache = None)' => ~failed /\ cache = None
    BY <1>2 DEF Save, ForceChanged, Snapshot, LockChanged, QueryChanged, QueryChangedFails,
                StoreChanged, Tell, Enqueue
  <2> QED
    BY <1>2 DEF Save, ForceChanged, Snapshot, LockChanged, QueryChanged, QueryChangedFails,
                StoreChanged, Tell, Enqueue
<1>3. CASE Reloader
  BY <1>3 DEF Reloader, Take, Rebuild, RebuildFails, Move, At
<1>4. CASE UNCHANGED vars
  BY <1>4 DEF vars
<1> QED
  BY <1>1, <1>2, <1>3, <1>4 DEF Next

LEMMA NextUnderLock == Inv /\ UnderLock /\ [Next]_vars => UnderLock'
<1> SUFFICES ASSUME Inv, UnderLock, [Next]_vars PROVE UnderLock'
  OBVIOUS
<1> USE ListFacts DEF Inv, DataOK, Locked, UnderLock, Old, list, goroutine, signals, handler,
                      reloader, history
<1>1. ASSUME NEW b \in Accounts, Run(b) PROVE UnderLock'
  <2> UNCHANGED <<hat, snap, was>>
    BY <1>1, RunFrame
  <2>1. CASE ForceList(b)
    <3>1. CASE ReadList(b)
      BY <3>1 DEF ReadList, At
    <3>2. CASE Query(b)
      BY <3>2 DEF Query, At
    <3>3. CASE QueryFails(b) \/ Store(b)
      <4>1. at[b] \in {"query", "store"} /\ at' = [at EXCEPT ![b] = "got"]
        BY <3>3 DEF QueryFails, Store, At
      <4>2. /\ \A h \in Handlers : hat[h] \notin {"query", "store"}
            /\ \A a \in Accounts : at'[a] \notin {"query", "store"}
        BY <4>1
      <4> QED
        BY <4>2
    <3> QED
      BY <2>1, <3>1, <3>2, <3>3 DEF ForceList
  <2>2. CASE at'[b] \notin {"query", "store"} /\ UNCHANGED cache
    BY <1>1, <2>2, RunFrame
  <2> QED
    BY <1>1, <2>1, <2>2
       DEF Run, Pick, PickForce, BeginForce, PickNone, PickNoGames, CheckWork, WakeIdle,
           ForceTick, Recheck, MoveFails, Move, At
<1>2. ASSUME NEW h \in Handlers, Save(h) \/ ForceChanged(h) PROVE UnderLock'
  <2>1. CASE Save(h)
    BY <2>1 DEF Save, HAt
  <2>2. CASE Snapshot(h)
    <3>1. UNCHANGED <<cache, at, hat, was>> /\ \A g \in Handlers \ {h} : snap'[g] = snap[g]
      BY <2>2 DEF Snapshot
    <3>2. \A a \in Accounts : snap[h][a] # None => snap'[h][a] # None
      BY <2>2 DEF Snapshot
    <3> QED
      BY <2>2, <3>1, <3>2 DEF Snapshot
  <2>3. CASE LockChanged(h)
    BY <2>3 DEF LockChanged, HAt
  <2>4. CASE QueryChanged(h)
    BY <2>4 DEF QueryChanged, HAt
  <2>5. CASE QueryChangedFails(h)
    BY <2>5 DEF QueryChangedFails, HAt
  <2>6. CASE StoreChanged(h)
    BY <2>6 DEF StoreChanged, HAt
  <2>7. CASE Tell(h)
    BY <2>7 DEF Tell
  <2>8. CASE Enqueue(h)
    BY <2>8 DEF Enqueue, HAt, HIdle
  <2> QED
    BY <1>2, <2>1, <2>2, <2>3, <2>4, <2>5, <2>6, <2>7, <2>8 DEF ForceChanged
<1>3. CASE Reloader
  BY <1>3 DEF Reloader, Take, Rebuild, RebuildFails, Move, At
<1>4. CASE UNCHANGED vars
  BY <1>4 DEF vars
<1> QED
  BY <1>1, <1>2, <1>3, <1>4 DEF Next

LEMMA NextOwed == OInv /\ [Next]_vars => OwedOK'
<1> SUFFICES ASSUME OInv, [Next]_vars, ~failed', NEW a \in owed' PROVE Owed(a)'
  BY DEF OwedOK
<1> a \in Accounts
  BY NextData DEF OInv, Inv, DataOK
<1> USE ListFacts DEF OInv, Inv, DataOK, list, goroutine, signals, handler, reloader, history
<1>1. ASSUME NEW b \in Accounts, Run(b) PROVE Owed(a)'
  <2>1. ~failed /\ Owed(a) /\ a # b
    BY <1>1, RunFrame DEF OwedOK, Owed, Stopped
  <2>2. cache # None \* what a runner stores it stores for want of a cached list
    BY <2>1 DEF NotRead, Owed, Stopped
  <2>3. UNCHANGED <<cache, table, hat, snap, ids, queue, pending>>
    BY <1>1, <2>2, RunFrame DEF UnderLock, Store
  <2>4. at'[a] = at[a] /\ state'[a] = state[a] /\ \A h \in Handlers : read'[h] = read[h]
    BY <1>1, <2>1, RunFrame
  <2> QED
    BY <2>1, <2>3, <2>4 DEF Owed, Stopped, OnItsWay, Adding, Behind, Old
<1>2. ASSUME NEW h \in Handlers, Save(h) PROVE Owed(a)'
  <2>1. /\ table'[a] # {} /\ hat'[h] = "snap" /\ Behind'
        /\ UNCHANGED <<cache, state, at, snap, ids, queue, pending, failed>>
        /\ \A g \in Handlers : hat'[g] = "tell" <=> hat[g] = "tell"
    BY <1>2 DEF Save, HAt, Behind
  <2>2. CASE a \in owed
    BY <2>1, <2>2 DEF OwedOK, Owed, Stopped, OnItsWay, Adding, Old
  <2>3. CASE a \notin owed
    BY <1>2, <2>1, <2>3 DEF Save, Owed, Stopped, OnItsWay, Adding, Old
  <2> QED
    BY <2>2, <2>3
<1>3. ASSUME NEW h \in Handlers, ForceChanged(h) PROVE Owed(a)'
  <2>1. /\ UNCHANGED <<table, state, at, owed, pending>> /\ queue \subseteq queue'
        /\ (failed => failed')
    BY <1>3 DEF ForceChanged, Snapshot, LockChanged, QueryChanged, QueryChangedFails,
                StoreChanged, Tell, Enqueue
  <2>2. ~failed /\ Owed(a)
    BY <2>1 DEF OwedOK
  <2>3. Stopped(a)' /\ table'[a] # {}
    BY <2>1, <2>2 DEF Owed, Stopped
  <2>4. \A g \in Handlers : snap'[g][a] \in {None, "no_games"}
    <3>1. CASE Snapshot(h)
      BY <2>2, <3>1 DEF Snapshot, Owed, Stopped
    <3>2. CASE Enqueue(h)
      BY <2>2, <3>2 DEF Enqueue, HIdle, NoSnap, Owed
    <3>3. CASE UNCHANGED snap
      BY <2>2, <3>3 DEF Owed
    <3> QED
      BY <1>3, <3>1, <3>2, <3>3
         DEF ForceChanged, LockChanged, QueryChanged, QueryChangedFails, StoreChanged, Tell
  <2>5. OnItsWay(a)'
    <3> USE DEF OnItsWay, Adding, Behind, Old
    <3>1. CASE a \in queue \cup pending
      BY <2>1, <3>1
    <3>2. ASSUME NEW g \in Handlers, hat[g] = "tell", a \in ids[g] PROVE OnItsWay(a)'
      <4>1. a \in Rebuilt(g)
        BY <2>2, <3>2 DEF Rebuilt, Owed, UnderLock
      <4>2. CASE g # h
        BY <1>3, <3>2, <4>2
           DEF ForceChanged, Snapshot, LockChanged, QueryChanged, QueryChangedFails,
               StoreChanged, Tell, Enqueue, HAt, HIdle
      <4>3. CASE g = h /\ Tell(h)
        BY <3>2, <4>1, <4>3 DEF Tell
      <4>4. CASE g = h /\ Enqueue(h)
        BY <3>2, <4>4 DEF Enqueue
      <4> QED
        BY <1>3, <3>2, <4>2, <4>3, <4>4
           DEF ForceChanged, Snapshot, LockChanged, QueryChanged, QueryChangedFails, StoreChanged
    <3>3. CASE Old[a] = {} /\ Adding(a)
      <4>1. CASE Snapshot(h) \/ Tell(h) \/ Enqueue(h)
        <5>1. UNCHANGED <<cache, read>> /\ \A g \in Handlers : hat'[g] = hat[g] \/ hat[g] = "tell"
          BY <4>1 DEF Snapshot, Tell, Enqueue, HAt, HIdle
        <5> QED
          BY <3>3, <5>1
      <4>2. CASE LockChanged(h)
        <5>1. UNCHANGED cache /\ hat'[h] = "query"
          BY <4>2 DEF LockChanged, HAt
        <5> QED
          BY <3>3, <5>1
      <4>3. CASE QueryChanged(h)
        <5>1. UNCHANGED cache /\ hat'[h] = "store" /\ read'[h][a] # {}
          BY <2>2, <4>3 DEF QueryChanged, HAt, Owed
        <5> QED
          BY <3>3, <5>1
      <4>4. CASE StoreChanged(h)
        <5>1. was[h][a] = {} /\ cache'[a] = read[h][a] /\ cache' # None
          BY <3>3, <4>4 DEF StoreChanged, UnderLock
        <5>2. CASE read[h][a] # {}
          BY <4>4, <5>1, <5>2 DEF StoreChanged, HAt
        <5>3. CASE read[h][a] = {}
          <6>1. \E g \in Handlers : hat[g] = "snap"
            BY <2>2, <4>4, <5>3 DEF Stale, StoreChanged, Owed
          <6>2. Behind'
            BY <4>4, <6>1 DEF StoreChanged, HAt
          <6> QED
            BY <5>1, <5>3, <6>2
        <5> QED
          BY <5>2, <5>3
      <4>5. CASE QueryChangedFails(h)
        BY <4>5 DEF QueryChangedFails
      <4> QED
        BY <1>3, <4>1, <4>2, <4>3, <4>4, <4>5 DEF ForceChanged
    <3> QED
      BY <2>2, <3>1, <3>2, <3>3 DEF Owed
  <2> QED
    BY <2>3, <2>4, <2>5 DEF Owed
<1>4. CASE Take
  BY <1>4 DEF Take, OwedOK, Owed, Stopped, OnItsWay, Adding, Behind, Old
<1>5. ASSUME NEW b \in Accounts, Rebuild(b) PROVE Owed(a)'
  <2>1. /\ ~failed /\ a \in owed /\ a # b /\ pending' = pending \ {b}
        /\ UNCHANGED <<table, cache, read, hat, snap, ids, queue>>
        /\ state'[a] = state[a] /\ at'[a] = at[a]
    BY <1>5 DEF Rebuild, Move, At
  <2> QED
    BY <2>1 DEF OwedOK, Owed, Stopped, OnItsWay, Adding, Behind, Old
<1>6. ASSUME NEW b \in Accounts, RebuildFails(b) PROVE Owed(a)'
  BY <1>6 DEF RebuildFails
<1>7. CASE UNCHANGED vars
  BY <1>7 DEF vars, OwedOK, Owed, Stopped, OnItsWay, Adding, Behind, Old
<1> QED
  BY <1>1, <1>2, <1>3, <1>4, <1>5, <1>6, <1>7 DEF Next, Reloader

\* While no read has failed, a runner that had stopped with no games when its account
\* got its first channel is queued for a rebuild once no save is under way, whatever
\* saves overlapped and whoever loaded the list between.
THEOREM StoppedIsRebuiltHolds == Spec => []StoppedIsRebuilt
<1>1. Init => NotRead /\ UnderLock /\ OwedOK
  BY DEF Init, NotRead, UnderLock, OwedOK
<1>2. Spec => []OInv
  BY InvHolds, <1>1, NextNotRead, NextUnderLock, NextOwed, PTL DEF Spec, OInv
<1>3. OInv => StoppedIsRebuilt
  BY DEF OInv, OwedOK, Owed, OnItsWay, Adding, Behind, StoppedIsRebuilt, Quiet
<1> QED
  BY <1>2, <1>3, PTL
=============================================================================
