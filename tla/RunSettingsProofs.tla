------------------------- MODULE RunSettingsProofs -------------------------
(***************************************************************************)
(* RunSettings, for any number of callers, saves and settings and with no  *)
(* bound on how often a setting is saved: types, ServedFresh, and          *)
(* QuietCacheIsTable.                                                      *)
(***************************************************************************)
EXTENDS RunSettings, TLAPS

(***************************************************************************)
(* ServedFresh is not inductive: a served copy is as fresh as whoever      *)
(* cached it, and that caller as fresh as each query it made.              *)
(***************************************************************************)
CacheFresh ==
  runCfg # NoCopy =>
    /\ runCfg.gen \in 0 .. runGen
    /\ AtLeast(runCfg.val, promised[runCfg.gen])

ReadFresh(r) ==
  /\ g[r] \in 0 .. runGen
  /\ rpc[r] = "read" => \A k \in Keys \ unread[r] : c[r][k] >= promised[g[r]][k]

IInv ==
  /\ TypeOK
  /\ \A n \in 0 .. runGen : AtLeast(db, promised[n])
  /\ CacheFresh
  /\ \A r \in Readers : ReadFresh(r)
  /\ ServedFresh

LEMMA DefaultType == Default \in Values
  BY DEF Default, Values

\* Every variable keeps its type, through any interleaving of calls and saves.
THEOREM TypeCorrect == Spec => []TypeOK
<1>1. Init => TypeOK
  <2>1. SUFFICES ASSUME Init PROVE TypeOK
    OBVIOUS
  <2>2. promised \in [0 .. runGen -> Values]
    BY <2>1, DefaultType DEF Init
  <2> QED
    BY <2>1, <2>2, DefaultType DEF Init, TypeOK
<1>2. TypeOK /\ [Next]_vars => TypeOK'
  <2> SUFFICES ASSUME TypeOK, [Next]_vars
               PROVE  TypeOK'
    OBVIOUS
  <2> USE DefaultType DEF TypeOK, readVars, saveVars, history
  <2>1. ASSUME NEW r \in Readers, RunSettingsCall(r) PROVE TypeOK'
    <3>1. CASE LoadGen(r)
      BY <3>1 DEF LoadGen
    <3>2. CASE CheckCache(r)
      <4>1. CASE Hit(r)
        <5>1. runCfg \in [gen : Nat, val : Values]
          BY <4>1 DEF Hit
        <5> QED
          BY <3>2, <4>1, <5>1 DEF CheckCache
      <4>2. CASE ~Hit(r)
        BY <3>2, <4>2 DEF CheckCache
      <4> QED
        BY <4>1, <4>2
    <3>3. ASSUME NEW k \in Keys, ReadOne(r, k) PROVE TypeOK'
      BY <3>3 DEF ReadOne, Values
    <3>4. CASE ReadFailed(r)
      BY <3>4 DEF ReadFailed
    <3>5. CASE CacheRunSettings(r)
      BY <3>5 DEF CacheRunSettings, StampGen
    <3>6. CASE Return(r)
      BY <3>6 DEF Return
    <3> QED
      BY <2>1, <3>1, <3>2, <3>3, <3>4, <3>5, <3>6 DEF RunSettingsCall
  <2>2. ASSUME NEW s \in Savers, PutSettings(s) PROVE TypeOK'
    <3>1. CASE StartSave(s)
      BY <3>1 DEF StartSave
    <3>2. ASSUME NEW k \in Keys, WriteOne(s, k) PROVE TypeOK'
      BY <3>2 DEF WriteOne, Values
    <3>3. CASE WriteFailed(s)
      BY <3>3 DEF WriteFailed
    <3>4. CASE BumpGen(s)
      <4>1. runGen' \in Nat /\ runGen' = runGen + 1
        BY <3>4 DEF BumpGen, NextGen
      <4>2. \A n \in 0 .. runGen + 1 : n = runGen + 1 \/ n \in 0 .. runGen
        OBVIOUS
      <4>3. promised' \in [0 .. runGen' -> Values]
        BY <3>4, <4>1, <4>2 DEF BumpGen, NextGen
      <4> QED
        BY <3>4, <4>1, <4>3 DEF BumpGen, NextGen
    <3>5. CASE DropCache(s)
      BY <3>5 DEF DropCache
    <3> QED
      BY <2>2, <3>1, <3>2, <3>3, <3>4, <3>5 DEF PutSettings
  <2>3. CASE UNCHANGED vars
    BY <2>3 DEF vars
  <2> QED
    BY <2>1, <2>2, <2>3 DEF Next
<1> QED
  BY <1>1, <1>2, PTL DEF Spec

LEMMA AtLeastItself == ASSUME NEW v \in Values PROVE AtLeast(v, v)
  BY DEF AtLeast, Values

\* The invariant behind both properties below.
LEMMA IInvHolds == Spec => []IInv
<1>1. Init => IInv
  <2> SUFFICES ASSUME Init PROVE IInv
    OBVIOUS
  <2>1. TypeOK
    <3>1. promised \in [0 .. runGen -> Values]
      BY DefaultType DEF Init
    <3> QED
      BY <3>1, DefaultType DEF Init, TypeOK
  <2>2. \A n \in 0 .. runGen : AtLeast(db, promised[n])
    BY AtLeastItself, DefaultType DEF Init
  <2>3. CacheFresh /\ ServedFresh /\ \A r \in Readers : ReadFresh(r)
    BY DEF Init, CacheFresh, ServedFresh, ReadFresh
  <2> QED
    BY <2>1, <2>2, <2>3 DEF IInv
<1>2. IInv /\ TypeOK' /\ [Next]_vars => IInv'
  <2> SUFFICES ASSUME IInv, TypeOK', [Next]_vars
               PROVE  IInv'
    OBVIOUS
  <2> TypeOK
    BY DEF IInv
  <2> USE DEF TypeOK, readVars, saveVars, history
  <2>1. ASSUME NEW r \in Readers, RunSettingsCall(r) PROVE IInv'
    <3> UNCHANGED <<db, runGen, promised>>
      BY <2>1 DEF RunSettingsCall, LoadGen, CheckCache, ReadOne, ReadFailed,
                  CacheRunSettings, Return
    <3>1. (\A n \in 0 .. runGen : AtLeast(db, promised[n]))'
      BY DEF IInv, AtLeast
    <3>2. CacheFresh'
      <4>1. CASE CacheRunSettings(r)
        BY <4>1 DEF CacheRunSettings, StampGen, IInv, ReadFresh, CacheFresh, AtLeast
      <4>2. CASE UNCHANGED runCfg
        BY <4>2 DEF IInv, CacheFresh, AtLeast
      <4> QED
        BY <2>1, <4>1, <4>2 DEF RunSettingsCall, LoadGen, CheckCache, ReadOne,
                                ReadFailed, Return
    <3>3. ReadFresh(r)' /\ (rpc[r] = "serve" => AtLeast(c[r], promised[g[r]]))'
      <4>1. CASE LoadGen(r)
        BY <4>1 DEF LoadGen, ReadFresh, IInv
      <4>2. CASE CheckCache(r) /\ Hit(r)
        BY <4>2 DEF CheckCache, Hit, ReadFresh, CacheFresh, IInv, AtLeast
      <4>3. CASE CheckCache(r) /\ ~Hit(r)
        BY <4>3 DEF CheckCache, ReadFresh, IInv
      <4>4. ASSUME NEW k \in Keys, ReadOne(r, k) PROVE <3>3!:
        BY <4>4 DEF ReadOne, ReadFresh, IInv, AtLeast, Values
      <4>5. CASE ReadFailed(r)
        BY <4>5 DEF ReadFailed, ReadFresh, IInv
      <4>6. CASE CacheRunSettings(r)
        BY <4>6 DEF CacheRunSettings, StampGen, ReadFresh, IInv, AtLeast
      <4>7. CASE Return(r)
        BY <4>7 DEF Return, ReadFresh, IInv
      <4> QED
        BY <2>1, <4>1, <4>2, <4>3, <4>4, <4>5, <4>6, <4>7 DEF RunSettingsCall
    <3>4. ASSUME NEW q \in Readers \ {r}
          PROVE  ReadFresh(q)' /\ (rpc[q] = "serve" => AtLeast(c[q], promised[g[q]]))'
      <4>1. /\ rpc'[q] = rpc[q] /\ g'[q] = g[q] /\ c'[q] = c[q]
            /\ unread'[q] = unread[q]
        BY <2>1, <3>4 DEF RunSettingsCall, LoadGen, CheckCache, ReadOne, ReadFailed,
                          CacheRunSettings, Return
      <4> QED
        BY <4>1 DEF IInv, ReadFresh, ServedFresh, AtLeast
    <3> QED
      BY <3>1, <3>2, <3>3, <3>4 DEF IInv, ServedFresh
  <2>2. ASSUME NEW s \in Savers, PutSettings(s) PROVE IInv'
    <3> UNCHANGED readVars
      BY <2>2 DEF PutSettings, StartSave, WriteOne, WriteFailed, BumpGen, DropCache
    <3>1. CASE BumpGen(s)
      <4>1. /\ runGen' = runGen + 1 /\ UNCHANGED <<db, runCfg>>
            /\ promised'[runGen + 1] = db
            /\ \A n \in 0 .. runGen : promised'[n] = promised[n]
        BY <3>1 DEF BumpGen, NextGen
      <4>2. (\A n \in 0 .. runGen : AtLeast(db, promised[n]))'
        <5> SUFFICES ASSUME NEW n \in 0 .. runGen + 1 PROVE AtLeast(db, promised'[n])
          BY <4>1 DEF AtLeast
        <5>1. CASE n \in 0 .. runGen
          BY <5>1, <4>1 DEF IInv
        <5>2. CASE n = runGen + 1
          BY <5>2, <4>1, AtLeastItself
        <5> QED
          BY <5>1, <5>2
      <4>3. CacheFresh'
        BY <4>1 DEF CacheFresh, IInv, AtLeast
      <4>4. ServedFresh' /\ (\A r \in Readers : ReadFresh(r))'
        BY <4>1 DEF IInv, ReadFresh, ServedFresh, AtLeast
      <4> QED
        BY <4>2, <4>3, <4>4 DEF IInv
    <3>2. ASSUME NEW k \in Keys, WriteOne(s, k) PROVE IInv'
      <4>1. AtLeast(db', db) /\ UNCHANGED <<runGen, runCfg, promised>>
        BY <3>2 DEF WriteOne, AtLeast, Values
      <4>2. (\A n \in 0 .. runGen : AtLeast(db, promised[n]))'
        BY <4>1 DEF IInv, AtLeast, Values
      <4> QED
        BY <4>1, <4>2 DEF IInv, CacheFresh, ReadFresh, ServedFresh, AtLeast
    <3>3. CASE UNCHANGED <<db, runGen, promised>>
      <4>1. runCfg' = runCfg \/ runCfg' = NoCopy
        BY <2>2, <3>3 DEF PutSettings, StartSave, WriteOne, WriteFailed, BumpGen, DropCache
      <4> QED
        BY <3>3, <4>1 DEF IInv, CacheFresh, ReadFresh, ServedFresh, AtLeast
    <3> QED
      BY <2>2, <3>1, <3>2, <3>3 DEF PutSettings, StartSave, WriteFailed, DropCache
  <2>3. CASE UNCHANGED vars
    BY <2>3 DEF vars, IInv, CacheFresh, ReadFresh, ServedFresh, AtLeast
  <2> QED
    BY <2>1, <2>2, <2>3 DEF Next
<1> QED
  BY <1>1, <1>2, TypeCorrect, PTL DEF Spec

\* A call to runSettings answers with settings no older than the table was
\* when the generation it loaded began, whichever call cached them: the
\* generation check in roster.go needs no lock around the read.
THEOREM FreshnessHolds == Spec => []ServedFresh
<1>1. IInv => ServedFresh
  BY DEF IInv
<1> QED
  BY <1>1, IInvHolds, PTL

-----------------------------------------------------------------------------
(***************************************************************************)
(* QuietCacheIsTable.  While the table holds nothing that its generation   *)
(* does not, what was read under that generation is the table; a bump      *)
(* takes the generation past every copy and every read under way.          *)
(***************************************************************************)
Ahead == cutShort \/ \E s \in Savers : spc[s] = "write"

ReadCurrent(r) ==
  rpc[r] = "read" /\ g[r] = runGen => \A k \in Keys \ unread[r] : c[r][k] = db[k]

Current == ~Ahead => ValidCopyIsTable /\ \A r \in Readers : ReadCurrent(r)

LEMMA NextCurrent == IInv /\ Current /\ [Next]_vars => Current'
<1> SUFFICES ASSUME IInv, Current, [Next]_vars PROVE Current'
  OBVIOUS
<1> USE DEF IInv, TypeOK, readVars, saveVars, history
<1>1. ASSUME NEW r \in Readers, RunSettingsCall(r) PROVE Current'
  <2> SUFFICES ASSUME ~Ahead
               PROVE  ValidCopyIsTable' /\ \A q \in Readers : ReadCurrent(q)'
    BY <1>1 DEF Current, Ahead, RunSettingsCall, LoadGen, CheckCache, ReadOne, ReadFailed,
                CacheRunSettings, Return
  <2> ValidCopyIsTable /\ \A q \in Readers : ReadCurrent(q)
    BY DEF Current
  <2> UNCHANGED <<db, runGen>>
    BY <1>1 DEF RunSettingsCall, LoadGen, CheckCache, ReadOne, ReadFailed,
                CacheRunSettings, Return
  <2>1. ValidCopyIsTable'
    <3>1. CASE CacheRunSettings(r)
      <4>1. g[r] = runGen => c[r] = db
        BY <3>1 DEF CacheRunSettings, ReadCurrent, Values
      <4> QED
        BY <3>1, <4>1 DEF CacheRunSettings, StampGen, ValidCopyIsTable
    <3>2. CASE UNCHANGED runCfg
      BY <3>2 DEF ValidCopyIsTable
    <3> QED
      BY <1>1, <3>1, <3>2 DEF RunSettingsCall, LoadGen, CheckCache, ReadOne, ReadFailed, Return
  <2>2. ReadCurrent(r)'
    <3>1. CASE LoadGen(r)
      BY <3>1 DEF LoadGen, ReadCurrent
    <3>2. CASE CheckCache(r)
      BY <3>2 DEF CheckCache, ReadCurrent
    <3>3. ASSUME NEW k \in Keys, ReadOne(r, k) PROVE ReadCurrent(r)'
      BY <3>3 DEF ReadOne, ReadCurrent, Values
    <3>4. CASE ReadFailed(r) \/ CacheRunSettings(r) \/ Return(r)
      BY <3>4 DEF ReadFailed, CacheRunSettings, Return, ReadCurrent
    <3> QED
      BY <1>1, <3>1, <3>2, <3>3, <3>4 DEF RunSettingsCall
  <2>3. ASSUME NEW q \in Readers \ {r} PROVE ReadCurrent(q)'
    <3>1. rpc'[q] = rpc[q] /\ g'[q] = g[q] /\ c'[q] = c[q] /\ unread'[q] = unread[q]
      BY <1>1, <2>3 DEF RunSettingsCall, LoadGen, CheckCache, ReadOne, ReadFailed,
                        CacheRunSettings, Return
    <3> QED
      BY <3>1 DEF ReadCurrent
  <2> QED
    BY <2>1, <2>2, <2>3
<1>2. ASSUME NEW s \in Savers, PutSettings(s) PROVE Current'
  <2> UNCHANGED readVars
    BY <1>2 DEF PutSettings, StartSave, WriteOne, WriteFailed, BumpGen, DropCache
  <2>1. CASE StartSave(s)
    BY <2>1 DEF StartSave, Current, Ahead
  <2>2. ASSUME NEW k \in Keys, WriteOne(s, k) PROVE Current'
    BY <2>2 DEF WriteOne, Current, Ahead
  <2>3. CASE WriteFailed(s)
    BY <2>3 DEF WriteFailed, Current, Ahead
  <2>4. CASE BumpGen(s) \* no copy and no read is of the new generation
    BY <2>4 DEF BumpGen, NextGen, Current, CacheFresh, ReadFresh, ValidCopyIsTable, ReadCurrent
  <2>5. CASE DropCache(s)
    <3>1. (~Ahead)' => ~Ahead
      BY <2>5 DEF DropCache, Ahead
    <3> QED
      BY <2>5, <3>1 DEF DropCache, Current, ValidCopyIsTable, ReadCurrent
  <2> QED
    BY <1>2, <2>1, <2>2, <2>3, <2>4, <2>5 DEF PutSettings
<1>3. CASE UNCHANGED vars
  BY <1>3 DEF vars, Current, Ahead, ValidCopyIsTable, ReadCurrent
<1> QED
  BY <1>1, <1>2, <1>3 DEF Next

\* With no save in flight and none cut short since the last bump, the copy the
\* next call would serve is the table: no torn read of two saves, and none that
\* straddled a bump, is what the later ticks of a runner go by.
THEOREM QuietCacheHolds == Spec => []QuietCacheIsTable
<1>1. Init => Current
  BY DEF Init, Current, ValidCopyIsTable, ReadCurrent
<1>2. Current => QuietCacheIsTable
  BY DEF Current, Ahead, QuietCacheIsTable, NoSaveInFlight
<1> QED
  BY <1>1, <1>2, NextCurrent, IInvHolds, PTL DEF Spec

=============================================================================
