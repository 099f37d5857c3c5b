---------------------------- MODULE RunSettings ----------------------------
(***************************************************************************)
(* The roster's cache of the engine settings (cmd/miner/roster.go) and the *)
(* HTTP handler that saves them (internal/api/settings.go).                *)
(*                                                                         *)
(* Every runner reads its settings through roster.runSettings, which takes *)
(* no lock: it loads the generation, then the cached copy, and otherwise   *)
(* reads the settings one by one from the store and caches what it read    *)
(* under the generation it started from.  A save writes the settings one   *)
(* by one, then bumps the generation and drops the cached copy.            *)
(*                                                                         *)
(* A setting's value is the number of times it was saved, so "older" is    *)
(* "less than".                                                            *)
(***************************************************************************)
EXTENDS Integers

CONSTANTS Readers,      \* goroutines that call runSettings
          Savers,       \* PUT /settings requests in flight
          Keys,         \* the settings runSettings holds
          MaxSaves,     \* bound: no save starts on a setting saved this often
          NoCopy        \* the nil pointer in runCfg

ASSUME RunSettingsAssumption ==
  /\ MaxSaves \in Nat
  /\ NoCopy \notin [gen : Nat, val : [Keys -> Nat]]

VARIABLES db,        \* the settings table: db[k] is the saved version of k
          runGen,    \* roster.runGen
          runCfg,    \* roster.runCfg: NoCopy, or the cached copy and its gen
          rpc, g, c, \* runSettings: where a caller is, its g, its c
          unread,    \* the settings readRunSettings has yet to read
          spc, todo, \* putSettings: where a save is, the settings left to write
          promised,  \* history: promised[n] is the table as generation n began
          cutShort   \* history: a save failed part way since the last bump

readVars == <<rpc, g, c, unread>>
saveVars == <<spc, todo>>
history == <<promised, cutShort>>
vars == <<db, runGen, runCfg, rpc, g, c, unread, spc, todo, promised,
          cutShort>>

Values == [Keys -> Nat]
Default == [k \in Keys |-> 0]

Init ==
  /\ db = Default
  /\ runGen = 0
  /\ runCfg = NoCopy
  /\ rpc = [r \in Readers |-> "idle"]
  /\ g = [r \in Readers |-> 0]
  /\ c = [r \in Readers |-> Default]
  /\ unread = [r \in Readers |-> {}]
  /\ spc = [s \in Savers |-> "idle"]
  /\ todo = [s \in Savers |-> {}]
  /\ promised = [n \in 0 .. 0 |-> Default]
  /\ cutShort = FALSE

-----------------------------------------------------------------------------
(* runSettings *)

LoadGen(r) ==
  /\ rpc[r] = "idle"
  /\ g' = [g EXCEPT ![r] = runGen]
  /\ rpc' = [rpc EXCEPT ![r] = "cached"]
  /\ UNCHANGED <<db, runGen, runCfg, c, unread, saveVars, history>>

\* Mutant of Hit: any copy is served, whatever generation it was read under.
HitAnyGen(r) == runCfg # NoCopy

Hit(r) == runCfg # NoCopy /\ runCfg.gen = g[r]

\* A copy read under this generation is served; anything else is read anew.
CheckCache(r) ==
  /\ rpc[r] = "cached"
  /\ \/ /\ Hit(r)
        /\ c' = [c EXCEPT ![r] = runCfg.val]
        /\ rpc' = [rpc EXCEPT ![r] = "serve"]
        /\ UNCHANGED unread
     \/ /\ ~Hit(r)
        /\ rpc' = [rpc EXCEPT ![r] = "read"]
        /\ unread' = [unread EXCEPT ![r] = Keys]
        /\ c' = [c EXCEPT ![r] = Default]
  /\ UNCHANGED <<db, runGen, runCfg, g, saveVars, history>>

\* readRunSettings: one query per setting.
ReadOne(r, k) ==
  /\ rpc[r] = "read"
  /\ k \in unread[r]
  /\ c' = [c EXCEPT ![r][k] = db[k]]
  /\ unread' = [unread EXCEPT ![r] = @ \ {k}]
  /\ UNCHANGED <<db, runGen, runCfg, rpc, g, saveVars, history>>

\* A failed query: this call runs on the defaults, and nothing is cached.
ReadFailed(r) ==
  /\ rpc[r] = "read"
  /\ c' = [c EXCEPT ![r] = Default]
  /\ unread' = [unread EXCEPT ![r] = {}]
  /\ rpc' = [rpc EXCEPT ![r] = "defaults"]
  /\ UNCHANGED <<db, runGen, runCfg, g, saveVars, history>>

\* Mutant of StampGen: the copy is stamped with the generation at its end.
StampGenLate(r) == runGen

StampGen(r) == g[r]

\* cacheRunSettings, with the generation loaded before the read.
CacheRunSettings(r) ==
  /\ rpc[r] = "read"
  /\ unread[r] = {}
  /\ runCfg' = [gen |-> StampGen(r), val |-> c[r]]
  /\ rpc' = [rpc EXCEPT ![r] = "serve"]
  /\ UNCHANGED <<db, runGen, g, c, unread, saveVars, history>>

Return(r) ==
  /\ rpc[r] \in {"serve", "defaults"}
  /\ rpc' = [rpc EXCEPT ![r] = "idle"]
  /\ g' = [g EXCEPT ![r] = 0]
  /\ c' = [c EXCEPT ![r] = Default]
  /\ UNCHANGED <<db, runGen, runCfg, unread, saveVars, history>>

-----------------------------------------------------------------------------
(* putSettings *)

StartSave(s) ==
  /\ spc[s] = "idle"
  /\ \E req \in SUBSET Keys \ {{}} :
       /\ \A k \in req : db[k] < MaxSaves
       /\ todo' = [todo EXCEPT ![s] = req]
  /\ spc' = [spc EXCEPT ![s] = "write"]
  /\ UNCHANGED <<db, runGen, runCfg, readVars, history>>

\* applySettings: one statement per setting in the request.
WriteOne(s, k) ==
  /\ spc[s] = "write"
  /\ k \in todo[s]
  /\ db' = [db EXCEPT ![k] = @ + 1]
  /\ todo' = [todo EXCEPT ![s] = @ \ {k}]
  /\ UNCHANGED <<runGen, runCfg, readVars, spc, history>>

\* A failed write answers 500 at once: what was written stays written, and
\* OnSettingsUpdate is not called.
WriteFailed(s) ==
  /\ spc[s] = "write"
  /\ todo[s] # {}
  /\ todo' = [todo EXCEPT ![s] = {}]
  /\ spc' = [spc EXCEPT ![s] = "idle"]
  /\ cutShort' = TRUE
  /\ UNCHANGED <<db, runGen, runCfg, readVars, promised>>

NextGen == runGen + 1

\* settingsChanged, first statement.
BumpGen(s) ==
  /\ spc[s] = "write"
  /\ todo[s] = {}
  /\ runGen' = NextGen
  /\ promised' = [n \in 0 .. runGen + 1 |->
                    IF n = runGen + 1 THEN db ELSE promised[n]]
  /\ cutShort' = FALSE
  /\ spc' = [spc EXCEPT ![s] = "drop"]
  /\ UNCHANGED <<db, runCfg, readVars, todo>>

\* settingsChanged, second statement.
DropCache(s) ==
  /\ spc[s] = "drop"
  /\ runCfg' = NoCopy
  /\ spc' = [spc EXCEPT ![s] = "idle"]
  /\ UNCHANGED <<db, runGen, readVars, todo, history>>

-----------------------------------------------------------------------------

RunSettingsCall(r) ==
  \/ LoadGen(r)
  \/ CheckCache(r)
  \/ \E k \in Keys : ReadOne(r, k)
  \/ ReadFailed(r)
  \/ CacheRunSettings(r)
  \/ Return(r)

PutSettings(s) ==
  \/ StartSave(s)
  \/ \E k \in Keys : WriteOne(s, k)
  \/ WriteFailed(s)
  \/ BumpGen(s)
  \/ DropCache(s)

Next ==
  \/ \E r \in Readers : RunSettingsCall(r)
  \/ \E s \in Savers : PutSettings(s)

Spec == Init /\ [][Next]_vars

-----------------------------------------------------------------------------
(* Properties *)

TypeOK ==
  /\ db \in Values
  /\ runGen \in Nat
  /\ runCfg \in [gen : Nat, val : Values] \cup {NoCopy}
  /\ rpc \in [Readers -> {"idle", "cached", "read", "serve", "defaults"}]
  /\ g \in [Readers -> Nat]
  /\ c \in [Readers -> Values]
  /\ unread \in [Readers -> SUBSET Keys]
  /\ spc \in [Savers -> {"idle", "write", "drop"}]
  /\ todo \in [Savers -> SUBSET Keys]
  /\ promised \in [0 .. runGen -> Values]
  /\ cutShort \in BOOLEAN

\* v holds every setting at least as new as w does.
AtLeast(v, w) == \A k \in Keys : v[k] >= w[k]

\* "A read that began before a save is not served from the cache after it"
\* (roster.go, runSettings): a call that loaded generation n answers with
\* settings no older than the table was when n began, whoever cached them.
ServedFresh ==
  \A r \in Readers : rpc[r] = "serve" => AtLeast(c[r], promised[g[r]])

\* With no save in flight, and none cut short since the last bump, a copy the
\* next call would serve is the table: a torn read of two saves, or one that
\* straddled a bump, is never what every later tick runs on.
ValidCopyIsTable == (runCfg # NoCopy /\ runCfg.gen = runGen) => runCfg.val = db
NoSaveInFlight == \A s \in Savers : spc[s] = "idle"
QuietCacheIsTable == (NoSaveInFlight /\ ~cutShort) => ValidCopyIsTable

\* "settingsChanged drops the cached runner settings so the next read sees a
\* saved change" (roster.go:803), with no exception for a save that failed
\* after some of its settings were written.
NextReadSeesSavedChange == NoSaveInFlight => ValidCopyIsTable

=============================================================================
