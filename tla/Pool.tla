-------------------------------- MODULE Pool --------------------------------
(***************************************************************************)
(* The runner pool (internal/runner/pool.go): one supervised goroutine per *)
(* account, which a reload of the account replaces and which rebuilds its  *)
(* own unit a minute after a panic; and the trampoline of each account     *)
(* (pubsub.go), which forwards the backend's pushes to one runner.         *)
(*                                                                         *)
(* Entries are numbered as they are built.  A poolUnit has the number of   *)
(* the entry it was spawned with; its restarts give it later ones.  A      *)
(* build reads rows and sessions and makes the runner, which registers     *)
(* itself, last: it may panic before that.  Each step is what a goroutine  *)
(* does between two waits, or under Pool.mu.                               *)
(***************************************************************************)
EXTENDS Naturals

CONSTANTS Accounts,
          Callers,    \* goroutines that reload or remove an account
          Main,       \* the goroutine of main: boot and shutdown
          None,
          MaxBuilds   \* bound: the entries built in a behaviour

Ids == 1 .. MaxBuilds

ASSUME PoolAssumption ==
  /\ MaxBuilds \in Nat
  /\ Main \notin Callers
  /\ None \notin Callers \cup {Main} \cup Ids \cup Accounts
  /\ (Callers \cup {Main}) \cap Ids = {}

VARIABLES
  builds,     \* entries built so far
  runners,    \* those that are a Runner; the others are Idle
  base,       \* Pool.baseCtx is set
  ended,      \* the context main gave the boot has ended
  units,      \* Pool.units
  acct, entry, at,  \* of each poolUnit: its account, its entry, where its goroutine is
  cancelled,  \* the poolUnits whose cancel was called
  hooks,      \* the runner each account's trampoline forwards to
  reloadMu, buildMu,  \* who holds the lock of that name
  main,       \* where main is
  stopping,   \* the poolUnits Stop took and waits for
  pc, target, new, old,  \* of each caller: where it is, its account, the entry
                         \* it built, the poolUnit it replaces
  ran         \* history: the latest entry of each account that began to run

unit == <<acct, entry, at>>
entries == <<builds, runners>>
locks == <<reloadMu, buildMu>>
process == <<main, stopping, base, ended>>
locals == <<pc, target, new, old>>
vars == <<entries, process, units, unit, cancelled, hooks, locks, locals, ran>>

Init ==
  /\ builds = 0 /\ runners = {}
  /\ base = FALSE /\ ended = FALSE
  /\ units = {}
  /\ acct = [u \in Ids |-> None] /\ entry = [u \in Ids |-> None]
  /\ at = [u \in Ids |-> "none"]
  /\ cancelled = {}
  /\ hooks = [a \in Accounts |-> None]
  /\ reloadMu = None /\ buildMu = None
  /\ main = "boot" /\ stopping = {}
  /\ pc = [c \in Callers |-> "idle"]
  /\ target = [c \in Callers |-> None]
  /\ new = [c \in Callers |-> None] /\ old = [c \in Callers |-> None]
  /\ ran = [a \in Accounts |-> 0]

Done(u) == ended \/ u \in cancelled

\* The entry a builder makes for a: a Runner takes the account's trampoline over
\* as it is made, an Idle unit does not.
BuildEntry(a) ==
  /\ builds < MaxBuilds
  /\ builds' = builds + 1
  /\ \/ runners' = runners \cup {builds'} /\ hooks' = [hooks EXCEPT ![a] = builds']
     \/ UNCHANGED <<runners, hooks>>

\* Mutant of Release: a runner unhooks the account whoever owns it.
ReleaseAlways(e, a) == hooks' = [hooks EXCEPT ![a] = None]

\* Runner.Release: "only unhooks the account if r still owns it".
Release(e, a) == hooks' = [hooks EXCEPT ![a] = IF @ = e THEN None ELSE @]

\* The goroutine of a new poolUnit, which runs its entry.
Spawn(u, a) ==
  /\ acct' = [acct EXCEPT ![u] = a]
  /\ entry' = [entry EXCEPT ![u] = u]
  /\ at' = [at EXCEPT ![u] = "run"]
  /\ ran' = [ran EXCEPT ![a] = u]

-----------------------------------------------------------------------------
(* spawn's goroutine: supervise, wait, restart *)

\* Run returns: the unit's context ended, or the runner needs the user.
Return(u) ==
  /\ at[u] = "run" /\ (Done(u) \/ entry[u] \in runners)
  /\ at' = [at EXCEPT ![u] = "done"]
  /\ UNCHANGED <<entries, process, units, acct, entry, cancelled, hooks, locks,
                 locals, ran>>

Panic(u) ==
  /\ at[u] = "run" /\ entry[u] \in runners
  /\ at' = [at EXCEPT ![u] = "timer"]
  /\ UNCHANGED <<entries, process, units, acct, entry, cancelled, hooks, locks,
                 locals, ran>>

\* "a removed or replaced unit is never resurrected"
Timer(u) ==
  /\ at[u] = "timer"
  /\ \/ Done(u) /\ at' = [at EXCEPT ![u] = "done"]
     \/ at' = [at EXCEPT ![u] = "restart"]
  /\ UNCHANGED <<entries, process, units, acct, entry, cancelled, hooks, locks,
                 locals, ran>>

\* Mutant of LockRestart: the context is not checked again.
LockRestartAlways(u) ==
  /\ at[u] = "restart" /\ buildMu = None
  /\ buildMu' = u
  /\ at' = [at EXCEPT ![u] = "rebuild"]
  /\ Release(entry[u], acct[u])
  /\ UNCHANGED <<entries, process, units, acct, entry, cancelled, reloadMu,
                 locals, ran>>

LockRestart(u) ==
  /\ at[u] = "restart" /\ buildMu = None
  /\ \/ /\ Done(u)
        /\ at' = [at EXCEPT ![u] = "done"]
        /\ UNCHANGED <<buildMu, hooks>>
     \/ /\ ~Done(u)
        /\ buildMu' = u
        /\ at' = [at EXCEPT ![u] = "rebuild"]
        /\ Release(entry[u], acct[u])
  /\ UNCHANGED <<entries, process, units, acct, entry, cancelled, reloadMu,
                 locals, ran>>

\* The new entry takes the slot and runs next.
Rebuild(u) ==
  /\ at[u] = "rebuild"
  /\ BuildEntry(acct[u])
  /\ entry' = [entry EXCEPT ![u] = builds']
  /\ at' = [at EXCEPT ![u] = "run"]
  /\ ran' = [ran EXCEPT ![acct[u]] = builds']
  /\ buildMu' = None
  /\ UNCHANGED <<process, units, acct, cancelled, reloadMu, locals>>

\* A build that panics is tried again a minute later.
RebuildPanics(u) ==
  /\ at[u] = "rebuild"
  /\ at' = [at EXCEPT ![u] = "timer"]
  /\ buildMu' = None
  /\ UNCHANGED <<entries, process, units, acct, entry, cancelled, hooks, reloadMu,
                 locals, ran>>

-----------------------------------------------------------------------------
(* ReloadAccount *)

Go(c, label) == pc' = [pc EXCEPT ![c] = label]
IdleCaller(c) ==
  /\ Go(c, "idle")
  /\ target' = [target EXCEPT ![c] = None]
  /\ new' = [new EXCEPT ![c] = None] /\ old' = [old EXCEPT ![c] = None]

\* With a builder, or with nil to remove the account.
Call(c) ==
  /\ pc[c] = "idle"
  /\ \E a \in Accounts : target' = [target EXCEPT ![c] = a]
  /\ Go(c, "lock") \/ Go(c, "lockRemove")
  /\ UNCHANGED <<entries, process, units, unit, cancelled, hooks, locks, new, old,
                 ran>>

\* "Before the first Reload it is a no-op."
Lock(c) ==
  /\ pc[c] \in {"lock", "lockRemove"} /\ reloadMu = None
  /\ \/ ~base /\ IdleCaller(c) /\ UNCHANGED reloadMu
     \/ /\ base
        /\ reloadMu' = c
        /\ Go(c, IF pc[c] = "lock" THEN "build" ELSE "remove")
        /\ UNCHANGED <<target, new, old>>
  /\ UNCHANGED <<entries, process, units, unit, cancelled, hooks, buildMu, ran>>

\* buildOne, up to its build.
Build(c) ==
  /\ pc[c] = "build" /\ buildMu = None
  /\ buildMu' = c
  /\ BuildEntry(target[c])
  /\ new' = [new EXCEPT ![c] = builds']
  /\ Go(c, "cancel")
  /\ UNCHANGED <<process, units, unit, cancelled, reloadMu, target, old, ran>>

\* The deferred unlocks run, and the caller's own recover ends the request.
BuildPanics(c) ==
  /\ pc[c] = "build" /\ buildMu = None
  /\ reloadMu' = None
  /\ IdleCaller(c)
  /\ UNCHANGED <<entries, process, units, unit, cancelled, hooks, buildMu, ran>>

NoBuild(c) ==
  /\ pc[c] = "remove" /\ buildMu = None
  /\ buildMu' = c
  /\ Go(c, "cancel")
  /\ UNCHANGED <<entries, process, units, unit, cancelled, hooks, reloadMu,
                 target, new, old, ran>>

\* Mutant of Cancel: the old unit's exit is awaited under the lock of the builds.
CancelAwaits(c) ==
  /\ pc[c] = "cancel"
  /\ \/ \E u \in units :
          /\ acct[u] = target[c]
          /\ old' = [old EXCEPT ![c] = u]
          /\ cancelled' = cancelled \cup {u}
          /\ IF at[u] = "done" THEN buildMu' = None /\ Go(c, "await")
                               ELSE UNCHANGED <<buildMu, pc>>
     \/ /\ \A u \in units : acct[u] # target[c]
        /\ buildMu' = None /\ Go(c, "await")
        /\ UNCHANGED <<old, cancelled>>
  /\ UNCHANGED <<entries, process, units, unit, hooks, reloadMu, target, new, ran>>

\* buildOne's search for the unit to replace, which it cancels.
Cancel(c) ==
  /\ pc[c] = "cancel"
  /\ \/ \E u \in units :
          /\ acct[u] = target[c]
          /\ old' = [old EXCEPT ![c] = u]
          /\ cancelled' = cancelled \cup {u}
     \/ /\ \A u \in units : acct[u] # target[c]
        /\ UNCHANGED <<old, cancelled>>
  /\ buildMu' = None
  /\ Go(c, "await")
  /\ UNCHANGED <<entries, process, units, unit, hooks, reloadMu, target, new, ran>>

\* The old unit has exited, and is unhooked.
Await(c) ==
  /\ pc[c] = "await"
  /\ \/ old[c] = None /\ UNCHANGED hooks
     \/ /\ old[c] # None /\ at[old[c]] = "done"
        /\ Release(entry[old[c]], target[c])
  /\ Go(c, IF new[c] = None THEN "drop" ELSE "spawn")
  /\ UNCHANGED <<entries, process, units, unit, cancelled, locks, target, new, old,
                 ran>>

Drop(c) ==
  /\ pc[c] = "drop"
  /\ units' = units \ {old[c]}
  /\ reloadMu' = None
  /\ IdleCaller(c)
  /\ UNCHANGED <<entries, process, unit, cancelled, hooks, buildMu, ran>>

SpawnNew(c) ==
  /\ pc[c] = "spawn"
  /\ Spawn(new[c], target[c])
  /\ Go(c, "swap")
  /\ UNCHANGED <<entries, process, units, cancelled, hooks, locks, target, new, old>>

\* In the old unit's slot, or appended.
Swap(c) ==
  /\ pc[c] = "swap"
  /\ units' = (units \ {old[c]}) \cup {new[c]}
  /\ reloadMu' = None
  /\ IdleCaller(c)
  /\ UNCHANGED <<entries, process, unit, cancelled, hooks, buildMu, ran>>

-----------------------------------------------------------------------------
(* main: the boot's Reload, and the shutdown *)

BootLock ==
  /\ main = "boot" /\ reloadMu = None
  /\ reloadMu' = Main
  /\ base' = TRUE
  /\ main' = "spawn"
  /\ UNCHANGED <<entries, stopping, ended, units, unit, cancelled, hooks, buildMu,
                 locals, ran>>

\* An account is built and spawned: there is nothing to replace.
Boot(a) ==
  /\ main = "spawn"
  /\ \A u \in units : acct[u] # a
  /\ BuildEntry(a)
  /\ Spawn(builds', a)
  /\ units' = units \cup {builds'}
  /\ UNCHANGED <<process, cancelled, locks, locals>>

Booted ==
  /\ main = "spawn"
  /\ reloadMu' = None
  /\ main' = "up"
  /\ UNCHANGED <<entries, stopping, base, ended, units, unit, cancelled, hooks,
                 buildMu, locals, ran>>

\* cancelRun: the context every unit's derives from.
Shutdown ==
  /\ main = "up"
  /\ ended' = TRUE
  /\ main' = "stop"
  /\ UNCHANGED <<entries, stopping, base, units, unit, cancelled, hooks, locks,
                 locals, ran>>

\* Mutant of StopLock: a reload under way is not waited for.
StopUnlocked ==
  /\ main = "stop"
  /\ reloadMu' = Main
  /\ stopping' = units /\ units' = {}
  /\ base' = FALSE
  /\ main' = "await"
  /\ UNCHANGED <<entries, ended, unit, cancelled, hooks, buildMu, locals, ran>>

StopLock ==
  /\ main = "stop" /\ reloadMu = None
  /\ reloadMu' = Main
  /\ stopping' = units /\ units' = {}
  /\ base' = FALSE
  /\ main' = "await"
  /\ UNCHANGED <<entries, ended, unit, cancelled, hooks, buildMu, locals, ran>>

StopDone ==
  /\ main = "await"
  /\ \A u \in stopping : at[u] = "done"
  /\ stopping' = {}
  /\ reloadMu' = None
  /\ main' = "stopped"
  /\ UNCHANGED <<entries, base, ended, units, unit, cancelled, hooks, buildMu,
                 locals, ran>>

-----------------------------------------------------------------------------
Loop(u) ==
  \/ Return(u) \/ Panic(u) \/ Timer(u)
  \/ LockRestart(u) \/ Rebuild(u) \/ RebuildPanics(u)

ReloadAccount(c) ==
  \/ Lock(c) \/ Build(c) \/ BuildPanics(c) \/ NoBuild(c) \/ Cancel(c)
  \/ Await(c) \/ Drop(c) \/ SpawnNew(c) \/ Swap(c)

BootUp == BootLock \/ Booted \/ \E a \in Accounts : Boot(a)

Stop == StopLock \/ StopDone

Next ==
  \/ \E u \in Ids : Loop(u)
  \/ \E c \in Callers : Call(c) \/ ReloadAccount(c)
  \/ BootUp \/ Shutdown \/ Stop

Spec == Init /\ [][Next]_vars

\* A pool goroutine that can go on does, and Run returns once its context ends
\* (Runner's ShutdownReturns).
GoOn(u) ==
  \/ Done(u) /\ Return(u)
  \/ Timer(u) \/ LockRestart(u) \/ Rebuild(u) \/ RebuildPanics(u)

\* A timer fires, a build ends, and a goroutine that waits for a Go mutex gets it.
FairSpec ==
  /\ Spec
  /\ \A u \in Ids : SF_vars(GoOn(u))
  /\ \A c \in Callers : SF_vars(ReloadAccount(c))
  /\ SF_vars(Booted \/ Stop)

-----------------------------------------------------------------------------
(* Properties *)

DataOK ==
  /\ builds \in 0 .. MaxBuilds /\ runners \subseteq Ids
  /\ units \subseteq Ids /\ cancelled \subseteq Ids /\ stopping \subseteq Ids
  /\ acct \in [Ids -> Accounts \cup {None}]
  /\ entry \in [Ids -> Ids \cup {None}]
  /\ at \in [Ids -> {"none", "run", "timer", "restart", "rebuild", "done"}]
  /\ hooks \in [Accounts -> Ids \cup {None}]
  /\ reloadMu \in Callers \cup {Main, None}
  /\ buildMu \in Callers \cup Ids \cup {None}
  /\ main \in {"boot", "spawn", "up", "stop", "await", "stopped"}
  /\ pc \in [Callers -> {"idle", "lock", "lockRemove", "build", "remove", "cancel",
                         "await", "drop", "spawn", "swap"}]
  /\ target \in [Callers -> Accounts \cup {None}]
  /\ new \in [Callers -> Ids \cup {None}] /\ old \in [Callers -> Ids \cup {None}]
  /\ ran \in [Accounts -> 0 .. MaxBuilds]

TypeOK == DataOK /\ base \in BOOLEAN /\ ended \in BOOLEAN

Running == {u \in Ids : at[u] = "run"}

\* One runner of an account runs at a time, and never an older one after a newer:
\* what RunnerTurns promises the backends, whose handles and sidecars two runners
\* of an account would fight over.
Turns == INSTANCE RunnerTurns WITH Numbers <- Ids,
           running <- {<<acct[u], entry[u]>> : u \in Running}, latest <- ran
OneRunner == Turns!Spec

\* No reload, boot or stop is under way, and no restart is building.
Settled == reloadMu = None /\ buildMu = None

\* Until the shutdown, once settled, pushes for an account reach the runner in its
\* slot, or nobody while that one waits for a restart: "releasing a replaced
\* Runner leaves its successor wired", and a removed runner is not left hooked.
HooksFollowSlot ==
  Settled /\ base /\ ~ended =>
    \A a \in Accounts :
      LET slot == {u \in units : acct[u] = a /\ entry[u] \in runners}
      IN  /\ hooks[a] \in {None} \cup {entry[u] : u \in slot}
          /\ \A u \in slot : at[u] \in {"run", "done"} => hooks[a] = entry[u]

\* When Stop has returned, so that the backends and the database may close, no
\* goroutine of the pool is left, and no reload starts one any more.
StopDrains == main = "stopped" => \A u \in Ids : at[u] \in {"none", "done"}

\* Whatever the unit being replaced or stopped is doing, a reload, the boot and
\* Stop give the lock back: they never wait for a restart that waits for them.
ReloadsEnd == []<>(reloadMu = None)

=============================================================================
