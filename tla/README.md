# A verification of GrubDrops

GrubDrops mines Twitch and Kick drops: one process holds many accounts, watches
a stream for each, follows the progress of its drops, claims them when they are
complete, and serves a web interface that changes all of it while it runs. The
Go code is a set of goroutines around a SQLite database: one *runner* per
account, callbacks of the platforms' sockets, HTTP handlers, background loops,
and a second process that drives Chrome. What is hard about it is not any one
of them but the order in which they meet, and that is what this project models,
checks with TLC and proves with TLAPS.

Paths below are relative to the repository's root (`internal/...`, `cmd/...`).

## 1. Inventory

`PROJECT.json` lists every part with its files, its status and a note; this is
the map a reader needs first.

### The runners and what changes under them

| Part | Code | State | Operations | Module |
|---|---|---|---|---|
| Engine settings cache | `cmd/miner/roster.go` (`runSettings`), `internal/api/settings.go` | the settings table; `runGen`, `runCfg` | a runner reads its settings on every tick without a lock; `PUT /settings` writes, bumps the generation, drops the copy | `RunSettings` |
| Runner | `internal/runner/` `runner.go watch.go claim.go pubsub.go state.go` | `state`, `current`, `watch`, `pinned`, `queue`, the wake-up channels, `forceScan`, `switchNow` | pick, start, tick, claim, stop a watch, sleep window, shutdown, panic; pushes "drop claim" and "stream down"; `Rescan`, `MineNow`, `Collected` | `Runner` |
| Side tasks of a watch | `internal/runner/points.go raid.go` | the points claimer, the raid task with its pending joins, `raidSeen` | start with the watch and at a settings change, stop with it; a push stops them too | `SideTasks` |
| Roster | `cmd/miner/roster.go`, `internal/api/accounts.go`, `games.go` | `accountFlags` and its version, `staleGames`, `gamesDirty`, `allGames`, the settle timer | a saved points mode, own list, chosen list or name reaches the runner: stored live, or by a rebuild, now or when the games reloader runs; removal; restart after a panic | `Roster` |
| Runner pool | `internal/runner/pool.go`, trampoline in `pubsub.go` | `units`, `reloadMu`, `buildMu`, `baseCtx`, each unit's goroutine, each trampoline's `cur` | boot, `ReloadAccount`, restart a minute after a panic, `Stop` | `Pool`, abstractly `RunnerTurns` |
| Force-watch list | `cmd/miner/roster.go` (`forceList`, `forceChanged`, `runForceReloader`), `internal/api/force_watch.go`, `internal/runner/force.go` | the saved list, `forceCache`, `forceMu`, `forceQueue`; a runner's state and channel | runners read the list live on every pick and recheck; a save tells the accounts it touched, and rebuilds those that had stopped | `ForceList` |
| Logins | `internal/api/login_*.go`, `cmd/miner/session_load.go`, `internal/platform/twitch/auth.go` | the accounts and sessions tables, `server.twitch` (the device flows), the Kick registry | device code, paste, Kick cookies, refresh on load, cancel, delete | `Logins` |

### What is mined, and how it is claimed

| Part | Code | State | Operations | Module |
|---|---|---|---|---|
| Planner | `internal/plan/plan.go`, `internal/platform/link.go` | none: campaigns, inventory, claim log and marks in, a queue out | `Build` with its gates, its two priorities and its order; the loop that mines the head of the queue | `Planner` |
| Claims | `internal/runner/claim.go link.go inventory_sweep.go`, `internal/api/claims.go`, `internal/store/claim_log.go skips.go` | the claim log, the skip rows, failure counts, `linkRefused` | the runner's claim and confirmation, the daily sweep beside it, the link retry, marks by hand | `Claims` |
| Kick links | `internal/platform/kick/backend.go`, `internal/store/campaign_links.go` | `needsLink`, `linkCampaigns` and their rows | claim, refusal, sweep, the user's "I linked it", restart | `KickLinks` |
| Scans | `internal/collect`, `internal/runner/wake.go` | the board, `drop_states`, the waker's window and what each account has listed | a scan's steps, a category lookup, the debounce and its wake-ups, link recheck, deletion | `Scans` |

### The platforms and the browser

| Part | Code | State | Operations | Module |
|---|---|---|---|---|
| Twitch catalogue | `internal/platform/twitch` `campaigns.go shared.go chandisc.go` ... | the details cache, `allowedChans`, pending details | list by each of three kinds of login, merge, resolve details, search a channel | `TwitchCatalogue` |
| Twitch heartbeat | `watch.go client.go playlist.go` | `playlistURLs`, `spadeURLs`, `cachedUserID`, the token profiles | start, heartbeat on two paths with one retry each, login | `TwitchBeats` |
| Twitch PubSub | `pubsub.go`, `backend.go`, `browser_backend.go` | the topic set, the socket, the registry of clients | add and remove a topic, the run loop, close, login | `TwitchPush` |
| Kick catalogue | `internal/platform/kick/backend.go api.go` | `campaignChannels`, the pool of channels, category ids | list, look for a stream, probe it | `KickCatalogue` |
| Kick watch | `backend.go sidecars.go wswatch.go`, `internal/auth/browser/sidecar/kick_watch.go` | the sidecar registry, `lastActive`, Docker's containers, the tabs in them, `wsFailed` | WebSocket or Chrome watch, `EnsureUp`, reaper, orphan sweep | `KickWatch` |
| Kick transport | `transport.go` | one HTTP/2 connection per host | dial, share, fail, close | `KickTransport` |
| Kick probe | `probe_ws.go`, `internal/canary/kick.go` | one WebSocket, its reader, the counters | handshakes and pings for a window, a verdict | `KickProbe` |
| Browser sidecar, Twitch side | `internal/auth/browser/sidecar/twitch.go`, `browser_backend.go` | a tab per account, its lock and cookies, click marks, `authed` | authenticate, GQL through the tab, claim by clicking, restart | `SidecarTabs` |

### Beside the runners

| Part | Code | State | Operations | Module |
|---|---|---|---|---|
| Reward codes | `internal/rewards`, `internal/notify` | `reward_codes`, the poller's due times | poll, upsert, sweep, remind, close | `RewardCodes` |
| Points balances | `internal/points`, `cmd/miner/points.go` | `points_balances`, `lastManual` | the pass, "Refresh now", `Record` by the claim hook, the page | `PointsBook` |
| Login checks and canary | `internal/authcheck`, `internal/canary`, `internal/api/health.go` | their results in the kv table, `canaryRunning`, `canaryRerun` | hourly and on request, with reruns | `AuthProbes` |
| Live pages | `internal/api/events.go`, `web/src/lib/stores/live.svelte.ts` | the hub's buffers, the coalesced event, the page's store | publish, flush, drop a slow tab, refetch, reconnect | `LivePages` |

### How they interact

An HTTP handler writes the database and then calls the roster. The roster
decides between a store into a map the runner reads on its next tick, a token
for a background reloader, and `Pool.ReloadAccount`, which builds a runner from
the database, cancels the old goroutine, waits for it, and spawns the new. The
runner lists campaigns and inventory through its backend, hands them to the
collector and the planner, and calls the backend to start and stop a watch, list
channels, claim and subscribe a topic; the backend calls back, from its own
goroutine, through the account's trampoline into whichever runner is registered
there. A browser login's calls go by gRPC to the sidecar process, which
outlives the caller's deadline. Background loops read what the runners store.
Everything but the sidecar is shared state under short locks, atomics, and
channels of capacity one used as "look again" tokens. No lock is held across a
backend call, except the two locks of the pool and the lock of the force list
(held across database reads) and a sidecar tab's lock.

### Not modelled

* **Store.** Single statements on one SQLite database, each one atomic step in
  the modules that use it; migrations and generated queries carry no control.
* **Force-watch checker** (`internal/forcewatch`): a cache of who is live for
  the settings page, with single-flight lookups.
* **Discovery, updates, logs, network, languages**: helpers and caches of remote
  lists that nothing else acts on.
* **Sign-in of the admin**: one statement or map lookup per request.
* **Formatting and decoding**: notices, the daily summary, the listings of the
  API, the answers of GraphQL and HTML. The models take what an answer comes to.
* **Page scripts**: what a page does to a script is the page's choice.
* **Tools and packaging**: nothing runs concurrently.

`PROJECT.json` lists the hazards at the line where each bites, with the
properties that watch it.

## 2. The modules

Each module's header says which code it is and what a step is. The rule
throughout: **an action is what one goroutine does between two points where
another may run** — a critical section, an atomic, a channel operation, a
statement on the database, a call to the backend. Locals of the code that live
across such a point are variables; the place a goroutine has reached is a label
(`pc`, `at`, `hat`, ...). Every definition that stands for code has its lines in
`PROJECT.json` under `map`.

The core, each with its proofs in `<Module>Proofs`:

* `RunSettings`. `db[k]` is the number of times setting `k` was saved, so
  "older" is "less than". `readRunSettings` reads the settings one query at a
  time in any order; a save may fail between two writes, as `applySettings` may.
  History: `promised[n]`, the table as generation `n` began.
* `Runner`. `Run` is one process with the labels of the code it runs; the push
  callback is a second; the callers of the API are any number more. The backend
  is `open` (live handles per channel) and `topics`; the platform is which drops
  are complete and claimed. `Panic` may strike any step of `Run` that the
  supervisor would catch, and `Cleanup` is the deferred stop.
* `Roster`. One account against the pool's two locks, with its row, three lists,
  the flags and their versions. Two rebuilds, a restart and the reloader run the
  same `reload` steps with different callers.
* `Pool`. Entries are numbered as they are built, so "newer" is "greater".
  Units, callers and main are processes. `RunnerTurns` is what the pool promises:
  runners of an account take turns, one at a time, the newer after the older;
  `Pool` implements it with `running` mapped to the goroutines inside
  `Runner.Run` and `latest` to the history `ran`.
* `ForceList`. The table, the cache and its lock; runners as readers that pick,
  wait, recheck, stop as no_games and are rebuilt; handlers that save and diff.

What is mined and claimed:

* `Planner`. `Build` as operators over a list of campaigns (which drops each
  gate leaves, the kept campaigns, the queue), and around it the loop: pick the
  head, watch it to the end or give it up, claim, sweep. A claim log that says
  too much, an inventory that cannot be read and marks by hand are its faults.
* `Claims`. The Run goroutine and the sweep claim the same drops; Twitch grants,
  refuses or loses the answer; the claim log, its age, the skip rows and the
  failure counts are tables and maps of the code.
* `KickLinks`. Two callers claim; a refusal writes the reward's mark, the
  campaign's mark and the row in the code's order, and a link clears them.
* `Scans`. One process per runner with the steps of a scan (observe, names,
  replace, wake), the waker's window and timer, the user's recheck and deletion.

The platforms:

* `TwitchCatalogue`. What each of the three kinds of login lists, the details
  that age out or are answered null, by a scan or by a page that asks beside it,
  and the search for a channel that reads the allow-lists the last scan left.
  History: `untold`, the campaigns whose list was taken of a null answer.
* `TwitchBeats`. A heartbeat is two paths, each cached or resolved and retried
  once; answers are a set of eleven kinds, and `Do` says what each comes to.
* `TwitchPush`. Topic set and wire apart: `edge` is what Twitch sends, by the
  frames it got. The registry of clients is there for both backends.
* `KickCatalogue`. The probe of a list is a loop with the cap `MaxProbe`;
  channels move while it runs.
* `KickWatch`. An account's watch, its container in Docker, the tabs in it, the
  calls the sidecar serves with no one waiting, and the reaper's pass.
* `KickTransport`, `KickProbe`. One host's connection, on which a request gets no
  answer or one that is cut short; one WebSocket, whose server may send frames
  nobody asked for, and its reader goroutine.
* `SidecarTabs`. Callers take the tab, or open one, lock it, drive it, click and
  mark; the miner's `authed` beside it. History: `spent`, whether the mark of a
  tile's last click is kept or lost.

Beside the runners: `SideTasks`, `RewardCodes`, `PointsBook`, `Logins`,
`AuthProbes`, `LivePages`, each with its goroutines as processes and its tables
as variables, as the first table says.

Three modules put components together for TLC. `MCEventually`, `MCBackends` and
`MCServices` hold several components that share no state; the variable `part`,
chosen by the initial state, says which of them the behaviour is about, and the
others rest. A run is thereby the union of the components' own state graphs and
not their product: it checks what separate runs would. `MC<Module>` of the core
adds the symmetry of the constants and nothing else. The mutants that
`PROJECT.json` lists, each a definition with a plausible bug in it, stand in the
module before the definition they would replace and are used by no run.

What one module assumes of another is small and named: `Roster` takes that a
reload waits for the old goroutine (`OneRunner` of `Pool`), `Pool` that a
cancelled `Run` returns (`ShutdownReturns` of `Runner`), `ForceList` that a
reload rebuilds from what is then saved (`Roster`), `Planner` that a finished
drop is granted in the end (`LostClaimHealed` of `Claims`), `KickLinks` that a
complete reward is seen (`Scans`), `SideTasks` that one goroutine of each kind
starts and stops watches (`HandlesAccounted` of `Runner`).

## 3. What TLC checks

| Run | Configuration | Shows |
|---|---|---|
| `run_settings` | 2 callers, 2 saves, 2 settings, 1 save per setting | `ServedFresh`: no call answers with settings older than the generation it loaded. `QuietCacheIsTable`: outside a save the copy the next call serves is the table, torn reads included. |
| `runner_watch` | 2 drops, 2 channels, pushes, no callers | `HandlesAccounted`: each open handle is the live watch or in the hands of exactly one goroutine (no leak, no double stop). `NoWatchLeftBehind`, `PushWakesRun` (no push loses its wake-up). `StrayClaims`: a claim step works on an unfinished drop only by a push that was overtaken between its check and its store. |
| `runner_calls` | 1 drop, 1 channel, 2 callers, no pushes (Kick) | `RescanWakes`, `SwitchWakes`: a Rescan or Mine now that has returned is never left to a timer. |
| `runner_live` | 1 drop, 1 channel, pushes, sleep window, fair | `SleepEndsWatch`, `ShutdownReturns`. |
| `roster_saves` | 2 handlers, 2 saves, no failed reads | `FlagsFollowRow`, `GamesApplied`, `StoppedHasNoWork`: whatever saves, reloads and restarts meet, the mode a runner reads live is the saved one, a quiet roster runs on its current games, and a runner stopped for want of games has no other work. |
| `roster_live` | 1 handler, 1 save, removal, failed reads, a force list, 3 modes, fair | `SavesSettle`: every reload ends; the locks of the pool never deadlock, though a unit may panic without end. |
| `roster_removed` | 2 handlers, removal | refutes `RemovedIsGone` (see Findings) |
| `pool` | 1 account, 2 callers, 4 builds, fair | `OneRunner` (implements `RunnerTurns`), `HooksFollowSlot` (pushes follow the runner in the slot), `StopDrains`, `ReloadsEnd`. |
| `force_list` | 1 account, 2 channels, 2 handlers, 3 saves, failed queries | `CacheFollows`: outside a save the cached list is the saved one. `StoppedIsRebuilt`: a runner that had stopped for want of a channel is rebuilt when it gets one. |
| `eventually` | `Claims`, `KickLinks`, `KickWatch`, `Planner`, fair | `LostClaimHealed`: a finished drop of a linked campaign is granted whatever the claim log says. `LinkedIsGranted`: a refused Kick reward is granted once the account is linked, with no help of the user. `OneWatchPath`, `WatchComesUp`: a Kick account never watches two ways at once, and ends with a watch that counts whatever the reaper stopped. `ChosenIsGot`: every drop of a chosen campaign is got, marked, given up or barred by the link. |
| `backends` | `SidecarTabs`, `TwitchCatalogue`, `TwitchPush`, `TwitchBeats`, `KickTransport`, `KickCatalogue`, `KickProbe` | `ReclickExcused`: a tile whose button stays is clicked again only when the mark of its last click was never made or a restart lost it. `EligibleEarns`: a channel found for a campaign earns it, unless the campaign's list was last taken of a null answer. `ReconnectRestores`: after a reconnect Twitch sends what was asked for. `StaleCostsNothing`: a stale URL costs no minute. `OneFailureSuffices`: one request without an answer clears the way: until something breaks again no call waits on a dead connection. `OpenSearchFinds`: dead channels never hide the one that streams. `NilMeansHeard`: a healthy verdict needs a frame that the server sent on this connection, and a tick past the first handshake. |
| `services` | `Scans` (two linked accounts, or one to link), `RewardCodes`, `PointsBook`, `Logins`, `AuthProbes`, `SideTasks`, `LivePages` | `Woken`: a campaign one account finds is known to every account with the game once the windows are over. `Forgotten`: a deleted account leaves nothing on the board. `RepeatExcused`: a notice is repeated only when it was not recorded. `NeverTwice`: no pair is read twice for a click before its retry is due. `AnsweredIsStored`: the paste answered last is the Twitch session stored, and a Kick account that nothing is under way for has the session stored last and, if that session lists channels, its channels, unless a read of its last rebuild failed. `FlagSeen`: no rerun is left without a run to see it. `TasksOwned`: a claim or a join under way is of the live watch, on its channel, or of a task that a goroutine is still stopping. `NewsArrives`: a page whose stream is open has been given the news, unless a request it made since then failed. |

Types are proved for the five modules of the core and are not model-checked
again. Most other modules state a `TypeOK` for the reader, which TLC confirms when
it is listed; it is no property of a run.

### Bounds, and why they are enough

* *Actors.* Two callers, handlers or savers are the most that interact at one
  lock or one token; a third only waits. In `Pool` two callers with the boot,
  the restart timers and `Stop` give five processes over the two locks.
  `KickTransport` has two requests and three connections: the one kept, the one
  that replaced it, and one dialled after a failure. `AuthProbes` has three canary
  runs, the scheduled one, one asked for and its rerun.
* *Suites.* `Logins` has two device flows and two pastes, one of which lists no
  channel, and each start has accounts of one platform, so that a flow meets a
  flow, a paste or a load; `SideTasks` two tasks of each kind, an old one being
  stopped and a new one, and one settings change; `LivePages` a buffer of one
  event, the least that can be full.
* *Data.* Two drops and two channels are needed for "another drop, another
  channel" (a push about one while the other is live); a third adds no new
  relation. `Planner` has three drops in two campaigns, one of which is in both
  and needs another. `KickCatalogue` has three channels and a cap of one probe,
  so that a list is longer than the cap. `TwitchPush` has two topics below a cap
  of three. Accounts share only the pool's locks, the waker and the database:
  one is enough elsewhere, and `Scans` has two.
* *Names.* In `KickWatch` one account has two names, so that a rename moves it
  to another container while the old one is there.
* *Counters.* `MaxSaves`, `MaxEdits`, `MaxBuilds` and the constants named
  `...Faults`, `Moves`, `Shifts`, `Edits` and `Toggles` cap what goes wrong or
  changes in a behaviour, in the guards of the actions that count. Four builds
  give boot, two reloads and one restart in any order. Two faults give a failure
  and a failed repair; three in `KickWatch` a dead WebSocket, a stalled tab and
  a failed start. With one fault a property only sees the first failure of each
  kind, which is so for `SidecarTabs`, `Scans`, `PointsBook`, `AuthProbes` and `LivePages`.
* *Time.* A timer may fire whenever it is armed. Where the lengths matter
  (`PointsBook`, `RewardCodes`) a clock ticks to `EndOfTime`; in `PointsBook` a
  tick is half a second, so that a moment is earlier or later within the second
  the store keeps, and a retry of four ticks comes due before the clock ends.
* *Off by configuration.* Pushes, the sleep window and callers are separate
  constants of `Runner`, for the races between them that matter are pairwise
  (push and loop, caller and loop, window and loop with pushes); all at once is
  beyond five minutes. `Faults` and `Deletes` are off in `roster_saves`, whose
  properties the code does not keep with them (see Findings), and on in
  `roster_live`.
* Deadlock checking is off where the system really stops: a runner that
  returned, a pool that has shut down, a behaviour whose saves or faults are used
  up. It is on in `run_settings` and in `services`.
* Symmetry over drops, channels, callers and handlers is used in safety runs of
  the core only: no definition orders or distinguishes them.

### Fairness

* `Runner!FairSpec`: weak fairness of `Run` and of a push that is under way.
  Both are goroutines whose next step is never disabled by another for good
  (timers fire, backend calls return: every one is bounded by a context or an
  HTTP timeout). Nothing is assumed of Twitch: pushes, online channels and
  completed drops are choices without fairness.
* `Roster`, `Pool` and `ForceList` add strong fairness of taking a lock:
  `sync.Mutex` in its starvation mode hands the lock to the longest waiter, so a
  goroutine that waits while the lock is freed again and again gets it. New
  requests, saves and panics have no fairness.
* `MCEventually`: weak fairness of each loop (`Run`, the sweep, the reaper, the
  runner's and the user's claims under way) and of what time brings (`CatchUp`:
  the inventory shows a grant; `Age`: a log row grows older than
  `staleClaimGrace`). Strong fairness of a Kick account's watch, of the link
  retry and of Kick's sweep: each is a loop whose condition another actor, such
  as the reaper, may take away and give back for ever. As one part runs for
  good, one fairness condition stands for one of every part. Faults, edits and
  what the user does have none and are bounded: "in the end" means once nothing
  goes wrong any more.

## 4. What is proved

For **every** value of the constants that satisfies the module's assumption and
with no bound on the data (the caps are themselves arbitrary):

| Module | Theorem | Says |
|---|---|---|
| `RunSettingsProofs` | `TypeCorrect`, `FreshnessHolds`, `QuietCacheHolds` | types; `ServedFresh`; `QuietCacheIsTable` |
| `RunnerProofs` | `TypeCorrect`, `HandlesHold`, `WatchEndsWithRun`, `PushesWake` | types; `HandlesAccounted`; `NoWatchLeftBehind`; `PushWakesRun` |
| `RunnerProofs` | `StrayClaimsHolds` | `StrayClaims` |
| `RunnerProofs` | `RescanWakesHolds` | `RescanWakes`, when there is no sleep window |
| `RunnerProofs` | `SwitchWakesHolds` | `SwitchWakes`, when the backend does not push |
| `RosterProofs` | `TypeCorrect`, `FlagsHold` | types; `FlagsFollowRow`, when no read fails |
| `RosterProofs` | `GamesAppliedHolds`, `StoppedHasNoWorkHolds` | `GamesApplied` and `StoppedHasNoWork`, when no read fails, removals or none |
| `PoolProofs` | `TypeCorrect`, `StopDrainsHolds`, `OneRunnerHolds` | types; `StopDrains`; `Pool` implements `RunnerTurns` |
| `PoolProofs` | `HooksFollowSlotHolds` | `HooksFollowSlot` |
| `ForceListProofs` | `TypeCorrect`, `CacheFollowsHolds`, `StoppedIsRebuiltHolds` | types; `CacheFollows`; `StoppedIsRebuilt` |
| `KickWatchProofs` | `OneWatchPathHolds` | `OneWatchPath` |
| `BackendsProofs` | `EligibleEarnsHolds`, `ReconnectRestoresHolds` | `EligibleEarns`; `ReconnectRestores` |
| `BackendsProofs` | `StaleCostsNothingHolds`, `OneFailureSufficesHolds`, `NilMeansHeardHolds` | `StaleCostsNothing`; `OneFailureSuffices`; `NilMeansHeard` |
| `BackendsProofs` | `OpenSearchFindsHolds`, `ReclickExcusedHolds` | `OpenSearchFinds`; `ReclickExcused` |
| `ServicesProofs` | `WokenHolds`, `ForgottenHolds` | `Woken`; `Forgotten` |
| `ServicesProofs` | `RepeatExcusedHolds`, `NeverTwiceHolds` | `RepeatExcused`; `NeverTwice` |
| `ServicesProofs` | `AnsweredIsStoredHolds`, `FlagSeenHolds` | `AnsweredIsStored`; `FlagSeen` |
| `ServicesProofs` | `TasksOwnedHolds`, `NewsArrivesHolds` | `TasksOwned`; `NewsArrives` |

`BackendsProofs` and `ServicesProofs` are of the specifications of their suites,
`MCSpec`: the lemmas `Started` and `Turn` say that in a behaviour of one part
every step is a step of that part's module, so that each property is proved of
the module's own `Init` and `Next`, for any values of its constants. The
assumptions are weak: a wait after a failed read is not shorter than the first
one and not longer than the longest (`BookAssumption`), a code's end is a number
(`CodesAssumption`), the names of nothing and of the account's own topics are
none of the others, points and raid tasks have names apart, Kick's channels are
finitely many and at least one of a list is probed (`BackendsAssumption`,
`LoginsAssumption`, `TasksAssumption`), and the accounts there are at first are
accounts (`ScansAssumption`).

None of these is inductive as it stands. The strengthenings, and why:

* *Settings.* A served copy is as fresh as whoever cached it (`CacheFresh`), and
  that caller as fresh as each of its queries so far (`ReadFresh`); the table
  only grows past each `promised[n]`. A bump between two queries is harmless,
  for the copy is cached under the generation loaded before the first. A copy
  that is the table when all is quiet was read with the table as it is now: once
  nothing written awaits its bump, each query made under the current generation
  is still what the table holds (`ReadCurrent`), for a save bumps after its last
  write.
* *Runner.* The action that makes a started handle the live watch does not look
  at the one it replaces, so `HandlesAccounted` needs to know that there is none
  (`Unwatched`), which rests on the states a live watch allows (`WatchStates`),
  because the loop leaves for a pick or a wait on the state alone. A push changes
  the state but never makes a watch, which is why this survives it. The state is
  claiming only while the current drop is complete, or since a push was overtaken,
  or where Run is about to set it anew (`ClaimWanted`, `Restating`), for `start`
  moves on to another drop without a look at the state; and a tick works on the
  current drop (`InTick`). A Rescan
  that no scan has followed, and a Mine now that is set, hold their token, or
  their caller is about to send it, or Run is already on a way that scans
  (`ScanComing`) or comes to the top (`SwitchOwed`).
* *Roster.* During a save the flags may be old as long as some save will carry
  the row's mode to them (`Carries`); a save or a build about to store under the
  current version holds the row's mode unless a later save has yet to bump
  (`Carried`). Versions only grow (`Versions`); a build's locals are guarded by
  the lock it holds (`Locks`, `Captured`). Where the unit does not have the saved
  games, one of four still owes them: a rebuild that has yet to read, a reload of
  the lists that has yet to come to this account (`ListDue`, `AllDue`), or the
  mark that whoever leaves points-only looks at after its save (`MarkDue`); and
  where a runner returned though it has work, the handler that gave it some has
  yet to look at it (`WorkDue`).
* *Pool.* A reload may spawn because the unit it awaited was the only one of its
  account and was listed where it looked (`Listed`, `Replacing`), and what it
  spawns is newer than anything that ran because the awaited unit, cancelled,
  cannot rebuild any more (`Awaited`, `Newer`). All rests on who holds the two
  locks (`Locks`) and on what main is doing (`Phases`). The hooks are those of the
  unit in the slot, of none, or of one being swapped for another, and then the
  caller that swaps it says which (`SlotHooks`, `NewHooks`).
* *Force list.* A list other than the saved one may be cached only while the
  handler of the last save has still to take the lock (`Stale`), and two readers
  never hold it at once (`Locked`). An account that stopped on an empty list and
  has been given channels is in the queue, or among the accounts a handler is to
  tell, or a handler that saw the list empty before its save has yet to compare
  (`OnItsWay`): the handler holds the snapshot it compares with from before its
  own save.
* *Kick watch.* Chrome is reached only past a failed WebSocket, and the failure
  is remembered for the life of the process (`ChromeIsLater`): an account that
  is not marked has no tab and no call in the sidecar, and a marked one never
  runs a WebSocket again. So nothing need be known of leaked tabs or of calls
  that outlive their callers.
* *Twitch beats.* Twitch refuses no handle for the client it names, for `Start`
  registered it (`Bound`); a beat sent again in a calm moment is of a URL just
  resolved (`Resolved`).
* *Twitch push.* On the socket that stands, each topic asked for is listened to,
  or in the snapshot that the loop is about to send, or in the frame of whoever
  asked (`Restored`). No frame outlives its socket (`Sockets`), the frame of a
  removal is of a topic nobody wants or raced (`Removals`), and the client in the
  registry holds every topic wanted and no token from after the last login
  (`Registered`).
* *Twitch catalogue.* What a row allows is within what Twitch has (`Within`,
  `Told`). Where the details of a campaign were answered null its captured list
  is empty and named as untold (`Details`); the scan that tells of its drops has
  captured one list or the other since the last drain (`Detailed`), and the drain
  hands on which of them it was (`Kept`).
* *Kick transport.* While nothing has gone wrong since the failure, the
  connection kept works (`KeptWorks`): it was dialled after that failure, which
  emptied the pool, though what it closed may be another call's.
* *Kick search.* While nothing moves or fails, what a probe found is on the
  category (`FoundOn`), and a directory that lists a channel has one that streams
  the game first, so that even a cap of one probe finds it (`Directed`); a search
  gives up only where a request failed (`Lost`). What the pool holds, and in which
  order, need not be known.
* *Sidecar tabs.* A call past the lock of its account holds it (`Locked`), so that
  from its look at the titles taken as claimed to its click no other call marks
  one (`Skips`). A tile that was clicked, its mark neither lost nor failed, is
  marked or is what the holder of the lock has yet to mark (`Marks`).
* *Scans.* A campaign that is new is known to an account in one of four ways
  (`Told`): it is in its scan, a scan is asked for or failed, the account is in
  the window that will wake it, or a scan under way has read it (`Reads`) and
  goes on to seed or wake the others. A removed account has no scan that could put
  it back on the board (`Removed`).
* *Reward codes.* A notice that a target took is marked, or excused, or is being
  sent by this very sweep (`Recorded`); what the sweep has still to send needs
  that notice by its row as listed, whose marks the table still agrees with
  (`Ahead`), and it holds no row twice (`Apart`).
* *Points.* A pair read since the click has a row that counts as read
  (`BookFresh`), unless a pass is just reading it, and so has the row a pass in
  flight listed (`Listed`); a row in failure has no more failures than there were
  faults (`Failures`), which bounds its wait from below.
* *Logins.* A flow that is not cancelled is the one its account has listed
  (`Superseding`); from the answer on, no flow that could store is left for the
  account (`Promised`), nor while a paste that cancelled them stores (`Alone`).
  What a Kick account should run and does not has a registration, a change or a
  rebuild on its way that has yet to read it, or its last rebuild failed to read
  (`Applying`).
* *Canary.* A run that counts as running is in flight, or a request is about to
  clear the flag (`Counted`); a rerun asked for waits for such a run to look at
  the flag, or for the request itself (`Raised`).
* *Tasks of a watch.* A claimer that lives is the runner's, or in the hands of a
  goroutine that waits for it (`Claimers`), and so are the raid joins (`Joining`).
  The runner's tasks are of its live watch and its channel (`Lives`), because what
  Run read of the watch before it starts one still holds, or a push has ended the
  watch (`StillSo`) and `startPoints` looks at the handle again. The claimer that Run is
  about to start is the runner's or awaited by the push that took it (`Starting`),
  and the push starts none (`PushStops`).
* *Live pages.* While the stream is open the newest name is on its way: to be
  announced, buffered, or asked for by a request that has yet to read it or has
  failed (`NameComes`). The newest state is on its way to an event (`StateComes`), and
  the last event's to the page (`EventComes`). Nothing in flight is newer than
  what was written (`Past`).
* *Kick probe.* A frame in flight, taken or recorded is one the server sent on
  this connection (`FramesWereSent`), and a second handshake is of a tick
  (`HandshakesTick`).

Five theorems have a hypothesis, and each is needed. `FlagsHold`,
`GamesAppliedHolds` and `StoppedHasNoWorkHolds` assume `~Faults`: with failed
reads the properties are false (see Findings). `RescanWakesHolds` assumes that
there is no sleep window: when one ends between the end of an idle wait and the
gate, the wait has taken the token and the loop idles again. `SwitchWakesHolds`
assumes that the backend does not push: a pushed claim that fails right after a
Mine now leaves it to the backoff. Every other
theorem holds with faults, windows and pushes.

Only model-checked: every liveness property (`SleepEndsWatch`,
`ShutdownReturns`, `SavesSettle`, `ReloadsEnd`, `WatchComesUp`,
`LinkedIsGranted`, `ChosenIsGot`, `LostClaimHealed`: fairness and `ENABLED` are
out of the prover's reach). Every safety property a passing run checks is proved.

## 5. Findings

Where a comment, a test or the documentation promises what the code does not do,
and TLC shows the behaviour. `PROJECT.json` quotes the lines and says what
happens. `roster_removed` is a listed run; each of the others is refuted once
the property is listed in the configuration named here, with the change named.

| Configuration | Refuted |
|---|---|
| `RosterRemoved.cfg` | `RemovedIsGone`: an account removed while a reload of it waits for the pool comes back as an idle unit |
| `RunSettings.cfg` | `NextReadSeesSavedChange`: a save that fails half way leaves written settings behind a cached copy |
| `RunnerWatch.cfg` | `ClaimOnlyComplete`: a push checked for one drop is applied after the runner picked another. `TopicsFollowWatch`: a subscribe after the watch was published can come after its unsubscribe. `StreamDownStopsItsOwn`: a stream-down stops the healthy watch of the channel swapped to meanwhile |
| `RunnerCalls.cfg`, `HasPubSub = TRUE` | `SwitchWakes`: a Mine now declined for a claim in flight waits a whole backoff when that claim fails. `MineNowNeedsRunner`: a push moves the state of a runner that has returned, and Mine now answers success with nobody to switch |
| `RosterSaves.cfg`, `Faults = TRUE`, one caller | `FailedReadApplies`, `BuildKeepsSaved`, `NamesReachRunner`, `OwnListApplied`: a failed read drops a change, stores an old row, loses the flag that every account needs a reload, or leaves a saved list unapplied |
| `ForceList.cfg` | `NoneLeftStopped`: a runner that stops between the handler's snapshot and the new list is not rebuilt. `EditReachesRunner`: an edit during a recheck is taken up five minutes on |
| `Eventually.cfg` | `OneClaimer`, `ReaperSparesWatch`, `SweepSparesLive`, `OneTab`, `DeletedIsSwept`, `RowsAreMarks`: a check under a lock and an act after it, in the sweep of drops, the reaper, the sweep of orphans and the marks of a refused claim |
| `Backends.cfg` | `AllowIsCurrent`, `CheckedIsTrue`, `ListedOnce`, `OpenIsOpen`: a cache of the catalogue outlives what it was read from. `NullOpensNothing`: a null answer, kept out of the cache, still empties the allow-list of a restricted campaign until the next scan. `ReconnectSubscribes`, `FramesInOrder`, `ClosedStops`: the PubSub client's old token, frames and close. `BeatsAsLoggedIn`: minutes sent for the user before a login. `OnePerHost`, `HealthySpared`: two dials, and a close of another request's connection. `NilMeansAnswered`, `PongRecorded`, `NilMeansUp`: the probe's verdict, which any frame satisfies. `OneAuthTab`, `OneDriver`, `LoggedIn`, `LatestCookies`, `MarkedWasClicked`: the auth tab opened outside its lock, driven beside its holder, used before its cookies are in, marked by an old Authenticate, and a tile marked that was not claimed. `ClickedOnce`: a pass that clicked and failed, or a restart, leaves a tile unmarked, and a later pass clicks it again |
| `Services.cfg` | `NoticeOnce`, `CodeOnce`, `ClosedIsSilent`: a notice repeated to a target that took it, a code with two rows, a code closed during the sweep. `RefreshReadsAll`, `PageIsCache`, `NeverBack`: a balance read in the second of the click, an unpublished change, an older balance stored last. `LoginKept`, `StoredIsApplied`: a refresh over a new sign-in, a session stored and not applied. `KickListed`: the channels of an older paste stay registered under a session that lists none. `RerunServed`, `SkipIsCurrent`, `CheckIsCurrent`: a rerun lost to another run, a skip stored late, a verdict on the session before. `WakesNobody`, `Hidden`, `ErrorIsRetried`: a rebuilt runner that wakes the others, link needs shown again, a lookup that waits after an error. `RaidsHeard`: a raid topic unsubscribed under its new task. `NewestGiven`: a failed request for the runners is not made again while the stream is open. `RenameShows`, `StateShows`: an old name or state put over the newer one |
| `Services.cfg`, `Ids = {b1, b2}`, `Kick = {}`, `Bare = {}` | `OneAccountPerUser`: two pastes of one user create two accounts |
| `Services.cfg`, `ProbeFaults = 2` | `CanaryOnce`: two runs that fail notify both |
| `Services.cfg`, `Checks = {c1, c2}` | `NoticeAgrees`: two checks of an account store in one order and notify in the other |

In the suites these stand in the MC module under "the code breaks these", or in
the component the MC module extends (`KickProbe`, `KickWatch`), which that
comment names.

Most findings need one goroutine to run between two critical sections of
another, the rest a failed read or a stale cache. They are recorded as
disagreements of the code with its own words, whatever their weight.
`RemovedIsLeft` of `ForceList` (a runner leaves a channel taken off its list)
passes by hand under `ForceList.cfg` with `SPECIFICATION FairSpec`, one handler
and no symmetry.

## 6. What is abstracted or left out

* The platforms' answers: which channels are live, how far a drop is, whether a
  call fails, are choices. Decoding, GraphQL and HTTP are in the models only as
  what an answer comes to.
* In `Runner`: force watch, points-only mode (two more ways to choose a channel),
  `applyLive`; skips and failure counts are in `Claims`. Every drop is its own
  campaign. `waitIdle` uses up a Rescan whose window is over at the gate; no
  property says so.
* In `Roster`: display names, loaded sessions and how a session load fails
  (`Logins` has the load).
* In `Pool`: a second `Reload` of the whole roster, which nothing calls; session
  orders and the rollback of `MineNow`; a panic between a runner's registration
  and the end of its build; the trampolines after `Stop`.
* In `ForceList`: which live channel is best, the warm-up lookups, the claims
  made while force watching. A failed read of the list counts as an empty one.
* In `Planner`: the fields of an item the pages show; minutes are whole units.
* In `Claims`: one account; the pace of the sweep; notices.
* In `TwitchCatalogue`: one game; in `KickCatalogue` one game and one category.
* In `TwitchBeats`: the HLS master and variant lists are one answer.
* In `SidecarTabs`: the page's DOM; a script returns one of a few outcomes.
* In `KickWatch`: only Docker's three states of a container; the Twitch side's
  tabs share the browser with the Kick side and are in `SidecarTabs`.
* In `Logins`: the tokens' contents. In `LivePages`: one page, one account.

## 7. Plan

Done: the core with its proofs, then claims and planning, the two platforms, the
browser, the background loops, the logins and the live pages.

What is left, by importance:

1. `RunnerForce`: `Runner` with force watch, points-only mode and live settings,
   implementing `Runner` where no force channel is set.
2. `Claims` under a `Runner` that picks by `Planner` in one model, and `TwitchPush`
   composed with `Runner`'s late subscribe.
3. The arithmetic of the sleep window, as a pure module: its end is after now and
   is the first instant outside the merged windows.
4. The Force-watch checker; the session orders of the pool.

Theorems to add: the safety properties of those modules, and type correctness of
the modules whose `TypeOK` is stated for the reader only.
