# TLA+ models of agentplug

Models, model checking and proofs for the parts of `agentplug` that run
concurrently, survive crashes or hand work from one process to another.
`PROJECT.json` maps every definition to the lines it was translated from.

Abbreviations: **R** `src/crates/agentplug-host/src/registry.rs`, **B**
`.../agentplug-host/src/broker.rs`, **D** `.../agentplug-runner/src/daemon.rs`,
**C** `.../agentplug-runner/src/daemon/claim_dispatch.rs`. A number after a colon is a line.

## 1. The system

agentplug runs WebAssembly plugins for coding agents. An agent writes a request
file into the spool of its project, `.gm/exec-spool/in/<verb>/<task>.txt`. One
daemon serves all leased projects: it claims the file by a rename, runs the verb
in a thread of its own, writes the answer into `out/` and removes the claim. A
new version of the daemon takes over from a running one; a guard process starts
a new daemon when there is none.

| component | state | operations | hard behaviour | what makes it correct |
|---|---|---|---|---|
| Tool dispatch queue (R 2478, 3328) | per (project, plugin, verb): active flag, two ticket counters | acquire, acquire_within, drop | a timed-out waiter repairs counters and removes the entry | one holder, no ticket lost or served twice, no panic, order, every wait ends |
| Serial lanes (R 2476–3326) | owner and age per lane, tickets, token counter | acquire, park, take over, yield, displace, drop, revoke | two mutexes, tickets that go stale, a watchdog | never leaked, tokens identify, no lost wake-up, a hold ends by its holder or by age |
| Dispatch threads (C 3056–3276, 4350) | run slots, wait ledger, `in_flight_map` | the closure of a dispatch, background conversion, the lane watchdog | displaced holders, hanging verbs, judging by the ledger | one writer per lane, a displaced claim does not run, the rest goes on |
| Spool claims (C 391–2146) | request, claim, reply and marker files, inherited list | claim, beat, answer, release, sweep, requeue | crashes between file operations, handoff against sweep | nothing lost, nothing run twice, everything answered |
| Service broker (B) | providers, weights, credits, leases | register, route, shift, reap | updates under load | counts are leases, routable throughout, no starvation |
| Slot pool (R 379–1327) | slots by class, ticket queues, admission counters | acquire with admission, over-age reclaim | nested admission under a time limit | counters agree with the holds, every dispatch is admitted or refused |
| Shared plugins and hot reload (D 3622–3823, R 1169–2463) | modules by hash, slots, evictions owed, recompile threads | compare with the disk, compile, swap, evict, refill | a swap under running calls, refills from an older map | no retired store is forgotten, the version on disk gets loaded |
| Plugin dispatch (C 4373–4700) | request, claim and answer files | claim, answer, reclaim, local fallback | caller's reclaim against daemon's claim | run at most once, answer not lost |
| Spool inbox watch (C, D 4171) | directory watch, dirty marks, cached scans and verdicts | watch, mark, scan, claim, watchdog | three caches that may each be stale, a hung loop | a request is noticed unless an event was missed |
| Daemon ownership and guard (D 586–1382) | owner, status, takeover, guard and spawn locks | claim, take over, guard, spawn | check-then-act over files | no robbery, one owner and one guard in the end, service returns |
| Daemon main loop and handoff (D 170–2185, 4171) | pending update, readiness marker, reservation, drain | serve, await, reserve, release, drain, force | drains against new work, two kinds of successor | no answer lost, no successor left unawaited |
| Browser lease (`browser_lease.rs`, `browser.rs`) | `owner.json`, heartbeats, kept browsers | claim, wait, evict, attach, release, housekeeping | two waiters evict at once, launches that outlast their call | one user of a browser, no Chrome killed under a call |
| Background tasks (`task.rs`, `task_results.rs`, `exec_pool.rs`) | registry, admission lock, durable results | start, adopt, poll, stop, hand off | admission against handoff | no result lost |
| Guest imports (`imports.rs`) | remembered layouts, file locks | read, write, compare-and-swap | stale answers, second process | swap is atomic |
| Installation (`download.rs`) | plugin and runner files, `.prev` snapshots, known-bad list, staged copies | poll, install, roll back, stage, promote | failure half way, several installers without a lock | files whole, a version that works, the newest in the end |

Components call each other in this order: the claim loop (spool claims) starts
a dispatch thread, which takes a run slot, waits for its **serial lane**, then
for its **tool queue**, and runs the verb through the shared plugins (slot pool,
broker). Threads report to the wait ledger and `in_flight_map`, which the lane
watchdog and the orphan sweep read. A handoff moves claims between daemons
through files only, and so do the answers of background tasks. The main loop
notices requests (inbox watch), compares plugins with the disk (hot reload) and
tries one step of a staged update per tick (handoff); the update poll stages
what that step starts (installation). Ownership of the install directory decides
which process runs a main loop at all; guards and clients start processes.

## 2. Modules

| module | models | composes |
|---|---|---|
| `ToolQueue` | one key of `ToolDispatchGuard` | – |
| `SerialLane` | one lane of one project, `GmFairnessGuard` | – |
| `GmDispatch` | the dispatch threads of a project, run slots, ledger, watchdog | extends `SerialLane` and `ToolQueue`, one of each |
| `SpoolClaims` | the files of the requests, the threads of several daemons, sweeps and handoff | – |
| `SpoolInbox` | how the main loop comes to claim a request | extends `SpoolClaims`, adds the inbox to each of its steps |
| `ServiceBroker` | one service of the broker | – |
| `SlotPool` | slots, tickets and admission of one plugin's pool | – |
| `HotReload` | the contents of those slots while the plugin's file is replaced | – |
| `RemoteCall` | abstract: what a caller of a daemon is promised | – |
| `PluginDispatch` | the files of the `dispatch` command, callers and daemons | implements `RemoteCall` |
| `BackgroundTasks` | programs run for guests, their registry and results | – |
| `RunnerHandoff` | the main loop of a daemon that is to be replaced | extends `BackgroundTasks` |
| `DaemonOwnership` | owner file, status, takeover lock, reservation | – |
| `DaemonGuard` | guards and clients that start daemons | extends `DaemonOwnership` |
| `BrowserLease` | the lease of one browser and the calls that use it | – |
| `PluginInstall` | the files of one plugin, installers and rollback | – |
| `RunnerUpdate` | the runner's own files, its takeovers and boots | extends `PluginInstall` |
| `...Proofs` | theorems of the module of that name (`GmDispatchProofs`: of `ToolQueue` and `SerialLane` too; `HostLeaseProofs`: of `ServiceBroker` and `BrowserLease`; `SpoolClaimsProofs`: of `SpoolInbox` too; `SharedPluginPoolProofs`: of `SlotPool` and `HotReload`) | extends it |
| `MC...` | constants for TLC | extends it |

A module that another one extends without an abstract specification between
them (`SpoolClaims`, `BackgroundTasks`, `DaemonOwnership`, `PluginInstall`) says
what its component does; the one that extends it says who does it when, and
holds the next-state relation that is checked.

History variables record that something excusable happened: `cut`, `missed`,
`excused`, `overrun`, `late`, `mixed`, `lost`, `gap`. A property
"unless `overrun`" then says that the ways recorded there are the *only* ways
the code can go wrong; each is named below and a reader of the code can judge
whether it should be possible.

**ToolQueue.** `entry`, `next_ticket`, `now_serving` are the map entry (absent,
or idle/active with its counters). A step is one hold of the mutex: `Enter`
draws and tests, `Serve` is a wake-up that finds its ticket served, `GiveUp` is
the timeout branch of `acquire_within`, `Panic` the `expect` on a missing entry,
`Release` the drop. `cut` records the first give-up that harmed somebody, by
removing an entry that is held or by stepping over a waiter.

**SerialLane.** `owner`/`held` are the owners map, `waiters` the `VecDeque`
(a set ordered by `rank`), `token` and `phase` the local state of
`acquire_within`. The two maps have separate mutexes; the phases `admitted`,
`starved` and `displaced` are the points between two critical sections. Times
are ages up to `MaxAge`; only comparisons with the thresholds matter.

**GmDispatch.** `at` is the line a thread is at, `stage`/`since` its
`DispatchWaitRecord`, `registered` the `in_flight` keys. It extends the two
modules above, and a step of a thread is the step of the lane or of the queue
together with its own. `Claims` are the threads of the lane, `Dispatches` those of
the bounded verb. The watchdog is two steps, `Judge` without
the owners' lock and `Remove` under it, as in `release_dead_lane_owners`.

**SpoolClaims.** Per request: `file` (request, then claim, by renames), `reply`,
`marker`, and whether the request is older than the minimal claim age (`old`:
the mtime survives the rename). Per thread: `at`, its daemon `by`, whether its
heartbeat runs (`beats`). `in_flight` belongs to a daemon and dies with it.
A daemon is off, sweeping, serving, leaving or gone. Every file operation is a
step of its own, so a crash may come between any two. `handed` and `left` are
history: requests given back by a handoff, and requests whose claim a dying
thread left (or whose dispatch was converted to the background).
`AnswerAtOnce`, `Reject` and `SetAside` are the answers the claim loop gives
itself, `Reap` the age limit of replies. A request with the `browser_lease_`
prefix is `direct`: run without slot and heartbeat, after its entry was
forgotten. The ledger that may spare a claim is written at intervals, so either
outcome is allowed; rows of another daemon that lives shield its claims. Strays
are set aside at a boot or when a lease attaches; a crash between that move and
the answer counts as `left`. Abstracted: the heartbeat's look at the claim and
its removal of the marker are one step, and so are the two listings of a sweep.

**SpoolInbox.** Three caches stand between a file that lands in the inbox and
its claim: the dirty mark of its project (set by the directory watch), the
scan of the project, and the verdict that a verb directory is empty. `Put`
may leave a mark, an event still to be delivered, or nothing when the watch
does not reach the directory; `Select`, `Visit`, `Look` and `ClaimSettled` are
the main loop's turn; `Probe`/`Store` another thread's scan; `Hang`, `Notice`
and `Exit71` the progress watchdog. `missed` names three gaps that only delay a
request, until the scan's age limit of 120 s: the watch was opened again and
drops what was queued, it does not reach a directory yet, or another thread's
scan removes a mark that is newer than it. The loop is followed only while a
request is still to come or unclaimed; then its memory is reset. One verb
directory on Linux; the settling of 10 ms and the quiet backoff are left out.

**ServiceBroker.** Every public function holds one mutex, so each is an action.
The vector of providers is the set `providers` with its order `before`.

**PluginDispatch.** Per caller: `request`, `claim` and `out` say which of its
files are there, `caller` is its place in `try_dispatch_via_daemon`, `clock`
its patience. Per daemon: `daemon`, `serves` and `result` are its place in
`dispatch_project` (one request at a time). A file operation is a step, and so
is each look at a file that an operation later relies on (`Overdue`, then
`Reclaim`). `Outcome` maps the place of a caller to what it knows; under it the
files implement `RemoteCall`. The task name holds the caller's pid and the time,
so the files of two callers never meet. Abstracted: the `.ready` marks, the
interval of the owner check, the settling of a request file.

**SlotPool.** `at` is the place of a dispatch in the loop of `dispatch`, `queue`
the tickets of a class from `now_serving` to `next_ticket` (only their order is
read), abandoned ones `Gone`. `hold`, `band` and `over_age` are the `holders`; an
id orders them by age. The counters are kept beside the holders, as in the code,
because that they agree is the question. A blocking verb asks only for the
blocking band and the others never do, so the two admissions of the loop are one.
A slot is free or not; what is in it is `HotReload`'s, except that a refill may
fail. The two admission waits of 250 ms are one step that finds no room (`Deny`).

**HotReload.** A module is the hash it goes by and the bytes it was compiled
from. `main` is the place of the main loop in `get_or_compile`, which adopts a
finished recompile, compares stat and hash with what is loaded, and starts a
thread (`Compiling`) or compiles itself. A swap empties the free slots one by
one (`Sweep`), then writes one owed eviction per busy slot (`Owe`); a dispatch
or a call pays at its end whatever is owed to the hash of its slot. `user` is
what a dispatch or call carries: a dispatch keeps the module map it was started
with. `late` counts refills with bytes retired by then, `mixed` the hashes whose
bytes were read again after they were hashed. Which waiter gets a free slot is
`SlotPool`'s; component artifacts and the install backoff are left out.

**BackgroundTasks, RunnerHandoff.** A run of `exec_js` waits for its child and
hands it to the registry when the wait is over; `task-spawn` registers at once.
`readers`, `writer`, `closed` and `draining` are the admission lock and its two
flags. `RunnerHandoff` is the tick of the main loop: `batch`, a ready successor,
then one step of the staged update (`drain`, `prepare`, `attempt`, `commit`).
Staged successor and user takeover are `proc`; `marker` is their one readiness
file. The heartbeat ticker ends the process on its own. `guarded` is the set of
task ids given out when the handoff took its guard. (An id given out later, see
section 3, is not promised by it.) Left out: a crash of
the old daemon, and when a reservation lapses, which is `DaemonOwnership`'s.

**DaemonOwnership, DaemonGuard.** `pc` is where a process is in
`claim_ownership` or in its ticks; `owner`/`young`, `status`/`fresh`, `taker`
and `reserved` are the files. Judging an owner, taking the lock, checking under
it, renaming and reading back are steps. A guard polls, claims its lock and
starts a process; a client finds no fresh daemon, takes the spawn lock, starts
one and waits. A process id may be used again when nothing names it any more.
`excused` records that a record went stale under a running process or that the
owner file was removed by a release. Merged: the first reading of
`claim_ownership` with its recheck, the authority check and the heartbeat of a
tick, a guard's poll. The guard's limit of 20 restarts is not counted. The
takers' lock is an flock, free when its process dies (unix).

**BrowserLease.** `file` is `owner.json` (created, then written), `agent` the
threads of browser calls and of the lease verbs, `memory` what the daemon keeps
(`CLAIMED`, `ATTENDED`, `HEARTBEATS`, `BROWSERS`), `refresh` what a heartbeat
read and has not written back. A launch is a spawn and later its readiness or
failure. Every browser is headful on the lease's profile, one Chrome per
profile; agent ids are unique. `overrun` names the windows in which an agent
that uses the browser loses it: an eviction that hits a newer, renewed or
unwritten claim; housekeeping's close after a new claim; a call that times out
while it attaches; a heartbeat written over a released or foreign claim; a
failed launch or a forced reset that releases another's claim.

**PluginInstall, RunnerUpdate.** Three installers (`poll`, `main`, `cli`) go
through the steps of `ensure_plugin_installed` over the files of one plugin without a
lock; dispatch threads that cannot instantiate the plugin roll back through
`.prev`. `RunnerUpdate` adds the executable: `Stage`, the takeover process from
the staged copy (`record`, `promote`, `replace`, `reexec`, `boot`), local builds
and starts by a guard from either path. A crash (`Dies`, `DaemonDies`) may come
between any two file operations. `lost`: the version blamed by a rollback is not
that of the build that failed, or an unrunnable build became `.prev`. `cut`: a
crash during the in-place copy of a snapshot. `gap`: a crash between the backup
of the executable and its replacement. The snapshot is read together with its
checksum; pins, sideloads, frozen updates, the payload cache's bookkeeping and
the takeover's own prewarming are left out. How daemons hand over is the
business of `RunnerHandoff` and `DaemonGuard`.

## 3. Runs

Where a component has several invariants that are one claim together, they are
conjuncts of one named property, so that a run states what it shows in a line.

| run | properties | instance | states |
|---|---|---|---|
| `tool_queue` | `QueueSound`: one holder until a cut, every ticket is its waiter's, no panic. `QueueWaitEnds` | 4 threads, 1 without a budget, 5 tickets | 141 k |
| `serial_lane` | `LaneSound`: an owner that will drop, distinct tokens, own tickets. `FirstIsAwake`: no lost wake-up. `LaneWaitEnds` | 2 claims of one identity, 1 network claim, ages to 4 | 276 k |
| `gm_dispatch` | `DispatchesSound`: one writer, a displaced claim does not run, one verb stays apart, records end. `OthersEnd`: a hang stops nobody else | 3 threads, 2 slots, one verb shared, 1 hang, 1 conversion | 755 k |
| `broker` | `CountsAreLeases`. `WeightsSound`: credits cancel, each step of an update advances. `StaysRoutable`. `NobodyStarves` | 3 providers, weights 0–2, 1 call | 204 k |
| `spool_claims` | `RequestSound`: nothing lost, the registry is exact, run once unless handed over. `UnnoticedWasMissed`. `AnswerStands`. `Answered` | 1 request, 2 daemons, 3 claims | 414 k |
| `plugin_dispatch` | `Promise`: the files implement `RemoteCall`. `CallerReturns` | 2 callers, 2 daemons, both times 1 | 355 k |
| `slot_pool` | `PoolSound`: the counters are the holds, nobody frees another's; one ticket for each waiter of a class, none for others. `DispatchesEnd` | 5 dispatches of all bands, 2 slots, 2 hang | 193 k |
| `handoff` | `AnswersSurvive`, `StoppedStaysStopped`, `StagedIsAwaited`, `NoStartUnderGuard`, `DrainEnds` | 1 exec, 1 spawn, 1 worker, 1 claim | 1.0 M |
| `daemon_guard` | `ServesUndisturbed`: until excused a daemon that serves is alone, is left its owner file, and has none started beside it. `OneServes`, `OneWatcher`, `ServiceReturns` | 3 pids, 2 guards, 2 clients, 1 event | 683 k |
| `hot_reload` | `StoresAreOwed`, `CurrentIsKept`, `BytesAreTheirHash`, `DiskGetsLoaded` | 2 versions, 2 slots, 1 dispatch, 1 caller, 2 threads | 1.5 M |
| `browser_lease` | `OneUserUnlessOverrun`, `UserKeepsBrowser`, `LeaseComesFree` | 2 calls, 1 client, 2 browsers, 1 exit | 968 k |
| `install` | `InstallIntact`: no torn plugin, the runner in place. `LocalBuildStays`, `WorksInTheEnd`, `NewestInTheEnd`, `RunnerSettles` | 3 builds, 3 runners, 2 threads, 3 events | 711 k |

Bounds, and why they are enough:

- `MaxTickets = 5`, four threads: a holder, a waiter that gives up, one behind
  it and one that comes to the fresh entry are four; a fifth ticket lets one of
  them return.
- `Stale < Yield <= Ttl`, `MinHeld`, `Budget`, `MaxAge`: the thresholds keep the
  order they have in the code (30 s, 120 s, 600 s; 180 s). `gm_dispatch` uses
  the smallest ages that keep `MinHeld` below `RunMax`; order and yielding within
  the lane are checked in `serial_lane`.
- three claims of a lane: a holder, a waiter and one that passes it or is
  displaced. Two share an identity, so that a parked ticket can be taken over.
- `Limit = 2` run slots for three threads: a hang in one slot leaves one. With
  as many hanging dispatches as slots everybody waits; `OthersEnd` is about the
  case where a slot is left.
- one request: requests of a project meet only in the order of a sweep and in
  the limit of 32, which `RegisteredIsLive` is about. Two daemons are one
  handoff; three claims are the first, the one after the leaving daemon's
  requeue and the one after the sweep's.
- `ClaimWait = Timeout = 1`: before and after each limit; `Promise` and
  `NoAnswerMissed` hold for any clock, which the proofs show.
- 2 slots of `slot_pool`: every limit is 1, so that one dispatch fills each band
  and the other is denied; two hanging dispatches take both slots. The proofs
  hold for any size.
- `Full = 2` for weights of 0 to 100: rounding to nothing, shares that differ and
  drained providers all occur. `WeightsSound` and `StaysRoutable` are proved for
  any full weight and any providers.
- `handoff`: runs meet in the admission lock and in the sets of the guard, which
  treat each alone, so one run is enough at a time (`MaxClaims = 1`), of either
  kind. One staged version and one user takeover are the two that compete for the
  marker and the reservation. Idle times and waits are choices; a marker is
  fresh for as long as its takeover waits, both two minutes.
- `daemon_guard`: three pids are an owner and two that start at once; `MaxEvents`
  is one budget for crashes, hangs, stops, recycling, takeovers, slow processes
  and crashes of guards and clients. Whatever goes wrong once, at any step, is
  covered; two mishaps at once are not.
- `hot_reload`: `MaxPublish = 2` lets a version come back after it was retired,
  which is when eviction counts could hit current stores; `MaxFails = 1`. Two
  recompile threads are one in use and one abandoned.
- `browser_lease`: a holder, a waiter and a lease verb; the second browser is the
  one launched beside a first. One exit, a crash or an orderly shutdown.
- `install`: the last two builds share a version (a tag published again) and
  need different runners; the budget of three covers publications, failures,
  crashes and local builds.

`CHECK_DEADLOCK FALSE` is set where the system may stop: all dispatches
done, all ages or event budgets at their bound, or the last daemon idle.

Fairness.

- `tool_queue`: a notified thread gets the mutex, a holder returns (the drop
  notifies all). `serial_lane`: time passes, a woken thread runs, a timed wait
  returns. `gm_dispatch`: threads run, except a `Hung` one in its verb; the
  watchdog is not fair, because it is called from other dispatches' bookkeeping.
- `spool_claims`: threads run, a daemon boots, leaves and exits, and one that is
  gone is replaced (by its guard or the next client); the progress watchdog runs
  and cached scans age. The main loop takes its turns however many leases attach
  in between and visits hang, hence strong fairness of `MainStep`. Crashes,
  failures, handoffs, conversions and attaching leases are never fair.
- `plugin_dispatch`: callers run and time passes for them; daemons are not fair,
  they may hang or be absent. `slot_pool`: threads run, except the `Hung` ones in
  their verb, and deadlines pass; ages, failed refills and the reclaiming of
  holds are not fair. `broker`: dispatches keep coming and ending.
- `handoff`: the main loop and the drain's clock, nothing else. `hot_reload`: the
  main loop and the compile threads.
- `daemon_guard`: processes that are not hung run, records of those that do not
  run grow old, and clients' dispatches keep coming (without them nobody would
  notice that the last guard and the last daemon are gone).
- `browser_lease`: waits, attaches and calls go on, the heartbeat and the clock
  run, and calls keep coming. Strong fairness of `JudgeStale`: a call looks at
  the holder every 250 ms, so one that polls a stale holder judges it before
  its deadline.
- `install`: the poll, dispatches and every process go on; no event of the
  budget is fair.

### Observed while modelling

What the history variables and the disjuncts of the properties stand for: each
is a behaviour of the code that TLC finds when the exception is dropped.

- Tool queue: a waiter that times out removes the entry of a queue that is still
  held (R:3417); the next dispatch of that verb runs beside the holder, though
  the reply at C:3047 speaks of one at a time. (`cut`)
- Serial lane: a ticket is never refreshed while its dispatch waits (R:2779), so
  after 30 s the waiter is stepped over; a comment (R:2935) says it is not.
- Dispatch threads: a background conversion (C:188) removes the `in_flight` entry
  of a running dispatch; after 180 s the watchdog (C:1668) takes its lane as that
  of a dead worker and reports that the lane protected no write (C:3585).
- Spool claims: the successor's sweep can answer `dispatch_orphaned` for a
  claim the leaving daemon has just given back (after C:2043, when its own
  requeue finds the claim gone; the reply at C:2130 rules that out). A claim
  younger than 60 s at the boot sweep stays until a lease attaches (D:4388); no
  sweep is periodic, though the reply at C:2126 names one. A loop that leaves
  with exit code 71 orphans its claims, its message notwithstanding. A
  half-written file that does not land by a rename is claimed if two looks
  agree.
- Handoff: a run that the forced path or a conversion took out of every registry
  can be given a task id while the guard is held, and that id has no answer
  afterwards (comment D:4721). A superseded staged successor is dropped, not
  killed (D:1888); `stop_handoff_successor` also removes the marker of a user's
  takeover; a `task-spawn` whose time limit is too large starts its child, returns an
  error and never registers or kills it.
- Ownership: `release`'s read-then-remove can remove another's owner file, and a
  creation can land between a taker's check and its rename (`excused`); the next
  tick repairs both. A guard stands down if the marker of an intended exit
  coincides with a crash of the next owner.
- Hot reload: a queued dispatch that carries the old module map refills a slot
  with retired bytes after the swap (`late`), and since evictions are owed per
  hash, not per slot, a slot can keep them (message D:3682); a recompile reads
  the file again after it hashed it (`mixed`); the retry path pays nothing owed.
- Browser lease: two waiters that judge one holder stale evict one after the
  other, the second the first's new claim; the verb `release` does not ask who
  owns the lease; a call that times out during a launch leaves a browser without
  an idle time; a heartbeat can bring back a released `owner.json`. An abandoned lease
  that nobody waits for keeps its browser.
- Installation: a rollback blames whatever version the file names then; `.prev`
  may be a version that was never loaded (`lost`); a fixed build under a known
  bad tag is never fetched; a snapshot is restored by copying in place (`cut`); a
  crash between backup and replacement leaves no canonical executable (`gap`); a
  local build placed in that window is overwritten.

## 4. Proofs

Proved with TLAPS for all values of the constants (under the named ASSUMEs of
each module):

- `GmDispatchProofs`, in three parts.
  - Of the queue: `QueueTypeOK`, `OneHolderUntilCut`, `TicketsOfWaiters`,
    `NoPanicUntilCut`, together `QueueSound`, and `ServedInOrder`. The inductive
    invariant says where every ticket is: below `now_serving`, or of exactly one
    waiter. `ServedInOrder`, an action property, follows from it, since the served
    ticket is the least.
  - Of the lane: `LaneTypeOK`, `OwnerWillDrop`, `TokensDistinct`,
    `WaiterKeepsTicket`, together `LaneSound`, `HoldEndsByHolderOrAge` and
    `FirstIsAwake`. Mutual exclusion by tokens needs more than distinct tokens:
    every active ticket must be its own claim's, and every token handed out be
    below `next_token`, or a ticket pushed at the front could collide with one
    taken over. `FirstIsAwake` is not inductive: a ticket ahead of a sleeping claim
    can go without a notification if it was stale, or if its claim was admitted and
    its hold revoked before it took the ticket away. The invariant therefore says
    that behind a free lane every sleeper has ahead of it a ticket that was fresh
    when it looked and is not of an admitted claim (`SleepsBehind`), and that the
    ticket of an admitted claim whose hold was revoked is at least `MinHeld` old
    (`AdmittedAge`). Here `Stale <= MinHeld` is assumed, true of the defaults (30 s
    and 180 s); `AGENTPLUG_LANE_HOLD_STUCK_MIN_MS` set below 30 s is outside this
    theorem. No other theorem uses it.
  - Of the threads: every step is one of `LaneNext` or leaves the lane alone, and
    likewise for the queue (`GuardsCompose`), so the invariants above hold of both
    guards while the threads take them in turn. `DispatchesSound` follows from
    them and from `ThreadInv`: how far a thread is says which guards it has
    (`HasItsGuards`); a hold that the watchdog did not take is still the owner's,
    and one it took never is again, since tokens are drawn once
    (`OwnsUnlessLost`); a record outlives only a thread that died in the tool queue
    (`RecordsOfDead`). Its part on types is stated by itself (`TypeOK`).
- `HostLeaseProofs`, of two models that share nothing. Of `ServiceBroker`: `TypeOK`; `CountsAreLeases`, with lemmas on the cardinality of the
  set of leases; `WeightsSound` and `StaysRoutable` for any number of providers
  and any full weight. The weights are sums over the providers, folds whose
  facts (a sum splits, scales, adds up) are proved through a smallest set
  for which they fail. The step that settles a pick adds each weight to the
  credits and takes the total from the one chosen, so `CreditsCancel` is kept. A
  shift takes shares rounded down and the rest from the last provider: that there
  is exactly one last needs the order in which providers were pushed (`Ordered`
  in the invariant `Weighed`), and the sum of the losses is then never above
  what was asked for.
  Of `BrowserLease`: `BrowserTypeOK`, `OneUserUnlessOverrun` and the action property
  `UserKeepsBrowser`. Until an overrun, an agent that is being given the browser and
  a call that drives it are named by the file, which is this process's, claimed,
  attended and beating (`LeaseIsHolders`), so nothing lapses under them. Who was
  judged stale is an ended call or a client nobody attends, because the id of a
  call is drawn once (`CallsAreNamedLate`); and the browser that housekeeping takes
  out of the map is in nobody's hands and is given to nobody (`ClosingIsNobodys`),
  which needs that the record of an idle browser does not outlive the attach that
  adopts it (`ClaimedWithoutRecord`, `RecordMatches`).
- `SpoolClaimsProofs`: `NothingLost` (strengthened by "an answered thread has
  its reply out"), `TypeOK`, `RegisteredIsLive` (strengthened by the numbering of
  threads, so that a claim makes a fresh thread) and `RunsOnce` (a request that
  no handoff gave back is claimed at most once, so that any two of its threads
  are the same, lemma `OneThread`), together `RequestSound`; `AnswerStands`, since
  what the reaper removed has no file a sweep lists and is in no sweep's hands.
  `SpoolInbox` implements the specification `Spec` of `SpoolClaims`, step by step
  (`InboxStepIsClaimStep`), so both hold of the daemon with its watch
  (`InboxIsSound`). `UnnoticedWasMissed` is inductive with what a verdict rests on:
  while one stands no request is there that nobody claimed (`VerdictHolds`).
- `RunnerHandoffProofs`: `TypeOK`, `AnswersSurvive`, `StoppedStaysStopped`,
  `StagedIsAwaited` and the action property `NoStartUnderGuard`. The invariant
  `HandInv` follows a task id from the moment it is given out: it is registered,
  being stopped, stopped or expired, and those a guard found have a result on
  disk instead of the entry (`PromisesKept`). `NoStartUnderGuard` rests on the
  admission lock: its readers are exactly the runs between admission and start.
  The invariant holds for any runs, workers and claims and for attempts of a
  handoff that follow on each other. `DrainIsTimed`, a step towards `DrainEnds`, which is
  beyond the prover: while the daemon drains for a starved swap its drain clock was
  started, so no way into a drain leaves it without a limit.
- `PluginDispatchProofs`: `TypeOK`, `NoAnswerMissed` and `Promise`, the
  refinement of `RemoteCall`. The invariant follows a request through its files:
  while the request file is there nothing has run, a daemon that serves is named
  by the claim file, a result file is of a verb that ran. Each action then maps
  to a step of `RemoteCall` or to a stutter (`PromiseStep`).
- `SharedPluginPoolProofs`: of the two models of the pool, which share no variable.
  Of `SlotPool`: `CountersAreHolds` and `OwnHold`, together inductive, and
  `AdmissionSound`, with lemmas on the cardinality of the bands; no counter
  saturates, and the queues play no part. `TicketsAreWaiters`, with a lemma for each
  operation of a queue (`SkipKeeps`, `TailKeeps`, `AbandonKeeps`, `AppendKeeps`): what is
  skipped was given up, and whoever is served is the first that waits, so that neither
  drops the ticket of a waiter. `PoolTypeOK`, which has the limits of the bands in it,
  then needs only the guards of the admission. Admission and queues together are
  `PoolSound`. Of `HotReload`: `TypeOK`, `StoresAreOwed`, `CurrentIsKept`,
  `BytesAreTheirHash`. Three invariants. `Shape` says what each place of the main
  loop, a recompile thread and a dispatch implies of the other variables.
  `BytesInv` is `BytesAreTheirHash` for every module in anybody's hands, local
  copies, threads and artifacts included. `OwedInv` is `StoresAreOwed` in the
  middle of a swap: the bytes being swapped out count as retired in the slots the
  sweep has passed (`Left`), and what the sweep still has to write down is due
  already (`Due`); at the end of the sweep the write makes them owed.
- `RunnerUpdateProofs`: `InstallIntact` and `LocalBuildStays`. The invariant
  `Whole` adds to them that whoever has a build to place has one that was
  published (`GoalsPublished`; that a version has a last build needs the order of
  the numbers, lemma `ServedIsBuild`), that what an undo or a rollback brings back
  is whole, that the backup is there while a replacement can still fail
  (`BackupKept`), that the staged copy which is to take over is there
  (`StagedThere`), and that a takeover which promotes itself runs.

- `DaemonGuardProofs`: `TypeOK`, `ServesAlone` and the action properties `NotRobbed` and
  `StartsAreNeeded`, together `ServesUndisturbed`. Until something is recorded as excused, the
  place of a process decides whether the owner file names it and whether the
  status record is its own (`OwnerIsWhereItShould`); a process that runs keeps
  its record fresh, or its owner file is still young (`RunnersAreFresh`); what was
  judged stale does not run and never will again, because no process whose id a
  file still names is started (`JudgedRight`); and between the check under the
  takeover lock and the rename the lock is the taker's (`LockIsTakers`), so the
  owner that was judged is the one that is replaced. A daemon that serves is named
  by the owner file, which names one; and since its record is its own and fresh, a
  guard or a client that finds no fresh record starts nothing beside it.

The leaves are small: every module is also proved from nothing with a
seventh of the prover's default time limits (`tlapm --stretch 0.15`), so a slow
machine does not decide what holds.

Only model-checked: everything under fairness (`QueueWaitEnds`, `LaneWaitEnds`,
`OthersEnd`, `Answered`, `NobodyStarves`, `CallerReturns`, `DispatchesEnd`,
`DrainEnds`, `OneServes`, `OneWatcher`, `ServiceReturns`, `DiskGetsLoaded`,
`LeaseComesFree`, `WorksInTheEnd`, `NewestInTheEnd`, `RunnerSettles`), which is
beyond the prover. Every safety invariant and action property that a run checks is
stated by a theorem.

## 5. Not modelled

- Store lock (`settle_store_lock`, `reclaim_store_lock`): the lock directory is
  made and removed by a plugin whose source is not in this repository, so what a
  holder does between the two cannot be translated.
- Compare-and-swap of guest files (`imports.rs`): its lock is one process's; the
  interesting case needs two daemons that serve one project, which `ServesAlone`
  leaves to the excused races and `OneServes` bounds in time. Listed as a hazard without a property.
- Main loop: the registry of projects and their leases (D 63–255), the limits of
  idleness and memory behind a recycle (that it may happen at any time is a
  choice in the models), the written status reports.
- Workflows, scripts and documents: they hold no program state.
- Loading of plugins into an engine (linking, stores, component instances), the
  calls that drive a browser, parsing of arguments, self-checks, network access,
  file formats and logging: input and output without an order that matters to
  others.
- Within modelled components: the wait without a deadline of the slot pool, the
  gate order of the JavaScript pool, child pid files, the recorder, the transfer
  and signature of an asset, sideloads, pins and the payload cache.
