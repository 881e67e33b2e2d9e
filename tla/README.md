# Detunnel in TLA+

Detunnel exposes a local machine to ChatGPT as an MCP server. Its hardest protocol is the
**durable goal**: work that outlives a conversation, taken over by whichever session the host
wakes next. One SQLite row says who may write; a *scheduled continuation* (a native ChatGPT task)
wakes the next worker; *fenced mutation calls* keep a running tool from being overtaken. Sessions
come and go, the host delivers a firing early, late, twice or never, receipts arrive in any order,
and no party sees the others except through that database. Around the goals stand services that
run commands, processes, agents and MCP children, change files, keep backups and locks, and a
desktop that runs the tunnel, remote access and its own updates: each of them asynchronous code
whose steps interleave at every `await`, many of them sharing a file with other processes.

This directory models the goals, the durable shell tasks and eighteen of those services, checks
them with TLC, and proves with TLAPS, for every value of the constants, nearly every safety property
the runs check. Paths below
are relative to the repository root: `packages/...` is `src/packages/...` in the map of
`PROJECT.json`, which gives the source lines of every definition.

## Inventory

| Component | State | Operations | Hard part | What makes it correct |
|---|---|---|---|---|
| Goal repository (`packages/storage/src/goal-repository.ts`) | goal row (status, revision, lease, generation, activity sequence, tracked tasks), checkpoints, fenced calls, continuation rows, recurring runs | acquire, checkpoint, finish, cancel, reconcile, prepare/refresh, receipts, cancel, claim, expedite, begin/heartbeat/end call, finish mark | every caller acts on what it read earlier; takeovers by expiry, by staleness, by orphan probes, by wakes | one fenced writer; takeovers only from silent holders; each firing grants once; a woken goal has a next wake; an abandoned goal is woken in time; cleanup is never forgotten |
| Goal continuation, mutation fence and scheduled continuation services (`packages/application/src`) | none of their own | run_goal, checkpoint_goal, finish_goal, cancel_goal, reconcile_goals; inspect, begin, heartbeat, end, observe; prepare, receipt, cancel, claim, expedite | handlers of several transactions; an observation used by a later transaction | completion implies no runnable watchdog; a quiet observation is true while it is current |
| Request and task cancellation (`goal-request-cancellation-service.ts`, `goal-task-cancellation-service.ts`) | in-memory registry and tombstones | register, release, cancelForGoal, cancelTrackedTasks | register racing cancel; bounded wait; restart | nothing of a cancelled goal runs on unnoticed |
| Tool registry (`packages/mcp-server/src/tool-registry.ts`) | call activity, fenced call rows | invoke: guards, fence, operation, early answer, settlement | the answer leaves before the operation ends | a mutating call is fenced to its end; every call leaves the activity view |
| Activity leases (`activity-tracker.ts`, `shared-activity-snapshot.ts`) | one file per runtime | publish, heartbeat, close; read, quarantine, put back | a reader moves and restores a file its owner replaces | a quiet period has no call in it |
| Parallel tool executor (`parallel-tool-executor.ts`) | a batch's waves and results | executeSet, selectWave, executeOne | timed-out calls run beside later waves | outcome independent of scheduling |
| Runtime state store (`upgrade-runtime-state-store.ts`) | shared JSON file, lock file | update, updateShared | stale lock takeover | no confirmed change is lost |
| Durable shell tasks (`packages/capabilities/src/durable-shell-task-store.ts`) | task directory: task.json, worker.pid | launch, read, cancel, reconcile; the detached worker's own writes | two processes read, modify and write one file | a final state is never overwritten by "running" |
| In-memory shell commands, MCP tasks (`shell-backend.ts`, `tasks-protocol.ts`, `modern-tasks-protocol.ts`) | command records, processes | run, abort, timeout, cancel, status | four parties end one tree in one shared attempt | stopped means nothing of it runs |
| Process manager (`packages/process/src`) | process records | start, stop, timeout, abort | the same, during the start too | gone means gone |
| MCP extension sessions (`packages/extensions/src/mcp-session-manager.ts`) | sessions map, child processes, serial queues | ensure, describe, list, call, drop, sweep, close | connections overlap; queues behind a dead child | no child lost; every operation answered |
| Agent swarm (`packages/application/src/agent-swarm-service.ts`) | swarm and task rows, codex processes | create, tick, monitor, cancel | a tick acts on rows read before its awaits | launched once, in order, within the limit; the swarm ends |
| Workspace index (`workspace-index-queue.ts`, `workspace-index.ts`) | pending map, workers, store file | enqueue, flush, drain, index one path | re-entrant flush, two drains, a full queue | every change is looked at |
| File and checkpoint services (`file-service.ts`, `checkpoint-service.ts`) | files, checkpoint rows, Recovery Trash | write, edit, patch, move, copy, delete, undo, restore, sweep | secure first, replace an await later | nothing is lost unseen |
| Backups (`packages/storage/src/backup-service.ts`) | backups with manifests, archive, restore marker | create, rotate, schedule and apply a restore | processes stop between two renames | what a restore replaced can be restored |
| Tunnel controller, supervisor, reconciler (`apps/desktop/src/main`) | queue of starts and stops, native alias, profile child, durable intent | start, stop, automatic start, restart timer, reconcile, exit | timers and reconciles beside the queue | a stop that succeeded holds |
| Tunnel lock (`tunnel-lock.ts`; `detunnel-tunnel-lock.ps1` and `start-detunnel-tunnel.ps1` under `scripts`) | lock file, named mutex | acquire, takeover, release; a script ends after it | crash between two file operations, reused pids | one owner per profile |
| Remote MCP (`remote-mcp-controller.ts`) | gateway, cloudflared, state file | start, stop, close, install, pair, reset | requests interleave at every await | one tunnel; what is shown is saved |
| Desktop exit and update install (`update-install.ts`, `desktop-shutdown.ts`, `mcp-lifecycle.ts`, `main.ts`) | grace and quiet periods, shutdown coordinator, listener | evaluate, close, quit | looks that await beside calls | an install comes after a quiet period |
| UI, preload, CLI, schemas, search, audit, permissions, OAuth, log hub | — | — | — | see *Not modelled* |

How they interact: a tool call enters the registry, asks the fence service for the workspace's fence
and begins a fenced call when a goal owns it; goal tools call the continuation services, which call
the repository. Every repository method is one `BEGIN IMMEDIATE` transaction
(`goal-repository.ts:2324-2335`), so a method is atomic and a handler is not. `cancel_goal` first
marks the row, then stops requests (`ToolCalls`) and tracked tasks (`ShellCommand`,
`DurableShellTask`, `ManagedProcess`). The registry's activity reaches the desktop through the lease
files, and the update install waits for both. The rest share no state with each other.

## The modules

```
GoalState -> GoalLease -> ScheduledContinuation -> ScheduledWake -> GoalRepository -> GoalRecovery
                                                FencedJournal <-- (INSTANCE, refinement)
GoalRepository -> WorkspaceGoals
TunnelLock -- INSTANCE --> AbstractLock

GoalRepository -> GoalProofs; GoalRecovery + GoalProofs -> RecoveryProofs
ProcessProofs  = ShellCommand, ManagedProcess, AgentSwarm, Backups + NumberLemmas
ServicesProofs = MCServices + ProcessProofs
DataProofs     = WorkspaceFiles, DurableShellTask + NumberLemmas
ActivityProofs = SharedActivity + NumberLemmas
DesktopProofs  = MCDesktop + GoalProofs, DataProofs, ActivityProofs

MCRecovery  = GoalRecovery, and GoalRepository twice more under constants of its own
MCDesktop   = GoalRepository, WorkspaceFiles, SharedActivity, RemoteMcp, TunnelControl, DesktopExit
MCServices  = ToolCalls, McpSessions, AgentSwarm, ManagedProcess, WorkspaceIndex, ShellCommand,
              TunnelLock, Backups, RuntimeState, ToolBatch
```

Goals and shell tasks:

* **GoalState** – constants with their assumptions, the variables, the values and what operations
  read (`MutableLease` = `assertMutableLease`, `OneLive` = the unique partial index, ...).
* **GoalLease** – acquire, checkpoint, fenced calls, observe, finish, cancel, reconcile.
* **ScheduledContinuation** – prepare and refresh, expedite, receipts, cancellation, finish mark.
* **ScheduledWake** – `claimScheduledContinuation`: the one-time ticket with its deterministic
  successor, the collision and its adaptive backoff, the recurring claim and its run ledger.
* **GoalRepository** – the handlers of several transactions, the world (clock, tasks), `Init`,
  `Next`, `Spec` and the properties.
* **FencedJournal** – what a goal promises: an append-only journal with one fenced writer at a time.
* **GoalRecovery** – the same goal with a host that fires its native tasks and sessions that answer
  a firing; when an abandoned goal is woken.
* **WorkspaceGoals** – two goals of one workspace, of which one may be scheduled.
* **DurableShellTask** – one background task: `launch`, the detached worker script, and any number of
  clients that look at it (`snapshot`, and through it `list`, `wait`) or `cancel` it.

Services, each a module of its own with its constants, `...Init`, `...Next` and properties:

* **ToolCalls** – `invoke` for two calls of one goal beside `cancel_goal` and a restart.
* **SharedActivity** – the lease files of several runtimes and the reader of the update coordinator.
* **ToolBatch** – one batch: call sets, waves, dependencies, unsafe calls, timeouts, abort.
* **RuntimeState** – the shared state file of several runtimes under its lock file.
* **ShellCommand** – one in-memory command on Windows: its caller, the timeout, a user, a goal, the
  shared attempt to end its tree, and what the task protocols report.
* **ManagedProcess** – one process of the process manager on Windows, from its start on.
* **McpSessions** – the sessions with one MCP server: callers, children, the queue of a session.
* **AgentSwarm** – one swarm with any acyclic dependency graph: tick, monitor, cancel, restart.
* **WorkspaceIndex** – the queue of changed paths and the store its workers rewrite.
* **WorkspaceFiles** – the file operations of one workspace, their checkpoints and trash.
* **Backups** – backups, rotation and restore by several processes.
* **TunnelControl** – controller queue, supervisor, reconciler, child restart and exit.
* **TunnelLock** – the lock file of a profile, shared by desktops and by the PowerShell launcher;
  **AbstractLock** is what it implements.
* **RemoteMcp** – the remote controller with its gateway, tunnel processes and state file.
* **DesktopExit** – update install, shutdown coordinator and the local listener.

The services of a composite share no variable with each other, so a product of their state spaces
would show nothing a part does not. A composite has a variable `focus`: each of its behaviours is
one of one part while the others stay as they begin. One run so checks all parts, each under its
own faults, and every part is explored in full; the properties of a part that is not in focus hold
of its initial state.

### How state and actions correspond to the code: goals

| TLA+ | Code |
|---|---|
| `status, revision, gen, seq, lease, tracked` | the `goals` row; `lease` = token/heartbeat/expiry columns |
| `journal` | `goal_checkpoints`, each row with the generation whose token wrote it (0: owner) |
| `calls` | `goal_fenced_mutation_calls` with `completed_at` NULL |
| `conts[i]` | the i-th continuation row; `native` = has a native task ID, `confirmed` = host run mode confirmed, `pending` = `pending_due_at` (0 for NULL), `probe` = `orphan_probe_*`, `count` = `reschedule_count` up to 3, `from` = the firing row its identity is derived from |
| `runs` | `goal_scheduled_continuation_runs` |
| `obs` | the observation a handler holds between `observe` and its transaction |
| `handler` | a finish_goal or cancel_goal handler between two transactions, with its one `now` |
| `grants` | history: which wake (0: run_goal) each generation was granted to, and for which tick |

Choices a reader should know:

* A lease token is fresh random text per granted generation, so presenting a token is presenting a
  generation: `MutableLease(g, e, t)` compares generations where the code compares hashes. Sessions
  keep old tokens and old revisions; `WorkerStep` lets `g` and `e` range over all of the past.
* One goal, one lease duration; `WorkspaceGoals` has two, one of them parked while the other acts,
  because every transaction but `prepareScheduledContinuation` looks at its own goal only. A request with a stale row version or a repeated fingerprint changes
  nothing, so both are left out. Plan steps, blockers and texts only reject more requests.
* The observation is one step. The code reads the counters and then polls task providers; task
  inactivity is stable (a finished task never runs again), and the counters are re-checked.
  A claim, acquire or reconcile consumes the observation.
* The service always asks for `interval` watchdogs
  (`scheduled-continuation-service.ts:319`). One-time (`once`) rows come from the repository's own
  default (`goal-repository.ts:562`), from rows of earlier versions and as successors of tickets, and
  every operation still handles them; `Occurrences` chooses what a run's callers ask for.
* `reschedule_*` receipts can carry a run mode too; a row with a pending retime was confirmed when
  the retime was asked for and confirmation is never withdrawn, so it changes nothing.
* `grants` is a history variable, and so is the author in `journal`; no guard reads either.
* A one-time row's `LiveRow` is a `CHOOSE` over a set the unique index keeps to one element, so the
  `ORDER BY` of the query never matters.

`GoalRecovery` adds the world the watchdogs were designed for, and only there is time bounded by
what the host does: it fires the native task of a row at its time or up to `EarlyTol` before it, it
loses at most `MaxLost` firings of a recurring task, the session it opens observes and claims at
once, and, when the answer asks for a successor, reports its native task before it returns; the
task providers can be read. The workers may leave at any moment and with anything in progress: a
fenced call not ended, a task running, a lease just renewed. `WakeBound` is then the deadline of
the next worker. For a recurring watchdog it has three parts: `SilenceShows`, the time after which
the lease is found abandoned (its calls over, and its heartbeat stale or its term ended); the
tolerance by which a firing may come before its time; and `2 + MaxLost` intervals. One of these is
the distance of two firings, and one is there because a firing that comes early counts as the run of
the occurrence before it and may be taken for a repetition (`goal-repository.ts:2343`). For tickets
it is the rest of the lease and the longest backoff. Both are tight in the checked instance: there
one tick less is violated.

### Durable shell task (`packages/capabilities/src/durable-shell-task-store.ts`)

| TLA+ | Code |
|---|---|
| `text`, `meta` | `task.json`: whether it parses, and the record written to it last |
| `published` | `worker.pid` exists |
| `launcher`, `worker`, `client[c]` | where launch, the worker script and an operation stand; `torn`: their `writeFile` has truncated and not yet filled |
| `mine`, `client[c].copy` | the `metadata` object each holds across its awaits |
| `child` | the command: `exited` = ended with its close event still to come, `gone` = event emitted, `killed` = by a signal |

* Every `writeFile(task.json)` is two steps. Two overlapping ones may leave a file that does not
  parse: the shorter record over the tail of the longer one.
* The code's delays (75 ms before reconcile reads again, four attempts to read, 2.5 s for a signal)
  are not in the model: any step may come late. What the model shows to be safe does not rest on them.
* `SIGTERM` reaches the worker's process group (POSIX) and kills at once whoever does not resist;
  `stubborn_child` lets the child survive. `taskkill` is left out here (it is in `ShellCommand`).
* A client answers at once, and changes nothing, when the record is unreadable or final.
* `Faults` names what may go wrong in an instance: a crash of the worker, a stubborn child, a command
  that cannot be spawned, a failed write, the end of the application.

### Services

In all of them a step is what one JavaScript turn does between two awaits, or what another process
does between two system calls, and a caller is a record with the place (`at`) where its next await
stands. `...Faults` names what may fail in an instance; a step that can fail only by such a fault is
disabled without it. Histories are named as such where the variables are declared; no guard reads
one except to bound the instance.

| Module | State | Its steps |
|---|---|---|
| `ToolCalls` | `goalRow`, `tombstone` (`cancelledGoals`), `requests` (the registry's entries), `calls` (one `invoke` each, with its fenced row), `stopping` (`cancelForGoal`) | the guards in their order with their early returns, the fence, the operation, the answer at the budget, the deferred settlement, the failed end of a row, the restart |
| `SharedActivity` | `leases` (`SharedActivitySnapshotLease`, each with its operation queue), `leaseFile`, `toolCalls` (`ActivityTracker`), `reader`, `quiet` (the coordinator while the tunnel runs) | publish by rename, heartbeat, close; read all leases, quarantine and put back one of them, the quiet period |
| `ToolBatch` | `plan`, `batch`, `outcomes`, `results` | validation, one wave, each end of a call in any order, skip, timeout, abort |
| `RuntimeState` | `sharedFile`, `stateLock`, `runtimes` | lock by exclusive create, stat and steal of an old one, read, write with rename, release by rename and compare |
| `ShellCommand` | `command` (record and processes), `askers` (caller, user, goal), `told`, `ending` (the shared attempt) | spawn, foreground wait, abort, timeout, cancel with its retries, the answers of `taskkill`, exit and close events, the reads of the task protocols and of the liveness reader |
| `ManagedProcess` | `proc`, `enders`, `attempt` | resolve, spawn, confirm, abort at each of these, timeout, stop, the shared attempt |
| `McpSessions` | `callers`, `children` (with their queue), `registered` | connect, list, register, replace on a new configuration, enqueue, time limit, child exit, sweep, close |
| `AgentSwarm` | `deps`, `rows`, `swarm`, `codex`, `ticker`, `canceller`, `halted` | create, the awaits of a tick, codex starts and exits, cancel, restart |
| `WorkspaceIndex` | `disk`, `pending`, `timer`, `workers`, `owners`, `drains`, `waker` (`wake`), `store`, `temp` | enqueue, debounce, flush, one worker's load, look, write and rename, drain |
| `WorkspaceFiles` | `files`, `rows` (checkpoints), `trash`, `fileOps` | each operation's look, secure, replace and report; external changes; the sweep; a stop |
| `Backups` | `data` (database, the file moved aside, marker), `backups`, `apps` | create, rotate file by file, schedule, and the steps of a restore at start |
| `TunnelControl` | `intent` (durable), `tunnel` (fields), `jobs` (`lifecycleTail`), `watch`/`stray` (reconciles), `restart`, `clients` (alias, child, a child forgotten because a second spawn overwrote it, others), `launch` | start and stop through the queue, the supervisor's looks and reconnects, exits of a child and of a forgotten one, restart timer, automatic start, exit |
| `TunnelLock` | `mutex`, `lockFile`, `users`, `aside` | the helper, read, probe of the owner, publish, move aside, verify, link, tidy; release in the same steps; the end of a launcher's script |
| `RemoteMcp` | `remote`, `tunnels` (also those that outlived their application), `remoteOps`, `remembered` | every request at each of its awaits, exits of cloudflared, the save and the load of the state up to `SavedClients` clients, the end of the application |
| `DesktopExit` | `activity`, `update`, `wait` (coordinator), `leaving`, `listener` | looks, deadline, confirm, stop, backup, close, quit, listener start and stop |

`TunnelLock` implements `AbstractLock` with `holders` mapped to the processes that run and were told
they have the lock; once a mutex helper was killed the mapping is frozen, for then the code does let
two processes claim.

## Runs

Deadlock checking is off because a bounded instance of a goal really stops (the clock ends at
`MaxTime`, counters at their bounds), a shell task ends, and so does every service at its bounds.

| Run | What it asks | Interesting bounds |
|---|---|---|
| `RecurringWake` | who takes a goal under a recurring watchdog from whom: refinement of `FencedJournal`, `QuietObservationHolds`, `NoTheftFromLiveCall`, `NoTheftFromRunningTask`, `OnlyStaleLeaseIsTaken`, `OneGrantPerTick` | 3 generations (holder, thief, and a second thief to take from the thief), 2 revisions, a call as long as the lease, 1 task |
| `Lifecycle` | finish_goal/cancel_goal stopped or overtaken: `FinishLeavesNoWatchdog`, `CleanupUntilProved` | both outcomes, cleanup receipts, 3 generations, wakes during cleanup |
| `Handoff` (`MCRecovery`) | the lease around a handoff: `WakeSparesLiveCalls`, `LeaseStopsAtHandoff`; a goal left alone: `AbandonedGoalIsWoken`; every receipt outcome in any order: `NeverCorrupt` | retimes, expedites, calls as long as the lease; for the abandoned goal 18 ticks, both kinds of watchdog, an early tolerance, one lost firing, a backoff that doubles once; for the receipts all ten outcomes, 2 rows, one tick, at which leases lapse and tickets fall due |
| `ShellTask` | one task under every fault: `CompletionStands`, `NoVerdictOverLiveChild`, `EveryTaskSettles` | 2 clients, so that two copies of the record race each other, the launcher and the worker |
| `Desktop` (`MCDesktop`) | one-time tickets: `OneGrantPerTicket`, `WokenGoalHasNextWake`; files: `NothingLostUnseen`; activity leases: `QuietIsReal`; remote access: `NoDuplicateTunnel`, `SettledIsSaved`; tunnel: `StopHolds`; update install: `QuietInstall`; `PartsTypeOK` | 3 rows: a ticket, its successor, and that one's; 2 file operations on 2 paths; 2 runtimes, one closing, one call; 3 remote requests and two clients to pair, of which one is saved; 2 queued tunnel jobs and one forgotten child; 2 records of calls here and elsewhere |
| `Services` (`MCServices`) | one property or two for each service, sixteen in all (table below) | 2 calls, 2 MCP callers with 2 configurations and 2 children, 3 swarm tasks with 2 at a time, 2 index workers and 3 changes, 3 processes for the lock, two of them launchers, with 2 lives each, 3 backups by 2 processes, 3 runtimes with 2 changes, 3 batch calls in up to 2 call sets with at most 2 dependencies, one unsafe and one failing call |
| `FailedRetime`, `RevivedTicket`, `OrphanProbe`, `LateReceipt`, `TwoOwners` (`WorkspaceGoals`), `FastChild` | six statements of the repository's own comments, docs and tests that the code does not keep; each run ends in a counterexample (see *Findings*) | the smallest instance that shows it |

| Property | Says | Excepted, being what the code does |
|---|---|---|
| `StopReachesAllWork` | from the tombstone on every running call of the goal has been told to abort; a report of nothing remaining stays true | — |
| `FencedToTheEnd` | an admitted mutation is fenced until its operation ends, answered or not | a heartbeat that comes too late is not modelled |
| `EveryCallIsRecorded` | every call leaves the activity view | the row could not be ended after the answer had left |
| `NoChildIsLostAlone` | a live MCP child is a session's or somebody's to connect | two connections to one server that overlap (`mcp-session-manager.ts:183`) |
| `EveryOperationIsAnswered` | every MCP operation is answered | — |
| `LaunchedInOrder`, `SwarmSettles` | a task is launched once, after its dependencies, within the limit, never after a cancel; the swarm ends | `SwarmSettles`: a restart, after which no monitor runs |
| `GoneMeansGone` | nobody is told a process is gone while its root lives | — |
| `StoppedMeansStopped` | who learns that a command was stopped may rely on it; a goal is not taken over from a live root | the root's exit became known while taskkill said it found none (code 128); a provider that forgot the task in a restart calls it inactive |
| `AbortIsPursued` | an aborted request is answered, or its command's end is still pursued: taskkill at work, or tried again after each refusal, without limit (`shell-backend.ts:346-352`) | the root ended without an accepted kill, by itself or by a kill reported as refused, and its tree cannot be proved gone |
| `EveryChangeIsLookedAt` | a changed path is looked at after its last change | a flush that finds every worker busy with another's calls itself up to a `RangeError` (`workspace-index-queue.ts:98-109`), and the unhandled rejection ends the process, as it does in plain Node; where it does not, as in Electron, the change is looked at |
| `ImplementsLock` | the lock file is a lock | a killed mutex helper; a record set aside that cannot be linked back (`tunnel-lock.ts:154-161`) |
| `ReplacedDataCanBeRestored` | what a restore took out of the database is in a backup | an archive move cut short: a stop between its two renames, or a manifest that cannot follow and a file that cannot be moved back, which the code swallows (`backup-service.ts:370`); another process running beside the restore |
| `ConfirmedChangeStands` | a change reported as stored stays | a lock judged stale whose owner had just been replaced (`upgrade-runtime-state-store.ts:269`) |
| `BatchFollowsThePlan` | which calls succeed depends on the plan only, for every plan validation accepts | — |
| `NothingLostUnseen` | what was in the workspace is there, in a checkpoint or in the trash | what came to a path between securing and replacing it; a rename over what came to its destination; what a restore was still copying; retention; a file that is not UTF-8, once a checkpoint has kept it as decoded text (`checkpoint-service.ts:153-155` refuses a NUL only) |
| `QuietIsReal` | no published call ran in the quiet period an install waited for | runtimes that could not publish a start, those that are closing, and those blocked for five seconds, whose lease is quarantined and no longer counted |
| `NoDuplicateTunnel` | while the application lives, a cloudflared that runs is the controller's, or is being killed; once a close with no start under way has been answered, none runs | a late exit of an earlier tunnel, or an installation that ends, taken for the present state; a termination reported to have failed; what outlives the process: the second attempt of a start, which close does not stop (`remote-mcp-controller.ts:292-298`), and every tunnel after a crash |
| `SettledIsSaved` | at rest the state file holds what the application shows, all of its paired clients as long as they are no more than the 32 that are saved and loaded | the clients beyond those 32, which are told that they are remembered (`remote-mcp-controller.ts:440, 535, 551`); saves that overlap, fail, or run beside the first read |
| `StopHolds` | after a stop no client of the profile runs until a start is asked for; an exited desktop left no child it still knows | a reconcile in flight when it succeeds; a start pressed during the exit; clients of other desktops; a child forgotten because a second spawn overwrote it (`tunnel-controller.ts:740`), which neither a stop nor the exit finds again |
| `QuietInstall` | an install before the deadline follows a whole quiet period | the deadline itself |

`Reports` restricts which receipts the client sends in a run. `LeaseStopsAtHandoff` is
`RenewalStopsAtHandoff` (`FailedRetime`) save for a row whose last report was a failed retime. `OneGrantPerTicket`,
`FinishLeavesNoWatchdog` and `CleanupUntilProved` hold only without the receipts whose branch has no
status guard; `RevivedTicket` and `LateReceipt` show what those do. `NeverCorrupt` holds with all of
them (`Handoff`).

Bounds and why they suffice. For goals `MaxTime`, `MaxGen`, `MaxRev`, `MaxSeq`, `MaxConts` bound
counters in the guards of the actions that raise them. Authority changes hands pairwise, so three
generations show a takeover from a session that itself took over; tickets form a chain whose links
only see their neighbour, so three rows show every pattern; times are only compared, so a few ticks
with leases of two, tolerances of zero or one and intervals of two give every order of expiry, due
time, heartbeat and probe. `AbandonedGoalIsWoken` is about durations and so gets a clock that lasts
longer than its deadline. The theorems below have no such bounds. The hazards of the services are
races of two or three actors over one file, row or process: the instances have that many actors (two
calls and a cancel; two runtimes and a third that steals a lock; a desktop and two launchers that restart under
the same pid; two connections to one server), and enough operations that one can begin, end and begin
again while another is still under way. `BatchSets`, `MaxDependencies`, `MaxUnsafe` and `MaxFailing` bound
the plans of a batch: two dependencies make a chain or a diamond's half, and one failing call shows
what follows a failure; the theorems about a batch hold for all plans. `SavedClients` is the code's 32,
and one in the run, so that two paired clients pass the limit. A refused kill is retried without a
bound. One child at a time may be forgotten by the tunnel controller (`clients.forgotten`).

Fairness: for goals none; every property there is a safety property (`AbandonedGoalIsWoken` is one
with a deadline), and nothing in the code forces the host to fire a task or a client to call again.
`ShellTask` assumes weak fairness of `WorkerStep`, the worker's own event loop with its timer: Node
runs what is due as long as the process lives. `Services` assumes weak fairness of the same kind,
named step by step in `FairStep`: the steps of an entered call; those of an MCP caller (each
request has a time limit, so that it ends is the runtime's own doing); the swarm's monitor, its stop
and the exit of codex processes; index workers and the debounce timer; the retries of an aborted
command and the two seconds of `waitForExit`, its failing spawn and its exit event. The answer of
taskkill is under no obligation: `runTaskkill` has no timer (`windows-process-tree.ts:69-75`), which is
why `AbortIsPursued` promises pursuit and not an answer. Clients, users, faults, the command, the watcher and external changes are under no obligation.

## Theorems

Every property a run checks is either stated by a theorem of this table or named below as only
model-checked. "Invariant" is the theorem that establishes the inductive invariant a component's
other theorems follow from.

| Theorem | States | Module |
|---|---|---|
| `TypeCorrect` | `Spec => []TypeOK` | GoalProofs |
| `JournalInvariant`, `WritersAlwaysInOrder` | `Spec => []JournalInv`, `Spec => []WritersInOrder` | GoalProofs |
| `JournalRefinement` | `Spec => ImplementsFencedJournal` | GoalProofs |
| `ObservationInvariant`, `QuietObservations` | `Spec => []QuietObservationHolds` | GoalProofs |
| `WakesSpareLiveCalls` | `Spec => WakeSparesLiveCalls` | GoalProofs |
| `TaskInvariant`, `NoTheftFromRunningTasks` | `Spec => NoTheftFromRunningTask` | GoalProofs |
| `RowsInvariant`, `NothingCorrupt` | `Spec => []NeverCorrupt` | GoalProofs |
| `LedgerInvariant`, `OneGrantPerFiring` | `Spec => []OneGrantPerTick` | GoalProofs |
| `WokenGoalsHaveNextWake` | `Spec => []WokenGoalHasNextWake` | GoalProofs |
| `OneGrantForEachTicket` | no late reports: `Spec => []OneGrantPerTicket` | GoalProofs |
| `OneLiveRow` | `Spec => [](at most one live row)` | GoalProofs |
| `LeasesStopAtHandoff` | `Spec => LeaseStopsAtHandoff` | GoalProofs |
| `RenewalsStopAtHandoff` | no failed retime: `Spec => RenewalStopsAtHandoff` | GoalProofs |
| `RecoveryInvariant`, `AbandonedGoalsAreWoken` | `RecoverySpec => []AbandonedGoalIsWoken` | RecoveryProofs |
| `OnlyStaleLeasesAreTaken` | recurring only: `Spec => OnlyStaleLeaseIsTaken` | GoalProofs |
| `CallsStayInLease`, `NoTheftFromLiveCalls` | recurring only: `Spec => NoTheftFromLiveCall` | GoalProofs |
| `FinishInvariant`, `NoWatchdogOutlivesFinish` | recurring only, no late reports: `Spec => FinishLeavesNoWatchdog` | GoalProofs |
| `CleanupLastsUntilProved` | recurring only, no late reports: `Spec => CleanupUntilProved` | GoalProofs |
| `CallsInvariant`, `StopsReachAllWork`, `MutationsFencedToTheEnd` | `ToolCallsSpec => []StopReachesAllWork`, `[]FencedToTheEnd` | ServicesProofs |
| `BatchInvariant`, `BatchesFollowPlans` | `ToolBatchSpec => []BatchFollowsThePlan` | ServicesProofs |
| `StateInvariant`, `ConfirmedChangesStand` | `RuntimeStateSpec => []ConfirmedChangeStands` | ServicesProofs |
| `LockInvariant`, `LockRefinement` | `TunnelLockSpec => ImplementsLock` | ServicesProofs |
| `SessionsInvariant`, `ChildrenAreNotLost` | `McpSessionsSpec => []NoChildIsLostAlone` | ServicesProofs |
| `IndexInvariant` | `WorkspaceIndexSpec => []IndexInv` | ServicesProofs |
| `ShellTaskTypes`, `VerdictsSpareLiveChildren` | `ShellTaskSpec => []NoVerdictOverLiveChild` | DataProofs |
| `CompletionNeverUndone` | `ShellTaskSpec => CompletionStands` | DataProofs |
| `CommandInvariant`, `StoppedCommandsAreStopped` | `ShellCommandSpec => []StoppedMeansStopped` | ProcessProofs |
| `ProcessInvariant`, `GoneIsGone` | `ManagedProcessSpec => GoneMeansGone` | ProcessProofs |
| `SwarmInvariant`, `TasksLaunchInOrder` | `AgentSwarmSpec => LaunchedInOrder` | ProcessProofs |
| `FilesInvariant`, `NothingIsLost` | `WorkspaceFilesSpec => []NothingLostUnseen` | DataProofs |
| `BackupsInvariant`, `ReplacedDataIsKept` | `BackupsSpec => []ReplacedDataCanBeRestored` | ProcessProofs |
| `QuietInvariant`, `InstallsWaitForQuiet` | `DesktopExitSpec => QuietInstall` | DesktopProofs |
| `TunnelInvariant`, `StopsHold` | `TunnelControlSpec => []StopHolds` | DesktopProofs |
| `ActivityInvariant`, `QuietPeriodsAreQuiet` | `SharedActivitySpec => []QuietIsReal` | ActivityProofs |
| `RemoteInvariant`, `NoTunnelIsLeft` | `RemoteMcpSpec => []NoDuplicateTunnel` | DesktopProofs |
| `SettledStateIsSaved` | `RemoteMcpSpec => []SettledIsSaved` | DesktopProofs |
| `PartsImplement`, `PartsTypes` | `PartsSpec` implies the specification of each part; `PartsSpec => []PartsTypeOK` | DesktopProofs |
| `ServicesInvariant`, `ServicesTypes` | `MCServices!Spec => []ServicesInv`, `[]ServicesTypeOK` | ServicesProofs |

Each component's invariant contains its type invariant, so these theorems also give the types of
every component proved here.

Assumptions. The theorems hold for all constants that satisfy the named assumptions of their module,
and TLC evaluates those assumptions on every run. For the goal (`GoalState`): durations are
naturals (positive where zero has no meaning: leases, calls, delays and intervals),
`CallTicks <= LeaseTicks` (both are at least 30 s in the code and a call asks for no more), occurrences
and outcomes are those of the schema. For a recovery (`GoalRecovery`): a firing is less than an
interval early (2 minutes of 60), and the successor of a claim and a first ticket come no later than
that of a collision (25 minutes), a first recurring firing within an interval. For the services: bounds are naturals,
fault names and request kinds are the known ones, finitely many operations are under way with an MCP
server, and the value that stands for "nobody" or "none" names no runtime or process. Three hypotheses of theorems say more:

* *Recurring only*, `Occurrences \subseteq {"interval"}`: the only kind the service asks for
  (`scheduled-continuation-service.ts:319`). With tickets too, the four properties that need it are
  open or false: a ticket's due time may shorten a lease, and a wake delivered again recovers the
  successor of a consumed ticket between finish's mark and its commit.
* *No late reports*, `NoLateReports`: the client sends no `create_failed` and no `create_uncertain`.
  Their branch has no status guard: the runs `RevivedTicket` and `LateReceipt` are counterexamples
  where such a report (in the latter, with a `created` one after it) may come at any time.
* *No failed retime*, `NoFailedRetime`: the client sends no `reschedule_failed`; the run `FailedRetime`
  is the counterexample with one.

The process identities of `RemoteMcp` are a bound: a tunnel is started only while one is unused.

How the proofs go: the goal. A first layer sorts the actions by what they do to a few variables
(`JournalStep`, `CounterStep`, `TrackingStep`, `LedgerStep`, `RowStep`), proved once per action, and
the invariants are argued over those kinds of steps only.

* *Journal*: order of the writers is not inductive; `JournalInv` adds that no author is later than
  the current generation and that the owner's entry only occurs in a closed goal, which is what
  makes an append by the current holder the latest. `WritersInOrder` itself is in no run: the
  refinement of `FencedJournal`, which `RecurringWake` checks, says more. `JournalStep` maps kind by
  kind to the actions of `FencedJournal` or to a stutter.
* *Observations*: `QuietObservationHolds` needs that an observation is never ahead of the counters
  (`obs.gen <= gen`, and `obs.seq <= seq` within one generation) and that no call is of a future
  generation; then every admission or heartbeat makes the observation stale, because it raises `seq`.
* *Tasks*: a tracked task has started, an observed-inactive task is done, and both are stable.
* *Rows*: `NeverCorrupt` is about several rows and the owner; `RowSound` says of a single row what
  each receipt, claim and cancellation leaves consistent, and a step changes rows one at a time.
* *Ledger*: every grant to an interval row has its row in `runs`, and a claim checks that ledger
  first; a ticket that was granted is consumed, and consumed stays so when no late report comes.
* *Recurring leases*: without one-time rows nothing shortens a lease, so `CallsInLease` – a call of
  the current generation expires no later than the lease – is inductive.
* *Handoff*: at most one row is live, so a renewal is capped at the due time of that row or at the one
  it is being retimed to; the fence reads the same one unless the row's last report was a failed
  retime, which `LeaseStopsAtHandoff` excepts, and so it needs no hypothesis.
* *Recovery*: `SilentSince(left)` says that nothing the last worker left (heartbeat, term, calls) is
  younger than its departure, so once the silence shows a claim is granted (`SilenceIsSeen`); an
  observation is made in the instant of its claim (`ObservedNow`). Time is then counted in firings:
  `NextDue` is the time of the next firing that is neither lost nor answered, and the clock never
  passes it. `FiresInTime` bounds it from the departure: each lost firing adds an interval, and one
  firing may be taken for a repetition, but only while the run of the last occurrence is recorded
  (`LastRecorded`), so never twice in a row (`RunKeys` is the arithmetic of `recurringRunKey`). For
  tickets `TicketInTime` bounds the due time of the last one, the only one not yet through: a
  collision moves it by a backoff, and only while the lease may still be valid.
* *Finish*: between its mark and its commit, at an unchanged revision, a finish handler has left no
  live row (`FinishInv`); everything that could make one raises the revision.

How the proofs go: the services.

* *Shell task*: `ShellInv` holds for any set of clients and any faults. It adds to the property that
  the worker is born after the record and the child after the announcement (`InOrder`), that whoever
  names the child names one that was spawned (`NamedWasSpawned`), and that verdicts come from a
  settled worker while no client is about to write "running" (`VerdictsSettle`). The signal can only
  take a running child away, so a decision over a dead child stays true until it is written.
* *Calls*: what runs for a goal is in the registry (`WorkIsRegistered`) or has been told to abort,
  and the fenced row is there from admission on (`FencedFromAdmission`), not only while it runs.
* *Batch*: a wave takes the earliest open set (`WaveInOrder`), outcomes are what the plan gives a
  call, and a skipped call has a failed one before it; which calls succeed is then the same function
  of the plan in any two behaviours.
* *State file*: as long as no lock was misjudged, at most one runtime is between its read and its
  write, and it is the one the lock names (`LockGuardsFile`); numbered changes make "its change is in
  the file" a statement about two places.
* *Lock*: `Guarded` says where the record of the holder is at each place of an acquire or release:
  in the lock file, set aside, or in the hands of whoever holds the mutex. The refinement maps every
  step to an acquire, a release or a stutter; once a helper was killed the mapping is frozen.
* *Sessions*: an operation at a given await owns the child it connects (`ChildrenOfCallers`), and
  until two connections overlap a registered child is registered alone. That a queue is no longer than
  there are callers does not follow from this: `QueuesHoldWaiters` adds that a queue holds exactly the
  callers that wait for its child, each of them once.
* *Command, process*: verdicts are given after the exit is known, an attempt to end the tree takes
  it as a whole, and whoever waits waits for an attempt that is under way.
* *Swarm*: what a tick read before its awaits may be old, but only in the direction that launches
  less (`TickHolds`): a task it holds for ready is so until this tick launches it.
* *Index*: a path that waits in the queue waits there once, because the queue is emptied only into the
  batch and filled only with paths that are pending no more than once.
* *Files*: `NothingLostUnseen` alone is not inductive: a content may be in a file about to be
  replaced, or in an item about to be cleared. `Doomed` and `UsedUp` name those, and `Lasts` asks for
  a copy that is neither. `LookedAt` is what an operation knows of the paths it has read, which is why
  a file that came to a path in between must be excused, and `ItemsFit` why a restore never takes an
  item that is still being filled. `StepKeeps` then reduces every action to its own operation.
* *Backups*: `RestoresKeep` gives, for each await of a restore, where the data it moves is by now.
* *Exit*: the mark of a quiet period is no later than the calls counted here, and if it is equal no
  call came since. *Tunnel*: jobs run one at a time (`JobsInTurn`), a child and a supervisor exclude
  each other, and a stop keeps restarts away until the child has ended (`StopsInOrder`, `Holding`).
* *Remote*: a live tunnel is named by the controller or by the one request that is starting or ending
  it (`TunnelOwned`, `OneStart`), an answered close beside no start has left none (`ClosedIsQuiet`), and what is shown is saved or somebody is about to (`SavedOrSaving`).

* *Activity*: a *floor* of a lease is a revision below which nothing of that lease will be on the disk
  again: not by what its owner is about to publish, not by what a reader has set aside and may put
  back. Whatever a look reads is a floor (`FileFits`), every publication of a start raises it
  (`FloorRaised`), and a counter is never below the number of calls it counts (`CountFits`), so an idle
  look at a lease whose calls run has read what is already raised. `QuietFits` keeps the revisions of
  the first look as floors of their leases (`KeptMarks`). The installer compares sums only: each
  term of the last look is at least that of the first, so equal sums have equal terms
  (`SumIsOrdered`), and a call that ran in between would have raised one.

* *Composites*: a step of a composite is, for each part, a step of that part or none (`PartSteps`,
  `ServiceSteps`). So a behaviour of `PartsSpec` is one of every part, and what is proved of a part
  holds in the run. The specifications of some services state fairness, which a composite states for
  one step of all of them at once; `ServicesInvariant` is therefore proved again, from the first
  states and the steps of each.

Sums over finite sets are folds in the community modules, and what a fold gives is an induction over
the set. `SumsStep` avoids it: the cardinality of a union of intervals satisfies the recursion of the
fold, and as two functions that satisfy it agree on every smallest set where they might differ
(`SmallestSubset`, from the well-foundedness of strict inclusion), a sum is that cardinality.

`NumberLemmas` proves that a nonempty set of naturals up to `n` has a smallest and a greatest
element. The library states that with an operator parameter, which cannot be instantiated here; it is
derived instead from the well-foundedness of strict inclusion on the subsets of a finite set, taking
for each element the set of those below it. The queues and swarms cite it for "the first one".

Three things about how the models are written serve the prover only. The source of an `EXCEPT` in an
`EXCEPT` is written out instead of `@`, and a record that changes in two fields has one `EXCEPT`
inside the other instead of the same index twice, because tlapm 1.4.5 expands nested `@` and repeated
indices wrongly; and `UNION` stands last in a union, because tlapm takes what follows for its operand.

Only model-checked. Out of the prover's reach, and therefore left to TLC: liveness under fairness
(`EveryTaskSettles`, `EveryCallIsRecorded`, `EveryOperationIsAnswered`, `SwarmSettles`,
`EveryChangeIsLookedAt`, `AbortIsPursued`), ENABLED, and what a recursive definition computes for
every input. Every other property of a passing run is stated by a theorem, some of them under a
hypothesis the table names.

## Findings

1. **A failed retime still caps renewals** (`FailedRetime`): after `reschedule_failed` the fence uses
   the due time the host kept, but `checkpoint` and `refresh` cap the lease at the attempted one.
2. **A fired ticket can be revived** (`RevivedTicket`): `create_failed`/`create_uncertain` receipts
   have no status guard, so a claimed ticket becomes claimable and wakes the goal twice.
3. **Refreshing is not activity** (`OrphanProbe`): a holder that checkpoints through
   `prepare_scheduled_continuation` between two probes is still recovered as a silent orphan.
4. **A receipt can undo the finish mark** (`LateReceipt`): a `created` receipt between the mark and
   the finish leaves a completed goal with a runnable watchdog.
5. **A fast command times out** (`FastChild`): the worker listens to its child only after an awaited
   write; a command that ends during that write is recorded as `timed_out` when the deadline comes.
6. **Two scheduled goals in one workspace** (`TwoOwners`): only `prepare_scheduled_continuation` looks
   at the other goals of the workspace. A claim that recovers the successor of a consumed ticket does
   not, so it may come after another goal has become the workspace's scheduled one. Without `consumed`,
   `create_failed` and `create_uncertain` receipts TLC finds no second owner within these bounds.

What the models show the code to do without a statement of the repository against it (where a
property would otherwise say more, the exception is in its text and in the table above):

* *Shell task*: a cancel that meets a completion replaces `completed` by `cancelled`; a failed write
  of the child's pid records `failed` over a command that runs on without timer or listener; a worker
  that starts after a client has judged the launch dead takes over that client's `failed`.
* *Goal*: acquire hands over a released or lapsed lease without looking at fenced calls of the old
  generation (`goal-repository.ts:203`); a firing before its time may count as the one before it.
* *Shell command*: a command that stays `termination_unverified` reads as unknown and keeps its goal
  from being taken over until the runtime restarts, after which it counts as inactive.
* *Index*: two drains at once share one resolver field, and the first never returns
  (`workspace-index-queue.ts:82`).
* *Files*: of two edits at once one is lost (`file-service.ts:447-473`).
* *Index*: a flush that finds every worker busy with another flush's paths calls itself until the stack
  is full (`workspace-index-queue.ts:98-109`).
* *Files*: a file that is not UTF-8 is kept in a checkpoint as decoded text, and an undo writes that
  text back (`checkpoint-service.ts:153-155`).
* *Backups*: a failed put-back of a database is swallowed, which leaves it in the archive and its
  manifest outside (`backup-service.ts:370`).
* *Shell command*: an aborted request waits as long as taskkill does not return, and retries a refused
  kill for ever (`shell-backend.ts:346-352`); one whose root a refused kill ended all the same waits for ever.
* *Tunnel*: a restart that repairs the profile beside an explicit start spawns a second child over the
  first, which is then nobody's (`tunnel-controller.ts:740, 808`).
* *Remote MCP*: a stop during the first attempt of a start is undone by the second (295-298), and a
  close too, whose tunnel then outlives the application; of more than 32 paired clients 32 are kept.

## Not modelled, and why

Everything with status `not_modelled` in `PROJECT.json`, with its reason there. A large part of the
repository is of that kind: the desktop's React views and the preload bridge (they forward
calls and render what they get), the CLI's entry points, schemas and tool definitions, request
routing and response texts of the MCP protocol, SQL row mapping, permission tables, search, the log
hub. They keep no state of a protocol or only refuse a request, and a model of them would restate
them line by line.

Within the goal components: which of two scheduled goals of a workspace the fence reports
(`goal-repository.ts:1808`: the newest row; `authorizeWorkspaceMutation`, which would act on it, is
called by no handler), owner checks (other clients are refused before any state changes),
validation of plans and texts, queries that change nothing, migrations of old databases. A tool whose
fenced call outlives its lease is in the model (a call need not be renewed); how late a heartbeat
timer fires is not.

The listener is in `DesktopExit` because stopping it is a step of the exit; no property is about the
listener alone. Within the services: processes end as they do on Windows (`taskkill`), the platform the
desktop ships for; the POSIX branches of the process manager and the shell are left out. Limits over
several instances of one thing (concurrent tasks, processes, sessions) are left out where the model
has one instance. Checks that only refuse a request (paths, permissions, sizes, ownership, pairing
and OAuth codes) are left out. Directories in file operations, the first scan of the index, daily
and weekly retention of backups, discovery of tunnel clients and download of updates are left out.

## Plan

Done: the goal protocol, its wakes and its recovery; the durable and in-memory shell commands; the
services of the inventory; the composites; the proofs of the table above. Left:

1. `DurableShellTask` and `ManagedProcess` with several tasks under their limits.
