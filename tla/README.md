# BoxLite: models, model checking and proofs

BoxLite runs a program in a micro-VM ("box") from inside a host process, with no
daemon. The host process holds a runtime; a box is a row in the runtime's
SQLite database, a directory of files, a *shim* process that is the VM, and the
in-memory handles through which clients use it. A guest agent in the VM runs the
box's container and its executions.

Paths below are relative to the repository; `boxlite/` abbreviates
`src/boxlite/src/`, `guest/` abbreviates `src/guest/src/`.

## 1. Inventory

| Component (where) | State it keeps | Operations | Interacts with | What is hard about it | What makes it correct |
|---|---|---|---|---|---|
| **Box state machine** (`boxlite/litebox/state.rs`) | `BoxState`: status, pid, exit code, start time, error reason, health | `mark_stop`, `mark_failed`, `force_status`, `adopt_recovered_shim`, `reset_for_reboot`, `can_*` | every writer of a box | five writers, each saves a whole copy | status, pid, exit code and start time speak of one and the same run |
| **Box handle** `BoxImpl` (`boxlite/litebox/box_impl.rs`) | a copy of the state under a lock, a once-cell with the live VM, a once-cell for container start, a cancellation token, a watcher slot | start, exec, attach, metrics, stop, quiesce bracket of snapshot/clone/export | runtime, init pipeline, watcher, guest | awaits between a check and its use; calls that wait in one cell; an old handle beside a new one | one VM per box, init run once, a spent handle stays spent |
| **Init pipeline** (`boxlite/litebox/init`) | the plan, the handler under an armed cleanup guard | attach, spawn, connect, container init | file lock, shim, guest, database | a failure or cancellation at any stage | a failed boot leaves neither a VM nor a row that says Running |
| **Watcher** (`boxlite/litebox/watcher.rs`) | the pid it watches | wait for exit, record, remove, health ticks | handle, runtime | an exit that races stop(), a restart or a snapshot | every exit is noticed and its code reaches the row |
| **Runtime** (`boxlite/runtime/rt_impl.rs`, `boxlite/litebox/manager.rs`, `boxlite/db/boxes.rs`) | handle cache (weak references), database, lock manager, shutdown token | create, get, list, remove, provision, shutdown, drop, recover | all of the above | reads the row outside the cache lock; remove in two halves; crash at any point | removed stays removed; recovery tells the truth |
| **Shim and watchdog** (`src/shim`, `boxlite/vmm/controller`) | PID file, crash report, watchdog pipe | spawn, terminate, die, watch the parent | runtime, guest | ends by itself, by signal, with its parent | a non-detached shim dies with its owner, a detached one only by itself |
| **Guest container service** (`guest/service/container.rs`, `guest/service/guest.rs`) | containers, the exit record file | Container.Init, Container.Start, Guest.Shutdown | shim, exec registry, reaper | a start retried after a lost answer; exit recorded on the way down | init started once; the code of the last run is on disk |
| **Guest exec registry** (`guest/service/exec`) | executions and reservations, tombstones, retained output, attach slots | reserve, publish, attach, signal, retain, prune, shutdown | reaper, container service | a client detaching while the process ends; budget eviction; shutdown against publish | no execution is lost or signalled after its pid is reused |
| **Guest reaper** (`guest/reaper.rs`) | slots by pid, settled strays | SIGCHLD sweep, register, on-exit actions | exec registry, zygote | a child that ends before it is registered; pid reuse | every owner gets the status of its own child, once |
| **Base disks, snapshots, clones** (`boxlite/disk`, `boxlite/litebox/local_snapshot.rs`, `boxlite/litebox/clone_export.rs`, `boxlite/db/base_disk.rs`) | base rows, references, overlay files | fork, reference, dereference, collect, restore | runtime remove, quiesce bracket | crash between file and row; collection racing a clone | no disk is deleted while a box is built on it |
| **File locks** (`boxlite/lock/file.rs`) | lock files and ids | allocate, retrieve, lock, free | init pipeline, recovery | ids reused after free | two boots of one box exclude each other |
| **Image store** (`boxlite/images`) | index, layers, temporary downloads | pull, stage, commit, load | rootfs builder | concurrent pulls of one layer | a layer in the index is whole |
| **Networking, portal, jailer, rootfs, agents, REST client** | little | sequential I/O, stubs, command lines | host | errors only | not about interleaving |
| **VMM and hypervisor bindings** (`src/vmm`, `src/hypervisor`) | virtqueues, worker threads | notify, pause, resume | kernel | lost wake-ups | every queued descriptor is served |
| **SDKs** (`src/sdks`) | the C SDK's event queue | post, poll, free | clients | callback against free | an event is delivered once |
| **Hosted API and runner** (`apps/api`, `apps/runner`) | desired and actual box states, jobs, runner reports | reconcile, claim, report | database, runner | duplicated and late jobs and reports | the actual state follows the desired one |
| **CLI, proxy, dashboard, infrastructure** | none of a box | calls of the above | | | |

`PROJECT.json` lists each component with its status, and the hazards with the
line each bites at.

## 2. Plan

Most important behaviour first. Done:

1. **BoxLifecycle**: one box in one host process with all its handles, shims and
   tasks, crash and recovery; **BoxLifecycleProperties**, **MCBoxLifecycle**,
   **BoxLifecycleProofs**, **BoxLifecycleTruthProofs**.
2. **BoxContract**: what a client may believe of one box, with BoxLifecycle shown
   to implement it through a refinement mapping, by TLC and by proof.
3. **Reaper** with **ReaperProperties**, **MCReaper** and **ReaperProofs**; and
   **ExecRegistry** with **ExecRegistryProperties**, **MCExecRegistry** and
   **ExecRegistryProofs**. The
   first delivers exit statuses, and the second assumes of it what the first
   shows: that the exit of a registered process reaches its slot.
4. **BaseDisks** with **BaseDisksProperties**, **MCBaseDisks** and
   **BaseDisksProofs**: snapshots, clones, their bases, removal and recovery.
5. **BoxReconciler** with **BoxReconcilerProperties**, **MCBoxReconciler**, and
   its theorems in **BoxReconcilerProofs** (types, one job at a time),
   **BoxReconcilerTruthProofs** (destroyed is gone) and
   **BoxReconcilerOrderProofs** (the latest job and the row, errors), each
   resting on the one before.

Open, in this order:

6. Proofs: `Started` for handles that `get` hands out; `KeepsContract` with removals,
   for which the contract needs a step that ends the box while a VM of it runs.
7. **FileLock** (allocation of ids, recovery) and **HealthProbe** (the watcher's
   ticks), both small.
8. Migration between runners (EXPORT and IMPORT jobs) on top of BoxReconciler.
9. **Virtqueue**, **EventQueue**, **ImageStore**.

Runs stay at instances where TLC finishes in minutes: two handles or one handle
over two shims; two pids shared by two processes; three boxes over two bases;
one hosted box with two requests.

## 3. What BoxLifecycle models

One box of one host process. The host's memory is lost in a crash; database,
files and shims survive it.

| Variable | In the code |
|---|---|
| `row`, `created` | the box's row (`db/boxes.rs`) and whether it was ever inserted |
| `pidfile`, `record`, `crash` | `shim.pid`, the guest's main-command exit record, the shim's crash report in the box directory |
| `shim`, `ran`, `spawner`, `keep` | each shim process: its OS state (`frozen` is SIGSTOPped, `zombie` is dead and unreaped), whether its container's init has run, the handle whose boot spawned it, whether the write end of its watchdog pipe is open |
| `runtime`, `cache`, `getter`, `flock`, `removing` | the process (`up`, `closing` after `shutdown()`, `down`, `rebooted`), the weak handle cache, a `get` between its row read and the cache lock, the box's file lock, a `remove_box` past its checks |
| `held`, `mem`, `token`, `live`, `cstart`, `gate` | per handle: references held, `BoxState` under its lock, cancellation token, `live` once-cell, `container_start` once-cell, calls waiting in the live cell |
| `boot`, `stop`, `quiesce`, `watch` | per handle: the step its boot, its `stop()`, its quiesce bracket and its watcher task have reached |

Pids are never reused: a shim's identity is its pid together with its start
time, as `PidFileReader::process_identity` compares both. A start time and an
exit code are named by the shim they came from, so that "is this the code of
this run?" can be asked.

An action ends where the code awaits, takes or drops a lock, or reads what
another task may change. The correspondence, action by action, is the map in
`PROJECT.json`; in outline:

| Actions | Code |
|---|---|
| `Create`, `Provision`, `GetRead`, `GetCreate`, `DropHandle` | `create_inner`, `provision_box`, the two halves of `get`/`get_or_create_box_impl`, the last reference going |
| `Request` | the status checks of `start`, `exec`, `attach` and `existing_live_state`, and joining the live cell |
| `BootRead` .. `BootFinish` | `init_live_state`: plan from a clone of the state; file lock and row; `vmm_attach` or `vmm_spawn`; `guest_connect` and `guest_init`; failure and `CleanupGuard::drop`; publishing pid and Running under the lock and arming the watcher; filling the live cell |
| `ContainerStart`, `ContainerStartFails` | `ensure_container_started_owned` |
| `StopBegin` .. `StopRemove` | `stop()`: cancel and abort; attach if Running; guest shutdown and `handler.stop()`; PID file; recording; invalidating; remove-on-stop. `StopAbandon` is the runtime's shutdown dropping it at a timeout |
| `WatchStandDown` .. `WatchRemove` | `BoxWatcher::run` and `on_shim_exit`; the save happens after the state lock is dropped |
| `QuiesceBegin`, `QuiesceStop`, `QuiescePause`, `QuiesceCont`, `QuiesceProbe`, `QuiesceResume`, `QuiesceAbandon` | `with_quiesce_async`: freeze and SIGSTOP, the locked write of Paused, SIGCONT, `kill(pid, 0)`, the locked write of Running, each a step of its own, since the code takes `state.write()` only after the signal and after the probe; the last is a dropped `export_box` future |
| `Remove`, `RemoveCommit`, `RemoveInMemory` | `remove_box`: check, and kill if forced; delete; the branch for a box only in memory |
| `MainExits`, `ShimDies`, `Watchdog` | init ends and the VM powers off; the shim crashes or is killed; its watchdog pipe is closed |
| `Shutdown`, `Crash`, `Reboot`, `RuntimeDrop`, `Recover` | `shutdown()`, the process dying, the machine restarting, `shutdown_sync` from `RuntimeImpl::drop`, `recover_boxes` |

Two CONSTANTS select the environment of an instance: `Calls`, what its clients
do, and `Faults`, what may go wrong (`boot` a failing pipeline step, `rpc` a
Container.Start without an answer, `shim` a crashed VM, `cancel` a dropped
future, `crash`, `reboot`). `HasMain`, `RemoveOnStop` and `Detach` are the box's
options. The proofs hold for every choice of them.

Deliberately abstract: the error reason, timestamps and health fields; disk,
rootfs and network work inside the pipeline (it fails or succeeds); database
errors (a save of an existing row succeeds); an error of `handler.stop()` (it
kills the shim); the read and the save of `CleanupGuard::drop` are one step; a
graceful stop always ends within its time-out. Callers of the same kind on one
handle are one waiter, since the cell serves them alike. `Teardown` kills the one
shim it knows; on Linux `reap_box` (`shim.rs:185`) kills the whole cgroup of the box,
which matters only where two VMs of it run, and there it kills more. `DropHandle`
drops a handle that has no call under way; the task in which `start()` runs the
container (`box_impl.rs:325`) does not own the `BoxImpl`, so a client may let go of
the last handle while Container.Start is still on its way. The model drops it after.

`BoxLifecycle` is translated from the code. `BoxLifecycleProperties` states what
is asked of it, `MCBoxLifecycle` adds what TLC needs (symmetry), and
`BoxLifecycleProofs` holds the theorems.

**BoxContract** is the abstract specification: a box runs one VM after another,
its main command at most once in each; the row shows a run only after its VM
booted, and tells the exit code of a main command that ran and ended. It knows
no handles, boots, watchers or files. The mapping is at the end of
`BoxLifecycleProperties`: a run is a shim, `vm` the one alive (two at once would
be a value the contract does not know), `ended` the dead
ones, `main` is `ran`, `shown` and `told` are the row's pid and exit code, `up`
whether a host process has the box in hand. `KeepsContract` is its safety and
`HonoursContract` adds its liveness, that an ended run is not shown for ever.
One action of the contract is a concession: `Overwrite`. A watcher saves its
copy of the state after it dropped the lock (`watcher.rs:224`), so the row of a
restarted box may be written with the end of the run before. The code allows
it, and the contract says so instead of hiding it; without the action
`KeepsContract` fails.

## 4. What Reaper models

The guest agent has one task that collects every exited child with
`waitpid(-1)`, and many that spawn children and want their statuses. `Reaper`
has both, and the kernel's pids between them.

A *process* is one incarnation; a pid is what the code sees of it. Statuses are
named by the process they belong to, so "is this my child's?" can be asked.

| Variable | In the code |
|---|---|
| `os`, `pid` | the process in the kernel and in the reaper's hands: unborn, running, zombie, taken by `waitpid` and not yet delivered, delivered, or collected by its own spawner; its pid |
| `kind`, `client` | what spawned it (an exec, a container's init, nobody, a helper under `reap_fence()`) and how far that request is |
| `before` | the exits deposited before the request's `spawned_at`: all that comparing two `Instant`s tells |
| `heard`, `fired` | what the receiver of its `ExitSlot` shows, what its `ExitAction` was called with |
| `slots` | `Inner::slots`; in a slot, the value of the watch channel (`exit`), `stray_since` (`stray`), its receivers, its parked action |
| `sigchld`, `sweep`, `hand`, `batch` | the reap loop: an unread signal, its phase (`REAP_LOCK` is held for writing while `sweeping`), the exit between `waitpid` and `deliver`, the actions the drain still has to run |

| Actions | Code |
|---|---|
| `BeginSpawn`, `Fork`, `Register` | `spawn_execution`: `spawned_at`, the spawn, `Reaper::register` |
| `BeginSpawn`, `Fork`, `OnExit` | `Container.Init`: the container's init and `Reaper::on_exit`, which runs the action at once on a settled slot |
| `HandleFailed` | the child was spawned and its handle could not be made: `terminate_process`, `terminate_child` |
| `Release`, `Drop` | `release_slot` through `release_resources` or `container.rs:561`; a request that ends without it |
| `SelfSpawn`, `SelfWait` | a helper spawned and awaited under the fence (`idmap.rs`, `block_device.rs`) |
| `SweepBegin`, `Reap`, `Deliver`, `SweepEnd`, `Fire` | `run`, `sweep_exits`, `deliver` with `prune_stale`, `drain` |
| `Orphan`, `Exit` | the kernel: a descendant reparented to the agent, an exit and its SIGCHLD |

Assumed of the surroundings, each as a guard that says so: a pid is not handed
out again within one spawn (`Free`; the kernel allocates pids in a cycle of
thousands, and `register`'s time check is sound only under this); a stray is
pruned only after `REAPED_TTL`, which is longer than a spawn (`Prunable`); a
container's init cannot exit before `Container.Start` (`Exit`), as
`container.rs:442` says. A stopped or traced child, which `waitpid` also
reports, and errors of `waitpid` other than those that end a sweep are left out.

## 5. What ExecRegistry models

The registry's mutex makes a step of each section under it. What a caller does
with the session it cloned, after the mutex is released, is a later step; that
is where the interleavings are.

| Variable | In the code |
|---|---|
| `entry`, `aged`, `older`, `closing` | `RegistryInner`: an id is free, reserved, live, retained or a tombstone; the entries past their expiry; the order of the kept ones by last access; `is_shutting_down` |
| `manager`, `batch`, `owed` | the lifecycle manager, the sessions its prune has taken out, and the ones others took out and still have to release |
| `request`, `unreserve` | `spawn_execution` of each request; the release a dropped `ExecutionReservation` has spawned |
| `proc`, `slot` | the process, with a pending SIGTERM or SIGKILL, and its `ExitSlot` |
| `verdict`, `drain`, `sealed`, `lease`, `forwarder`, `stdin`, `released` | `ExecutionState` and its `OutputManager`: the once-cell of the classified exit, the drains, the seal of the output, the reader's lease and forwarder, stdin, `released` |
| `timer`, `tracked`, `observer` | the deadline watcher, whether the session can abort it, the task of `observe_terminal` |
| `client`, `closer` | each Attach, Wait or Kill call; each caller of `shutdown_all` |

| Actions | Code |
|---|---|
| `Begin`, `Spawn`, `SpawnFails`, `Publish`, `Track`, `Refuse`, `AbortUnpublished`, `DropRequest`, `ReleaseReserved` | `start_execution`, `spawn_execution`, the reservation's guard |
| `Deadline`, `DeadlineKill` | `start_timeout_watcher` |
| `ObserverStarts`, `ObserverSeesExit`, `ObserverSeals`, `Retain`, `Expire`, `Prune`, `BatchDone`, `ManagerStops`, `Release` | `observe_terminal`, `retain` with its eviction, `prune_inner`, `release_resources` |
| `LookupAttach`, `Attach`, `Stream`, `StreamEnds`, `HangUp`, `LookupWait`, `Answer`, `LookupKill`, `Kill` | the calls, each a lookup and what follows it |
| `TakeStdin`, `TrackStdin`, `StdinEnds` | `send_input` |
| `SshSignals`, `SshEnded`, `SshReleases` | the SSH bridge, which registers, signals and releases on its own |
| `CloseBegins` .. `CloseEnds` | `shutdown_all`: refuse, stop the manager, SIGTERM, SIGKILL after the grace period, take what is left, release |
| `ProcExits`, `Settle`, `DrainEnds` | the kernel, the reaper, the end of a pipe |

Abstract: time (an expiry or a deadline simply passes), bytes and the replay
ring, the two caps on retained sessions (one cap stands for both), terminal
sizes. Left out: an execution whose `ProcessInstance::capture` yielded nothing
(`exec/mod.rs:428`), the process having ended or `/proc` being unreadable at that
moment; no signal is sent to it, so where it lives `NoneSurvives` does not speak of
it. Assumed: an exit that happened reaches its slot, which is `ExitHeard` of Reaper.

A pipe reaches its end when nobody holds it open any more. That follows from the end
of the process only if no descendant of it holds the same pipe (`registry.rs:948`
tests the other case), so `DrainEnds` may happen at any time and need never happen.

## 6. What BaseDisks models

The disk files of a host's boxes, named by their paths as qcow2 headers name
backing files, and the tables about them. A file is `sound` while its backing
path still names the file it was created on, which is all that the contents
matter.

| Variable | In the code |
|---|---|
| `files`, `dirs`, `marker` | the disks, snapshot disks and bases that exist, with their backing paths; box directories; `.snapshot_pending` |
| `rows`, `snaps`, `bases`, `refs` | the tables of boxes, snapshots, base disks and references |
| `op`, `rem` | the operation that holds a box's `disk_ops` lock; how far `remove_box` got, which takes no lock |
| `load` | the bounds of a behaviour, and whether its boxes are remove-on-stop (`ephemeral`) |
| `torn` | a removal was left half done: a crash has cut `remove_box` short, or recovery has deleted a remove-on-stop box itself: bookkeeping for `BasesCollected` |

| Actions | Code |
|---|---|
| `SnapMark` .. `SnapUnmark` | `snapshot_create`: marker, rename, COW child, row, marker gone |
| `SnapDelete`, `SnapUnlink` | `snapshot_remove`, refused while a chain leads through it |
| `RestoreBegin`, `RestoreChild` | `restore_disks` |
| `CloneMove` .. `CloneRefer` | `clone_boxes`: the disk becomes a base, COW child, row, reference; staging; provisioning and reference of each clone |
| `RemoveRow` .. `RemoveDir` | `remove_box`: row, references, files, `try_gc_base` of each affected base with its parents, directory |
| `Restart` | a crash, then `recover_boxes`: first the rows and directories of remove-on-stop boxes (`Survivors` are the others), which drops neither references, nor snapshot rows, nor bases; then directories without a row, `recover_pending_snapshot`, `gc_orphans` |

The steps end where the code does its next call on a file or a table. The VM,
status checks and the quiesce bracket are in BoxLifecycle; copying across file
systems, which replaces a rename, is the rename. `WithChild` keeps an existing
child, as `create_cow_child_disk` does, and `Walk` stops at `MaxDepth`, as
`read_backing_chain` does at its limit. What `try_gc_base` takes with a base is the
least set of bases closed under its recursion (`Doomed`). A new base has an id that
no base has, nor any disk remembers (`FreeBase`): ids are random.

Two sequences of calls on files and tables are one step each: the row and the file
of a collected base (`base_disk.rs:358`; a crash between them leaves a file without a
row, which the next sweep takes), and the files of a removed box (a directory without
a row is deleted at the next start, whatever is left in it). Recovery also deletes
an active box whose directory is missing (`rt_impl.rs:1340`); nothing in the code
removes the directory of a box that is to stay, so the model has no such box.

## 7. What BoxReconciler models

One hosted box on one runner of API version 2: the API's row, the sync passes
that turn a difference between its two states into jobs, the handlers of
finished jobs, the runner that polls and executes, and the runner's report of
what it sees.

| Variable | In the code |
|---|---|
| `row` | `state`, `desiredState`, `pending` of the box entity, with `enforceInvariants` as `Normal` |
| `lock` | the Redis key of the box, with the pass that took it |
| `called`, `syncs` | an event's `syncInstanceState` before it runs; each pass with its copy of the row and the state it is about to write |
| `jobs`, `handlers` | the job table; `handleJobCompletion` under way, started without being awaited |
| `execs`, `vm`, `report` | the runner's goroutines, the box on it, and `PerformSync` between reading the boxes, reading the API and posting |
| `load`, `late` | what may still happen in this behaviour, and what went wrong so far |

| Actions | Code |
|---|---|
| `Start`, `Stop`, `Destroy` | `BoxService` and its crons for idle boxes |
| `EventCall`, `CronCall`, `Look`, `Submit`, `Leave`, `Learn`, `TimeOut`, `Check`, `Save`, `Fail`, `Unlock`, `Expire` | `syncInstanceState`, the three box actions, `updateBoxState` and the lock |
| `Stale`, `HandleRead`, `HandleSave`, `HandleUnlock` | `handleStaleJobs`, the completion handlers |
| `Claim`, `Execute`, `Report`, `RestartRunner` | `claimPendingJobs` and the poller, the executor and its retries |
| `Observe`, `Compare`, `Post` | `PerformSync`, `updateState` |
| `CrashApi`, `Exit` | the process dies; the VM ends by itself |

`boxInfo` of a v2 runner asks nobody: it infers the state from the box's latest
job (`Inferred`), so a pass can learn no more than the jobs say. A write that
finds the row changed since it was read is dropped (`Unchanged`). A destroy asks
`boxInfo` and submits its job in separate awaits, so it is `Look` and `Submit`, and
what the first was told may be over when the second acts. Time is a choice; a start
may time out whenever it has not progressed.

A VM whose start fails on the runner is `failed`, which the report calls "error"
(`ToBoxState`). A paused one is reported as started and is no state of its own here;
`StateStopping` has an arm in `ToBoxState`, but a stop on the runner is one step of
the model, so no report falls into it. The requests change the row only: the crons
for idle boxes also take and delete the box's lock around their write
(`box.manager.ts:113`, `:200`), so that a pass may find it taken and leave the box to
the next one, or, if the cron takes longer than the 30 seconds of the lock, find
it deleted, as by the fault `unlock`. `handlers` is a set, so two handlers of one job
that have read the same row and have come equally far are one.

## 8. Runs

`tlc -workers 2 -config <run>.cfg <module>`; H and S are handles and shims.

| Run (`MCBoxLifecycle`) | H, S | Calls | Faults | Shows |
|---|---|---|---|---|
| `concurrent` | 2, 2 | start stop get exit drop shutdown | crash | `TypeOK`, `PidIffActive`, `OnlySpawnerStarts`, `NeverKilled` (detached box) |
| `crash_recovery` | 2, 2 | provision start existing get exit | boot shim crash reboot | `RowOfOneRun`, `RecoveredTruth`, `KeepsContract` |
| `removal` | 2, 2 | provision start get remove force_remove exit quiesce | boot shim rpc cancel | `Attended`, `RemovedForever` (a main command); no crash |
| `snapshot` | 1, 2 | start exec attach existing exit quiesce drop | boot rpc shim | `Started`, `SpentForever`, `ExitKept`, `Resumed`, `HonoursContract`, fair |
| `orphans` | 1, 2 | start stop exec existing drop shutdown exit | boot cancel crash shim | `NothingStays`, `CallsReturn` (remove-on-stop), fair |

| Run | Module | Instance | Shows |
|---|---|---|---|
| `reaper` | `MCReaper` | 2 processes, 2 pids | `TypeOK`, `OwnStatus`, `NoneStranded`, `ActionKept`, `NeverRobbed`; `ExitHeard`, fair |
| `exec_registry` | `MCExecRegistry` | six loads over 5 executions, 2 clients, 2 shutdowns; caps of 1, exceeded by two sessions being read | `NoneSurvives`, `WaitsTold`, `ReleasedHoldsNothing`, `RetainedBounded`; `CallsAnswered`, `GivenBack`, fair |
| `base_disks` | `MCBaseDisks` | 3 boxes, 2 bases; 2 boxes with 2 snapshots each; 2 remove-on-stop boxes with a base and a snapshot | `FilesWhole`, `BasesCollected`, `NeverUnderfoot` |
| `reconciler` | `MCBoxReconciler` | 2 passes, 1 or 2 requests, each fault once | `RowIsTrue`, `OneAtATime`, `ErrorHasCause`, `DestroyStands`, `OnlyAsAsked`; `RequestsEnd`, fair |

Each run of the second table also checks its module's `TypeOK`. A property that
is a conjunction is named for what its parts say together, and the parts have
definitions of their own: `Attended` is `RowNamesVM` and `Watched`,
`NothingStays` is `OrphanEnds` and `AutoRemoved`; `WaitsTold` is `WaitsAgree` and
`NoLostWait`, `GivenBack` is `ReservationEnds`, `SessionsReleased` and `ExcessEnds`; `FilesWhole`
is `DisksWhole` and `SnapshotsWhole`; `RowIsTrue` is `NothingLeftBehind` and
`StoppedIsStopped`, `OnlyAsAsked` is `OnlyTheUserStops` and `JobsAsTheRowAsks`,
`RequestsEnd` is `StartupEnds` and `EndsUnlessFailed`.

Bounds of BoxLifecycle. Two handles are the least for a race between an old
handle and its replacement, and between two handles that boot. They are not
enough for everything: with a third handle and a third shim two VMs of one box
can run at a time, and with a fourth a `get` can return a state two runs old
(section 10). That is why the theorems, which hold for any number, state
`OneLife`, and one of them `Timely`, as hypotheses, which two handles do not need. Two shims are the
least for a restart: a run, its end, and a next run that inherits the row, PID
file, exit record and crash report of the first. When all shims are used up a
spawn fails, which is a failure the code handles. Nothing
else is counted, so no run has a depth bound; crashes, recoveries, snapshots and
failed boots may repeat without limit. Liveness runs use one handle because TLC
needs them without symmetry; what two handles add to liveness is in section 10.

Bounds of the others. Two processes over two pids let a pid be reused, two exits
come under one SIGCHLD, and one wait behind a fenced helper; the safety of
Reaper is proved for any number. The loads of `exec_registry` are small guests
that are explored whole: retention with eviction (two sessions over a cap of
one, each free to be read by either of two clients), readers against shutdown, a deadline with stdin and a dropped request,
waits around the death of init, the SSH bridge, two shutdowns at once. In
`base_disks` two calls are under way at a time (`MaxCalls`): a third is a
third box's, and the hazards are between pairs. The base of a base and a
snapshot of a snapshot occur; a chain of eight (`MaxDepth`) is longer than any
that the boxes, bases and snapshots of the instance form. In `reconciler` each
fault happens at most once in a behaviour, in the jobs of two requests or in those of
one with a runner's report between (`MCLoads`), whichever of the two is larger for it
within the run's time; an expired lock is met by one request alone. One load joins
three faults, for the
report of a box that was made and never booted. Two faults of one kind are left
to the theorems, which hold for any load; each property's comment names the
faults under which it is not claimed (`Without`).

`CHECK_DEADLOCK FALSE` in every configuration: a removed box, an idle one that
used its shims, a guest or a reaper without processes, and a destroyed hosted
box have nothing left to do.

Fairness of BoxLifecycle (`FairSpec`): the tasks the runtime drives (boot,
container start, stop, watcher, the second half of a snapshot, the second half
of `remove_box`) take a step when they stay able to, as tokio polls a woken task
and none of these holds a lock over an unbounded wait; a running shim whose pipe
is closed ends, as its watchdog thread polls that pipe. Clients, exits and
faults are not fair. `BootConnect` is fair as the code bounds the wait with a
time-out, whose failure is `BootFail`.

Fairness of Reaper: the reap loop is a task of the runtime; a fenced helper ends
and its spawner waits for it. The last is what the code relies on, in the words
of `idmap.rs:214`: a helper that hangs would stall exit delivery for the whole
guest. Held processes are under no obligation to exit.

Fairness of ExecRegistry: tasks and admitted requests are polled, a process that
was sent SIGKILL ends, an exit is delivered, and expiries pass. No process has to
exit, no pipe to reach its end (a descendant may hold it), no client to call, to
read on or to hang up. So `CallsAnswered` excepts a reader of an output that is still
open, and `SessionsReleased` a session with such an output until a shutdown, which
releases it all the same.

Fairness of BoxReconciler: the crons run every ten seconds and every minute;
passes, handlers and executions go on until they die; the runner polls; a lock
nobody holds any more expires. A start that has not progressed is timed out by
the first pass after its time, and a pass may happen to look just before it,
again and again; that it does not do so for ever is strong fairness of
`TimeOut`. The time counts from `lastActivityAt`, which activity of the user on the
box moves: `RequestsEnd` is for users who leave the box alone in the end. Users and the runner's report are under no obligation.

Some definitions follow slips of themselves (`MarkStopKeepingPid` before
`MarkStop`, `NeededByListed` before `Needed`): nothing uses them; substituted
for the original each is noticed by one property.

### What the code contradicts

Three runs expect a violation. Each checks one sentence of the code against what
the code does; `PROJECT.json` quotes it.

| Run | Statement | What happens |
|---|---|---|
| `exec_boots_main` | running the main command again is "a decision for you" | exec is admitted while Running, the VM ends, and the boot it joins restarts the box with the user's command |
| `unwatched_restart` | the watcher "always follows the box's shim to its exit" | a handle handed out after a crash watches the adopted VM; it ends, and the same handle boots the next VM, for which the watcher cell is already used: nobody notices its exit |
| `lost_disk` | "Remove marker on success" | a snapshot fails after moving the disk and removes the marker as well, so recovery does not put the disk back |

Five more are reached by the models and not kept as runs. Each is a property of a few
lines that TLC violates on a small instance within seconds:

- A bracket revives a stopped box. The comment at `box_impl.rs:1532` says "Only
  transition to Running if process is still alive after resume", but the probe comes
  before the state lock: the VM ends in between, or is a zombie, which passes the
  probe; the watcher records Stopped and ends, and the bracket writes Running,
  without a pid and with nobody watching. (One handle, `start exit quiesce`, no
  fault: a step from `quiesce[h].pc = "resuming"` and `mem[h].status = "Stopped"` to
  Running. The theorems' `Unbroken` excludes it.)
- A reboot keeps a Paused box. `manager.rs:197` says "Detected system reboot, resetting
  active boxes to stopped", and a test at `state.rs:666` expects it of a Paused one,
  but the reset goes over `list_active` (`db/boxes.rs:248`), which does not select
  Paused: a box caught in a snapshot stays active over a VM that is gone. (The
  same with the fault `reboot`: a step out of `rebooted` that leaves an active row.)
- Recovery leaves references behind. `schema.rs:127` says that `base_disk_ref` "tracks
  box-to-base_disk dependencies for GC", but recovery deletes row and directory of a
  remove-on-stop box (`rt_impl.rs:1366`) and no reference, so that neither a collection
  nor a sweep ever takes the base. (Two remove-on-stop boxes, one base, the fault
  `crash`: a reference of a box that has neither a row nor a removal under way.)
- The sweep of orphans forgets snapshots. `base_disk.rs:185` says that a file goes only
  when "nothing backs onto it", "because snapshots are user data", but
  `referenced_backing_paths` walks the disks of boxes and the bases, not the
  snapshots: a base without a row, left by a clone that was cut off, that only a
  snapshot is built on, the box having been restored to an older one, is deleted
  under it. (One box, one base, two snapshots, `crash` and `crash_clone`: a base
  without a row is swept that is on the chain of a listed snapshot.)
- A box is destroyed twice. `box-destroy.action.ts:62` says "if the box is not found on
  runner, it is already destroyed", but the box is asked for before the job is
  submitted. The API dies after submitting a destroy; the next pass asks while that
  job runs and submits another when it is done, which fails, and the box that is gone
  is shown in error. (One request, the fault `api`: `row.state = "error"` with
  `vm = "absent"`. `GoneThoughApiDied` excepts it.)

Seen while modelling as well:

- stop() on a handle whose first boot is under way reads Configured, kills
  nothing and returns, and the boot's VM lives on (`box_impl.rs:771`); stop() can
  itself boot a VM between its check and its await; on a handle whose boot failed
  it saves Configured over the row's Failed (`box_impl.rs:839`); inside a snapshot
  it finds Paused and kills nothing (`box_impl.rs:1502`).
- The container-start cell is filled before an adoption is certain: when the
  adoption fails, the next start boots afresh and never runs init
  (`box_impl.rs:1334`). A dropped export future leaves the VM stopped
  (`box_impl.rs:1529`).
- Recovery turns Paused into Failed, which the transition table refuses
  (`rt_impl.rs:1492`), and repairs a Running row without a shim, but not a Paused
  one (`rt_impl.rs:1502`), as the reset after a reboot does not either;
  a crash report written right after publishing is
  stashed as a leftover (`box_impl.rs:1441`); recovery deletes a remove-on-stop
  box whose shim still runs (`rt_impl.rs:1324`). `error_reason` is never cleared
  although its comment says so (`state.rs:230`).
- A handle that watched one VM and is used for the next has no way to be told from
  a new one: once its watcher has invalidated it in the cache, a `get` makes
  another handle, and both may boot the box. The plan is chosen from a clone of
  the handle's state before the file lock is taken (`box_impl.rs:1280`), so the
  second boot, when it gets the lock, spawns beside the VM of the first, whose PID
  file it overwrites. `rt_impl.rs:596` says that handles to the same box share one
  BoxImpl. It takes three handles and three shims, more than TLC explores in a
  run's time; the root is that of `unwatched_restart`, and `OneLife` names it.
- remove_box reads the row before a concurrent start publishes (`rt_impl.rs:1013`).
- `terminate_process` and `terminate_child` take the reap fence after an
  unfenced spawn (`command.rs:553`, `executor.rs:371`), which `reaper.rs:65`
  forbids: `HandleFailed` followed by `SelfWait` with the child gone.
- `shutdown_all` releases what it has just killed without waiting, so a pending
  Wait answers -1, on the branch `reaper.rs:122` calls unreachable: `NoLostWait`
  excepts shutdown.
- A reader that attaches between the check that nobody reads a session and its
  release is cut in its replay (`registry.rs:372`).
- The passes' unlock deletes the key whoever holds it (`box.manager.ts:417`),
  though the comments at `box.manager.ts:321` and `:327` speak of a lock code that
  protects the pass.
- A stop or destroy whose job fails at once is set to error by the handler or
  not: if the pass's own write of "stopping" or "destroying" comes in between,
  the handler's write conflicts and is dropped, and the row stays there
  (`box-stop.action.ts:44`). A box in error that is destroyed while its lock is
  held, or a job incomplete, is not looked at again, since `syncStates` leaves
  error boxes out (`box.manager.ts:240`).
- A pass that lost its lock may submit a stop after the destroy is done. It
  fails, as the runner has no such box, and is now the latest job; if the write
  that would have shown the box destroyed met a conflict, every later pass infers
  "stopping" from that job and the box stays "destroying"
  (`box-destroy.action.ts:56`).

## 9. Proofs

`tlapm BoxLifecycleProofs.tla` proves, for all sets of handles and shims (finite
or not), all calls, faults and options, from `ConstantsAssumption` alone where
it is needed:

- `Invariance`: `Spec => []IInv`, and from it
- `TypeCorrect`: `Spec => []TypeOK`;
- `SpawnerStarts`: `Spec => []OnlySpawnerStarts`: a handle that may still send
  Container.Start spawned the VM it would send it to;
- `RemovedStays`: `Spec => RemovedForever`, from the actions alone: every writer
  but the first insertion saves through an UPDATE;
- `PidAgrees`: without snapshots, pid and status agree in the row and in every
  handle (`PidIffActive`). The hypothesis is needed: see section 10.

Neither `TypeOK` nor `OnlySpawnerStarts` is inductive. A container start uses
the VM in the live cell and a publish the shim of the boot, so the types need
`CellsAgree` (a wanted container start has a full live cell; a boot runs over an
empty one) and `BootNamesShim` (a boot past attach or spawn has a shim, and a
fresh one its own). `OnlySpawnerStarts` is established when `BootFinish` fills
the live cell, which needs to know that an adopting boot has marked the
container-start cell (`AdopterMarked`) and that a fresh one spawned its shim
(`BootNamesShim`); a new shim changes nobody else's because an unborn shim has
no spawner (`UnbornIsNobodys`). `IInv` is their conjunction. The proof has one
lemma per group of actions and property and one step per action in it.
`PidAgrees` is inductive over the state copies in flight as well: the row a
`get` has read and the snapshot a watcher is about to save.

`tlapm BoxLifecycleTruthProofs.tla` proves what the runs check of VMs, watchers
and recovery, each for every number of handles and shims:

- `DetachedLeftAlone`: `Spec => NeverKilled` of a detached box, where no client
  forces a removal or takes a snapshot and neither a boot nor a shim fails nor the
  machine restarts; the host may crash and recover. It needs that a boot has no
  shim before it attaches or spawns (`Shimless`): the failure of one that has would
  kill it.
- `SpentStaysSpent`: `Spec => SpentForever`, whatever the calls and faults: a handle
  whose live cell is full has no boot under way whose publication could come
  (`Shelved`), and a bracket's writes change the status and leave the pid as it is.
- `CreatorStartsInit`: `Spec => []Started` where the creator's is the only handle:
  the container-start cell is filled by the handle that spawned the VM or by
  nobody, since there is nothing to adopt (`OnlyCreator`).
- `ShownIsAttended` and `RecoveryTellsTheTruth`: `Attended` and `RecoveredTruth` of
  every behaviour in which `OneLife` and `Unbroken` hold throughout, if `LeftAlone`
  does: no client calls stop() or lets go of a handle, and only a detached box
  meets a shutdown. They are the properties of `removal` and `crash_recovery`, whose
  instances satisfy `LeftAlone`. `Unbroken` says that the end of a VM is not
  recorded between a bracket's signal, or its last look at the pid, and the status it
  writes then. The code does not exclude that (section 8), so the theorems
  say what follows where it does not happen. Without snapshots it cannot
  (`NeverBroken`), and the hypothesis goes: so it does for the theorems below.
- `ToldExitsRan`: under `LeftAlone` and `OneLife` and without snapshots, an exit code
  in the row is that of an init that ran, in a VM that ended.
- `RowTellsOneRun`: `RowOfOneRun` under the same conditions, if `Timely` holds
  throughout: no active row in the hands of a `get` is of a VM that another boot has
  replaced.
- `ContractIsKept`: `KeepsContract`, the refinement of BoxContract, under `LeftAlone`
  and `OneLife` for a box that is `Undisturbed`: neither snapshotted nor removed, by a
  client or by stopping. The instance of `crash_recovery` satisfies both.
- `NothingOverwritten`: under the same conditions no step is the contract's
  `Overwrite`. A handle that boots a second VM is what opens that hole.

`ShownIsAttended` and `RecoveryTellsTheTruth` share one inductive invariant, `Solo`, of 22 parts. A Running row
names the only VM because a boot that holds the file lock works on the VM of
the PID file (`Locked`, `Spawned`, `OneVM`) and all others find it there: the
cached handle shows it (`CacheTrue`), handles that are not cached have seen
their VM end (`Over`), and with no handle cached the row and what a `get` has
read of it show it (`RowKept`, `RowShown`). A handle has a watcher from the
moment it shows a VM (`Attends`, `Filled`), whose VM is the one shown
(`Watching`); brackets and adoptions are around that VM (`Bracketed`, `Fresh`,
`Adopting`). None of these is inductive without the others, and none without
`OneLife`: a boot by a handle whose watcher is used up breaks `Spawned` as soon as
another handle boots, and `Attends` already when it publishes. The step lemmas go
part by part (`VacantNext` to `RowShownNext`), each over the steps that can change
the part's variables (`Writers`).

The last four rest on `Solo` and on what becomes of a *copy* of the state: the row,
a handle's state, the row a `get` has read and the snapshot a watcher is to save,
each of which may be the next one written. `CopiesMove` says that a step passes a
copy on or writes one in one of six ways (`Written`). With it `ExitsRan` is
inductive (every copy's exit code is of an init that ran and a VM that ended), and
so is `RunsApart`: every copy is of one run, and while it is active the exit record
is of no other run. A VM writes the record as it goes down, so this needs that all
active copies name the VM that runs (`ActiveNamed`), for what a `get` holds by
`Timely`.

The refinement maps each action to one of the contract or to a stutter, with one
lemma per kind: `SpawnBoots`, `StartsOnce`, `ShimEnds`, `PublishShows`, `SaveSettles`,
`EndsLeave`, `RecoverReturns`; `QuietSteps` are those the contract does not see, and
`GuardKeeps` shows that the cleanup guard's Failed is one of them. The VM of the
mapping is handled through `VmFits`, that it is the shim that runs if one does,
which is `OneVM` seen from outside. The difficult step is a watcher's save.
It must not make the row forget an exit code it has told, though the copy it writes
is older than the row. `ShownNone` says that a copy that knows no code is written over
a row that knows none; this is preserved by a `get` only because of what it has read
while no handle was cached (`ReadAlike`, `ReadNone`), and by a boot because
Container.Init drops the record before the boot publishes (`RecordDropped`).

`tlapm ReaperProofs.tla` proves, for every set of processes and pids, from
`ReaperAssumption` (the markers for "none" are none of the others):

- `ReaperInvariance`: `Spec => []IInv`, and from it
- `ReaperTypes`: `Spec => []TypeOK`; `StatusIsOwn`: `Spec => []OwnStatus`; `HoldersHear`: `Spec => []NoneStranded`;
  `ActionsStay`: `Spec => []ActionKept`;
- `FenceHolds`: `Spec => []NeverRobbed`, with one more inductive fact, that a
  fenced helper is never in a sweep's reach.

`OwnStatus` alone is not inductive: what a registration is handed depends on
what the slot held. `PidsTrue` says that two processes share a pid only when one
of them is over; `HandTrue` that `spawned_at` precedes the process's own exit,
and that the exit in hand is the only one between `waitpid` and `deliver`;
`SlotsTrue` that a settled slot holds an exit of its own pid and an unsettled
one belongs to a living, registered process; `SpawnersSlot` what a spawner that
has not registered yet will find: nothing, a past owner's slot that its time
tells, or its own exit. From these, `SpawnerFinds` says what `register` and
`on_exit` return and `DeliveryFinds` to whom `deliver` speaks; each action then
has its lemma, with one step per conjunct.

`tlapm ExecRegistryProofs.tla` proves, for all sets of executions, clients and
shutdowns, every load and every cap, from the assumptions on its constants:

- `TypeInvariance`: `Spec => []TypeOK`, with `Placed` (a reserved id is a tenant's,
  a call under way names an execution) beside it;
- `RegistryInvariance`: `Spec => []IInv`, and from it
- `ReleaseInvariance`: `Spec => []ReleasedHoldsNothing`;
- `ShutdownIsComplete`: `Spec => []NoneSurvives`;
- `WaitsAreTold`: `Spec => []WaitsTold`;
- `RetentionIsBounded`: `Spec => RetainedBounded`.

`NoneSurvives` speaks of a moment after everything happened; `ClosersTrue` says
what each step of a shutdown has reached: past its SIGTERMs it names every
session still live, past its SIGKILLs no live session runs, and nobody else takes
a running session out of the table. `RequestsTrue` is about the other side, a
request that has not published: nothing of it is visible, and it was admitted
before the registry closed or will be refused. `WaitsTold` holds because every
answer is read from the verdict (`AnswersTrue`), the verdict from the slot
(`VerdictsTrue`), and a slot is lost only in a shutdown (`SlotsTrue`). `RetainedBounded`
is about a step: one that retains a session and leaves more of them than the cap has
found every other one being read, and so is the new one, or it would be the first
that is evicted. What is retained stays when its readers leave, so no bound of the
number holds at every moment; that the excess goes, by expiry and pruning, is
`ExcessEnds` of `GivenBack`, which TLC checks. That the evicted ones are the least
recently used is `RanksTrue`, an order on the kept sessions.

`tlapm BaseDisksProofs.tla` proves, for all sets of boxes, bases and names, finite
or not, every load, `MaxCalls` and `MaxDepth`, from the assumptions that the markers
for "none" are none of the others:

- `DisksTyped`: `Spec => []TypeOK`, under every fault. That a box with a row has its
  directory needs `StagedApart`, a directory that a clone has staged is in no other
  operation's hands, and `RemovedLast`, a removal begins with the row;
- `ClonesInvariance`: without `race`, `Spec => []ClonesInv`: two clones never make one
  base (`OneBase`), a base in the making has no row until the clone inserts it
  (`FreshBases`), and it has one, with a reference, while clones of it are staged
  (`BoundBases`);
- `BasesNeverUnderfoot`: without `race`, `force`, `base_db` and `crash_clone`,
  `Spec => NeverUnderfoot`;
- `BasesAreCollected`: without `race`, `child`, `base_db` and `crash_clone`,
  `Spec => []BasesCollected`;
- `FilesStayWhole`: where there are finitely many paths (for `Whole` counts them),
  without `race`, `force`, `base_db`, `crash_clone`, `crash_restore`, `child` and
  `retry`, `Spec /\ []Shallow => []FilesWhole`. `Shallow` says that no chain is
  longer than `MAX_BACKING_CHAIN_DEPTH`. `db`, and a crash anywhere else, in the
  middle of a snapshot or a removal for one, are allowed, as in `base_disks`.

`NeverUnderfoot` compares tables with files: a base is deleted when no reference
names it, and the property asks that no chain of files leads to it. Between them
is `EdgesHeld`: every file of a living box, its home and the bases made of its disk,
is built on nothing, on its own home, or on a base the box refers to or is about to.
One edge does not make a chain, for the next file may be another box's. `SourceStays`
says whose: a base that a living box refers to was made of a living box's disk, since
`remove_box` refuses a source with dependents (`Dependents`). So each step down a
living box's chain ends in a living box's file (`WalkStays`), every base on it is
referred to (`ChainsLive`), and what a collection or a sweep takes is not
(`DoomedUnreferred`). For `BasesCollected` every base is accounted for: it has a
reference, a removal that will look at it, or the clone that makes it (`Accounted`);
a removal learns of its bases as it drops their references (`TodoLater`); rows and
files of bases come and go together (`BasesFiled`). Recovery deletes the rows of
remove-on-stop boxes without a look at their references, which is one of the two
ways to leave a removal half done (`torn`); where no box is remove-on-stop, only a
crash inside a removal does.

`FilesWhole` asks that the contents are right as well, to the end of the chain, which
no single edge tells. `FilesInv` adds to `EdgesInv` that some set K of files is
`Sound`, closed under what its files are built on, and that each box finds in K
what it needs at its step (`Kept`: its disk, its listed snapshots, the base of its
clone, what it has staged) and the rest of the directory as its step has left it
(`Ready`: no disk while it is on its way, the marker naming where it went, the name
of a new snapshot free and unlisted). K need not be the same afterwards, and each
action names the next one: a rename moves one path in it, a child adds one, recovery
does both for every box it finds half-way (`RestoredSound`). A file that is dropped
must not be in K. For removals and collections K is first cut down to the files of
living boxes (`KeptLiving`, closed by `EdgesHeld`), so that a removed home or a
collected base is outside it (`HomeApart`, `DoomedApart`). For `SnapDelete` it is cut
down to the files that do not have the snapshot on their chain, which is closed only
if the walk that `Needed` relies on sees the whole chain (`ChainClean`): here, and
nowhere else, `Shallow` is used. That nothing needed is lost by the cut is what the
guard says of the box's disk, its other listed snapshots and all bases, and for
another box it holds because its chain leaves its home only into a base
(`LivingClosed`).

Each hypothesis is a fault under which TLC finds the property violated, and says
what the code relies on: a removal that does not overlap a clone of the same
box, no removal by force, a base whose row and reference are saved, no
crash inside a clone; for the collection also that the COW child is made; for
`FilesWhole` that, no crash inside a restore, and no snapshot under a name whose
file was left behind. `Shallow` is needed as well: with a `MaxDepth` of 1 TLC
finds a snapshot deleted that its disk is built on, because a snapshot that a crash
cut short has left a file between them that no row names. With the code's limit
of 8 that takes eight of them in a row. On `base_disks` `Shallow` holds throughout.

`tlapm` on the four modules of BoxReconciler proves, for every set of passes and
every load (any number of requests and reports, and the faults in any combination,
each at most once):

- `RowsTyped`: the domains of everything that can reach the row;
- `DestroyIsFinal`: `Spec => DestroyStands`. A request to start or stop needs a
  settled row, every writer but the report keeps the desired state, and the
  report changes it on a settled row only;
- `RowIsLawful`: `Spec => []TypeOK`, that is, no writer leaves a pair of states the
  entity's assertion forbids. A pass's target and a handler's outcome are allowed
  for the desired state of the copy they hold, and the write goes through only on
  an unchanged row (`TargetsSound`, `HandlersSound`);
- `OneJobAtATime`: `Spec => []OneAtATime`: one job is incomplete (`IndexUnique`), an
  execution of a job is alone (`OncePerJob`), and while it runs its job is in
  progress (`NoneGivenUp`);
- `DestroyedIsGone`: `Spec => []NothingLeftBehind`. A row or a target that says
  destroyed has it from a destroy job that was completed (`DestroyedIsDone`), and
  after that nothing creates the box (`LeftBehind`): there is one create job,
  because "unknown" is never read again once a pass has submitted it
  (`KnownForGood`);
- `FinalRowIsTrue`: `Spec => []RowIsTrue`, and `AsAsked`: `Spec => OnlyAsAsked`. The
  invariant (`OrderInv`) relates everything to the latest job: the VM is as the
  latest job left it (`VmAsLast`), a row at rest as it was completed (`RowAsLast`),
  passes carry what it says (`PassesAsRow`), and all earlier jobs are completed
  unless it is a destroy (`Abandoned`). It is under `InOrder`, without which
  each of these fails;
- `ErrorsHaveACause`: `Spec => []ErrorHasCause`. When nothing is to blame
  (`Blameless`) each job in progress is carried out and goes well (`NoneFails`), as
  the box is there when a job needs it (`OnlyCreates`, `NothingToDo`,
  `DestroyStarted`), and a box that comes up has its job (`ComesUpByJob`), so that no
  pass infers an impossible state. The exception is a second destroy of a box that
  is gone (`Vain`, `Gone`): the API died between submitting the first and writing
  "destroying". To know that the box is gone then, and stays so, the proof needs that
  it was created once, and this a death of the API can spoil as well, between
  submitting the create and writing "creating". As it dies once it spoils one of
  the two (`OnceEach`, of `MadeOnce` and `DestroyedOnce`; `FaultsOnce`).

### What the attempts showed

An invariant that resisted was, more often than not, wrong of the model, or the
model of the code:

- A report may be refused: `updateState` goes through the entity's assertion, which
  throws for a state the followed desired state does not allow, a box never
  booted that is shown started, for one. `Post` has that guard (`ValidStates` of
  `Followed`), and TLC a load for it.
- A report may complete a stalled job while the runner still executes it, and when
  the state it observed is over: `gave_up` and `overtaken`, under which
  `OneAtATime` is not claimed.
- A handler's write compares columns, so it may meet the row it has read again after
  a stop and a start; a handler held up over a whole request writes "started" on
  a stopped box. The fault `tardy` marks a handler that acts on any but the latest
  job, and `InOrder` excludes it.
- A base id that is used again while a disk still names the file it had: such a disk
  is sound by the letter and built on another's data. `FreeBase` did not exclude it,
  and the chain argument found it. The code draws ids at random.
- The two halves of a step that the code takes with an await or a lock between them
  matter even where one handle, or one pass, is alone: the end of a snapshot's
  bracket and the submission of a destroy looked atomic, and a box revived and a box
  destroyed twice (section 8) are what happens between.
- `Doomed` was a bounded iteration whose result no prover here can use; as the least
  closed set it has the two facts the proofs need by definition. `Walk` stays a
  recursive function, as the bound is the code's; that it exists is proved from its
  least counterexample (`WalkSteps`), without an induction theorem.
- Of BoxLifecycle: `OneLife`, and the two histories with three and four handles in
  section 10; `AbsentAssumption`, that the marker of "no row" is no state.

### Only model-checked

Every liveness property (`CallsReturn`, `Resumed`, `ExitKept`, `NothingStays`,
`ExitHeard`, `CallsAnswered`, `GivenBack`, `RequestsEnd`), for which the prover has
no rules of fairness; the fairness that `HonoursContract` adds to `KeepsContract`; and `Attended`,
`RecoveredTruth`, `Started`, `RowOfOneRun` and `KeepsContract` outside the theorems'
hypotheses. Every safety invariant and every action property of a passing run is
stated by a theorem. The other way round, `base_disks` says less of one thing than
its theorem: no base of it is without a row when the sweep of orphans runs, so that
the sweep takes nothing in use is what `BasesNeverUnderfoot` shows, not the run.

## 10. Limits of the passing runs

Several properties hold only without some call or fault, and the tables of
section 8 are exact about which. What breaks them outside:

- A watcher saves its copy after it dropped the lock, and a dropped handle's
  watcher lives on: if it is delayed over a whole restart, the row of the
  running box says Stopped (`RowNamesVM` and `RowOfOneRun` with
  `drop`). The contract permits that save (`Overwrite`) and looks at the pid of the
  row, not at its status, so `KeepsContract` and `HonoursContract` would notice
  neither it nor a wrong status.
- Two VMs at once, with three handles and three shims: see `OneLife` and section 8.
  `KeepsContract` and `RowNamesVM` fail then.
- A `get` that has read the row is overtaken by two restarts through two other
  handles, and the fourth handle starts from a state two runs old, so that the row
  comes to tell of two runs at once (`RowOfOneRun` with four handles). `Timely` is
  what excludes it.
- A crash or a reboot inside a snapshot leaves a Paused row with its pid; when the
  shim is gone neither recovery nor the reset after a reboot repairs it
  (`KeepsContract` with `quiesce` and `crash` or `reboot`). A `remove` between
  a boot's lock and its spawn leaves a VM of a box that is no more (`KeepsContract`
  with `remove`).
- The signals and the probe of a snapshot's bracket are sent before the state lock is
  taken. With one handle and no stop(), a VM that ends in between is recorded as
  Stopped by the watcher, and the bracket writes Paused or Running over it: an active
  box without a pid and without a watcher (section 8; `PidIffActive` with
  `quiesce`). `Attended` and `Watched` speak of boxes shown with a pid (`ShowsVM`),
  and `removal` claims them without a crash, after which `unwatched_restart` opens the
  same hole; `SpentForever` is about the pid and the live cell, which such a write
  does not touch. stop() inside a snapshot has the same effect: it finds Paused
  and kills nothing, and SIGCONT then writes Running.
- stop() may delete a record the watcher has not read (`ExitKept` and `RowOfOneRun`
  are checked without `stop`, so who of the two records an end first is not in those
  runs).
- A handle reused after a failed adoption (`Started` with crashes, or with `get`: the
  container-start cell is filled before the adoption is certain, and the run of
  `Started` has no adoption). A box booted by attach and never started is
  adopted after a crash as if init had run.
- Two handles with snapshots: the second handle's watcher may see the exit while
  the first writes Running again (`HonoursContract`), and a SIGCONT aimed at the pid
  of one handle leaves the other's bracket to freeze it again (`Resumed`).
- A call may wait in the live cell for as long as a snapshot keeps flipping the
  box between Paused and Running under a pending stop (`CallsReturn` with
  `quiesce`).
- A start racing a `remove` publishes a VM whose row is then deleted; it runs
  until its watchdog pipe closes.
- A pid handed out again between `spawned_at` and the spawn it times would make
  a past owner's exit look like the new process's (`OwnStatus` without `Free`).
- `DisksWhole`, `SnapshotsWhole` or `BasesCollected` fail with the faults of
  BaseDisks that its passing run leaves out. `crash_clone`: the disk has become a
  base and no marker tells recovery to put it back. `crash_restore`: the old disk
  is gone and the new one not made. `child`: as in `lost_disk`, and in a clone or
  a restore. `base_db`: a base without row or reference, which a sweep or a
  removal takes while it is in use, or never. `force`: a source is removed though
  clones depend on it, and its snapshots with it. `race`: remove_box takes no
  `disk_ops`. `retry`: a snapshot under the name of a failed one overwrites its
  file. A crash inside a removal may leave a base without references for ever, and
  recovery's own removal of a remove-on-stop box one with references of nobody
  (`torn`).
- The properties of BoxReconciler name the faults they are not claimed under.
  `NothingLeftBehind` fails with a restarted runner, API or an expired lock: a
  destroy repeats a create that was in progress. `StoppedIsStopped` fails too
  when a report is overtaken or a handler late; `OnlyTheUserStops` when a lock is
  deleted under its holder; `JobsAsTheRowAsks` also when the VM exits or a handler
  is late, which makes a stopped box "started" until the report repairs it;
  `OneAtATime` when the API gives a job up, or completes it for a report that was
  overtaken. Locks are advisory and expire, as the
  repository's schema documentation says; these are the prices.
- `RequestsEnd` is claimed of a start whatever happens, and of a stop or a destroy
  until a job fails or a lock is deleted under its holder: see the last items of
  section 8.
  Destroying a box the runner does not have fails there and ends in error
  (section 8), or, if that failure meets the pass's own write, leaves the row
  "destroying".
- A fault of BoxReconciler happens once in a behaviour, in the runs and in the theorems:
  `ErrorHasCause` says nothing of an API that dies twice.

## 11. Not modelled

Several boxes at once in the lifecycle (names, the orphaned-directory sweep);
health probing; the rootfs, image, network and jailer work of a boot; what
happens inside the guest beyond executions, init and the delivery of exits;
export and import of disks; in the hosted API migration between runners, warm
pools, quotas, usage and runners of version 0; everything the plan lists as
open; and the components the inventory gives little state.

The map covers a small share of the repository's lines. Most of the rest is
command lines, bindings in five languages, protocol stubs, file-tree and image
handling, a VMM's devices and web handlers: code whose correctness is not in its
interleavings.
