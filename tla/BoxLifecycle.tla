---------------------------- MODULE BoxLifecycle ----------------------------
(***************************************************************************)
(* The life of one box in a BoxLite host process: its row in the database, *)
(* the files in its directory, the shim processes that run its VM, and the *)
(* handles (BoxImpl) through which clients start, use, snapshot, stop and  *)
(* remove it, while the host process may exit, crash and recover.          *)
(*                                                                         *)
(* A handle is a BoxImpl: one in-memory copy of the box's state, one       *)
(* OnceCell with the live VM, one cancellation token and one watcher task. *)
(* The operations of a handle are single-flighted by the code itself (the  *)
(* live cell, the container-start cell, the disk_ops mutex), so at most    *)
(* one boot, one stop, one quiesce bracket and one watcher run per handle, *)
(* and every one of them interleaves with those of the other handles.      *)
(* Actions end where the code awaits, takes or drops a lock, or reads      *)
(* state that another task may change.                                     *)
(***************************************************************************)
EXTENDS Naturals, FiniteSets

CONSTANTS
  Handles,       \* identities for BoxImpl instances, each used at most once
  Shims,         \* identities for shim processes (pids), each used at most once
  NoHandle, NoShim, Absent,
  Calls,         \* the API calls the clients of the instance make
  Faults,        \* what may go wrong: subset of FaultKinds
  HasMain,       \* has_user_main_command(): init is a command the user chose
  RemoveOnStop,  \* options.removes_on_stop()
  Detach         \* options.detach

CallKinds == {"start", "exec", "attach", "existing", "quiesce", "stop",
              "get", "drop", "remove", "force_remove", "provision",
              "shutdown", "exit"}
FaultKinds == {"boot", "rpc", "shim", "cancel", "crash", "reboot"}

(* options.sanitize refuses remove-on-stop for a detached box. *)
ASSUME ConstantsAssumption ==
  /\ NoHandle \notin Handles
  /\ NoShim \notin Shims
  /\ Calls \subseteq CallKinds
  /\ Faults \subseteq FaultKinds
  /\ HasMain \in BOOLEAN /\ RemoveOnStop \in BOOLEAN /\ Detach \in BOOLEAN
  /\ ~(RemoveOnStop /\ Detach)

-----------------------------------------------------------------------------
(* BoxStatus and BoxState. The code never writes Stopping or Unknown.      *)
(* Some definitions below follow variants of themselves, each with one     *)
(* slip a change of the code could make. Nothing uses a variant: put in    *)
(* the definition's place it shows which property notices the slip.        *)
(* A pid, a start time and an exit code are named by the shim they came    *)
(* from: exit = p is the code of the run of shim p, started = p the        *)
(* timestamp mark_started took when p was published.                       *)

Status == {"Configured", "Running", "Paused", "Stopped", "Failed"}
ShimOrNone == Shims \cup {NoShim}
BoxState == [status : Status, pid : ShimOrNone, exit : ShimOrNone,
             started : ShimOrNone]
ASSUME AbsentAssumption == Absent \notin BoxState

IsActive(s) == s \in {"Running", "Paused"}
CanStart(s) == s \in {"Configured", "Stopped", "Failed"}
CanExec(s) == s \in {"Configured", "Running", "Stopped"}

NewState == [status |-> "Configured", pid |-> NoShim, exit |-> NoShim,
             started |-> NoShim]
MarkStopUncommitted(b) == [b EXCEPT !.status = "Stopping", !.pid = NoShim]
MarkStopKeepingPid(b) == [b EXCEPT !.status = "Stopped"]
MarkStop(b) == [b EXCEPT !.status = "Stopped", !.pid = NoShim]
MarkFailed(b) == [b EXCEPT !.status = "Failed", !.pid = NoShim]
ForceStatus(b, s) == [b EXCEPT !.status = s]
AdoptRecoveredShim(b, p) ==
  [b EXCEPT !.status = "Running", !.pid = p,
            !.started = IF b.pid = p THEN b.started ELSE NoShim]
ResetForReboot(b) ==
  [b EXCEPT !.status = IF IsActive(b.status) THEN "Stopped" ELSE b.status,
            !.pid = NoShim]
(* What init_live_state writes when a box comes up on shim p. *)
PublishWithOldExit(b, p, adopting) ==
  [b EXCEPT !.status = "Running", !.pid = p,
            !.started = IF adopting THEN b.started ELSE p]
PublishRunning(b, p, adopting) ==
  [b EXCEPT !.status = "Running", !.pid = p, !.exit = NoShim,
            !.started = IF adopting THEN b.started ELSE p]

-----------------------------------------------------------------------------
VARIABLES
  \* the database row of the box, and whether the box was ever created
  row, created,
  \* its directory: shim.pid, the guest's exit record, the shim's crash report
  pidfile, record, crash,
  \* processes: the state of each shim, the shims whose container's init has
  \* been run, the handle that spawned each shim (NoHandle once the process of
  \* that handle is gone), and the shims whose watchdog pipe is still open
  shim, ran, spawner, keep,
  \* the host process: its phase, the handle cache, the row each get() that is
  \* between its two halves has read, the holder of the box's file lock, a
  \* remove_box past its checks
  runtime, cache, getter, flock, removing,
  \* handles: whether clients hold them, BoxState, shutdown token, live cell,
  \* container-start cell, and the calls waiting in the live cell
  held, mem, token, live, cstart, gate,
  \* what each handle has in flight
  boot, stop, quiesce, watch

diskVars == <<row, created, pidfile, record, crash>>
procVars == <<shim, ran, spawner, keep>>
hostVars == <<runtime, cache, getter, flock, removing>>
handleVars == <<held, mem, token, live, cstart, gate>>
taskVars == <<boot, stop, quiesce, watch>>
vars == <<diskVars, procVars, hostVars, handleVars, taskVars>>

Requests == {"start", "exec", "attach", "existing", "quiesce", "stop"}
BootPc == {"idle", "locking", "attach", "spawn", "connect", "publish",
           "finish", "failing"}
Plans == {"fresh", "adopt", "none"}
StopPc == {"idle", "attach", "wait", "kill", "clean", "record", "finish",
           "remove"}
QuiescePc == {"idle", "freeze", "signal", "pausing", "paused", "probing",
              "resuming"}
WatchPc == {"none", "armed", "exited", "save", "tail", "remove", "done"}

BootState == [pc : BootPc, by : Requests, plan : Plans, shim : ShimOrNone]
QuiesceState == [pc : QuiescePc, pid : ShimOrNone]
WatchState == [pc : WatchPc, pid : ShimOrNone, snapshot : BoxState]

NoBoot == [pc |-> "idle", by |-> "start", plan |-> "none", shim |-> NoShim]
NoQuiesce == [pc |-> "idle", pid |-> NoShim]
NoWatch == [pc |-> "none", pid |-> NoShim, snapshot |-> NewState]

TypeOK ==
  /\ row \in BoxState \cup {Absent}
  /\ created \in BOOLEAN
  /\ pidfile \in ShimOrNone /\ record \in ShimOrNone /\ crash \in ShimOrNone
  /\ shim \in [Shims -> {"unborn", "live", "frozen", "zombie", "dead"}]
  /\ ran \subseteq Shims
  /\ spawner \in [Shims -> Handles \cup {NoHandle}]
  /\ keep \subseteq Shims
  /\ runtime \in {"up", "closing", "down", "rebooted"}
  /\ cache \in Handles \cup {NoHandle}
  /\ getter \in [Handles -> BoxState \cup {Absent}]
  /\ flock \in Handles \cup {NoHandle}
  /\ removing \in BOOLEAN
  /\ held \in [Handles -> {"unborn", "held", "dropped"}]
  /\ mem \in [Handles -> BoxState]
  /\ token \in [Handles -> BOOLEAN]
  /\ live \in [Handles -> ShimOrNone]
  /\ cstart \in [Handles -> {"empty", "wanted", "done"}]
  /\ gate \in [Handles -> SUBSET Requests]
  /\ boot \in [Handles -> BootState]
  /\ stop \in [Handles -> StopPc]
  /\ quiesce \in [Handles -> QuiesceState]
  /\ watch \in [Handles -> WatchState]

Init ==
  /\ row = Absent /\ created = FALSE
  /\ pidfile = NoShim /\ record = NoShim /\ crash = NoShim
  /\ shim = [p \in Shims |-> "unborn"]
  /\ ran = {}
  /\ spawner = [p \in Shims |-> NoHandle]
  /\ keep = {}
  /\ runtime = "up" /\ cache = NoHandle
  /\ getter = [h \in Handles |-> Absent]
  /\ flock = NoHandle /\ removing = FALSE
  /\ held = [h \in Handles |-> "unborn"]
  /\ mem = [h \in Handles |-> NewState]
  /\ token = [h \in Handles |-> FALSE]
  /\ live = [h \in Handles |-> NoShim]
  /\ cstart = [h \in Handles |-> "empty"]
  /\ gate = [h \in Handles |-> {}]
  /\ boot = [h \in Handles |-> NoBoot]
  /\ stop = [h \in Handles |-> "idle"]
  /\ quiesce = [h \in Handles |-> NoQuiesce]
  /\ watch = [h \in Handles |-> NoWatch]

-----------------------------------------------------------------------------
(* Helpers shared by several operations. *)

IsHeld(h) == held[h] = "held"
Idle(h) == /\ gate[h] = {} /\ boot[h].pc = "idle" /\ stop[h] = "idle"
           /\ quiesce[h].pc = "idle" /\ cstart[h] # "wanted"
Cached == IF cache # NoHandle /\ held[cache] = "held" THEN cache ELSE NoHandle

(* util::is_process_alive: a stopped process is alive, a zombie is not. *)
Alive(p) == p # NoShim /\ shim[p] \in {"live", "frozen"}
(* kill(pid, 0) == 0 also holds for a zombie nobody has reaped. *)
Signalable(p) == shim[p] \in {"live", "frozen", "zombie"}
(* A shim that exits by itself stays a zombie while its spawner may reap it. *)
Exit(p) == shim' = [shim EXCEPT ![p] = IF spawner[p] = NoHandle THEN "dead"
                                       ELSE "zombie"]
(* The guest records init's exit code when it goes down in good order. *)
MayRecord(p) == record' \in IF shim[p] = "live" /\ p \in ran
                            THEN {record, p} ELSE {record}
(* ShimHandler::stop: SIGTERM, wait, SIGKILL, reap. The guest may get to
   write its record on the way down. *)
Teardown(p) ==
  IF p = NoShim THEN UNCHANGED <<shim, record>>
  ELSE /\ shim' = [shim EXCEPT ![p] = "dead"]
       /\ MayRecord(p)

(* record_main_command_exit *)
StopWithoutExit(b) == MarkStop(b)
RecordMainCommandExit(b) ==
  MarkStop([b EXCEPT !.exit = IF record = NoShim THEN @ ELSE record])

(* BoxManager::save_box: an UPDATE that finds no row changes nothing. *)
SaveOrInsert(b) == row' = b
Save(b) == row' = IF row = Absent THEN Absent ELSE b

(* BoxImpl::arm_watcher on a handle whose state is b: once per handle, and
   only for a Running box. *)
ArmedByOldState(h, b) ==
  IF watch[h].pc = "none" /\ mem[h].status = "Running" /\ b.pid # NoShim
  THEN [watch EXCEPT ![h] = [NoWatch EXCEPT !.pc = "armed", !.pid = b.pid]]
  ELSE watch
Armed(h, b) ==
  IF watch[h].pc = "none" /\ b.status = "Running" /\ b.pid # NoShim
  THEN [watch EXCEPT ![h] = [NoWatch EXCEPT !.pc = "armed", !.pid = b.pid]]
  ELSE watch

(* get_or_create_box_impl inserting a new handle over the row it was given. *)
NewHandle(h, b) ==
  /\ held[h] = "unborn"
  /\ held' = [held EXCEPT ![h] = "held"]
  /\ mem' = [mem EXCEPT ![h] = b]
  /\ token' = [token EXCEPT ![h] = (runtime = "closing")]
  /\ watch' = Armed(h, b)
  /\ cache' = h

-----------------------------------------------------------------------------
(* Handing out handles. *)

(* create_inner: persist the row as Configured, then cache a handle. *)
Create(h) ==
  /\ runtime = "up" /\ ~created
  /\ row' = NewState /\ created' = TRUE
  /\ NewHandle(h, NewState)
  /\ UNCHANGED <<pidfile, record, crash, procVars, runtime, getter, flock,
                 removing, live, cstart, gate, boot, stop, quiesce>>

(* provision_box: a clone or an import enters as Stopped. *)
Provision ==
  /\ "provision" \in Calls /\ runtime = "up" /\ ~created
  /\ row' = MarkStop(NewState) /\ created' = TRUE
  /\ UNCHANGED <<pidfile, record, crash, procVars, hostVars, handleVars,
                 taskVars>>

(* get with no live handle cached: the row is read on a blocking thread ... *)
GetRead(h) ==
  /\ "get" \in Calls /\ runtime \in {"up", "closing"}
  /\ Cached = NoHandle /\ row # Absent
  /\ held[h] = "unborn" /\ getter[h] = Absent
  /\ getter' = [getter EXCEPT ![h] = row]
  /\ UNCHANGED <<diskVars, procVars, runtime, cache, flock, removing,
                 handleVars, taskVars>>

(* ... and used under the cache lock, which another get may have taken first:
   then that one's handle is returned. A handout arms the handle's watcher,
   which for a handle already cached has been done when it became Running. *)
GetCreate(h) ==
  /\ getter[h] # Absent
  /\ getter' = [getter EXCEPT ![h] = Absent]
  /\ IF Cached = NoHandle
     THEN NewHandle(h, getter[h]) /\ UNCHANGED <<live, cstart, gate>>
     ELSE /\ watch' = Armed(cache, mem[cache])
          /\ UNCHANGED <<cache, handleVars>>
  /\ UNCHANGED <<diskVars, procVars, runtime, flock, removing, boot, stop,
                 quiesce>>

(* The watchdog pipes still held open without handle h. *)
PipesLeaked(h) == keep
PipesWithout(h) == keep \ {live[h]}

(* The last reference to an idle handle goes: LiveState drops with it, and
   with LiveState the watchdog pipe of the shim it spawned. The watcher task
   owns its own copy of the state and stays. *)
DropHandle(h) ==
  /\ "drop" \in Calls /\ IsHeld(h) /\ Idle(h)
  /\ held' = [held EXCEPT ![h] = "dropped"]
  /\ live' = [live EXCEPT ![h] = NoShim]
  /\ keep' = PipesWithout(h)
  /\ UNCHANGED <<diskVars, shim, ran, spawner, hostVars, mem, token, cstart,
                 gate, taskVars>>

-----------------------------------------------------------------------------
(* Calls that need a live VM. Each checks the handle's state and either uses
   the live cell or joins the callers waiting in it. *)

(* The status checks of start, exec, attach and existing_live_state. Only the
   first two go on to run the container's init. *)
Admitted(r, b) ==
  CASE r = "start" -> b.status = "Running" \/ CanStart(b.status)
    [] r = "exec" -> b.status = "Running" \/ (CanExec(b.status) /\ ~HasMain)
    [] r = "attach" -> b.status \in {"Configured", "Running", "Paused"}
    [] r = "existing" -> b.status = "Running"
StartsInit(r) == r \in {"start", "exec", "quiesce"}

(* Only an empty live cell runs an init closure. *)
CellAlwaysEmpty(h) == TRUE
CellEmpty(h) == live[h] = NoShim

(* With the cell empty the call waits in get_or_try_init; with it full and the
   box Running it goes straight to the container-start cell; a full cell on a
   box that is not Running is a spent handle, and the call fails. *)
Request(h, r) ==
  /\ r \in Calls \cap {"start", "exec", "attach", "existing"}
  /\ IsHeld(h) /\ ~token[h] /\ r \notin gate[h]
  /\ Admitted(r, mem[h])
  /\ \/ /\ CellEmpty(h)
        /\ gate' = [gate EXCEPT ![h] = @ \cup {r}]
        /\ UNCHANGED cstart
     \/ /\ ~CellEmpty(h) /\ mem[h].status = "Running"
        /\ StartsInit(r) /\ cstart[h] = "empty"
        /\ cstart' = [cstart EXCEPT ![h] = "wanted"]
        /\ UNCHANGED gate
  /\ UNCHANGED <<diskVars, procVars, hostVars, held, mem, token, live, taskVars>>

(* Container.Start on the guest, which runs init unless it is running. *)
ContainerStart(h) ==
  /\ cstart[h] = "wanted" /\ shim[live[h]] = "live"
  /\ ran' = ran \cup {live[h]}
  /\ cstart' = [cstart EXCEPT ![h] = "done"]
  /\ UNCHANGED <<diskVars, shim, spawner, keep, hostVars, held, mem, token,
                 live, gate, taskVars>>

FailedStartKept == "done"
FailedStart == "empty"

(* Cancellation or an RPC error leaves the container-start cell empty, though
   the guest may have done its part. *)
ContainerStartFails(h) ==
  /\ cstart[h] = "wanted"
  /\ token[h] \/ shim[live[h]] # "live" \/ "rpc" \in Faults
  /\ ran' \in IF shim[live[h]] = "live" THEN {ran, ran \cup {live[h]}} ELSE {ran}
  /\ cstart' = [cstart EXCEPT ![h] = FailedStart]
  /\ UNCHANGED <<diskVars, shim, spawner, keep, hostVars, held, mem, token,
                 live, gate, taskVars>>

-----------------------------------------------------------------------------
(* Booting: init_live_state, run by one of the callers in the live cell. *)

BootSet(h, pc) == boot' = [boot EXCEPT ![h].pc = pc]

(* The end of an init closure: the file lock is released, and the live cell
   hands its result to every caller (success) or to the one that ran it
   (failure), while the others stay to try themselves. *)
ServedCaller(h) == {boot[h].by}
Served(h) == gate[h]
BootEnds(h, served, stopsAt) ==
  /\ boot' = [boot EXCEPT ![h] = NoBoot]
  /\ flock' = IF flock = h THEN NoHandle ELSE flock
  /\ gate' = [gate EXCEPT ![h] = @ \ served]
  /\ stop' = IF "stop" \notin served THEN stop
             ELSE [stop EXCEPT ![h] = stopsAt]
  /\ quiesce' = IF "quiesce" \notin served THEN quiesce
                ELSE [quiesce EXCEPT ![h].pc = "signal"]
BootSucceeds(h) == BootEnds(h, Served(h), "kill")
BootFails(h) == BootEnds(h, {boot[h].by}, "clean")

(* get_execution_plan *)
ExecutionPlan(s) == CASE CanStart(s) -> "fresh"
                      [] s = "Running" -> "adopt"
                      [] OTHER -> "none"

(* The closure clones the state: its status picks the execution plan. A call
   that must not start a VM (existing_live_state) gives up here. *)
BootRead(h, r) ==
  /\ boot[h].pc = "idle" /\ CellEmpty(h) /\ r \in gate[h]
  /\ \/ /\ r # "existing" \/ mem[h].status = "Running"
        /\ boot' = [boot EXCEPT ![h] =
             [pc |-> "locking", by |-> r, shim |-> NoShim,
              plan |-> ExecutionPlan(mem[h].status)]]
        /\ UNCHANGED <<gate>>
     \/ /\ r = "existing" /\ mem[h].status # "Running"
        /\ gate' = [gate EXCEPT ![h] = @ \ {r}]
        /\ UNCHANGED boot
  /\ UNCHANGED <<diskVars, procVars, hostVars, held, mem, token, live, cstart,
                 stop, quiesce, watch>>

(* The file lock, then the row for its outbound policy: no row, no boot. A
   status without a plan fails under an armed cleanup guard. *)
BootLock(h) ==
  /\ boot[h].pc = "locking" /\ flock = NoHandle
  /\ \/ /\ row # Absent
        /\ flock' = h
        /\ BootSet(h, CASE boot[h].plan = "adopt" -> "attach"
                        [] boot[h].plan = "fresh" -> "spawn"
                        [] OTHER -> "failing")
        /\ UNCHANGED <<gate, stop, quiesce>>
     \/ /\ row = Absent
        /\ BootFails(h)
  /\ UNCHANGED <<diskVars, procVars, runtime, cache, getter, removing, held,
                 mem, token, live, cstart, watch>>

(* vmm_attach: the process the PID file names must be alive. *)
BootAttach(h) ==
  /\ boot[h].pc = "attach"
  /\ \/ /\ Alive(pidfile)
        /\ boot' = [boot EXCEPT ![h].pc = "connect", ![h].shim = pidfile]
        /\ crash' = NoShim
        /\ UNCHANGED <<flock, gate, stop, quiesce>>
     \/ /\ ~Alive(pidfile)
        /\ BootFails(h)
        /\ UNCHANGED crash
  /\ UNCHANGED <<row, created, pidfile, record, procVars, runtime, cache,
                 getter, removing, held, mem, token, live, cstart, watch>>

(* filesystem, rootfs and vmm_spawn: the new shim writes the PID file itself
   before it executes. *)
BootSpawn(h) ==
  /\ boot[h].pc = "spawn"
  /\ \E p \in Shims :
       /\ shim[p] = "unborn"
       /\ shim' = [shim EXCEPT ![p] = "live"]
       /\ spawner' = [spawner EXCEPT ![p] = h]
       /\ keep' = IF Detach THEN keep ELSE keep \cup {p}
       /\ pidfile' = p
       /\ boot' = [boot EXCEPT ![h].pc = "connect", ![h].shim = p]
  /\ UNCHANGED <<row, created, record, crash, ran, hostVars, handleVars,
                 stop, quiesce, watch>>

(* Adopting fills the container-start cell, since the adopted box is taken to
   have run its init. *)
StartCellUnset(h, adopting) == cstart[h]
StartCell(h, adopting) == IF adopting THEN "done" ELSE cstart[h]

(* guest_connect, which waits for the guest of a fresh boot only, and on a
   fresh boot guest_init: Container.Init drops the exit record of the previous
   run. *)
BootConnect(h) ==
  /\ boot[h].pc = "connect"
  /\ boot[h].plan = "adopt" \/ shim[boot[h].shim] = "live"
  /\ BootSet(h, "publish")
  /\ cstart' = [cstart EXCEPT ![h] = StartCell(h, boot[h].plan = "adopt")]
  /\ record' = IF boot[h].plan = "adopt" THEN record ELSE NoShim
  /\ UNCHANGED <<row, created, pidfile, crash, procVars, hostVars, held, mem,
                 token, live, gate, stop, quiesce, watch>>

(* A step of the pipeline fails: no answer from the guest, an error, or the
   caller's future is dropped. An adopting boot leaves the VM alone; a fresh
   one tears down what it spawned. *)
BootFail(h) ==
  /\ boot[h].pc \in {"attach", "spawn", "connect"}
  /\ \/ "boot" \in Faults
     \/ /\ boot[h].pc = "connect" /\ boot[h].plan # "adopt"
        /\ shim[boot[h].shim] # "live"
     \/ boot[h].pc = "spawn" /\ \A p \in Shims : shim[p] # "unborn"
  /\ IF boot[h].plan = "adopt"
     THEN BootFails(h) /\ UNCHANGED <<shim, record>>
     ELSE /\ Teardown(boot[h].shim)
          /\ BootSet(h, "failing")
          /\ UNCHANGED <<flock, gate, stop, quiesce>>
  /\ UNCHANGED <<row, created, pidfile, crash, ran, spawner, keep, runtime,
                 cache, getter, removing, held, mem, token, live, cstart,
                 watch>>

(* CleanupGuard::drop: the row, not the handle, becomes Failed. *)
BootGuard(h) ==
  /\ boot[h].pc = "failing"
  /\ row' = IF row = Absent THEN Absent ELSE MarkFailed(row)
  /\ BootFails(h)
  /\ UNCHANGED <<created, pidfile, record, crash, procVars, runtime, cache,
                 getter, removing, held, mem, token, live, cstart, watch>>

(* The pid is read back from the PID file and published, with the status, in
   memory and in the row, and the watcher is armed, all under the state lock.
   A fresh boot that fails here no longer has its handler in the guard: only
   the dropped watchdog pipe can still end its shim. *)
BootPublish(h) ==
  LET adopting == boot[h].plan = "adopt"
      b == PublishRunning(mem[h], pidfile, adopting)
      Refused == pidfile = NoShim \/ (adopting /\ mem[h].status # "Running")
      GiveUp == IF adopting
                THEN BootFails(h) /\ UNCHANGED keep
                ELSE /\ BootSet(h, "failing")
                     /\ keep' = keep \ {boot[h].shim}
                     /\ UNCHANGED <<flock, gate, stop, quiesce>>
  IN
  /\ boot[h].pc = "publish"
  /\ \/ /\ Refused
        /\ GiveUp
        /\ UNCHANGED <<row, mem, watch>>
     \/ /\ ~Refused
        /\ mem' = [mem EXCEPT ![h] = b]
        /\ IF row = Absent
           THEN GiveUp /\ UNCHANGED <<row, watch>>
           ELSE /\ row' = b
                /\ watch' = Armed(h, b)
                /\ BootSet(h, "finish")
                /\ UNCHANGED <<keep, flock, gate, stop, quiesce>>
  /\ UNCHANGED <<created, pidfile, record, crash, shim, ran, spawner,
                 runtime, cache, getter, removing, held, token, live, cstart>>

(* The crash report left by an earlier run is stashed, the lock released and
   the live cell filled; callers that need init running move on to start it. *)
BootFinish(h) ==
  /\ boot[h].pc = "finish"
  /\ crash' = NoShim
  /\ live' = [live EXCEPT ![h] = boot[h].shim]
  /\ cstart' = IF cstart[h] = "empty" /\ \E r \in gate[h] : StartsInit(r)
               THEN [cstart EXCEPT ![h] = "wanted"] ELSE cstart
  /\ BootSucceeds(h)
  /\ UNCHANGED <<row, created, pidfile, record, procVars, runtime, cache,
                 getter, removing, held, mem, token, watch>>

-----------------------------------------------------------------------------
(* Stopping. *)

(* stop() on a handle not already Stopped: abort the watcher, which only
   takes effect at its await, and cancel the token. *)
StopBegin(h) ==
  /\ "stop" \in Calls \/ (runtime = "closing" /\ h = cache /\ ~Detach)
  /\ IsHeld(h) /\ stop[h] = "idle" /\ mem[h].status # "Stopped"
  /\ stop' = [stop EXCEPT ![h] = "attach"]
  /\ token' = [token EXCEPT ![h] = TRUE]
  /\ watch' = IF watch[h].pc = "armed"
              THEN [watch EXCEPT ![h] = [NoWatch EXCEPT !.pc = "done"]]
              ELSE watch
  /\ UNCHANGED <<diskVars, procVars, hostVars, held, mem, live, cstart, gate,
                 boot, quiesce>>

(* A Running box is attached to, if this handle has not done so, in order to
   shut its guest down. *)
StopAttach(h) ==
  /\ stop[h] = "attach"
  /\ LET running == mem[h].status = "Running" IN
     /\ stop' = [stop EXCEPT ![h] =
          IF ~running THEN "clean" ELSE IF live[h] = NoShim THEN "wait" ELSE "kill"]
     /\ gate' = IF running /\ live[h] = NoShim
                THEN [gate EXCEPT ![h] = @ \cup {"stop"}] ELSE gate
  /\ UNCHANGED <<diskVars, procVars, hostVars, held, mem, token, live, cstart,
                 boot, quiesce, watch>>

(* Guest shutdown and handler.stop(). *)
StopKill(h) ==
  /\ stop[h] = "kill"
  /\ Teardown(live[h])
  /\ stop' = [stop EXCEPT ![h] = "clean"]
  /\ UNCHANGED <<row, created, pidfile, crash, ran, spawner, keep, hostVars,
                 handleVars, boot, quiesce, watch>>

(* Runtime shutdown stops waiting for the guest: the stop future is dropped. *)
StopAbandon(h) ==
  /\ stop[h] = "kill" /\ runtime = "closing" /\ "cancel" \in Faults
  /\ stop' = [stop EXCEPT ![h] = "idle"]
  /\ UNCHANGED <<diskVars, procVars, hostVars, handleVars, boot, quiesce, watch>>

StopClean(h) ==
  /\ stop[h] = "clean"
  /\ pidfile' = NoShim
  /\ stop' = [stop EXCEPT ![h] = "record"]
  /\ UNCHANGED <<row, created, record, crash, procVars, hostVars, handleVars,
                 boot, quiesce, watch>>

(* A box that never booted stays Configured; any other becomes Stopped. The
   row is written under the state lock; with no row, stop() returns here. *)
StopRecord(h) ==
  LET b == IF mem[h].status = "Configured" THEN mem[h]
           ELSE RecordMainCommandExit(mem[h])
  IN
  /\ stop[h] = "record"
  /\ mem' = [mem EXCEPT ![h] = b]
  /\ Save(b)
  /\ stop' = [stop EXCEPT ![h] = IF row = Absent THEN "idle" ELSE "finish"]
  /\ UNCHANGED <<created, pidfile, record, crash, procVars, hostVars, held,
                 token, live, cstart, gate, boot, quiesce, watch>>

(* invalidate_box_impl drops whatever handle is cached for the box. *)
StopFinish(h) ==
  /\ stop[h] = "finish"
  /\ cache' = NoHandle
  /\ stop' = [stop EXCEPT ![h] = IF RemoveOnStop THEN "remove" ELSE "idle"]
  /\ UNCHANGED <<diskVars, procVars, runtime, getter, flock, removing,
                 handleVars, boot, quiesce, watch>>

-----------------------------------------------------------------------------
(* Removing: remove_box, called by clients, by stop() and by the watcher. It
   holds no lock over its two halves; one at a time suffices, as the second
   of two finds the row gone. *)

(* Half one reads the row. A box that looks alive is refused, or, with force,
   the process of its row is torn down and the row saved as Stopped. *)
RemoveChecked(force) ==
  IF ~IsActive(row.status) /\ row.pid = NoShim
  THEN /\ removing' = TRUE
       /\ UNCHANGED <<row, shim, record>>
  ELSE IF force
  THEN /\ Teardown(row.pid)
       /\ row' = MarkStop(row)
       /\ removing' = TRUE
  ELSE UNCHANGED <<row, shim, record, removing>>

Remove(force) ==
  /\ runtime \in {"up", "closing"}
  /\ (IF force THEN "force_remove" ELSE "remove") \in Calls
  /\ ~removing /\ row # Absent
  /\ RemoveChecked(force)
  /\ UNCHANGED <<created, pidfile, crash, ran, spawner, keep, runtime, cache,
                 getter, flock, handleVars, taskVars>>

(* Half two deletes the row, the disks and the directory with its PID file
   and exit records, and drops the cached handle. *)
RemoveCommit ==
  /\ removing
  /\ row' = Absent
  /\ pidfile' = NoShim /\ record' = NoShim /\ crash' = NoShim
  /\ cache' = NoHandle
  /\ removing' = FALSE
  /\ UNCHANGED <<created, procVars, runtime, getter, flock, handleVars, taskVars>>

(* remove_box on a box that is only in memory: a handle made from a row that
   was deleted meanwhile. *)
RemoveInMemory ==
  /\ runtime \in {"up", "closing"}
  /\ row = Absent /\ Cached # NoHandle
  /\ \/ "force_remove" \in Calls
     \/ "remove" \in Calls /\ ~IsActive(mem[Cached].status)
  /\ cache' = NoHandle
  /\ pidfile' = NoShim /\ record' = NoShim /\ crash' = NoShim
  /\ UNCHANGED <<row, created, procVars, runtime, getter, flock, removing,
                 handleVars, taskVars>>

(* The remove-on-stop policy at the end of stop(). *)
StopRemove(h) ==
  /\ stop[h] = "remove" /\ ~removing
  /\ stop' = [stop EXCEPT ![h] = "idle"]
  /\ IF row = Absent THEN UNCHANGED <<row, shim, record, removing>>
     ELSE RemoveChecked(FALSE)
  /\ UNCHANGED <<created, pidfile, crash, ran, spawner, keep, runtime, cache,
                 getter, flock, handleVars, boot, quiesce, watch>>

-----------------------------------------------------------------------------
(* The watcher task: BoxWatcher::run and on_shim_exit. *)

WatchSet(h, pc) ==
  watch' = [watch EXCEPT ![h] = IF pc = "done" THEN [NoWatch EXCEPT !.pc = pc]
                                ELSE [@ EXCEPT !.pc = pc]]

WatchStandDown(h) ==
  /\ watch[h].pc = "armed" /\ token[h]
  /\ WatchSet(h, "done")
  /\ UNCHANGED <<diskVars, procVars, hostVars, handleVars, boot, stop, quiesce>>

(* wait_for_exit polls, and reaps a child. From here on the task does not
   await, so neither an abort nor the token stops it. *)
WatchExit(h) ==
  /\ watch[h].pc = "armed" /\ ~Alive(watch[h].pid)
  /\ shim' = [shim EXCEPT ![watch[h].pid] = IF @ = "zombie" THEN "dead" ELSE @]
  /\ WatchSet(h, "exited")
  /\ UNCHANGED <<diskVars, ran, spawner, keep, hostVars, handleVars, boot,
                 stop, quiesce>>

(* Under the state lock: an active box is stopped with its exit code; a box
   somebody else stopped without one gets the code filled in. *)
WatchRecord(h) ==
  LET b == mem[h]
      fill == ~IsActive(b.status) /\ b.exit = NoShim /\ record # NoShim
      seen == IF fill THEN [b EXCEPT !.exit = record]
              ELSE RecordMainCommandExit(b)
  IN
  /\ watch[h].pc = "exited"
  /\ \/ /\ IsActive(b.status) \/ fill
        /\ mem' = [mem EXCEPT ![h] = seen]
        /\ watch' = [watch EXCEPT ![h] = [pc |-> "save", pid |-> NoShim,
                                         snapshot |-> seen]]
     \/ /\ ~IsActive(b.status) /\ ~fill
        /\ WatchSet(h, "done")
        /\ UNCHANGED mem
  /\ UNCHANGED <<diskVars, procVars, hostVars, held, token, live, cstart, gate,
                 boot, stop, quiesce>>

(* The snapshot is persisted after the state lock is dropped. *)
WatchSave(h) ==
  /\ watch[h].pc = "save"
  /\ Save(watch[h].snapshot)
  /\ watch' = [watch EXCEPT ![h] = [NoWatch EXCEPT !.pc = "tail"]]
  /\ UNCHANGED <<created, pidfile, record, crash, procVars, hostVars,
                 handleVars, boot, stop, quiesce>>

AfterExit == IF RemoveOnStop THEN "remove" ELSE "done"
WatchTail(h) ==
  /\ watch[h].pc = "tail"
  /\ cache' = NoHandle
  /\ WatchSet(h, AfterExit)
  /\ UNCHANGED <<diskVars, procVars, runtime, getter, flock, removing,
                 handleVars, boot, stop, quiesce>>

WatchRemove(h) ==
  /\ watch[h].pc = "remove" /\ ~removing
  /\ WatchSet(h, "done")
  /\ IF row = Absent THEN UNCHANGED <<row, shim, record, removing>>
     ELSE RemoveChecked(FALSE)
  /\ UNCHANGED <<created, pidfile, crash, ran, spawner, keep, runtime, cache,
                 getter, flock, handleVars, boot, stop, quiesce>>

-----------------------------------------------------------------------------
(* The quiesce bracket around a snapshot, clone or export. *)

(* A Running box is frozen by pid; any other is copied without a bracket. *)
QuiesceBegin(h) ==
  /\ "quiesce" \in Calls /\ IsHeld(h) /\ quiesce[h].pc = "idle"
  /\ mem[h].status = "Running" /\ mem[h].pid # NoShim
  /\ quiesce' = [quiesce EXCEPT ![h] =
       [pc |-> IF live[h] = NoShim THEN "freeze" ELSE "signal",
        pid |-> mem[h].pid]]
  /\ gate' = IF live[h] = NoShim
             THEN [gate EXCEPT ![h] = @ \cup {"quiesce"}] ELSE gate
  /\ cstart' = IF live[h] # NoShim /\ cstart[h] = "empty"
               THEN [cstart EXCEPT ![h] = "wanted"] ELSE cstart
  /\ UNCHANGED <<diskVars, procVars, hostVars, held, mem, token, live, boot,
                 stop, watch>>

QuiesceSet(h, pc) == quiesce' = [quiesce EXCEPT ![h].pc = pc]

(* SIGSTOP; it fails only on a process that is gone. A zombie takes it. *)
QuiesceStop(h) ==
  LET p == quiesce[h].pid IN
  /\ quiesce[h].pc = "signal" /\ cstart[h] # "wanted"
  /\ \/ /\ Signalable(p)
        /\ shim' = [shim EXCEPT ![p] = IF @ = "live" THEN "frozen" ELSE @]
        /\ QuiesceSet(h, "pausing")
     \/ /\ ~Signalable(p)
        /\ quiesce' = [quiesce EXCEPT ![h] = NoQuiesce]
        /\ UNCHANGED shim
  /\ UNCHANGED <<diskVars, ran, spawner, keep, hostVars, handleVars, boot, stop,
                 watch>>

(* The status is written under the state lock, taken after the signal: what
   the watcher or a stop() recorded meanwhile is overwritten. *)
QuiesceWrites(h, s) ==
  /\ mem' = [mem EXCEPT ![h] = ForceStatus(@, s)]
  /\ Save(ForceStatus(mem[h], s))
  /\ UNCHANGED <<created, pidfile, record, crash, procVars, hostVars, held,
                 token, live, cstart, gate, boot, stop, watch>>

QuiescePause(h) ==
  /\ quiesce[h].pc = "pausing"
  /\ QuiesceWrites(h, "Paused")
  /\ QuiesceSet(h, "paused")

(* What SIGCONT makes of a process in state s. *)
StillStopped(s) == s
Continued(s) == IF s = "frozen" THEN "live" ELSE s

(* SIGCONT ... *)
QuiesceCont(h) ==
  /\ quiesce[h].pc = "paused"
  /\ shim' = [shim EXCEPT ![quiesce[h].pid] = Continued(@)]
  /\ QuiesceSet(h, "probing")
  /\ UNCHANGED <<diskVars, ran, spawner, keep, hostVars, handleVars, boot, stop,
                 watch>>

(* ... then kill(pid, 0), and Running again if the pid still took that. *)
QuiesceProbe(h) ==
  /\ quiesce[h].pc = "probing"
  /\ quiesce' = [quiesce EXCEPT ![h] = IF Signalable(@.pid)
                                      THEN [@ EXCEPT !.pc = "resuming"]
                                      ELSE NoQuiesce]
  /\ UNCHANGED <<diskVars, procVars, hostVars, handleVars, boot, stop, watch>>

QuiesceResume(h) ==
  /\ quiesce[h].pc = "resuming"
  /\ QuiesceWrites(h, "Running")
  /\ quiesce' = [quiesce EXCEPT ![h] = NoQuiesce]

(* The caller drops an export while its disks are being flattened: nothing in
   the bracket runs on drop. *)
QuiesceAbandon(h) ==
  /\ "cancel" \in Faults /\ quiesce[h].pc = "paused"
  /\ quiesce' = [quiesce EXCEPT ![h] = NoQuiesce]
  /\ UNCHANGED <<diskVars, procVars, hostVars, handleVars, boot, stop, watch>>

-----------------------------------------------------------------------------
(* Shim processes. *)

(* Init ends, the guest records its code and powers the VM off. *)
MainExits(p) ==
  /\ "exit" \in Calls /\ shim[p] = "live" /\ p \in ran
  /\ record' = p
  /\ Exit(p)
  /\ UNCHANGED <<row, created, pidfile, crash, ran, spawner, keep, hostVars,
                 handleVars, taskVars>>

(* A crash leaves a report, a kill from outside does not. *)
ShimDies(p) ==
  /\ "shim" \in Faults /\ shim[p] \in {"live", "frozen"}
  /\ crash' \in IF shim[p] = "live" THEN {crash, p} ELSE {crash}
  /\ Exit(p)
  /\ UNCHANGED <<row, created, pidfile, record, ran, spawner, keep, hostVars,
                 handleVars, taskVars>>

(* The shim of a box that is not detached ends when its watchdog pipe is
   closed. *)
OrphanedEvenDetached(p) == p \notin keep
Orphaned(p) == ~Detach /\ p \notin keep
Watchdog(p) ==
  /\ Orphaned(p) /\ shim[p] = "live"
  /\ MayRecord(p)
  /\ Exit(p)
  /\ UNCHANGED <<row, created, pidfile, crash, ran, spawner, keep, hostVars,
                 handleVars, taskVars>>

-----------------------------------------------------------------------------
(* The host process. *)

(* shutdown(): every handle's token is a child of the runtime's. *)
Shutdown ==
  /\ "shutdown" \in Calls /\ runtime = "up"
  /\ runtime' = "closing"
  /\ token' = [h \in Handles |-> token[h] \/ IsHeld(h)]
  /\ UNCHANGED <<diskVars, procVars, cache, getter, flock, removing, held, mem,
                 live, cstart, gate, taskVars>>

(* What is left when the process is gone: nothing in memory, no lock, no
   pipe, and no parent to leave zombies for. *)
ProcessGone ==
  /\ cache' = NoHandle /\ flock' = NoHandle
  /\ getter' = [h \in Handles |-> Absent]
  /\ removing' = FALSE
  /\ held' = [h \in Handles |-> IF held[h] = "held" THEN "dropped" ELSE held[h]]
  /\ mem' = [h \in Handles |-> NewState]
  /\ token' = [h \in Handles |-> FALSE]
  /\ live' = [h \in Handles |-> NoShim]
  /\ cstart' = [h \in Handles |-> "empty"]
  /\ gate' = [h \in Handles |-> {}]
  /\ boot' = [h \in Handles |-> NoBoot]
  /\ stop' = [h \in Handles |-> "idle"]
  /\ quiesce' = [h \in Handles |-> NoQuiesce]
  /\ watch' = [h \in Handles |-> NoWatch]
  /\ keep' = {}
  /\ spawner' = [p \in Shims |-> NoHandle]
  /\ UNCHANGED <<created, ran>>

Crash ==
  /\ "crash" \in Faults \/ runtime = "closing"
  /\ runtime \in {"up", "closing"}
  /\ runtime' = "down"
  /\ shim' = [p \in Shims |-> IF shim[p] = "zombie" THEN "dead" ELSE shim[p]]
  /\ ProcessGone
  /\ UNCHANGED <<row, pidfile, record, crash>>

Reboot ==
  /\ "reboot" \in Faults
  /\ runtime' = "rebooted"
  /\ shim' = [p \in Shims |-> IF shim[p] = "unborn" THEN "unborn" ELSE "dead"]
  /\ ProcessGone
  /\ UNCHANGED <<row, pidfile, record, crash>>

(* shutdown_sync, from RuntimeImpl::drop: with every handle gone, it goes by
   the row. A detached box, and one whose row is not Running, is left alone. *)
RuntimeDrop ==
  /\ "drop" \in Calls /\ runtime = "up"
  /\ ~removing
  /\ \A h \in Handles : /\ ~IsHeld(h) /\ getter[h] = Absent
                        /\ watch[h].pc \in {"none", "armed", "done"}
  /\ runtime' = "down"
  /\ IF row # Absent /\ row.status = "Running" /\ ~Detach /\ Alive(row.pid)
     THEN /\ record' \in IF shim[row.pid] = "live" /\ row.pid \in ran
                         THEN {record, row.pid} ELSE {record}
          /\ row' = MarkStop([row EXCEPT !.exit = IF record' = NoShim THEN @
                                                  ELSE record'])
          /\ shim' = [p \in Shims |-> IF p = row.pid \/ shim[p] = "zombie"
                                      THEN "dead" ELSE shim[p]]
          /\ pidfile' = NoShim
     ELSE /\ shim' = [p \in Shims |-> IF shim[p] = "zombie" THEN "dead"
                                      ELSE shim[p]]
          /\ UNCHANGED <<row, record, pidfile>>
  /\ UNCHANGED crash
  /\ ProcessGone

(* The live shim recovery finds, and what it makes of a row without one. *)
ShimOfRow == IF row # Absent /\ Alive(row.pid) THEN row.pid ELSE NoShim
RecoveredShim == IF Alive(pidfile) THEN pidfile ELSE NoShim
LeftAsFound(b) == IF crash # NoShim THEN MarkFailed(b) ELSE b
WithoutShim(b) == IF crash # NoShim THEN MarkFailed(b)
                  ELSE IF b.status = "Running" THEN RecordMainCommandExit(b)
                  ELSE b

(* After a reboot list_active resets the rows that say Running, no others.
   recover_boxes: a remove-on-stop box is deleted; otherwise the PID file of a
   live shim wins over the row, a crash report over a Running row, and a
   Running row with neither is stopped with the guest's record. *)
Recover ==
  LET b == IF runtime = "rebooted" /\ row.status = "Running"
           THEN ResetForReboot(row) ELSE row
  IN
  /\ runtime \in {"down", "rebooted"}
  /\ runtime' = "up"
  /\ IF row = Absent \/ RemoveOnStop
     THEN /\ row' = Absent
          /\ pidfile' = NoShim /\ record' = NoShim /\ crash' = NoShim
     ELSE /\ UNCHANGED record
          /\ IF RecoveredShim # NoShim
             THEN /\ row' = AdoptRecoveredShim(b, RecoveredShim)
                  /\ crash' = NoShim
                  /\ UNCHANGED pidfile
             ELSE /\ pidfile' = NoShim
                  /\ UNCHANGED crash
                  /\ row' = WithoutShim(b)
  /\ UNCHANGED <<created, procVars, cache, getter, flock, removing, handleVars,
                 taskVars>>

-----------------------------------------------------------------------------
BootStep(h) == \/ \E r \in Requests : BootRead(h, r)
               \/ BootLock(h) \/ BootAttach(h) \/ BootSpawn(h)
               \/ BootConnect(h) \/ BootFail(h) \/ BootGuard(h)
               \/ BootPublish(h) \/ BootFinish(h)
StartStep(h) == ContainerStart(h) \/ ContainerStartFails(h)
StopStep(h) == \/ StopAttach(h) \/ StopKill(h) \/ StopClean(h) \/ StopRecord(h)
               \/ StopFinish(h) \/ StopRemove(h)
WatchStep(h) == \/ WatchStandDown(h) \/ WatchExit(h) \/ WatchRecord(h)
                \/ WatchSave(h) \/ WatchTail(h) \/ WatchRemove(h)
QuiesceStep(h) == \/ QuiesceStop(h) \/ QuiescePause(h) \/ QuiesceCont(h)
                  \/ QuiesceProbe(h) \/ QuiesceResume(h)

HandleStep(h) ==
  \/ Create(h) \/ GetRead(h) \/ GetCreate(h) \/ DropHandle(h)
  \/ \E r \in Requests : Request(h, r)
  \/ StartStep(h) \/ BootStep(h)
  \/ StopBegin(h) \/ StopStep(h) \/ StopAbandon(h)
  \/ WatchStep(h)
  \/ QuiesceBegin(h) \/ QuiesceStep(h) \/ QuiesceAbandon(h)
ShimStep(p) == MainExits(p) \/ ShimDies(p) \/ Watchdog(p)
HostStep ==
  \/ Provision
  \/ \E force \in BOOLEAN : Remove(force)
  \/ RemoveCommit \/ RemoveInMemory
  \/ Shutdown \/ Crash \/ Reboot \/ RuntimeDrop \/ Recover

Next == \/ \E h \in Handles : HandleStep(h)
        \/ \E p \in Shims : ShimStep(p)
        \/ HostStep

Spec == Init /\ [][Next]_vars

(* The runtime's tasks are scheduled, remove_box is a function that runs to
   its end, and a shim whose watchdog pipe closes terminates. Clients owe
   nothing, and no fault has to happen. *)
Fairness ==
  /\ \A h \in Handles : /\ WF_vars(BootStep(h)) /\ WF_vars(StartStep(h))
                        /\ WF_vars(StopStep(h)) /\ WF_vars(WatchStep(h))
                        /\ WF_vars(QuiesceStep(h))
  /\ \A p \in Shims : WF_vars(Watchdog(p))
  /\ WF_vars(RemoveCommit)
FairSpec == Spec /\ Fairness
=============================================================================
