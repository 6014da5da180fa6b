---------------------- MODULE BoxLifecycleTruthProofs ----------------------
(***************************************************************************)
(* What the lifecycle's runs check of VMs, watchers and recovery, proved   *)
(* for every number of handles and shims: that the VM of a detached box is *)
(* left alone; that a handle whose VM ended is spent; that the creator of  *)
(* a box runs its init; and that where no client stops a box or lets go of *)
(* a handle, and no handle boots a second VM, there is one VM at a time,   *)
(* its row, its PID file and its watcher agree, recovery tells the truth,  *)
(* the row tells of one run, and the lifecycle implements BoxContract.     *)
(***************************************************************************)
EXTENDS BoxLifecycleProofs

-----------------------------------------------------------------------------
(* What each action leaves alone. *)

(* What create, provision_box, get and calls leave alone. *)
LEMMA HandoutFrame ==
  ASSUME NEW h, NEW r
  PROVE
  /\ Create(h) =>
       UNCHANGED <<pidfile, shim, runtime, getter, flock, live, boot, quiesce,
                   gate, stop, cstart, ran>>
  /\ Provision =>
       UNCHANGED <<pidfile, shim, runtime, cache, getter, flock, held, mem,
                   token, live, boot, quiesce, watch, gate, stop, cstart,
                   ran>>
  /\ GetRead(h) =>
       UNCHANGED <<row, created, pidfile, shim, runtime, cache, flock, held,
                   mem, token, live, boot, quiesce, watch, gate, stop, cstart,
                   ran>>
  /\ GetCreate(h) =>
       UNCHANGED <<row, created, pidfile, shim, runtime, flock, live, boot,
                   quiesce, gate, stop, cstart, ran>>
  /\ Request(h, r) =>
       UNCHANGED <<row, created, pidfile, shim, runtime, cache, getter, flock,
                   held, mem, token, live, boot, quiesce, watch, stop, ran>>
  /\ StartStep(h) =>
       UNCHANGED <<row, created, pidfile, shim, runtime, cache, getter, flock,
                   held, mem, token, live, boot, quiesce, watch, gate, stop>>
BY DEF Create, Provision, GetRead, GetCreate, Request, StartStep,
       ContainerStart, ContainerStartFails, diskVars, procVars, hostVars,
       handleVars, taskVars

(* What init_live_state leaves alone. *)
LEMMA BootFrame ==
  ASSUME NEW h, NEW r
  PROVE
  /\ BootRead(h, r) =>
       UNCHANGED <<row, created, pidfile, shim, runtime, cache, getter, flock,
                   held, mem, token, live, quiesce, watch, stop, cstart, ran>>
  /\ BootLock(h) =>
       UNCHANGED <<row, created, pidfile, shim, runtime, cache, getter, held,
                   mem, token, live, watch, cstart, ran>>
  /\ BootAttach(h) =>
       UNCHANGED <<row, created, pidfile, shim, runtime, cache, getter, held,
                   mem, token, live, watch, cstart, ran>>
  /\ BootSpawn(h) =>
       UNCHANGED <<row, created, runtime, cache, getter, flock, held, mem,
                   token, live, quiesce, watch, gate, stop, cstart, ran>>
  /\ BootConnect(h) =>
       UNCHANGED <<row, created, pidfile, shim, runtime, cache, getter, flock,
                   held, mem, token, live, quiesce, watch, gate, stop, ran>>
  /\ BootFail(h) =>
       UNCHANGED <<row, created, pidfile, runtime, cache, getter, held, mem,
                   token, live, watch, cstart, ran>>
  /\ BootGuard(h) =>
       UNCHANGED <<created, pidfile, shim, runtime, cache, getter, held, mem,
                   token, live, watch, cstart, ran>>
  /\ BootPublish(h) =>
       UNCHANGED <<created, pidfile, shim, runtime, cache, getter, held,
                   token, live, cstart, ran>>
  /\ BootFinish(h) =>
       UNCHANGED <<row, created, pidfile, shim, runtime, cache, getter, held,
                   mem, token, watch, ran>>
BY DEF BootRead, BootLock, BootSet, BootAttach, BootSpawn, BootConnect,
       BootFail, BootGuard, BootPublish, BootFinish, diskVars, procVars,
       hostVars, handleVars, taskVars

(* What the watcher leaves alone. *)
LEMMA WatchFrame ==
  ASSUME NEW h
  PROVE
  /\ WatchStandDown(h) =>
       UNCHANGED <<row, created, pidfile, shim, runtime, cache, getter, flock,
                   held, mem, token, live, boot, quiesce, gate, stop, cstart,
                   ran>>
  /\ WatchExit(h) =>
       UNCHANGED <<row, created, pidfile, runtime, cache, getter, flock, held,
                   mem, token, live, boot, quiesce, gate, stop, cstart, ran>>
  /\ WatchRecord(h) =>
       UNCHANGED <<row, created, pidfile, shim, runtime, cache, getter, flock,
                   held, token, live, boot, quiesce, gate, stop, cstart, ran>>
  /\ WatchSave(h) =>
       UNCHANGED <<created, pidfile, shim, runtime, cache, getter, flock,
                   held, mem, token, live, boot, quiesce, gate, stop, cstart,
                   ran>>
  /\ WatchTail(h) =>
       UNCHANGED <<row, created, pidfile, shim, runtime, getter, flock, held,
                   mem, token, live, boot, quiesce, gate, stop, cstart, ran>>
  /\ WatchRemove(h) =>
       UNCHANGED <<row, created, pidfile, shim, runtime, cache, getter, flock,
                   held, mem, token, live, boot, quiesce, gate, stop, cstart,
                   ran>>
BY DEF WatchStandDown, WatchExit, WatchRecord, WatchSave, WatchTail,
       WatchRemove, RemoveChecked, diskVars, procVars, hostVars, handleVars,
       taskVars

(* What the quiesce bracket leaves alone. *)
LEMMA QuiesceFrame ==
  ASSUME NEW h
  PROVE
  /\ QuiesceBegin(h) =>
       UNCHANGED <<row, created, pidfile, shim, runtime, cache, getter, flock,
                   held, mem, token, live, boot, watch, stop, ran>>
  /\ QuiesceStop(h) \/ QuiesceCont(h) =>
       UNCHANGED <<row, created, pidfile, runtime, cache, getter, flock, held,
                   mem, token, live, boot, watch, gate, stop, cstart, ran>>
  /\ QuiescePause(h) \/ QuiesceResume(h) =>
       UNCHANGED <<created, pidfile, shim, runtime, cache, getter, flock, held,
                   token, live, boot, watch, gate, stop, cstart, ran>>
  /\ QuiesceProbe(h) =>
       UNCHANGED <<row, created, pidfile, shim, runtime, cache, getter, flock,
                   held, mem, token, live, boot, watch, gate, stop, cstart,
                   ran>>
  /\ QuiesceAbandon(h) =>
       UNCHANGED <<row, created, pidfile, shim, runtime, cache, getter, flock,
                   held, mem, token, live, boot, watch, gate, stop, cstart,
                   ran>>
BY DEF QuiesceBegin, QuiesceStop, QuiescePause, QuiesceCont,
     QuiesceProbe, QuiesceResume, QuiesceSet, QuiesceWrites, QuiesceAbandon, diskVars,
       procVars, hostVars, handleVars, taskVars

(* What stop() and letting go of handles leave alone. *)
LEMMA StopFrame ==
  ASSUME NEW h
  PROVE
  /\ StopBegin(h) =>
       UNCHANGED <<row, created, pidfile, shim, runtime, cache, getter, flock,
                   held, mem, live, boot, quiesce, gate, cstart, ran>>
  /\ StopStep(h) =>
       UNCHANGED <<created, runtime, getter, flock, held, token, live, boot,
                   quiesce, watch, cstart, ran>>
  /\ StopAbandon(h) =>
       UNCHANGED <<row, created, pidfile, shim, runtime, cache, getter, flock,
                   held, mem, token, live, boot, quiesce, watch, gate, cstart,
                   ran>>
  /\ DropHandle(h) =>
       UNCHANGED <<row, created, pidfile, shim, runtime, cache, getter, flock,
                   mem, token, boot, quiesce, watch, gate, stop, cstart, ran>>
  /\ RuntimeDrop =>
       UNCHANGED <<created, ran>>
BY DEF StopBegin, StopStep, StopAttach, StopKill, StopClean, StopRecord,
       StopFinish, StopRemove, StopAbandon, DropHandle, RuntimeDrop,
       ProcessGone, diskVars, procVars, hostVars, handleVars, taskVars

(* What the shims, removal and the host process leave alone. *)
LEMMA HostFrame ==
  ASSUME NEW force \in BOOLEAN, NEW p
  PROVE
  /\ ShimStep(p) =>
       UNCHANGED <<row, created, pidfile, runtime, cache, getter, flock, held,
                   mem, token, live, boot, quiesce, watch, gate, stop, cstart,
                   ran>>
  /\ Remove(force) =>
       UNCHANGED <<created, pidfile, runtime, cache, getter, flock, held, mem,
                   token, live, boot, quiesce, watch, gate, stop, cstart,
                   ran>>
  /\ RemoveCommit =>
       UNCHANGED <<created, shim, runtime, getter, flock, held, mem, token,
                   live, boot, quiesce, watch, gate, stop, cstart, ran>>
  /\ RemoveInMemory =>
       UNCHANGED <<row, created, shim, runtime, getter, flock, held, mem,
                   token, live, boot, quiesce, watch, gate, stop, cstart,
                   ran>>
  /\ Shutdown =>
       UNCHANGED <<row, created, pidfile, shim, cache, getter, flock, held,
                   mem, live, boot, quiesce, watch, gate, stop, cstart, ran>>
  /\ Crash =>
       UNCHANGED <<row, created, pidfile, ran>>
  /\ Reboot =>
       UNCHANGED <<row, created, pidfile, ran>>
  /\ Recover =>
       UNCHANGED <<created, shim, cache, getter, flock, held, mem, token,
                   live, boot, quiesce, watch, gate, stop, cstart, ran>>
BY DEF ShimStep, MainExits, ShimDies, Watchdog, Remove, RemoveCommit,
       RemoveInMemory, Shutdown, Crash, ProcessGone, Reboot, Recover,
       diskVars, procVars, hostVars, handleVars, taskVars

(* Only init_live_state and the end of the process move boots. *)
LEMMA BootWriters ==
  ASSUME [Next]_vars
  PROVE  boot' = boot \/ ProcessGone \/ \E h \in Handles : BootStep(h)
<1>1. ASSUME NEW h \in Handles, HandleStep(h)
      PROVE  boot' = boot \/ BootStep(h)
  BY <1>1, HandoutFrame, WatchFrame, QuiesceFrame, StopFrame
     DEF HandleStep, WatchStep, QuiesceStep
<1>2. ASSUME NEW p \in Shims, ShimStep(p)
      PROVE  boot' = boot
  BY <1>2, HostFrame
<1>3. CASE HostStep
  BY <1>3, HandoutFrame, HostFrame DEF HostStep, Crash, Reboot, RuntimeDrop
<1>4. CASE UNCHANGED vars
  BY <1>4 DEF vars, taskVars
<1> QED BY <1>1, <1>2, <1>3, <1>4 DEF Next

-----------------------------------------------------------------------------
(* NeverKilled: of all steps only a stop(), a forced removal, a failing boot *)
(* or a reboot ends a VM of a detached box that does not end by itself.      *)

(* A fresh boot has no shim before it spawns one, so what a failing pipeline *)
(* tears down is the shim of its own boot.                                   *)
LEMMA GentleSteps ==
  ASSUME Detach, Calls \cap {"force_remove", "quiesce"} = {},
         Faults \cap {"boot", "shim", "reboot"} = {},
         IInv, [Next]_vars,
         NEW p \in Shims, shim[p] = "live", \A h \in Handles : stop[h] = "idle",
         \A h \in Handles : quiesce[h].pc = "idle" /\ "quiesce" \notin gate[h],
         \A h \in Handles : boot[h].pc = "spawn" => boot[h].shim = NoShim
  PROVE  shim'[p] = "live" \/ record' = p
<1> USE DEF IInv, TypeOK
<1>1. ASSUME NEW h \in Handles, HandleStep(h)
      PROVE  shim'[p] = "live" \/ record' = p
  <2>0. CASE UNCHANGED shim
    BY <2>0
  <2>1. CASE Create(h) \/ GetRead(h) \/ GetCreate(h) \/ DropHandle(h)
             \/ (\E r \in Requests : Request(h, r)) \/ StartStep(h)
    BY <2>1, <2>0 DEF Create, GetRead, GetCreate, DropHandle, Request, StartStep,
       ContainerStart, ContainerStartFails, procVars
  <2>2. CASE BootStep(h)
    <3>1. CASE BootSpawn(h)
      BY <3>1 DEF BootSpawn
    <3>2. CASE BootFail(h)
      <4>1. CASE boot[h].plan = "adopt"
        BY <3>2, <4>1, <2>0 DEF BootFail
      <4>2. CASE boot[h].plan # "adopt"
        <5>1. Teardown(boot[h].shim)
          BY <3>2, <4>2 DEF BootFail
        <5>2. boot[h].shim # p
          BY <3>2, <4>2, ConstantsAssumption DEF BootFail, BootNamesShim
        <5> QED BY <5>1, <5>2 DEF Teardown
      <4> QED BY <4>1, <4>2
    <3>3. CASE ~BootSpawn(h) /\ ~BootFail(h)
      BY <2>2, <3>3, <2>0 DEF BootStep, BootRead, BootLock, BootAttach,
         BootConnect, BootGuard, BootPublish, BootFinish, procVars
    <3> QED BY <3>1, <3>2, <3>3
  <2>3. CASE StopBegin(h) \/ StopStep(h) \/ StopAbandon(h)
    BY <2>3, <2>0 DEF StopBegin, StopStep, StopAttach, StopKill, StopClean,
       StopRecord, StopFinish, StopRemove, StopAbandon, procVars
  <2>4. CASE WatchStep(h)
    BY <2>4 DEF WatchStep, WatchStandDown, WatchExit, WatchRecord, WatchSave,
       WatchTail, WatchRemove, RemoveChecked, diskVars, procVars
  <2>5. CASE QuiesceBegin(h) \/ QuiesceStep(h) \/ QuiesceAbandon(h)
    BY <2>5, <2>0 DEF QuiesceBegin, QuiesceStep, QuiesceStop, QuiescePause, QuiesceCont,
     QuiesceProbe, QuiesceResume, QuiesceSet, QuiesceWrites,
       QuiesceAbandon, procVars
  <2> QED BY <1>1, <2>1, <2>2, <2>3, <2>4, <2>5 DEF HandleStep
<1>2. ASSUME NEW q \in Shims, ShimStep(q)
      PROVE  shim'[p] = "live" \/ record' = p
  BY <1>2 DEF ShimStep, MainExits, ShimDies, Watchdog, Orphaned, Exit
<1>3. CASE HostStep
  BY <1>3 DEF HostStep, Provision, Remove, RemoveChecked, RemoveCommit,
     RemoveInMemory, Shutdown, Crash, Reboot, RuntimeDrop, Recover, procVars
<1>4. CASE UNCHANGED vars
  BY <1>4 DEF vars, procVars
<1> QED BY <1>1, <1>2, <1>3, <1>4 DEF Next

(* A boot that has not attached or spawned works on no shim.                 *)
Shimless ==
  \A h \in Handles : boot[h].pc \in {"locking", "spawn"} => boot[h].shim = NoShim

(* How init_live_state moves on: it reads the state, takes the lock, attaches
   or spawns, connects, publishes, finishes, or fails on the way. *)
BootMoved(b, c, m) ==
  \/ c = b \/ c = NoBoot
  \/ /\ b.pc = "idle" /\ c.pc = "locking" /\ c.shim = NoShim
     /\ c.plan = ExecutionPlan(m.status)
  \/ /\ c.plan = b.plan /\ c.by = b.by
     /\ \/ /\ b.pc = "locking" /\ c.shim = b.shim
           /\ c.pc = CASE b.plan = "adopt" -> "attach"
                       [] b.plan = "fresh" -> "spawn"
                       [] OTHER -> "failing"
        \/ b.pc \in {"attach", "spawn"} /\ c.pc = "connect"
        \/ b.pc = "connect" /\ c.pc = "publish" /\ c.shim = b.shim
        \/ b.pc = "publish" /\ c.pc = "finish" /\ c.shim = b.shim
        \/ b.pc \notin {"idle", "finish"} /\ c.pc = "failing" /\ c.shim = b.shim

(* Nobody else's boot moves with it. *)
LEMMA BootMoves ==
  ASSUME TypeOK, NEW h \in Handles, BootStep(h)
  PROVE  /\ \A g \in Handles : g # h => boot'[g] = boot[g]
         /\ BootMoved(boot[h], boot'[h], mem[h])
<1>1. DOMAIN boot = Handles /\ boot[h] \in BootState
  BY DEF TypeOK
<1> USE <1>1 DEF BootMoved
<1>2. ASSUME BootFails(h) \/ BootSucceeds(h)
      PROVE  boot' = [boot EXCEPT ![h] = NoBoot]
  BY <1>2 DEF BootFails, BootSucceeds, BootEnds
<1>3. ASSUME NEW r \in Requests, BootRead(h, r)
      PROVE  /\ \A g \in Handles : g # h => boot'[g] = boot[g]
             /\ BootMoved(boot[h], boot'[h], mem[h])
  BY <1>3 DEF BootRead
<1>4. CASE BootLock(h)
  BY <1>4, <1>2 DEF BootLock, BootSet, BootState
<1>5. CASE BootAttach(h)
  BY <1>5, <1>2 DEF BootAttach, BootState
<1>6. CASE BootSpawn(h)
  BY <1>6 DEF BootSpawn, BootState
<1>7. CASE BootConnect(h)
  BY <1>7 DEF BootConnect, BootSet, BootState
<1>8. CASE BootFail(h)
  BY <1>8, <1>2 DEF BootFail, BootSet, BootState
<1>9. CASE BootGuard(h)
  BY <1>9, <1>2 DEF BootGuard
<1>10. CASE BootPublish(h)
  BY <1>10, <1>2 DEF BootPublish, BootSet, BootState
<1>11. CASE BootFinish(h)
  BY <1>11, <1>2 DEF BootFinish
<1> QED BY <1>3, <1>4, <1>5, <1>6, <1>7, <1>8, <1>9, <1>10, <1>11 DEF BootStep

(* Every boot that has yet to attach or spawn works on no shim. *)
LEMMA ShimlessNext ==
  ASSUME IInv, Shimless, [Next]_vars
  PROVE  Shimless'
<1>1. CASE boot' = boot
  BY <1>1 DEF Shimless
<1>2. CASE ProcessGone
  BY <1>2 DEF Shimless, ProcessGone, NoBoot
<1>3. ASSUME NEW h \in Handles, BootStep(h)
      PROVE  Shimless'
  <2>1. /\ \A g \in Handles : g # h => boot'[g] = boot[g]
        /\ BootMoved(boot[h], boot'[h], mem[h])
    BY <1>3, BootMoves DEF IInv
  <2>2. boot'[h].pc \in {"locking", "spawn"} => boot'[h].shim = NoShim
    BY <2>1 DEF Shimless, BootMoved, NoBoot
  <2> QED BY <2>1, <2>2 DEF Shimless
<1> QED BY <1>1, <1>2, <1>3, BootWriters

(* The VM of a detached box ends only when its own init does or a stop()     *)
(* ends it, for any number of handles and shims: clients that take no        *)
(* snapshot and force no removal, on a host that may crash but does not go   *)
(* down with its shims and whose boots do not fail, end none.                *)
THEOREM DetachedLeftAlone ==
  ASSUME Detach, Calls \cap {"force_remove", "quiesce"} = {},
         Faults \cap {"boot", "shim", "reboot"} = {}
  PROVE  Spec => NeverKilled
<1> DEFINE Inv == IInv /\ NoBracket /\ Shimless
           Body == \A p \in Shims :
                     /\ shim[p] = "live" /\ \A h \in Handles : stop[h] = "idle"
                     => shim'[p] = "live" \/ record' = p
<1>1. Init => Inv
  BY InitInductive DEF Init, NoBracket, Shimless, NoBoot, NoQuiesce
<1>2. Inv /\ [Next]_vars => Inv'
  <2> SUFFICES ASSUME Inv, [Next]_vars PROVE Inv'
    OBVIOUS
  <2>1. IInv' /\ Shimless'
    BY NextInductive, ShimlessNext
  <2>2. NoBracket'
    BY BracketNeverOpens DEF IInv
  <2> QED BY <2>1, <2>2
<1>3. Inv /\ [Next]_vars => Body
  BY GentleSteps DEF NoBracket, Shimless
<1> QED BY <1>1, <1>2, <1>3, PTL DEF Spec, NeverKilled
-----------------------------------------------------------------------------
(* A step of one handle and the state of another. *)
Same(g) == /\ held'[g] = held[g] /\ mem'[g] = mem[g] /\ live'[g] = live[g]
           /\ cstart'[g] = cstart[g] /\ gate'[g] = gate[g] /\ boot'[g] = boot[g]
           /\ stop'[g] = stop[g] /\ quiesce'[g] = quiesce[g]
           /\ token'[g] = token[g] /\ watch'[g] = watch[g]

(* Every step but that of a get(), which may find another handle cached. *)
OwnStep(h) ==
  \/ Create(h) \/ GetRead(h) \/ DropHandle(h)
  \/ (\E r \in Requests : Request(h, r)) \/ StartStep(h)
  \/ BootStep(h)
  \/ StopBegin(h) \/ StopStep(h) \/ StopAbandon(h)
  \/ WatchStep(h)
  \/ QuiesceBegin(h) \/ QuiesceStep(h) \/ QuiesceAbandon(h)

(* It leaves that state alone. *)
LEMMA Local ==
  ASSUME TypeOK, NEW h \in Handles, OwnStep(h), NEW g \in Handles, g # h
  PROVE  Same(g)
<1> USE DEF TypeOK, Same, handleVars, taskVars
<1>1. CASE Create(h) \/ GetRead(h) \/ DropHandle(h)
           \/ (\E r \in Requests : Request(h, r)) \/ StartStep(h)
  BY <1>1 DEF Create, NewHandle, Armed, GetRead, DropHandle, Request,
     StartStep, ContainerStart, ContainerStartFails
<1>2. CASE BootStep(h)
  <2>1. CASE BootFails(h) \/ BootSucceeds(h)
    <3>1. /\ gate'[g] = gate[g] /\ boot'[g] = boot[g] /\ stop'[g] = stop[g]
          /\ quiesce'[g] = quiesce[g]
      BY <2>1 DEF BootFails, BootSucceeds, BootEnds
    <3>2. UNCHANGED <<held, token>> /\ mem'[g] = mem[g] /\ live'[g] = live[g]
      BY <1>2 DEF BootStep, BootRead, BootLock, BootAttach, BootSpawn,
         BootConnect, BootFail, BootGuard, BootPublish, BootFinish
    <3>3. cstart'[g] = cstart[g] /\ watch'[g] = watch[g]
      BY <1>2 DEF BootStep, BootRead, BootLock, BootAttach, BootSpawn, Armed,
         BootConnect, BootFail, BootGuard, BootPublish, BootFinish
    <3> QED BY <3>1, <3>2, <3>3
  <2>2. CASE \E r \in Requests : BootRead(h, r)
    BY <2>2 DEF BootRead
  <2>3. CASE BootLock(h) /\ ~BootFails(h)
    BY <2>3 DEF BootLock, BootSet
  <2>4. CASE BootAttach(h) /\ ~BootFails(h)
    BY <2>4 DEF BootAttach
  <2>5. CASE BootSpawn(h) \/ BootConnect(h)
    BY <2>5 DEF BootSpawn, BootConnect, BootSet
  <2>6. CASE BootFail(h) /\ ~BootFails(h)
    BY <2>6 DEF BootFail, BootSet
  <2>7. CASE BootPublish(h) /\ ~BootFails(h)
    BY <2>7 DEF BootPublish, BootSet, Armed
  <2> QED BY <1>2, <2>1, <2>2, <2>3, <2>4, <2>5, <2>6, <2>7
          DEF BootStep, BootGuard, BootFinish
<1>3. CASE StopBegin(h) \/ StopStep(h) \/ StopAbandon(h)
  BY <1>3 DEF StopBegin, StopStep, StopAttach, StopKill, StopClean,
     StopRecord, StopFinish, StopRemove, StopAbandon
<1>4. CASE WatchStep(h)
  BY <1>4 DEF WatchStep, WatchStandDown, WatchExit, WatchRecord, WatchSave,
     WatchTail, WatchRemove, WatchSet
<1>5. CASE QuiesceBegin(h) \/ QuiesceStep(h) \/ QuiesceAbandon(h)
  BY <1>5 DEF QuiesceBegin, QuiesceStep, QuiesceStop, QuiescePause, QuiesceCont,
     QuiesceProbe, QuiesceResume, QuiesceSet, QuiesceWrites,
     QuiesceAbandon
<1> QED BY <1>1, <1>2, <1>3, <1>4, <1>5 DEF OwnStep

(* A get() moves no more than the state it caches or, of the handle it finds
   cached, its watcher. *)
LEMMA LocalGet ==
  ASSUME TypeOK, NEW h \in Handles, GetCreate(h)
  PROVE  /\ UNCHANGED <<live, cstart, gate, boot, stop, quiesce>>
         /\ \A g \in Handles : g # h =>
              mem'[g] = mem[g] /\ held'[g] = held[g] /\ token'[g] = token[g]
         /\ held[h] # "unborn" =>
              mem'[h] = mem[h] /\ held'[h] = held[h] /\ token'[h] = token[h]
         /\ held'[h] \in {held[h], "held"}
BY DEF GetCreate, NewHandle, TypeOK, handleVars

-----------------------------------------------------------------------------
(* SpentForever, for clients that take no snapshot.                          *)

(* What no client holds has nothing in flight and no VM. *)
Shelved ==
  \A h \in Handles :
    ~IsHeld(h) => /\ gate[h] = {} /\ boot[h].pc = "idle" /\ stop[h] = "idle"
                  /\ quiesce[h].pc = "idle" /\ live[h] = NoShim

(* Only a handle a client holds can be called, and only an idle one let go. *)
LEMMA ShelvedNext ==
  ASSUME IInv, Shelved, [Next]_vars
  PROVE  Shelved'
<1> USE DEF Shelved, IsHeld
<1>0. TypeOK /\ CellsAgree
  BY DEF IInv
<1>1. ASSUME NEW h \in Handles, HandleStep(h)
      PROVE  Shelved'
  <2>1. CASE GetCreate(h)
    BY <1>0, <2>1, LocalGet DEF TypeOK
  <2>2. CASE ~GetCreate(h)
    <3>1. \A g \in Handles : g # h => Same(g)
      BY <1>0, <1>1, <2>2, Local DEF HandleStep, OwnStep
    <3>2. CASE IsHeld(h)
      <4>1. CASE DropHandle(h)
        BY <1>0, <3>1, <4>1 DEF TypeOK, DropHandle, Idle, Same, taskVars
      <4>2. CASE Create(h)
        BY <3>2, <4>2 DEF Create, NewHandle
      <4>3. CASE held' = held
        BY <3>1, <3>2, <4>3 DEF Same
      <4> QED BY <1>1, <2>2, <4>1, <4>2, <4>3, HandoutFrame, BootFrame,
              StopFrame, WatchFrame, QuiesceFrame
              DEF HandleStep, BootStep, WatchStep, QuiesceStep
    <3>3. CASE ~IsHeld(h)
      <4>1. CASE Create(h)
        BY <1>0, <3>1, <4>1 DEF TypeOK, Create, NewHandle, Same
      <4>2. CASE GetRead(h) \/ WatchStep(h)
        BY <4>2, HandoutFrame, WatchFrame DEF WatchStep
      <4>3. CASE StartStep(h)
        BY <1>0, <3>3, <4>3 DEF CellsAgree, StartStep, ContainerStart,
           ContainerStartFails
      <4>4. ~BootStep(h)
        BY <3>3 DEF BootStep, BootRead, BootLock, BootAttach, BootSpawn,
           BootConnect, BootFail, BootGuard, BootPublish, BootFinish
      <4>5. ~(StopBegin(h) \/ StopStep(h) \/ StopAbandon(h))
        BY <3>3 DEF StopBegin, StopStep, StopAttach, StopKill, StopClean,
           StopRecord, StopFinish, StopRemove, StopAbandon
      <4>6. ~(QuiesceBegin(h) \/ QuiesceStep(h) \/ QuiesceAbandon(h))
        BY <3>3 DEF QuiesceBegin, QuiesceStep, QuiesceStop, QuiescePause, QuiesceCont,
     QuiesceProbe, QuiesceResume, QuiesceSet, QuiesceWrites,
           QuiesceAbandon
      <4>7. ~DropHandle(h) /\ ~\E r \in Requests : Request(h, r)
        BY <3>3 DEF DropHandle, Request
      <4> QED BY <1>1, <2>2, <4>1, <4>2, <4>3, <4>4, <4>5, <4>6, <4>7
              DEF HandleStep
    <3> QED BY <3>2, <3>3
  <2> QED BY <2>1, <2>2
<1>2. ASSUME NEW p \in Shims, ShimStep(p)
      PROVE  Shelved'
  BY <1>2, HostFrame
<1>3. CASE HostStep
  <2>1. CASE ProcessGone
    BY <2>1 DEF ProcessGone, NoBoot, NoQuiesce
  <2> QED BY <1>3, <2>1, HandoutFrame, HostFrame
          DEF HostStep, Crash, Reboot, RuntimeDrop
<1>4. CASE UNCHANGED vars
  BY <1>4 DEF vars, handleVars, taskVars
<1> QED BY <1>1, <1>2, <1>3, <1>4 DEF Next

(* A write to the state of a handle whose VM ended leaves it ended, and its
   live cell is neither filled again nor emptied but by letting go. *)
LEMMA SpentSteps ==
  ASSUME IInv, Shelved, [Next]_vars, NEW h \in Handles,
         live[h] # NoShim, live'[h] # NoShim, mem[h].pid = NoShim
  PROVE  live'[h] = live[h] /\ mem'[h].pid = NoShim
<1> USE DEF IInv, TypeOK, IsActive
<1>0. IsHeld(h) /\ boot[h].pc = "idle"
  BY DEF Shelved, CellsAgree
<1>1. ASSUME NEW g \in Handles, HandleStep(g), g # h
      PROVE  live'[h] = live[h] /\ mem'[h].pid = NoShim
  BY <1>0, <1>1, Local, LocalGet DEF Same, IsHeld, HandleStep, OwnStep
<1>2. CASE HandleStep(h)
  <2>1. ~Create(h) /\ (GetCreate(h) => mem'[h] = mem[h])
    BY <1>0, LocalGet DEF Create, NewHandle, IsHeld
  <2>2. BootStep(h) => UNCHANGED <<live, mem>>
    BY <1>0, BootFrame DEF BootStep, BootLock, BootAttach, BootSpawn, BootConnect,
       BootFail, BootGuard, BootPublish, BootFinish
  <2>3. CASE DropHandle(h)
    BY <2>3 DEF DropHandle
  <2>4. CASE StopRecord(h)
    <3>1. live' = live
      BY <2>4, StopFrame DEF StopStep
    <3>2. mem'[h].pid = NoShim
      BY <2>4, RecordedTyped DEF StopRecord, RecordMainCommandExit, MarkStop,
         BoxState
    <3> QED BY <3>1, <3>2
  <2>5. CASE StopStep(h) /\ ~StopRecord(h)
    BY <2>5 DEF StopStep, StopAttach, StopKill, StopClean, StopFinish,
       StopRemove, handleVars
  <2>6. CASE WatchRecord(h)
    <3>1. live' = live
      BY <2>6, WatchFrame
    <3>2. mem'[h].pid = NoShim
      <4>1. mem[h] \in BoxState /\ DOMAIN mem = Handles
        OBVIOUS
      <4>2. RecordMainCommandExit(mem[h]).pid = NoShim
        BY <4>1 DEF RecordMainCommandExit, MarkStop, BoxState
      <4>3. [mem[h] EXCEPT !.exit = record].pid = mem[h].pid
        BY <4>1 DEF BoxState
      <4>4. \/ UNCHANGED mem
            \/ mem' = [mem EXCEPT ![h] = RecordMainCommandExit(mem[h])]
            \/ mem' = [mem EXCEPT ![h] = [mem[h] EXCEPT !.exit = record]]
        BY <2>6 DEF WatchRecord
      <4> QED BY <4>1, <4>2, <4>3, <4>4
    <3> QED BY <3>1, <3>2
  <2>7. CASE QuiesceStep(h)
    BY <2>7 DEF QuiesceStep, QuiesceStop, QuiescePause, QuiesceCont, QuiesceProbe,
       QuiesceResume, QuiesceWrites, ForceStatus, BoxState, handleVars
  <2> QED BY <1>2, <2>1, <2>2, <2>3, <2>4, <2>5, <2>6, <2>7, HandoutFrame,
             WatchFrame, StopFrame, QuiesceFrame DEF HandleStep, WatchStep
<1>3. ASSUME NEW p \in Shims, ShimStep(p)
      PROVE  live'[h] = live[h] /\ mem'[h].pid = NoShim
  BY <1>3, HostFrame
<1>4. CASE HostStep
  <2>1. ~ProcessGone
    BY DEF ProcessGone
  <2> QED BY <1>4, <2>1, HandoutFrame, HostFrame
          DEF HostStep, Crash, Reboot, RuntimeDrop
<1>5. CASE UNCHANGED vars
  BY <1>5 DEF vars, handleVars
<1> QED BY <1>1, <1>2, <1>3, <1>4, <1>5 DEF Next

(* A handle whose VM ended never runs or names a second one, as              *)
(* ensure_booted promises: whatever boots, stops, watchers, snapshots,       *)
(* removals and crashes do to it or to other handles.                        *)
THEOREM SpentStaysSpent == Spec => SpentForever
<1> DEFINE Inv == IInv /\ Shelved
           Body == \A h \in Handles :
                     live[h] # NoShim /\ live'[h] # NoShim /\ mem[h].pid = NoShim
                       => live'[h] = live[h] /\ mem'[h].pid = NoShim
<1>1. Init => Inv
  BY InitInductive DEF Init, Shelved, NoBoot, NoQuiesce
<1>2. Inv /\ [Next]_vars => Inv'
  BY NextInductive, ShelvedNext
<1>3. Inv /\ [Next]_vars => Body
  BY SpentSteps
<1> QED BY <1>1, <1>2, <1>3, PTL DEF Spec, SpentForever
-----------------------------------------------------------------------------
(* Started, for clients that never look a box up: the handle that created    *)
(* the box boots its VM and does not adopt one.                              *)

Gone == created /\ row = Absent

(* A caller that waits to take a snapshot has opened its bracket, and a boot
   is run by one of the callers that wait. *)
Queued ==
  \A h \in Handles :
    /\ "quiesce" \in gate[h] => quiesce[h].pc = "freeze"
    /\ boot[h].pc # "idle" => boot[h].by \in gate[h]

(* A box that was created has been. *)
LEMMA CreatedStays ==
  ASSUME created, [Next]_vars
  PROVE  created'
<1>1. ASSUME NEW h \in Handles, HandleStep(h)
      PROVE  created'
  BY <1>1, HandoutFrame, BootFrame, WatchFrame, QuiesceFrame, StopFrame
     DEF HandleStep, BootStep, WatchStep, QuiesceStep, Create
<1>2. ASSUME NEW p \in Shims, ShimStep(p)
      PROVE  created'
  BY <1>2, HostFrame
<1>3. CASE HostStep
  BY <1>3, HostFrame, StopFrame DEF HostStep, Provision
<1> QED BY <1>1, <1>2, <1>3 DEF Next, vars, diskVars

(* A removed box stays removed. *)
LEMMA GoneStays ==
  ASSUME Gone, [Next]_vars
  PROVE  Gone'
<1>1. row' = Absent
  BY RowStaysAbsent DEF Gone, vars, diskVars
<1> QED BY <1>1, CreatedStays DEF Gone

(* A caller leaves the live cell when it is served or turned away. *)
LEMMA QueuedNext ==
  ASSUME IInv, Queued, [Next]_vars
  PROVE  Queued'
<1> USE DEF Queued
<1>0. TypeOK
  BY DEF IInv
<1>1. CASE UNCHANGED <<gate, boot, quiesce>>
  BY <1>1
<1>2. ASSUME NEW h \in Handles, HandleStep(h)
      PROVE  Queued'
  <2>1. CASE GetCreate(h)
    BY <1>1, <2>1, LocalGet, <1>0
  <2>2. CASE ~GetCreate(h)
    <3>1. SUFFICES /\ "quiesce" \in gate'[h] => quiesce'[h].pc = "freeze"
                   /\ boot'[h].pc # "idle" => boot'[h].by \in gate'[h]
      BY <1>0, <1>2, <2>2, Local DEF Same, HandleStep, OwnStep
    <3>2. ASSUME NEW r \in Requests, Request(h, r)
          PROVE  Queued'
      BY <1>0, <3>2, HandoutFrame DEF Request, TypeOK
    <3>3. CASE BootStep(h)
      <4>1. CASE BootFails(h) \/ BootSucceeds(h)
        BY <1>0, <4>1 DEF BootFails, BootSucceeds, BootEnds, NoBoot, TypeOK
      <4>2. ASSUME NEW r \in Requests, BootRead(h, r)
            PROVE  Queued'
        BY <1>0, <4>2, <3>1, BootFrame DEF BootRead, TypeOK
      <4>3. CASE UNCHANGED <<gate, quiesce>> /\ ~\E r \in Requests : BootRead(h, r)
        <5>1. boot[h].pc # "idle"
          BY <3>3, <4>3 DEF BootStep, BootLock, BootAttach, BootSpawn,
             BootConnect, BootFail, BootGuard, BootPublish, BootFinish
        <5>2. boot'[h] = NoBoot \/ boot'[h].by = boot[h].by
          BY <1>0, <3>3, <5>1, BootMoves DEF BootMoved
        <5> QED BY <4>3, <5>1, <5>2 DEF NoBoot
      <4> QED BY <3>3, <4>1, <4>2, <4>3, BootFrame
              DEF BootStep, BootLock, BootAttach, BootFail, BootGuard,
                  BootPublish, BootFinish
    <3>4. CASE StopStep(h)
      <4>1. UNCHANGED <<boot, quiesce>>
        BY <3>4, StopFrame
      <4>2. gate' \in {gate, [gate EXCEPT ![h] = @ \cup {"stop"}]}
        BY <3>4 DEF StopStep, StopAttach, StopKill, StopClean, StopRecord,
           StopFinish, StopRemove, handleVars
      <4> QED BY <1>0, <4>1, <4>2 DEF TypeOK
    <3>5. CASE QuiesceBegin(h)
      BY <1>0, <3>5 DEF QuiesceBegin, TypeOK, taskVars
    <3>6. CASE QuiesceStep(h) \/ QuiesceAbandon(h)
      <4>1. UNCHANGED <<gate, boot>> /\ quiesce[h].pc # "freeze"
        BY <3>6, QuiesceFrame
           DEF QuiesceStep, QuiesceStop, QuiescePause, QuiesceCont,
     QuiesceProbe, QuiesceResume, QuiesceSet, QuiesceWrites, QuiesceAbandon
      <4> QED BY <4>1
    <3> QED BY <1>1, <1>2, <2>2, <3>2, <3>3, <3>4, <3>5, <3>6, HandoutFrame,
            StopFrame, WatchFrame DEF HandleStep, WatchStep
  <2> QED BY <2>1, <2>2
<1>3. ASSUME NEW p \in Shims, ShimStep(p)
      PROVE  Queued'
  BY <1>3, <1>1, HostFrame
<1>4. CASE HostStep
  <2>1. CASE ProcessGone
    BY <2>1 DEF ProcessGone, NoBoot
  <2> QED BY <1>1, <1>4, <2>1, HandoutFrame, HostFrame
          DEF HostStep, Crash, Reboot, RuntimeDrop
<1>5. CASE UNCHANGED vars
  BY <1>1, <1>5 DEF vars, handleVars, taskVars
<1> QED BY <1>2, <1>3, <1>4, <1>5 DEF Next

(* What the watcher writes down is that the box is not active. *)
LEMMA Recorded ==
  ASSUME TypeOK, NEW h \in Handles, WatchRecord(h)
  PROVE  /\ ~IsActive(mem'[h].status) /\ mem'[h].pid \in {NoShim, mem[h].pid}
         /\ \/ mem' = mem /\ watch'[h].pc = "done"
            \/ watch'[h].pc = "save"
         /\ watch'[h].snapshot \in {NewState, mem'[h]}
<1>1. /\ RecordMainCommandExit(mem[h]).status = "Stopped"
      /\ RecordMainCommandExit(mem[h]).pid = NoShim
  <2>1. [mem[h] EXCEPT !.exit = IF record = NoShim THEN @ ELSE record] \in BoxState
    BY DEF TypeOK, BoxState
  <2> QED BY <2>1 DEF RecordMainCommandExit, MarkStop, BoxState
<1>2. mem[h] \in BoxState
  BY DEF TypeOK
<1>3. /\ [mem[h] EXCEPT !.exit = record].status = mem[h].status
      /\ [mem[h] EXCEPT !.exit = record].pid = mem[h].pid
  BY <1>2 DEF BoxState
<1>4. CASE mem' = mem
  BY <1>2, <1>4, <1>1, <1>3
     DEF WatchRecord, WatchSet, TypeOK, IsActive, NoWatch
<1>5. CASE mem' # mem
  <2> DEFINE fill == /\ ~IsActive(mem[h].status)
                     /\ mem[h].exit = NoShim /\ record # NoShim
             seen == IF fill THEN [mem[h] EXCEPT !.exit = record]
                     ELSE RecordMainCommandExit(mem[h])
  <2>1. /\ mem' = [mem EXCEPT ![h] = seen]
        /\ watch' = [watch EXCEPT ![h] = [pc |-> "save", pid |-> NoShim,
                                         snapshot |-> seen]]
    BY <1>5 DEF WatchRecord
  <2>2. ~IsActive(seen.status) /\ seen.pid \in {NoShim, mem[h].pid}
    BY <1>1, <1>3 DEF IsActive
  <2> HIDE DEF seen
  <2> QED BY <2>1, <2>2 DEF TypeOK
<1> QED BY <1>4, <1>5

(* Without a get() the only handle is the creator's. It takes its box for
   Running over an empty live cell only between publishing and filling the
   cell, or when the box is gone; so no boot adopts. *)
OnlyCreator ==
  \A h \in Handles :
    /\ getter[h] = Absent
    /\ IsHeld(h) => created
    /\ boot[h].pc # "idle" /\ boot[h].plan = "adopt"
         => boot[h].pc = "locking" /\ Gone
    /\ IsHeld(h) /\ live[h] = NoShim /\ (mem[h].status = "Running" \/ quiesce[h].pc # "idle")
         => boot[h].pc = "finish" \/ Gone
    /\ held[h] # "dropped" /\ live[h] = NoShim => cstart[h] = "empty"

(* What OnlyCreator says of one handle, after its own step. *)
LEMMA CreatorSteps ==
  ASSUME "get" \notin Calls, IInv, Shelved, Queued, OnlyCreator, Gone => Gone',
         created => created', NEW h \in Handles, HandleStep(h)
  PROVE  /\ IsHeld(h)' => created'
         /\ boot'[h].pc # "idle" /\ boot'[h].plan = "adopt"
              => boot'[h].pc = "locking" /\ Gone'
         /\ IsHeld(h)' /\ live'[h] = NoShim
            /\ (mem'[h].status = "Running" \/ quiesce'[h].pc # "idle")
              => boot'[h].pc = "finish" \/ Gone'
         /\ held'[h] # "dropped" /\ live'[h] = NoShim => cstart'[h] = "empty"
<1> USE DEF OnlyCreator, IsHeld
<1>0. TypeOK /\ CellsAgree /\ BootNamesShim
  BY DEF IInv
<1>1. CASE UNCHANGED <<held, boot, live, mem, quiesce, cstart>>
  BY <1>1
<1>2. CASE Create(h)
  <2>1. held[h] = "unborn" /\ created' /\ mem'[h] = NewState
    BY <1>0, <1>2 DEF Create, NewHandle, TypeOK
  <2>2. boot[h].pc = "idle" /\ quiesce[h].pc = "idle" /\ live[h] = NoShim
    BY <2>1 DEF Shelved
  <2> QED BY <1>2, <2>1, <2>2 DEF Create, NewState
<1>3. ~GetRead(h) /\ ~GetCreate(h)
  BY DEF GetRead, GetCreate
<1>4. CASE DropHandle(h)
  BY <1>0, <1>4, <1>1 DEF DropHandle, Idle, TypeOK, taskVars, handleVars
<1>5. CASE StartStep(h) \/ \E r \in Requests : Request(h, r)
  <2>1. UNCHANGED <<created, held, boot, live, mem, quiesce>>
    BY <1>5, HandoutFrame
  <2>2. live[h] = NoShim => cstart'[h] = cstart[h]
    BY <1>0, <1>5 DEF StartStep, ContainerStart, ContainerStartFails, Request,
       CellEmpty, CellsAgree
  <2> QED BY <2>1, <2>2
<1>6. CASE BootStep(h)
  <2>0. UNCHANGED <<created, held>> /\ BootMoved(boot[h], boot'[h], mem[h])
    BY <1>0, <1>6, BootMoves, BootFrame DEF BootStep
  <2>1. IsHeld(h) /\ created
    <3>1. gate[h] # {} \/ boot[h].pc # "idle"
      BY <1>6 DEF BootStep, BootRead, BootLock, BootAttach, BootSpawn,
         BootConnect, BootFail, BootGuard, BootPublish, BootFinish
    <3> QED BY <3>1 DEF Shelved
  <2>2. boot[h].pc # "idle" => live[h] = NoShim
    BY <1>0 DEF CellsAgree
  <2>3. ASSUME NEW r \in Requests, BootRead(h, r)
        PROVE  /\ boot'[h].pc # "idle" /\ boot'[h].plan = "adopt"
                    => boot'[h].pc = "locking" /\ Gone'
               /\ boot[h].pc = "idle" /\ UNCHANGED <<live, mem, quiesce, cstart>>
    <3>1. boot[h].pc = "idle" /\ live[h] = NoShim
      BY <2>3 DEF BootRead, CellEmpty
    <3>2. boot'[h].pc # "idle" => boot'[h].pc = "locking" /\ boot'[h].plan = ExecutionPlan(mem[h].status)
      BY <2>3, <3>1, <1>0 DEF BootRead, TypeOK
    <3>3. ExecutionPlan(mem[h].status) = "adopt" => mem[h].status = "Running"
      BY DEF ExecutionPlan, CanStart
    <3> QED BY <2>1, <2>3, <3>1, <3>2, <3>3, BootFrame
  <2>4. CASE BootFails(h) /\ ~BootFinish(h) /\ ~\E r \in Requests : BootRead(h, r)
    <3>1. boot'[h] = NoBoot
      BY <1>0, <2>4 DEF BootFails, BootEnds, TypeOK
    <3>2. boot[h].pc \notin {"idle", "finish"} /\ UNCHANGED <<live, cstart>>
      <4>1. ~BootConnect(h)
        BY <1>0, <3>1 DEF BootConnect, BootSet, NoBoot, TypeOK, BootState
      <4>2. boot[h].pc \notin {"idle", "finish"}
        BY <1>6, <2>4 DEF BootStep, BootLock, BootAttach, BootFail, BootGuard,
           BootPublish, BootSpawn, BootConnect
      <4> QED BY <1>6, <2>4, <4>1, <4>2, BootFrame DEF BootStep
    <3>3. quiesce'[h].pc # "idle" => quiesce[h].pc # "idle"
      BY <1>0, <2>4, <3>2 DEF BootFails, BootEnds, Queued, TypeOK
    <3>4. mem'[h].status = "Running" => mem[h].status = "Running" \/ Gone'
      <4>1. CASE BootPublish(h)
        BY <2>1, <2>4, <3>1, <4>1, <1>0 DEF BootPublish, BootSet, NoBoot, TypeOK, Gone
      <4> QED BY <1>6, <4>1, BootFrame DEF BootStep
    <3> QED BY <2>0, <2>1, <2>2, <3>1, <3>2, <3>3, <3>4 DEF NoBoot
  <2>5. CASE BootFinish(h)
    <3>1. live'[h] # NoShim /\ boot'[h] = NoBoot
      BY <1>0, <2>5, ConstantsAssumption DEF BootFinish, BootSucceeds, BootEnds,
         BootNamesShim, Connecting, TypeOK
    <3> QED BY <2>0, <2>1, <3>1 DEF NoBoot
  <2>6. CASE BootPublish(h) /\ ~BootFails(h)
    <3>1. boot[h].pc = "publish" /\ boot[h].plan # "adopt" /\ quiesce' = quiesce
          /\ cstart' = cstart /\ live' = live
      BY <1>0, <2>6, BootFrame DEF BootPublish
    <3>2. boot'[h].plan = boot[h].plan
      BY <1>0, <2>6, <3>1 DEF BootPublish, BootSet, TypeOK, BootState
    <3>3. boot'[h].pc = "finish" \/ Gone' \/ mem' = mem
      BY <1>0, <2>1, <2>6, <3>1 DEF BootPublish, BootSet, TypeOK, BootState, Gone
    <3> QED BY <2>0, <2>1, <2>2, <3>1, <3>2, <3>3
  <2>7. CASE /\ BootLock(h) \/ BootAttach(h) \/ BootSpawn(h) \/ BootConnect(h) \/ BootFail(h)
             /\ ~BootFinish(h) /\ ~\E r \in Requests : BootRead(h, r)
    <3>1. CASE ~BootFails(h)
      <4>1. boot[h].plan # "adopt"
        BY <1>0, <2>7, <3>1 DEF BootLock, BootAttach, BootSpawn, BootConnect, BootFail, Gone,
           BootNamesShim
      <4>2. UNCHANGED <<live, mem, cstart, quiesce>>
        <5>1. BootConnect(h) => cstart' = cstart
          BY <1>0, <4>1 DEF BootConnect, StartCell, TypeOK
        <5> QED BY <2>7, <3>1, <5>1, BootFrame DEF BootLock, BootAttach, BootFail
      <4>3. boot[h].pc \notin {"idle", "finish"} /\ boot'[h].plan = boot[h].plan
        BY <1>0, <2>7, <3>1 DEF BootLock, BootAttach, BootSpawn, BootConnect,
           BootFail, BootSet, TypeOK, BootState
      <4>4. ~(boot'[h].pc # "idle" /\ boot'[h].plan = "adopt")
        BY <4>1, <4>3
      <4>5. live[h] = NoShim /\ (mem[h].status = "Running" \/ quiesce[h].pc # "idle") => Gone
        BY <2>1, <4>3
      <4> QED BY <2>0, <2>1, <4>2, <4>4, <4>5
    <3> QED BY <2>4, <2>7, <3>1
  <2> QED BY <1>6, <2>0, <2>1, <2>2, <2>3, <2>4, <2>5, <2>6, <2>7
          DEF BootStep, BootGuard
<1>7. CASE StopBegin(h) \/ StopStep(h) \/ StopAbandon(h)
  <2>1. UNCHANGED <<created, held, boot, live, quiesce, cstart>>
    BY <1>7, StopFrame
  <2>2. mem'[h].status = "Running" => mem[h].status = "Running"
    <3>1. CASE StopRecord(h)
      BY <1>0, <3>1, RecordedTyped
         DEF StopRecord, RecordMainCommandExit, MarkStop, BoxState, TypeOK
    <3> QED BY <1>7, <3>1, StopFrame DEF StopStep, StopAttach, StopKill,
            StopClean, StopFinish, StopRemove, handleVars
  <2> QED BY <2>1, <2>2
<1>8. CASE WatchStep(h)
  <2>1. UNCHANGED <<created, held, boot, live, quiesce, cstart>>
    BY <1>8, WatchFrame DEF WatchStep
  <2>2. mem'[h].status = "Running" => mem[h].status = "Running"
    <3>1. CASE WatchRecord(h)
      BY <1>0, <3>1, Recorded DEF IsActive
    <3> QED BY <1>8, <3>1, WatchFrame DEF WatchStep
  <2> QED BY <2>1, <2>2
<1>9. CASE QuiesceBegin(h) \/ QuiesceStep(h) \/ QuiesceAbandon(h)
  <2>1. UNCHANGED <<created, held, boot, live>>
    BY <1>9, QuiesceFrame DEF QuiesceStep
  <2>2. mem[h].status = "Running" \/ quiesce[h].pc # "idle"
    BY <1>9 DEF QuiesceBegin, QuiesceStep, QuiesceStop, QuiescePause, QuiesceCont,
     QuiesceProbe, QuiesceResume, QuiesceSet, QuiesceWrites, QuiesceAbandon
  <2>3. live[h] = NoShim => cstart' = cstart
    BY <1>9, QuiesceFrame DEF QuiesceBegin, QuiesceStep
  <2> QED BY <2>1, <2>2, <2>3
<1> QED BY <1>2, <1>3, <1>4, <1>5, <1>6, <1>7, <1>8, <1>9 DEF HandleStep

LEMMA CreatorNext ==
  ASSUME "get" \notin Calls, IInv, Shelved, Queued, OnlyCreator, [Next]_vars
  PROVE  OnlyCreator'
<1> USE DEF OnlyCreator, IsHeld
<1>0. (Gone => Gone') /\ (created => created')
  BY GoneStays, CreatedStays
<1>1. ASSUME NEW h \in Handles, HandleStep(h)
      PROVE  OnlyCreator'
  <2>1. ~GetRead(h) /\ ~GetCreate(h)
    BY DEF GetRead, GetCreate
  <2>2. getter' = getter
    BY <1>1, <2>1, HandoutFrame, BootFrame, StopFrame, WatchFrame, QuiesceFrame
       DEF HandleStep, BootStep, WatchStep, QuiesceStep
  <2>3. \A g \in Handles : g # h => Same(g)
    BY <1>1, <2>1, Local DEF IInv, HandleStep, OwnStep
  <2> QED BY <1>0, <1>1, <2>2, <2>3, CreatorSteps DEF Same
<1>2. ASSUME NEW p \in Shims, ShimStep(p)
      PROVE  OnlyCreator'
  BY <1>0, <1>2, HostFrame
<1>3. CASE HostStep
  <2>1. CASE ProcessGone
    BY <2>1 DEF ProcessGone, NoBoot
  <2>2. CASE ~ProcessGone
    <3>1. UNCHANGED <<getter, held, boot, live, mem, quiesce, cstart>>
      BY <1>3, <2>2, HandoutFrame, HostFrame
         DEF HostStep, Crash, Reboot, RuntimeDrop
    <3> QED BY <1>0, <3>1
  <2> QED BY <2>1, <2>2
<1>4. CASE UNCHANGED vars
  BY <1>0, <1>4 DEF vars, hostVars, handleVars, taskVars
<1> QED BY <1>1, <1>2, <1>3, <1>4 DEF Next

(* Init has run in every VM whose container-start cell is filled: the handle
   that filled it ran it. *)
LEMMA StartedNext ==
  ASSUME "get" \notin Calls, IInv, Shelved, OnlyCreator, Started, [Next]_vars
  PROVE  Started'
<1> USE DEF Started
<1>0. TypeOK /\ CellsAgree
  BY DEF IInv
<1>1. CASE UNCHANGED <<live, cstart, ran>>
  BY <1>1
<1>2. ASSUME NEW h \in Handles, HandleStep(h)
      PROVE  Started'
  <2>1. ~GetRead(h) /\ ~GetCreate(h)
    BY DEF OnlyCreator, GetRead, GetCreate
  <2>2. \A g \in Handles : g # h => Same(g)
    BY <1>0, <1>2, <2>1, Local DEF HandleStep, OwnStep
  <2>3. CASE StartStep(h)
    <3>1. ran \subseteq ran' /\ live' = live
      BY <2>3, HandoutFrame
         DEF StartStep, ContainerStart, ContainerStartFails
    <3>2. cstart'[h] = "done" => live[h] \in ran'
      BY <1>0, <2>3 DEF StartStep, ContainerStart, ContainerStartFails,
         FailedStart, TypeOK
    <3> QED BY <2>2, <3>1, <3>2 DEF Same
  <2>4. CASE BootStep(h)
    <3>1. ran' = ran
      BY <2>4, BootFrame DEF BootStep
    <3>2. live'[h] = NoShim \/ cstart'[h] # "done" \/ UNCHANGED <<live, cstart>>
      <4>1. CASE BootConnect(h)
        BY <1>0, <4>1, BootFrame DEF BootConnect, CellsAgree
      <4>2. CASE BootFinish(h)
        <5>1. IsHeld(h) /\ live[h] = NoShim
          BY <1>0, <4>2 DEF Shelved, BootFinish, CellsAgree
        <5>2. cstart[h] = "empty"
          BY <5>1 DEF OnlyCreator, IsHeld
        <5> QED BY <1>0, <4>2, <5>2 DEF BootFinish, TypeOK
      <4> QED BY <2>4, <4>1, <4>2, BootFrame DEF BootStep
    <3> QED BY <2>2, <3>1, <3>2 DEF Same
  <2>5. CASE DropHandle(h)
    BY <1>0, <2>2, <2>5, StopFrame DEF DropHandle, TypeOK, Same
  <2>6. CASE QuiesceBegin(h) \/ \E r \in Requests : Request(h, r)
    <3>1. UNCHANGED <<live, ran>>
      BY <2>6, HandoutFrame, QuiesceFrame
    <3>2. cstart'[h] = "done" => cstart[h] = "done"
      BY <1>0, <2>6 DEF QuiesceBegin, Request, TypeOK
    <3> QED BY <2>2, <3>1, <3>2 DEF Same
  <2> QED BY <1>1, <1>2, <2>1, <2>3, <2>4, <2>5, <2>6, HandoutFrame, StopFrame,
             WatchFrame, QuiesceFrame DEF HandleStep, WatchStep, QuiesceStep
<1>3. ASSUME NEW p \in Shims, ShimStep(p)
      PROVE  Started'
  BY <1>1, <1>3, HostFrame
<1>4. CASE HostStep
  <2>1. CASE ProcessGone
    BY <2>1 DEF ProcessGone
  <2> QED BY <1>1, <1>4, <2>1, HandoutFrame, HostFrame
          DEF HostStep, Crash, Reboot, RuntimeDrop
<1>5. CASE UNCHANGED vars
  BY <1>1, <1>5 DEF vars, handleVars, procVars
<1> QED BY <1>2, <1>3, <1>4, <1>5 DEF Next

(* "Run the container's init exactly once": where the handle that created    *)
(* the box is the only one, what its container-start cell says was run has   *)
(* been, whatever starts, snapshots, stops, removals and faults interleave.  *)
THEOREM CreatorStartsInit ==
  ASSUME "get" \notin Calls
  PROVE  Spec => []Started
<1> DEFINE Inv == IInv /\ Shelved /\ Queued /\ OnlyCreator /\ Started
<1>1. Init => Inv
  BY InitInductive DEF Init, Shelved, Queued, OnlyCreator, Started, IsHeld,
     NoBoot, NoQuiesce
<1>2. Inv /\ [Next]_vars => Inv'
  BY NextInductive, ShelvedNext, QueuedNext, CreatorNext, StartedNext
<1>3. Inv => Started
  OBVIOUS
<1> QED BY <1>1, <1>2, <1>3, PTL DEF Spec
-----------------------------------------------------------------------------
(* Attended, RecoveredTruth and SpentForever, for clients that neither stop  *)
(* the box nor let go of a handle, for as long as no handle boots a second   *)
(* VM (OneLife).                                                             *)
LeftAlone == Calls \cap {"stop", "drop"} = {} /\ ("shutdown" \in Calls => Detach)
NoStops == /\ runtime = "closing" => Detach
           /\ \A h \in Handles : stop[h] = "idle" /\ "stop" \notin gate[h]

(* The steps that are left. *)
AloneStep(h) ==
  \/ Create(h) \/ GetRead(h) \/ GetCreate(h)
  \/ \E r \in Requests : Request(h, r)
  \/ StartStep(h) \/ BootStep(h) \/ WatchStep(h)
  \/ QuiesceBegin(h) \/ QuiesceStep(h) \/ QuiesceAbandon(h)
AloneHost ==
  \/ Provision \/ \E force \in BOOLEAN : Remove(force)
  \/ RemoveCommit \/ RemoveInMemory \/ Shutdown \/ Recover
Ends == (Crash \/ Reboot) /\ ProcessGone
AloneNext ==
  \/ \E h \in Handles : AloneStep(h)
  \/ \E p \in Shims : ShimStep(p)
  \/ AloneHost \/ Ends
  \/ UNCHANGED vars

LEMMA StepsLeft ==
  ASSUME LeftAlone, NoStops, [Next]_vars
  PROVE  AloneNext
<1>1. ASSUME NEW h \in Handles, HandleStep(h)
      PROVE  AloneStep(h)
  <2>1. ~DropHandle(h) /\ ~StopBegin(h)
    BY DEF LeftAlone, NoStops, DropHandle, StopBegin
  <2>2. ~StopStep(h) /\ ~StopAbandon(h)
    BY DEF NoStops, StopStep, StopAttach, StopKill, StopClean, StopRecord,
       StopFinish, StopRemove, StopAbandon
  <2> QED BY <1>1, <2>1, <2>2 DEF HandleStep, AloneStep
<1>2. ASSUME HostStep
      PROVE  AloneHost \/ Ends
  <2>1. ~RuntimeDrop
    BY DEF LeftAlone, RuntimeDrop
  <2> QED BY <1>2, <2>1 DEF HostStep, AloneHost, Ends, Crash, Reboot
<1> QED BY <1>1, <1>2 DEF Next, AloneNext

LEMMA NoStopsNext ==
  ASSUME LeftAlone, IInv, Queued, NoStops, [Next]_vars
  PROVE  NoStops'
<1> USE DEF NoStops
<1>0. TypeOK /\ AloneNext
  BY StepsLeft DEF IInv
<1>1. runtime' = "closing" => Detach
  <2>1. CASE Shutdown
    BY <2>1 DEF LeftAlone, Shutdown
  <2>2. CASE ~Shutdown
    <3>1. runtime' = runtime \/ runtime' # "closing"
      BY <1>0, <2>2, HandoutFrame, BootFrame, WatchFrame, QuiesceFrame, HostFrame
         DEF AloneNext, AloneStep, AloneHost, Ends, BootStep, WatchStep,
             QuiesceStep, Crash, Reboot, Recover, vars, hostVars
    <3> QED BY <3>1
  <2> QED BY <2>1, <2>2
<1>2. CASE UNCHANGED <<stop, gate>>
  BY <1>1, <1>2
<1>3. ASSUME NEW h \in Handles, AloneStep(h)
      PROVE  NoStops'
  <2>1. ASSUME NEW r \in Requests, Request(h, r)
        PROVE  NoStops'
    BY <1>0, <1>1, <2>1, HandoutFrame DEF Request, TypeOK
  <2>2. CASE BootStep(h)
    <3>1. CASE (BootFails(h) \/ BootSucceeds(h)) /\ boot[h].pc # "idle"
      BY <1>0, <1>1, <3>1 DEF BootFails, BootSucceeds, BootEnds, Served, Queued,
         TypeOK
    <3>2. CASE \E r \in Requests : BootRead(h, r)
      BY <1>0, <1>1, <3>2 DEF BootRead, TypeOK
    <3> QED BY <1>2, <2>2, <3>1, <3>2, BootFrame
            DEF BootStep, BootLock, BootAttach, BootFail, BootGuard,
                BootPublish, BootFinish
  <2>3. CASE QuiesceBegin(h)
    BY <1>0, <1>1, <2>3, QuiesceFrame DEF QuiesceBegin, TypeOK
  <2> QED BY <1>2, <1>3, <2>1, <2>2, <2>3, HandoutFrame, WatchFrame, QuiesceFrame
          DEF AloneStep, WatchStep, QuiesceStep
<1>4. CASE Ends
  BY <1>1, <1>4 DEF Ends, ProcessGone
<1> QED BY <1>0, <1>2, <1>3, <1>4, HandoutFrame, HostFrame
        DEF AloneNext, AloneHost, vars, taskVars, handleVars

(* Who writes the row, the PID file, the cache, ... *)
LEMMA Writers ==
  ASSUME AloneNext
  PROVE  /\ \/ row' = row \/ Provision \/ RemoveCommit \/ Recover
            \/ \E force \in BOOLEAN : Remove(force)
            \/ \E h \in Handles : \/ Create(h) \/ BootGuard(h) \/ BootPublish(h)
                                  \/ WatchSave(h) \/ QuiesceStep(h)
         /\ \/ pidfile' = pidfile \/ RemoveCommit \/ RemoveInMemory \/ Recover
            \/ \E h \in Handles : BootSpawn(h)
         /\ \/ cache' = cache \/ RemoveCommit \/ RemoveInMemory \/ Ends
            \/ \E h \in Handles : Create(h) \/ GetCreate(h) \/ WatchTail(h)
         /\ \/ runtime' = runtime \/ Shutdown \/ Recover \/ Ends
         /\ \/ getter' = getter \/ Ends
            \/ \E h \in Handles : GetRead(h) \/ GetCreate(h)
         /\ \/ held' = held \/ Ends
            \/ \E h \in Handles : Create(h) \/ GetCreate(h)
         /\ \/ mem' = mem \/ Ends
            \/ \E h \in Handles : \/ Create(h) \/ GetCreate(h) \/ BootPublish(h)
                                  \/ WatchRecord(h) \/ QuiesceStep(h)
         /\ \/ watch' = watch \/ Ends
            \/ \E h \in Handles : \/ Create(h) \/ GetCreate(h) \/ BootPublish(h)
                                  \/ WatchStep(h)
         /\ \/ live' = live \/ Ends \/ \E h \in Handles : BootFinish(h)
         /\ \/ boot' = boot \/ Ends \/ \E h \in Handles : BootStep(h)
         /\ \/ quiesce' = quiesce \/ Ends
            \/ \E h \in Handles : \/ QuiesceBegin(h) \/ QuiesceStep(h)
                                  \/ QuiesceAbandon(h) \/ BootStep(h)
         /\ \/ token' = token \/ Ends \/ Shutdown
            \/ \E h \in Handles : Create(h) \/ GetCreate(h)
         /\ \/ flock' = flock \/ Ends \/ \E h \in Handles : BootStep(h)
         /\ \/ created' = created \/ Provision \/ \E h \in Handles : Create(h)
<1>1. CASE \E h \in Handles : Create(h) \/ GetRead(h) \/ GetCreate(h)
                              \/ (\E r \in Requests : Request(h, r)) \/ StartStep(h)
  BY <1>1, HandoutFrame
<1>2. CASE \E h \in Handles : BootStep(h)
  BY <1>2, BootFrame DEF BootStep
<1>3. CASE \E h \in Handles : WatchStep(h)
  BY <1>3, WatchFrame DEF WatchStep
<1>4. CASE \E h \in Handles : QuiesceBegin(h) \/ QuiesceStep(h) \/ QuiesceAbandon(h)
  BY <1>4, QuiesceFrame DEF QuiesceStep
<1>5. CASE \E p \in Shims : ShimStep(p)
  BY <1>5, HostFrame
<1>6. CASE AloneHost \/ Ends
  BY <1>6, HandoutFrame, HostFrame DEF AloneHost, Ends, ProcessGone
<1>7. CASE UNCHANGED vars
  BY <1>7 DEF vars, diskVars, hostVars, handleVars, taskVars
<1> QED BY <1>1, <1>2, <1>3, <1>4, <1>5, <1>6, <1>7 DEF AloneNext, AloneStep

Up(p) == shim[p] \in {"live", "frozen"}

(* A shim that ended stays so, and none comes up but one that is spawned. *)
LEMMA ShimsEnd ==
  ASSUME TypeOK, AloneNext, NEW p \in Shims
  PROVE  /\ shim[p] = "dead" => shim'[p] = "dead"
         /\ shim'[p] = "unborn" => shim[p] = "unborn"
         /\ Up(p)' => Up(p) \/ \E h \in Handles : BootSpawn(h) /\ pidfile' = p
<1> USE DEF TypeOK, Up
<1>1. CASE shim' = shim
  BY <1>1
<1>2. ASSUME NEW h \in Handles, BootSpawn(h)
      PROVE  /\ shim[p] = "dead" => shim'[p] = "dead"
             /\ shim'[p] = "unborn" => shim[p] = "unborn"
             /\ Up(p)' => Up(p) \/ pidfile' = p
  BY <1>2 DEF BootSpawn
<1>3. ASSUME \E q : Teardown(q)
      PROVE  shim'[p] \in {shim[p], "dead"}
  BY <1>3 DEF Teardown
<1>4. ASSUME NEW h \in Handles, BootFail(h) \/ WatchStep(h)
      PROVE  shim'[p] \in {shim[p], "dead"}
  <2>1. CASE BootFail(h)
    BY <1>3, <2>1 DEF BootFail
  <2>2. CASE WatchExit(h)
    BY <2>2 DEF WatchExit
  <2> QED BY <1>4, <2>1, <2>2, WatchFrame DEF WatchStep
<1>5. ASSUME NEW h \in Handles, QuiesceStep(h)
      PROVE  \/ shim'[p] = shim[p]
             \/ Up(p) /\ Up(p)'
  <2>1. CASE QuiesceStop(h)
    BY <2>1 DEF QuiesceStop
  <2>2. CASE QuiesceCont(h)
    BY <2>2 DEF QuiesceCont, Continued
  <2>3. CASE UNCHANGED shim
    BY <2>3
  <2> QED BY <1>5, <2>1, <2>2, <2>3
          DEF QuiesceStep, QuiescePause, QuiesceProbe, QuiesceResume, QuiesceWrites,
              procVars
<1>6. ASSUME NEW q \in Shims, ShimStep(q)
      PROVE  shim'[p] = shim[p] \/ (Up(p) /\ shim'[p] \in {"dead", "zombie"})
  BY <1>6 DEF ShimStep, MainExits, ShimDies, Watchdog, Exit
<1>7. ASSUME NEW force \in BOOLEAN, Remove(force)
      PROVE  shim'[p] \in {shim[p], "dead"}
  BY <1>3, <1>7 DEF Remove, RemoveChecked
<1>8. CASE Ends
  BY <1>8 DEF Ends, Crash, Reboot
<1> QED BY <1>1, <1>2, <1>4, <1>5, <1>6, <1>7, <1>8, HandoutFrame, BootFrame,
           QuiesceFrame, HostFrame
        DEF AloneNext, AloneStep, AloneHost, BootStep, QuiesceStep, vars, procVars

(* What holds of every state on the way, part by part.                       *)
Act(b) == IsActive(b.status)
Shows(b, p) == b.status = "Running" /\ b.pid = p

(* Nothing is known, watched or cached of a handle no client holds, nothing
   is left in a host process that is away, and nothing exists of a box that
   has not been created. *)
Vacant ==
  /\ \A h \in Handles : ~IsHeld(h) => mem[h] = NewState /\ watch[h].pc = "none"
  /\ cache # NoHandle => IsHeld(cache)
Away ==
  runtime \in {"down", "rebooted"} =>
    cache = NoHandle /\ \A h \in Handles : ~IsHeld(h) /\ getter[h] = Absent
Unmade ==
  ~created => /\ row = Absent /\ cache = NoHandle
              /\ \A p \in Shims : shim[p] = "unborn"
              /\ \A h \in Handles : ~IsHeld(h) /\ getter[h] = Absent

(* No copy of the state names a shim that is not born, and none is Running
   without a pid. *)
Born(p, s) == p # NoShim => s[p] # "unborn"
Known(b, s) == Born(b.pid, s) /\ (b.status = "Running" => b.pid # NoShim)
PidsBorn ==
  /\ Born(pidfile, shim)
  /\ Persisted => Known(row, shim)
  /\ \A h \in Handles : /\ Known(mem[h], shim)
                        /\ getter[h] # Absent => Known(getter[h], shim)
                        /\ Known(watch[h].snapshot, shim) /\ ~Act(watch[h].snapshot)

(* A boot past its lock holds it, and only one that started no VM works on a
   state that is active. *)
Locked ==
  \A h \in Handles : boot[h].pc \notin {"idle", "locking"} => flock = h
Planned ==
  \A h \in Handles :
    /\ boot[h].pc = "spawn" => boot[h].plan = "fresh"
    /\ Connecting(h) => boot[h].plan # "none"
    /\ boot[h].plan = "fresh" /\ boot[h].pc \in {"locking", "spawn", "connect", "publish"}
         => ~Act(mem[h])

(* A bracket is around the VM the handle shows, or one that ended. *)
Bracketed ==
  \A h \in Handles :
    quiesce[h].pc # "idle" =>
      /\ quiesce[h].pid # NoShim
      /\ \/ shim[quiesce[h].pid] = "dead"
         \/ Act(mem[h]) /\ mem[h].pid = quiesce[h].pid
(* A handle whose watcher was never armed brackets and adopts nothing. *)
Fresh ==
  Persisted =>
    \A h \in Handles : watch[h].pc = "none" =>
      quiesce[h].pc = "idle" /\ (boot[h].pc = "idle" \/ boot[h].plan # "adopt")

(* A watcher that has not seen its VM end watches the one its handle shows;
   every handle that shows one is watched, unless it stood down; and every
   handle that runs one has been. *)
Watching ==
  \A h \in Handles :
    watch[h].pc \in {"armed", "exited"} =>
      /\ Act(mem[h]) /\ mem[h].pid = watch[h].pid /\ watch[h].pid # NoShim
      /\ watch[h].pc = "exited" => shim[watch[h].pid] = "dead"
Attends ==
  \A h \in Handles :
    Act(mem[h]) =>
      \/ watch[h].pc \in {"armed", "exited"}
      \/ watch[h].pc = "done" /\ token[h]
      \/ /\ watch[h].pc = "none" /\ live[h] = NoShim
         /\ mem[h].status = "Paused" \/ ~Persisted
Filled ==
  \A h \in Handles : live[h] # NoShim \/ boot[h].pc = "finish" => watch[h].pc # "none"
(* A handle that is not the cached one has seen its VM end. *)
Over ==
  Persisted =>
    \A h \in Handles : IsHeld(h) /\ h # cache =>
      watch[h].pc \in {"remove", "done"} /\ ~Act(mem[h])

(* An adopter adopts the VM it shows, or finds no PID file. *)
Adopting ==
  \A h \in Handles :
    boot[h].plan = "adopt" /\ boot[h].pc \in {"connect", "publish"} /\ Act(mem[h])
      => pidfile \in {NoShim, mem[h].pid}
Emptied == Gone => \A h \in Handles : boot[h].pc = "attach" => pidfile = NoShim

(* Only the VM of the PID file runs; a boot that spawned it is at work, or it
   is the one the cached handle shows; and with no handle cached, the row
   names it and so does what a get() has read. *)
Booting(h) == boot[h].pc \in {"connect", "publish"} /\ boot[h].plan # "adopt"
OneVM == Persisted => \A p \in Shims : Up(p) => p = pidfile
Spawned == Persisted => \A h \in Handles : Booting(h) => pidfile = boot[h].shim
NoneRuns == \A p \in Shims : ~Up(p)
CacheTrue ==
  Persisted /\ cache # NoHandle =>
    /\ watch[cache].pc = "none" => Booting(cache) \/ NoneRuns
    /\ watch[cache].pc # "none" =>
         \/ NoneRuns
         \/ /\ Act(mem[cache]) /\ mem[cache].pid = pidfile
            /\ watch[cache].pc \in {"armed", "done"}
RowKept ==
  Persisted /\ cache = NoHandle /\ runtime \notin {"down", "rebooted"} =>
    \/ NoneRuns
    \/ /\ Shows(row, pidfile)
       /\ \A h \in Handles : /\ ~IsHeld(h)
                             /\ getter[h] # Absent => Shows(getter[h], pidfile)

(* A Running row is one a handle published, or that a get() will find so. *)
RowShown ==
  /\ Persisted /\ cache # NoHandle /\ watch[cache].pc \in {"none", "tail"}
       => row.status # "Running"
  /\ Persisted /\ cache = NoHandle /\ row.status = "Running"
       => \A h \in Handles : getter[h] # Absent => getter[h].status = "Running"
  /\ Persisted /\ runtime \notin {"down", "rebooted"} /\ row.status = "Running"
       => NoneRuns \/ row.pid = pidfile

Solo ==
  /\ NoStops /\ Shelved /\ Queued /\ Vacant /\ Away /\ Unmade /\ PidsBorn
  /\ Locked /\ Planned /\ Bracketed /\ Fresh
  /\ Watching /\ Attends /\ Filled /\ Over /\ Adopting /\ Emptied
  /\ OneVM /\ Spawned /\ CacheTrue /\ RowKept /\ RowShown
Steady == TypeOK /\ TypeOK' /\ IInv /\ Solo /\ OneLife /\ Unbroken /\ AloneNext

LEMMA InitSolo == Init => Solo
<1> SUFFICES ASSUME Init PROVE Solo
  OBVIOUS
<1> USE DEF Init, NoBoot, NoQuiesce, NoWatch, NewState, IsHeld, Persisted, Up
<1>1. NoStops /\ Shelved /\ Queued
  BY DEF NoStops, Shelved, Queued
<1>2. Vacant /\ Away /\ Unmade /\ PidsBorn
  BY DEF Vacant, Away, Unmade, PidsBorn, Born, Known, Act, IsActive
<1>3. Locked /\ Planned /\ Bracketed /\ Fresh
  BY DEF Locked, Planned, Bracketed, Fresh, Connecting
<1>4. Watching /\ Attends /\ Filled /\ Over /\ Adopting /\ Emptied
  BY DEF Watching, Attends, Filled, Over, Adopting, Emptied, Act, IsActive, Gone
<1>5. OneVM /\ Spawned /\ CacheTrue /\ RowKept /\ RowShown
  BY DEF OneVM, Spawned, CacheTrue, RowKept, RowShown
<1> QED BY <1>1, <1>2, <1>3, <1>4, <1>5 DEF Solo

(* Only a handle that is held acts, and on its own state alone. *)
LEMMA OnlyHeldAct ==
  ASSUME Steady, NEW h \in Handles,
         \/ (\E r \in Requests : Request(h, r)) \/ StartStep(h) \/ BootStep(h)
         \/ WatchStep(h)
         \/ QuiesceBegin(h) \/ QuiesceStep(h) \/ QuiesceAbandon(h)
  PROVE  IsHeld(h) /\ \A g \in Handles : g # h => Same(g)
<1>0. TypeOK
  BY DEF Steady
<1>1. SUFFICES ASSUME ~IsHeld(h) PROVE FALSE
  BY <1>0, Local DEF OwnStep
<1>2. /\ gate[h] = {} /\ boot[h].pc = "idle" /\ quiesce[h].pc = "idle"
      /\ live[h] = NoShim /\ watch[h].pc = "none" /\ cstart[h] # "wanted"
  BY <1>1 DEF Steady, IInv, CellsAgree, Solo, Shelved, Vacant
<1>3. ~BootStep(h)
  BY <1>2 DEF BootStep, BootRead, BootLock, BootAttach, BootSpawn,
     BootConnect, BootFail, BootGuard, BootPublish, BootFinish
<1>4. ~WatchStep(h)
  BY <1>2 DEF WatchStep, WatchStandDown, WatchExit, WatchRecord, WatchSave,
     WatchTail, WatchRemove
<1>5. ~(QuiesceBegin(h) \/ QuiesceStep(h) \/ QuiesceAbandon(h))
  BY <1>1, <1>2 DEF QuiesceBegin, QuiesceStep, QuiesceStop, QuiescePause, QuiesceCont,
     QuiesceProbe, QuiesceResume, QuiesceSet, QuiesceWrites, QuiesceAbandon
<1>6. ~StartStep(h) /\ ~\E r \in Requests : Request(h, r)
  BY <1>1, <1>2 DEF StartStep, ContainerStart, ContainerStartFails, Request
<1> QED BY <1>3, <1>4, <1>5, <1>6

(* arm_watcher, on a watcher w of a handle whose state is b. *)
Arm(w, b) ==
  IF w.pc = "none" /\ b.status = "Running" /\ b.pid # NoShim
  THEN [NoWatch EXCEPT !.pc = "armed", !.pid = b.pid] ELSE w

LEMMA ArmOps ==
  ASSUME NEW w, NEW b
  PROVE  \/ /\ Arm(w, b) = w
            /\ ~(w.pc = "none" /\ b.status = "Running" /\ b.pid # NoShim)
         \/ /\ w.pc = "none" /\ b.status = "Running" /\ b.pid # NoShim
            /\ Arm(w, b).pc = "armed" /\ Arm(w, b).pid = b.pid
            /\ Arm(w, b).snapshot = NewState
BY DEF Arm, NoWatch

(* What get_or_create_box_impl makes of a state b, or of a cached handle. *)
Made(h, b) ==
  /\ cache = NoHandle /\ cache' = h /\ ~IsHeld(h) /\ held'[h] = "held"
  /\ mem'[h] = b /\ watch'[h] = Arm(watch[h], b)
  /\ \A g \in Handles : g # h => Same(g)
Found ==
  /\ UNCHANGED <<held, mem, cache, token>> /\ cache \in Handles
  /\ \A g \in Handles :
       watch'[g] = IF g = cache THEN Arm(watch[g], mem[g]) ELSE watch[g]

LEMMA Handout ==
  ASSUME Steady, NEW h \in Handles, Create(h) \/ GetCreate(h)
  PROVE  /\ UNCHANGED <<pidfile, shim, runtime, live, boot, quiesce, gate>>
         /\ \/ /\ Create(h) /\ ~created /\ created' /\ row' = NewState
               /\ Made(h, NewState) /\ getter' = getter
            \/ /\ GetCreate(h) /\ UNCHANGED <<row, created>>
               /\ getter[h] \in BoxState /\ getter'[h] = Absent
               /\ \A g \in Handles : g # h => getter'[g] = getter[g]
               /\ Made(h, getter[h]) \/ Found
<1>0. TypeOK /\ (cache # NoHandle => IsHeld(cache))
  BY DEF Steady, Solo, Vacant
<1> USE DEF TypeOK, NewHandle, Armed, Arm, Made, IsHeld
<1>1. CASE Create(h)
  <2>1. cache = NoHandle /\ ~IsHeld(h) /\ UNCHANGED <<stop, cstart, gate, live, boot, quiesce>>
    BY <1>1, HandoutFrame DEF Create, Steady, Solo, Unmade
  <2> QED BY <1>0, <1>1, <2>1, HandoutFrame DEF Create, Same
<1>2. CASE GetCreate(h)
  <2>1. UNCHANGED <<pidfile, shim, runtime, live, boot, quiesce, gate, row, created, stop, cstart>>
    BY <1>2, HandoutFrame
  <2>2. /\ getter[h] \in BoxState /\ getter'[h] = Absent
        /\ \A g \in Handles : g # h => getter'[g] = getter[g]
    BY <1>0, <1>2 DEF GetCreate
  <2>3. CASE Cached = NoHandle
    <3>1. cache = NoHandle
      BY <1>0, <2>3 DEF Cached
    <3>2. NewHandle(h, getter[h])
      BY <1>2, <2>3 DEF GetCreate
    <3>3. \A g \in Handles : g # h => Same(g)
      BY <1>0, <2>1, <3>2 DEF Same
    <3> QED BY <1>0, <1>2, <2>1, <2>2, <3>1, <3>2, <3>3
  <2>4. CASE Cached # NoHandle
    <3>1. cache \in Handles /\ watch' = Armed(cache, mem[cache])
          /\ UNCHANGED <<held, mem, cache, token>>
      BY <1>0, <1>2, <2>4 DEF Cached, GetCreate, handleVars
    <3>2. Found
      BY <1>0, <3>1 DEF Found
    <3> QED BY <1>2, <2>1, <2>2, <3>2
  <2> QED BY <2>3, <2>4
<1> QED BY <1>1, <1>2

(* A handle that is held stays so as long as the process does. *)
LEMMA HeldGrows ==
  ASSUME Steady, ~Ends, NEW g \in Handles, IsHeld(g)
  PROVE  IsHeld(g)'
<1>1. ASSUME NEW h \in Handles, Create(h) \/ GetCreate(h)
      PROVE  IsHeld(g)'
  BY <1>1, Handout DEF Made, Found, Same, IsHeld
<1> QED BY <1>1, Writers DEF Steady, IsHeld

LEMMA VacantNext ==
  ASSUME Steady
  PROVE  Vacant'
<1> USE DEF Vacant, IsHeld
<1>0. TypeOK /\ Vacant /\ AloneNext
  BY DEF Steady, Solo
<1>1. CASE Ends
  BY <1>1 DEF Ends, ProcessGone, NoWatch
<1>2. CASE ~Ends
  <2>1. ASSUME NEW h \in Handles, Create(h) \/ GetCreate(h)
        PROVE  Vacant'
    <3>1. CASE Found
      BY <1>0, <3>1, ConstantsAssumption DEF Found
    <3>2. CASE cache' = h /\ held'[h] = "held" /\ \A g \in Handles : g # h => Same(g)
      BY <1>0, <3>2 DEF Same
    <3> QED BY <2>1, <3>1, <3>2, Handout DEF Made
  <2>2. ASSUME NEW h \in Handles, BootPublish(h) \/ WatchStep(h) \/ QuiesceStep(h)
        PROVE  IsHeld(h) /\ \A g \in Handles : g # h => Same(g)
    BY <2>2, OnlyHeldAct DEF BootStep
  <2>3. CASE ~\E h \in Handles : Create(h) \/ GetCreate(h)
    <3>1. held' = held /\ cache' \in {cache, NoHandle}
      BY <1>0, <1>2, <2>3, Writers, HostFrame DEF RemoveCommit, RemoveInMemory, WatchTail
    <3>2. \A g \in Handles : ~IsHeld(g) => mem'[g] = mem[g] /\ watch'[g] = watch[g]
      BY <1>0, <1>2, <2>2, <2>3, Writers DEF Same, WatchStep
    <3> QED BY <1>0, <3>1, <3>2
  <2> QED BY <2>1, <2>3
<1> QED BY <1>1, <1>2

LEMMA AwayNext ==
  ASSUME Steady
  PROVE  Away'
<1> USE DEF Away, IsHeld
<1>0. TypeOK /\ Away /\ AloneNext
  BY DEF Steady, Solo
<1>1. CASE Ends
  BY <1>1 DEF Ends, ProcessGone
<1>2. CASE ~Ends /\ runtime' \in {"down", "rebooted"}
  <2>1. runtime' = runtime
    BY <1>0, <1>2, Writers DEF Shutdown, Recover
  <2>2. \A h \in Handles : ~Create(h) /\ ~GetCreate(h) /\ ~GetRead(h) /\ ~WatchTail(h)
    <3>1. \A h \in Handles : ~WatchTail(h)
      BY <1>0, <1>2, <2>1, OnlyHeldAct DEF WatchStep
    <3> QED BY <1>0, <1>2, <2>1, <3>1 DEF Create, GetCreate, GetRead
  <2>3. held' = held /\ getter' = getter /\ cache' = NoHandle
    BY <1>0, <1>2, <2>1, <2>2, Writers DEF RemoveCommit, RemoveInMemory
  <2> QED BY <1>0, <1>2, <2>1, <2>3
<1> QED BY <1>1, <1>2

LEMMA UnmadeNext ==
  ASSUME Steady
  PROVE  Unmade'
<1> USE DEF Unmade, IsHeld
<1>0. TypeOK /\ Unmade /\ AloneNext
  BY DEF Steady, Solo
<1> SUFFICES ASSUME ~created' PROVE /\ row' = Absent /\ cache' = NoHandle
                                    /\ \A p \in Shims : shim'[p] = "unborn"
                                    /\ \A h \in Handles : held'[h] # "held" /\ getter'[h] = Absent
  OBVIOUS
<1>1. ~created
  BY <1>0, Writers DEF Provision, Create
<1>2. ASSUME NEW h \in Handles
      PROVE  ~AloneStep(h)
  <2>1. ~Create(h) /\ ~GetRead(h) /\ ~GetCreate(h)
    BY <1>0, <1>1 DEF Create, GetRead, GetCreate
  <2> QED BY <1>0, <1>1, <2>1, OnlyHeldAct DEF AloneStep
<1>3. ASSUME NEW p \in Shims
      PROVE  ~ShimStep(p)
  BY <1>0, <1>1 DEF ShimStep, MainExits, ShimDies, Watchdog
<1>4. CASE AloneHost
  BY <1>0, <1>1, <1>4, HostFrame
     DEF AloneHost, Provision, Remove, RemoveCommit, RemoveInMemory, Recover
<1>5. CASE Ends
  BY <1>0, <1>1, <1>5 DEF Ends, ProcessGone, Crash, Reboot, TypeOK
<1>6. CASE UNCHANGED vars
  BY <1>0, <1>1, <1>6 DEF vars, diskVars, procVars, hostVars, handleVars
<1> QED BY <1>0, <1>2, <1>3, <1>4, <1>5, <1>6 DEF AloneNext

-----------------------------------------------------------------------------
(* What the writers of the state write.                                      *)

(* init_live_state publishes nothing, or what runs as the PID file tells: in
   memory and, if there is one, in the row. *)
LEMMA Published ==
  ASSUME TypeOK, NEW h \in Handles, BootPublish(h)
  PROVE  /\ \A g \in Handles : g # h => mem'[g] = mem[g] /\ watch'[g] = watch[g]
         /\ \/ /\ UNCHANGED <<row, mem, watch>> /\ boot'[h].pc # "finish"
               /\ pidfile = NoShim \/ (boot[h].plan = "adopt" /\ mem[h].status # "Running")
            \/ /\ pidfile # NoShim /\ mem'[h].status = "Running" /\ mem'[h].pid = pidfile
               /\ boot[h].plan = "adopt" => mem[h].status = "Running"
               /\ \/ /\ row = Absent /\ UNCHANGED <<row, watch>>
                     /\ boot'[h].pc # "finish"
                  \/ /\ row # Absent /\ row' = mem'[h] /\ boot'[h].pc = "finish"
                     /\ watch'[h] = Arm(watch[h], mem'[h])
<1>1. mem[h] \in BoxState /\ DOMAIN mem = Handles /\ DOMAIN boot = Handles
      /\ DOMAIN watch = Handles /\ boot[h] \in BootState
  BY DEF TypeOK
<1> DEFINE b == PublishRunning(mem[h], pidfile, boot[h].plan = "adopt")
<1>2. b.status = "Running" /\ b.pid = pidfile
  BY <1>1 DEF PublishRunning, BoxState
<1> DEFINE Refused == pidfile = NoShim \/ (boot[h].plan = "adopt" /\ mem[h].status # "Running")
<1>3. CASE Refused
  <2>1. UNCHANGED <<row, mem, watch>>
    BY <1>3 DEF BootPublish
  <2>2. boot'[h].pc # "finish"
    BY <1>1, <1>3 DEF BootPublish, BootSet, BootFails, BootEnds, NoBoot, BootState
  <2> QED BY <1>3, <2>1, <2>2
<1>4. CASE ~Refused
  <2>1. /\ pidfile # NoShim /\ mem' = [mem EXCEPT ![h] = b]
        /\ boot[h].plan = "adopt" => mem[h].status = "Running"
    BY <1>4 DEF BootPublish
  <2>2. CASE row = Absent
    <3>1. UNCHANGED <<row, watch>>
      BY <1>4, <2>2 DEF BootPublish
    <3>2. boot'[h].pc # "finish"
      BY <1>1, <1>4, <2>2 DEF BootPublish, BootSet, BootFails, BootEnds, NoBoot, BootState
    <3> QED BY <1>1, <1>2, <2>1, <2>2, <3>1, <3>2
  <2>3. CASE row # Absent
    <3>1. row' = b /\ watch' = Armed(h, b) /\ BootSet(h, "finish")
      BY <1>4, <2>3 DEF BootPublish
    <3>2. boot'[h].pc = "finish"
      BY <1>1, <3>1 DEF BootSet, BootState
    <3> HIDE DEF b
    <3>3. watch'[h] = Arm(watch[h], b) /\ \A g \in Handles : g # h => watch'[g] = watch[g]
      BY <1>1, <3>1 DEF Armed, Arm
    <3> QED BY <1>1, <1>2, <2>1, <2>3, <3>1, <3>2, <3>3
  <2> QED BY <2>2, <2>3
<1> QED BY <1>3, <1>4

(* A quiesce bracket writes nothing, or the other active status of the VM the
   handle shows. *)
LEMMA Quiesced ==
  ASSUME Steady, NEW h \in Handles, QuiesceStep(h)
  PROVE  /\ quiesce[h].pc # "idle" /\ \A g \in Handles : g # h => mem'[g] = mem[g]
         /\ \/ UNCHANGED <<row, mem>>
            \/ /\ Act(mem[h]) /\ Act(mem'[h])
               /\ mem'[h].pid = mem[h].pid /\ mem[h].pid # NoShim
               /\ row' = IF row = Absent THEN Absent ELSE mem'[h]
<1>1. mem[h] \in BoxState /\ DOMAIN mem = Handles
  BY DEF Steady, TypeOK
<1>2. quiesce[h].pc # "idle"
  BY DEF QuiesceStep, QuiesceStop, QuiescePause, QuiesceCont,
     QuiesceProbe, QuiesceResume, QuiesceSet, QuiesceWrites
<1>3. CASE UNCHANGED <<row, mem>>
  BY <1>2, <1>3
<1>4. ASSUME NEW s \in {"Running", "Paused"}, quiesce[h].pc \in {"pausing", "resuming"},
             mem' = [mem EXCEPT ![h] = ForceStatus(mem[h], s)],
             Save(ForceStatus(mem[h], s))
      PROVE  /\ \A g \in Handles : g # h => mem'[g] = mem[g]
             /\ Act(mem[h]) /\ Act(mem'[h])
             /\ mem'[h].pid = mem[h].pid /\ mem[h].pid # NoShim
             /\ row' = IF row = Absent THEN Absent ELSE mem'[h]
  <2>1. Act(mem[h]) /\ mem[h].pid = quiesce[h].pid /\ mem[h].pid # NoShim
    BY <1>2, <1>4 DEF Steady, Solo, Bracketed, Unbroken, Act
  <2>2. mem'[h].status = s /\ mem'[h].pid = mem[h].pid
    BY <1>1, <1>4 DEF ForceStatus, BoxState
  <2> QED BY <1>1, <1>4, <2>1, <2>2 DEF Save, Act, IsActive
<1>5. \/ UNCHANGED <<row, mem>>
      \/ \E s \in {"Running", "Paused"} :
           /\ quiesce[h].pc \in {"pausing", "resuming"}
           /\ mem' = [mem EXCEPT ![h] = ForceStatus(mem[h], s)]
           /\ Save(ForceStatus(mem[h], s))
  <2>1. CASE QuiescePause(h)
    BY <2>1 DEF QuiescePause, QuiesceWrites
  <2>2. CASE QuiesceResume(h)
    BY <2>2 DEF QuiesceResume, QuiesceWrites
  <2>3. CASE QuiesceStop(h) \/ QuiesceCont(h) \/ QuiesceProbe(h)
    BY <2>3 DEF QuiesceStop, QuiesceCont, QuiesceProbe, diskVars, handleVars
  <2> QED BY <2>1, <2>2, <2>3 DEF QuiesceStep
<1> QED BY <1>2, <1>3, <1>4, <1>5

(* How a watcher moves on. *)
LEMMA WatchMoves ==
  ASSUME TypeOK, NEW h \in Handles, WatchStep(h)
  PROVE  /\ \A g \in Handles : g # h => watch'[g] = watch[g]
         /\ \/ watch[h].pc = "armed" /\ watch'[h].pc = "done" /\ token[h]
            \/ /\ watch[h].pc = "armed" /\ watch'[h].pc = "exited" /\ WatchExit(h)
               /\ watch'[h].pid = watch[h].pid
            \/ /\ watch[h].pc = "exited" /\ watch'[h].pc \in {"done", "save"}
               /\ WatchRecord(h)
            \/ watch[h].pc = "save" /\ watch'[h].pc = "tail"
            \/ /\ watch[h].pc = "tail" /\ watch'[h].pc \in {"remove", "done"}
               /\ WatchTail(h)
            \/ watch[h].pc = "remove" /\ watch'[h].pc = "done"
         /\ WatchRecord(h) \/ watch'[h].snapshot \in {watch[h].snapshot, NewState}
<1>1. DOMAIN watch = Handles /\ watch[h] \in WatchState
  BY DEF TypeOK
<1> USE <1>1 DEF WatchSet, NoWatch, WatchState
<1>2. CASE WatchStandDown(h)
  BY <1>2 DEF WatchStandDown
<1>3. CASE WatchExit(h)
  BY <1>3 DEF WatchExit
<1>4. CASE WatchRecord(h)
  <2>1. watch[h].pc = "exited"
    BY <1>4 DEF WatchRecord
  <2>2. watch'[h].pc \in {"done", "save"} /\ \A g \in Handles : g # h => watch'[g] = watch[g]
    BY <1>4 DEF WatchRecord
  <2> QED BY <1>4, <2>1, <2>2
<1>5. CASE WatchSave(h)
  BY <1>5 DEF WatchSave
<1>6. CASE WatchTail(h)
  BY <1>6 DEF WatchTail, AfterExit
<1>7. CASE WatchRemove(h)
  BY <1>7 DEF WatchRemove
<1> QED BY <1>2, <1>3, <1>4, <1>5, <1>6, <1>7 DEF WatchStep

(* A row appears only when the box is created. *)
LEMMA RowAppears ==
  ASSUME Steady, ~Persisted, Persisted'
  PROVE  ~created /\ (Provision \/ \E h \in Handles : Create(h))
<1> USE DEF Persisted
<1>1. ASSUME NEW h \in Handles
      PROVE  ~BootGuard(h) /\ ~WatchSave(h)
  BY DEF BootGuard, WatchSave, Save
<1>2. ASSUME NEW h \in Handles, BootPublish(h) \/ QuiesceStep(h)
      PROVE  FALSE
  BY <1>2, Published, Quiesced DEF Steady
<1> QED BY <1>1, <1>2, Writers
        DEF Steady, Provision, Create, Remove, RemoveCommit, Recover

(* Where a box is created, no handle is in use. *)
LEMMA FirstRow ==
  ASSUME Steady, ~Persisted, Persisted', NEW g \in Handles
  PROVE  /\ ~IsHeld(g) /\ getter[g] = Absent /\ cache = NoHandle /\ ~created
         /\ boot[g].pc = "idle" /\ quiesce[g].pc = "idle" /\ watch[g].pc = "none"
         /\ mem[g] = NewState
         /\ UNCHANGED <<pidfile, shim, runtime, getter, live, boot, quiesce>>
         /\ NoneRuns
BY RowAppears, HandoutFrame DEF Steady, Solo, Unmade, Shelved, Vacant, NoneRuns, Up

LEMMA PidsBornNext ==
  ASSUME Steady
  PROVE  PidsBorn'
<1> USE DEF Known, Born
<1>0. TypeOK /\ PidsBorn /\ AloneNext
  BY DEF Steady, Solo
<1>1. ASSUME NEW p \in ShimOrNone, Born(p, shim)
      PROVE  Born(p, shim')
  BY <1>0, <1>1, ShimsEnd DEF ShimOrNone
<1>2. ASSUME NEW b \in BoxState, Known(b, shim)
      PROVE  Known(b, shim')
  BY <1>1, <1>2 DEF BoxState
<1>3. Known(NewState, shim')
  BY DEF NewState
<1>4. ASSUME NEW h \in Handles, mem'[h].pid \in {NoShim, pidfile, mem[h].pid, NewState.pid},
             mem'[h].status = "Running" => mem'[h].pid # NoShim
      PROVE  Known(mem'[h], shim')
  <2>1. mem[h].pid \in ShimOrNone /\ pidfile \in ShimOrNone
    BY <1>0 DEF TypeOK, BoxState
  <2>2. Born(mem[h].pid, shim) /\ Born(pidfile, shim)
    BY <1>0 DEF PidsBorn
  <2> QED BY <1>1, <1>4, <2>1, <2>2 DEF NewState
<1>5. Born(pidfile', shim')
  <2>1. ASSUME NEW h \in Handles, BootSpawn(h)
        PROVE  Born(pidfile', shim')
    BY <1>0, <2>1 DEF BootSpawn, TypeOK
  <2>2. pidfile' = pidfile \/ pidfile' = NoShim \/ \E h \in Handles : BootSpawn(h)
    BY <1>0, Writers DEF RemoveCommit, RemoveInMemory, Recover
  <2>3. Born(pidfile, shim')
    BY <1>0, <1>1 DEF PidsBorn, TypeOK
  <2> QED BY <2>1, <2>2, <2>3
<1>6. \A h \in Handles : Known(mem'[h], shim')
  <2>1. \A h \in Handles : mem'[h] = mem[h] => Known(mem'[h], shim')
    BY <1>0, <1>2 DEF PidsBorn, TypeOK
  <2>2. ASSUME NEW h \in Handles, Create(h) \/ GetCreate(h)
        PROVE  \A g \in Handles : Known(mem'[g], shim')
    <3>1. GetCreate(h) => Known(getter[h], shim')
      BY <1>0, <1>2 DEF PidsBorn, TypeOK, GetCreate
    <3>2. \/ mem' = mem
          \/ /\ mem'[h] = NewState \/ (GetCreate(h) /\ mem'[h] = getter[h])
             /\ \A g \in Handles : g # h => mem'[g] = mem[g]
      <4>1. Found \/ Made(h, NewState) \/ (GetCreate(h) /\ Made(h, getter[h]))
        BY <2>2, Handout
      <4>2. ASSUME NEW b, Made(h, b)
            PROVE  mem'[h] = b /\ \A g \in Handles : g # h => mem'[g] = mem[g]
        BY <4>2 DEF Made, Same
      <4>3. Found => mem' = mem
        BY DEF Found
      <4> QED BY <4>1, <4>2, <4>3
    <3> QED BY <1>3, <2>1, <3>1, <3>2
  <2>3. ASSUME NEW h \in Handles, BootPublish(h)
        PROVE  \A g \in Handles : Known(mem'[g], shim')
    BY <1>0, <1>4, <2>1, <2>3, Published
  <2>4. ASSUME NEW h \in Handles, WatchRecord(h)
        PROVE  \A g \in Handles : Known(mem'[g], shim')
    BY <1>0, <1>4, <2>1, <2>4, Recorded, OnlyHeldAct DEF IsActive, Same, WatchStep
  <2>5. ASSUME NEW h \in Handles, QuiesceStep(h)
        PROVE  \A g \in Handles : Known(mem'[g], shim')
    BY <1>0, <1>4, <2>1, <2>5, Quiesced
  <2>6. CASE Ends
    BY <1>3, <2>6 DEF Ends, ProcessGone
  <2> QED BY <1>0, <2>1, <2>2, <2>3, <2>4, <2>5, <2>6, Writers
<1>7. ASSUME Persisted'
      PROVE  Known(row', shim')
  <2>1. Persisted => Known(row, shim') /\ row \in BoxState
    BY <1>0, <1>2 DEF PidsBorn, TypeOK, Persisted
  <2>2. \A b \in BoxState : Known(MarkStop(b), shim') /\ Known(MarkFailed(b), shim')
    BY DEF MarkStop, MarkFailed, BoxState
  <2>3. ASSUME NEW h \in Handles, Create(h)
        PROVE  row' = NewState
    BY <2>3 DEF Create
  <2>4. Provision => row' = MarkStop(NewState)
    BY DEF Provision
  <2>5. ASSUME NEW h \in Handles, BootGuard(h)
        PROVE  row' = MarkFailed(row) /\ Persisted
    BY <1>7, <2>5 DEF BootGuard, Persisted
  <2>6. ASSUME NEW h \in Handles, BootPublish(h) \/ QuiesceStep(h)
        PROVE  row' \in {row, mem'[h]}
    BY <1>0, <2>6, Published, Quiesced
  <2>7. ASSUME NEW h \in Handles, WatchSave(h)
        PROVE  row' \in {row, watch[h].snapshot}
    BY <2>7 DEF WatchSave, Save
  <2>8. ASSUME NEW force \in BOOLEAN, Remove(force)
        PROVE  row' \in {row, MarkStop(row)} /\ Persisted
    BY <2>8 DEF Remove, RemoveChecked, Persisted
  <2>9. CASE Recover
    <3>1. Persisted
      BY <1>7, <2>9 DEF Recover, Persisted
    <3> DEFINE b == IF runtime = "rebooted" /\ row.status = "Running"
                    THEN ResetForReboot(row) ELSE row
    <3>2. b \in BoxState /\ Known(b, shim')
      <4>1. Known(ResetForReboot(row), shim')
        BY <2>1, <3>1 DEF ResetForReboot, BoxState, IsActive
      <4> QED BY <2>1, <3>1, <4>1, BoxStateOps
    <3>3. \/ pidfile' = pidfile /\ pidfile # NoShim /\ row' = AdoptRecoveredShim(b, pidfile)
          \/ row' = WithoutShim(b)
      BY <1>7, <2>9 DEF Recover, Persisted, RecoveredShim, Alive
    <3> HIDE DEF b
    <3>4. row' = AdoptRecoveredShim(b, pidfile) => row'.pid = pidfile
      BY <3>2 DEF AdoptRecoveredShim, BoxState
    <3>5. row' = WithoutShim(b) => Known(row', shim')
      <4>1. Known(RecordMainCommandExit(b), shim')
        <5>1. [b EXCEPT !.exit = IF record = NoShim THEN @ ELSE record] \in BoxState
          BY <1>0, <3>2 DEF TypeOK, BoxState
        <5> QED BY <2>2, <5>1 DEF RecordMainCommandExit
      <4> QED BY <2>2, <3>2, <4>1 DEF WithoutShim
    <3> QED BY <1>5, <3>3, <3>4, <3>5
  <2>10. \A h \in Handles : Known(watch[h].snapshot, shim')
    BY <1>0, <1>2 DEF PidsBorn, TypeOK, WatchState
  <2>11. ~RemoveCommit
    BY <1>7 DEF RemoveCommit, Persisted
  <2>12. row' = row => Known(row', shim')
    BY <1>7, <2>1 DEF Persisted
  <2> QED BY <1>0, <1>3, <1>6, <2>1, <2>2, <2>3, <2>4, <2>5, <2>6, <2>7, <2>8,
             <2>9, <2>10, <2>11, <2>12, Writers, BoxStateOps
<1>8. \A h \in Handles : getter'[h] # Absent => Known(getter'[h], shim')
  <2>1. ASSUME NEW h \in Handles, GetRead(h)
        PROVE  /\ getter'[h] = row /\ Persisted
               /\ \A g \in Handles : g # h => getter'[g] = getter[g]
    BY <1>0, <2>1 DEF GetRead, Persisted, TypeOK
  <2>2. Persisted => Known(row, shim')
    BY <1>0, <1>2 DEF PidsBorn, TypeOK, Persisted
  <2>3. \A h \in Handles : getter[h] # Absent => Known(getter[h], shim')
    BY <1>0, <1>2 DEF PidsBorn, TypeOK
  <2>4. ASSUME NEW h \in Handles, GetCreate(h)
        PROVE  \A g \in Handles : getter'[g] \in {getter[g], Absent}
    BY <1>0, <2>4 DEF GetCreate, TypeOK
  <2>5. Ends => \A h \in Handles : getter'[h] = Absent
    BY DEF Ends, ProcessGone
  <2> QED BY <1>0, <2>1, <2>2, <2>3, <2>4, <2>5, Writers
<1>9. \A h \in Handles : Known(watch'[h].snapshot, shim') /\ ~Act(watch'[h].snapshot)
  <2>0. \A h \in Handles : Known(watch[h].snapshot, shim') /\ ~Act(watch[h].snapshot)
    BY <1>0, <1>2 DEF PidsBorn, TypeOK, WatchState
  <2>1. ~Act(NewState)
    BY DEF Act, IsActive, NewState
  <2>2. ASSUME NEW h \in Handles, Create(h) \/ GetCreate(h) \/ BootPublish(h)
        PROVE  \A g \in Handles : watch'[g].snapshot \in {watch[g].snapshot, NewState}
    BY <1>0, <2>2, Handout, Published, ArmOps DEF Made, Found, Same
  <2>3. ASSUME NEW h \in Handles, WatchStep(h)
        PROVE  \A g \in Handles : Known(watch'[g].snapshot, shim') /\ ~Act(watch'[g].snapshot)
    BY <1>0, <1>3, <1>6, <2>0, <2>1, <2>3, WatchMoves, Recorded DEF Act
  <2>4. Ends => \A h \in Handles : watch'[h].snapshot = NewState
    BY DEF Ends, ProcessGone, NoWatch
  <2> QED BY <1>0, <1>3, <2>0, <2>1, <2>2, <2>3, <2>4, Writers
<1> QED BY <1>5, <1>6, <1>7, <1>8, <1>9 DEF PidsBorn
-----------------------------------------------------------------------------
(* What a step makes of one handle.                                          *)

(* A handle is new when it is made of a state b. *)
MadeOf(g, b) ==
  /\ Made(g, b) /\ ~IsHeld(g) /\ mem[g] = NewState /\ watch[g].pc = "none"
  /\ UNCHANGED <<pidfile, shim, runtime, live, boot, quiesce>>
  /\ boot[g].pc = "idle" /\ quiesce[g].pc = "idle" /\ live[g] = NoShim
  /\ \/ Create(g) /\ ~created /\ b = NewState /\ row' = NewState
     \/ GetCreate(g) /\ getter[g] # Absent /\ b = getter[g] /\ b \in BoxState /\ row' = row

LEMMA HandedOut ==
  ASSUME Steady, NEW h \in Handles, Create(h) \/ GetCreate(h)
  PROVE  (\E b : MadeOf(h, b)) \/ Found
<1>1. CASE Found
  BY <1>1
<1>2. CASE ~Found
  <2>1. ~IsHeld(h) => /\ mem[h] = NewState /\ watch[h].pc = "none"
                      /\ boot[h].pc = "idle" /\ quiesce[h].pc = "idle"
                      /\ live[h] = NoShim
    BY DEF Steady, Solo, Vacant, Shelved
  <2>2. CASE Create(h)
    BY <1>2, <2>1, <2>2, Handout DEF MadeOf, Made, GetCreate
  <2>3. CASE GetCreate(h)
    BY <1>2, <2>1, <2>3, Handout DEF MadeOf, Made, GetCreate, Create
  <2> QED BY <2>2, <2>3
<1> QED BY <1>1, <1>2

LEMMA MemMoves ==
  ASSUME Steady, NEW g \in Handles
  PROVE  \/ mem'[g] = mem[g] \/ Ends
         \/ \E b : MadeOf(g, b)
         \/ BootPublish(g) \/ WatchRecord(g)
         \/ /\ QuiesceStep(g) /\ Act(mem[g]) /\ Act(mem'[g])
            /\ mem'[g].pid = mem[g].pid /\ mem[g].pid # NoShim
<1>1. ASSUME NEW h \in Handles, Create(h) \/ GetCreate(h)
      PROVE  mem'[g] = mem[g] \/ \E b : MadeOf(g, b)
  <2>1. Found => mem'[g] = mem[g]
    BY DEF Found
  <2>2. ASSUME NEW b, MadeOf(h, b)
        PROVE  mem'[g] = mem[g] \/ h = g
    BY <2>2 DEF MadeOf, Made, Same
  <2> QED BY <1>1, <2>1, <2>2, HandedOut
<1>2. ASSUME NEW h \in Handles, h # g, BootPublish(h) \/ WatchRecord(h) \/ QuiesceStep(h)
      PROVE  mem'[g] = mem[g]
  BY <1>2, OnlyHeldAct DEF BootStep, WatchStep, Same
<1> QED BY <1>1, <1>2, Writers, Quiesced DEF Steady

LEMMA WatchMovesOf ==
  ASSUME Steady, NEW g \in Handles
  PROVE  \/ watch'[g] = watch[g] \/ Ends
         \/ \E b : MadeOf(g, b)
         \/ /\ cache = g /\ Found /\ watch'[g] = Arm(watch[g], mem[g])
            /\ UNCHANGED <<row, pidfile, shim, runtime, live, boot, quiesce>>
         \/ BootPublish(g) \/ WatchStep(g)
<1>1. ASSUME NEW h \in Handles, Create(h) \/ GetCreate(h)
      PROVE  \/ watch'[g] = watch[g] \/ \E b : MadeOf(g, b)
             \/ /\ cache = g /\ Found /\ watch'[g] = Arm(watch[g], mem[g])
                /\ UNCHANGED <<row, pidfile, shim, runtime, live, boot, quiesce>>
  <2>1. ASSUME Found
        PROVE  \/ watch'[g] = watch[g]
               \/ /\ cache = g /\ Found /\ watch'[g] = Arm(watch[g], mem[g])
                  /\ UNCHANGED <<row, pidfile, shim, runtime, live, boot, quiesce>>
    <3>1. UNCHANGED <<pidfile, shim, runtime, live, boot, quiesce>>
      BY <1>1, Handout
    <3>2. row' = row
      <4>1. CASE GetCreate(h)
        BY <4>1, HandoutFrame
      <4>2. CASE Create(h)
        BY <2>1, <4>2 DEF Found, Create, NewHandle, Steady, TypeOK
      <4> QED BY <1>1, <4>1, <4>2
    <3> QED BY <2>1, <3>1, <3>2 DEF Found
  <2>2. ASSUME NEW b, MadeOf(h, b)
        PROVE  watch'[g] = watch[g] \/ h = g
    BY <2>2 DEF MadeOf, Made, Same
  <2> QED BY <1>1, <2>1, <2>2, HandedOut
<1>2. ASSUME NEW h \in Handles, h # g, BootPublish(h) \/ WatchStep(h)
      PROVE  watch'[g] = watch[g]
  BY <1>2, OnlyHeldAct DEF BootStep, Same
<1> QED BY <1>1, <1>2, Writers DEF Steady

LEMMA BootMovesOf ==
  ASSUME Steady, NEW g \in Handles
  PROVE  boot'[g] = boot[g] \/ Ends \/ BootStep(g)
<1>1. ASSUME NEW h \in Handles, h # g, BootStep(h)
      PROVE  boot'[g] = boot[g]
  BY <1>1, OnlyHeldAct DEF Same
<1> QED BY <1>1, Writers DEF Steady

LEMMA LockMoves ==
  ASSUME TypeOK, NEW h \in Handles, BootStep(h)
  PROVE  \/ /\ flock' = flock
            /\ boot[h].pc \notin {"idle", "locking"} \/ boot'[h].pc \in {"idle", "locking"}
         \/ flock = NoHandle /\ flock' = h
         \/ flock = h /\ flock' = NoHandle /\ boot'[h].pc = "idle"
<1>1. DOMAIN boot = Handles
  BY DEF TypeOK
<1>2. ASSUME BootFails(h) \/ BootSucceeds(h)
      PROVE  boot'[h].pc = "idle" /\ (flock' = flock \/ (flock = h /\ flock' = NoHandle))
  BY <1>1, <1>2 DEF BootFails, BootSucceeds, BootEnds, NoBoot
<1>3. ASSUME NEW r \in Requests, BootRead(h, r)
      PROVE  flock' = flock /\ boot'[h].pc \in {"idle", "locking"}
  <2>1. flock' = flock
    BY <1>3, BootFrame
  <2> QED BY <1>1, <1>3, <2>1 DEF BootRead
<1>4. CASE BootLock(h)
  BY <1>2, <1>4 DEF BootLock
<1> QED BY <1>2, <1>3, <1>4, BootFrame
        DEF BootStep, BootAttach, BootSpawn, BootConnect, BootFail, BootGuard,
            BootPublish, BootFinish

LEMMA LockedNext ==
  ASSUME Steady
  PROVE  Locked'
<1> USE DEF Locked
<1>0. TypeOK /\ Locked /\ AloneNext
  BY DEF Steady, Solo
<1>1. CASE Ends
  BY <1>1 DEF Ends, ProcessGone, NoBoot
<1>2. ASSUME NEW h \in Handles, BootStep(h)
      PROVE  Locked'
  <2>1. \A g \in Handles : g # h => boot'[g] = boot[g]
    BY <1>0, <1>2, BootMoves
  <2>2. CASE flock' = flock
    BY <1>0, <1>2, <2>1, <2>2, LockMoves, ConstantsAssumption
  <2>3. CASE flock = NoHandle /\ flock' = h
    BY <1>0, <2>1, <2>3, ConstantsAssumption
  <2>4. CASE flock = h /\ flock' = NoHandle /\ boot'[h].pc = "idle"
    BY <1>0, <2>1, <2>4
  <2> QED BY <1>0, <1>2, <2>2, <2>3, <2>4, LockMoves
<1> QED BY <1>0, <1>1, <1>2, Writers

LEMMA PlannedNext ==
  ASSUME Steady
  PROVE  Planned'
<1>0. TypeOK /\ Planned /\ BootNamesShim
  BY DEF Steady, Solo, IInv
<1> SUFFICES ASSUME NEW g \in Handles
             PROVE  /\ boot'[g].pc = "spawn" => boot'[g].plan = "fresh"
                    /\ boot'[g].pc \in {"connect", "publish", "finish"} => boot'[g].plan # "none"
                    /\ boot'[g].plan = "fresh"
                         /\ boot'[g].pc \in {"locking", "spawn", "connect", "publish"}
                       => ~Act(mem'[g])
  BY DEF Planned, Connecting
<1>1. CASE Ends
  BY <1>1 DEF Ends, ProcessGone, NoBoot
<1>2. ASSUME ~Ends
      PROVE  /\ boot'[g].pc = "spawn" => boot'[g].plan = "fresh"
             /\ boot'[g].pc \in {"connect", "publish", "finish"} => boot'[g].plan # "none"
  <2>1. CASE boot'[g] = boot[g]
    BY <1>0, <2>1 DEF Planned, Connecting
  <2>2. CASE BootStep(g)
    BY <1>0, <2>2, BootMoves DEF BootMoved, Planned, Connecting, BootNamesShim, NoBoot
  <2> QED BY <1>2, <2>1, <2>2, BootMovesOf
<1>3. ASSUME ~Ends, boot'[g].plan = "fresh",
             boot'[g].pc \in {"locking", "spawn", "connect", "publish"}
      PROVE  ~Act(mem'[g])
  <2>1. CASE BootStep(g)
    <3>1. ~BootPublish(g)
      BY <1>0, <1>3
         DEF BootPublish, BootSet, BootFails, BootEnds, NoBoot, TypeOK, BootState
    <3>2. mem'[g] = mem[g]
      BY <2>1, <3>1, BootFrame DEF BootStep
    <3>3. CASE boot[g].pc = "idle"
      BY <1>0, <1>3, <2>1, <3>2, <3>3, BootMoves
         DEF BootMoved, NoBoot, ExecutionPlan, CanStart, Act, IsActive
    <3>4. CASE boot[g].pc # "idle"
      BY <1>0, <1>3, <2>1, <3>2, <3>4, BootMoves
         DEF BootMoved, NoBoot, Planned, BootNamesShim
    <3> QED BY <3>3, <3>4
  <2>2. CASE ~BootStep(g)
    <3>1. boot'[g] = boot[g]
      BY <1>3, <2>2, BootMovesOf
    <3>2. ~Act(mem[g])
      BY <1>0, <1>3, <3>1 DEF Planned
    <3>3. ASSUME NEW b, MadeOf(g, b)
          PROVE  FALSE
      BY <1>3, <3>1, <3>3 DEF MadeOf
    <3>4. WatchRecord(g) => ~Act(mem'[g])
      BY <1>0, Recorded DEF Act
    <3> QED BY <1>3, <2>2, <3>2, <3>3, <3>4, MemMoves DEF BootStep
  <2> QED BY <2>1, <2>2
<1> QED BY <1>1, <1>2, <1>3

LEMMA FilledNext ==
  ASSUME Steady
  PROVE  Filled'
<1>0. TypeOK /\ Filled /\ AloneNext
  BY DEF Steady, Solo
<1> SUFFICES ASSUME NEW g \in Handles, live'[g] # NoShim \/ boot'[g].pc = "finish"
             PROVE  watch'[g].pc # "none"
  BY DEF Filled
<1>1. ~Ends
  BY DEF Ends, ProcessGone, NoBoot
<1>2. CASE live[g] # NoShim \/ boot[g].pc = "finish"
  <2>1. watch[g].pc # "none"
    BY <1>0, <1>2 DEF Filled
  <2>2. WatchStep(g) => watch'[g].pc # "none"
    BY <1>0, WatchMoves
  <2>3. BootPublish(g) => watch'[g].pc # "none"
    BY <1>0, <2>1, Published, ArmOps
  <2>4. ASSUME NEW b, MadeOf(g, b)
        PROVE  FALSE
    BY <1>2, <2>1, <2>4 DEF MadeOf
  <2> QED BY <1>1, <2>1, <2>2, <2>3, <2>4, WatchMovesOf, ArmOps
<1>3. CASE live[g] = NoShim /\ boot[g].pc # "finish"
  <2>1. ASSUME NEW h \in Handles, BootFinish(h), h # g
        PROVE  live'[g] = live[g]
    BY <2>1, OnlyHeldAct DEF BootStep, Same
  <2>2. live'[g] = live[g]
    BY <1>0, <1>1, <1>3, <2>1, Writers DEF BootFinish
  <2>3. boot'[g].pc = "finish"
    BY <1>3, <2>2
  <2>4. BootStep(g)
    BY <1>1, <1>3, <2>3, BootMovesOf
  <2>5. BootPublish(g)
    <3>1. boot[g].pc = "publish"
      BY <1>0, <1>3, <2>3, <2>4, BootMoves DEF BootMoved, NoBoot
    <3>2. ~\E r \in Requests : BootRead(g, r)
      BY <3>1 DEF BootRead
    <3> QED BY <1>0, <2>3, <2>4, <3>1, <3>2
            DEF BootStep, BootLock, BootAttach, BootSpawn, BootConnect, BootFail,
                BootGuard, BootFinish
  <2>6. row # Absent /\ watch'[g] = Arm(watch[g], mem'[g])
        /\ mem'[g].status = "Running" /\ mem'[g].pid # NoShim
    BY <1>0, <2>3, <2>5, Published
  <2> QED BY <2>6, ArmOps
<1> QED BY <1>2, <1>3

(* A handle that shows a VM shows it until its watcher writes down its end. *)
LEMMA MemKeeps ==
  ASSUME Steady, ~Ends, NEW g \in Handles, Act(mem[g])
  PROVE  (Act(mem'[g]) /\ mem'[g].pid = mem[g].pid) \/ WatchRecord(g)
<1>1. ASSUME NEW b, MadeOf(g, b)
      PROVE  FALSE
  BY <1>1 DEF MadeOf, NewState, Act, IsActive
<1>2. ASSUME BootPublish(g), mem'[g] # mem[g]
      PROVE  Act(mem'[g]) /\ mem'[g].pid = mem[g].pid
  <2>1. pidfile # NoShim /\ mem'[g].status = "Running" /\ mem'[g].pid = pidfile
    BY <1>2, Published DEF Steady
  <2>2. boot[g].pc = "publish"
    BY <1>2 DEF BootPublish
  <2>3. boot[g].plan = "adopt"
    BY <2>2 DEF Steady, Solo, Planned, Connecting, TypeOK, BootState, Plans
  <2>4. pidfile = mem[g].pid
    BY <2>1, <2>2, <2>3 DEF Steady, Solo, Adopting
  <2> QED BY <2>1, <2>4 DEF Act, IsActive
<1> QED BY <1>1, <1>2, MemMoves

(* A bracket is opened around the VM of a Running box, and keeps its pid. *)
LEMMA QuiesceMoves ==
  ASSUME Steady, NEW g \in Handles
  PROVE  \/ quiesce'[g] = quiesce[g] \/ quiesce'[g].pc = "idle"
         \/ /\ QuiesceBegin(g) /\ mem' = mem /\ mem[g].status = "Running"
            /\ mem[g].pid # NoShim /\ quiesce'[g].pid = mem[g].pid
         \/ quiesce[g].pc # "idle" /\ quiesce'[g].pid = quiesce[g].pid
<1>0. DOMAIN quiesce = Handles /\ quiesce[g] \in QuiesceState
  BY DEF Steady, TypeOK
<1>1. CASE Ends
  BY <1>1 DEF Ends, ProcessGone, NoQuiesce
<1>2. CASE QuiesceBegin(g)
  BY <1>0, <1>2, QuiesceFrame DEF QuiesceBegin
<1>3. CASE QuiesceStep(g) \/ QuiesceAbandon(g)
  BY <1>0, <1>3 DEF QuiesceStep, QuiesceStop, QuiescePause, QuiesceCont,
     QuiesceProbe, QuiesceResume, QuiesceSet, QuiesceWrites, QuiesceAbandon,
     NoQuiesce, QuiesceState
<1>4. CASE BootStep(g)
  <2>1. ASSUME BootFails(g) \/ BootSucceeds(g), boot[g].pc # "idle"
        PROVE  \/ quiesce'[g] = quiesce[g]
               \/ quiesce[g].pc # "idle" /\ quiesce'[g].pid = quiesce[g].pid
    BY <1>0, <2>1 DEF BootFails, BootSucceeds, BootEnds, Served, Steady, Solo,
       Queued, QuiesceState
  <2>2. quiesce' = quiesce \/ ((BootFails(g) \/ BootSucceeds(g)) /\ boot[g].pc # "idle")
    BY <1>4, BootFrame
       DEF BootStep, BootLock, BootAttach, BootFail, BootGuard, BootPublish, BootFinish
  <2> QED BY <2>1, <2>2
<1>5. ASSUME NEW h \in Handles, h # g,
             QuiesceBegin(h) \/ QuiesceStep(h) \/ QuiesceAbandon(h) \/ BootStep(h)
      PROVE  quiesce'[g] = quiesce[g]
  BY <1>5, OnlyHeldAct DEF Same
<1> QED BY <1>1, <1>2, <1>3, <1>4, <1>5, Writers DEF Steady

LEMMA BracketedNext ==
  ASSUME Steady
  PROVE  Bracketed'
<1>0. TypeOK /\ AloneNext /\ Bracketed
  BY DEF Steady, Solo
<1> SUFFICES ASSUME NEW g \in Handles, quiesce'[g].pc # "idle"
             PROVE  /\ quiesce'[g].pid # NoShim
                    /\ \/ shim'[quiesce'[g].pid] = "dead"
                       \/ Act(mem'[g]) /\ mem'[g].pid = quiesce'[g].pid
  BY DEF Bracketed, Act
<1>1. ~Ends
  BY DEF Ends, ProcessGone, NoQuiesce
<1>2. CASE QuiesceBegin(g) /\ mem' = mem /\ mem[g].status = "Running"
           /\ mem[g].pid # NoShim /\ quiesce'[g].pid = mem[g].pid
  BY <1>2 DEF Act, IsActive
<1>3. CASE quiesce[g].pc # "idle" /\ quiesce'[g].pid = quiesce[g].pid
  <2>1. quiesce[g].pid \in Shims
    BY <1>0, <1>3 DEF TypeOK, QuiesceState, Bracketed, ShimOrNone
  <2>2. CASE shim[quiesce[g].pid] = "dead"
    BY <1>0, <1>3, <2>1, <2>2, ShimsEnd, ConstantsAssumption
  <2>3. CASE Act(mem[g]) /\ mem[g].pid = quiesce[g].pid
    <3>1. ASSUME WatchRecord(g)
          PROVE  shim'[quiesce[g].pid] = "dead"
      <4>1. mem[g].pid = watch[g].pid /\ shim[watch[g].pid] = "dead"
        BY <3>1 DEF WatchRecord, Steady, Solo, Watching
      <4> QED BY <1>0, <2>1, <2>3, <4>1, ShimsEnd
    <3> QED BY <1>0, <1>1, <1>3, <2>1, <2>3, <3>1, MemKeeps DEF Bracketed
  <2> QED BY <1>0, <1>3, <2>2, <2>3 DEF Bracketed
<1> QED BY <1>2, <1>3, QuiesceMoves

LEMMA WatchingNext ==
  ASSUME Steady
  PROVE  Watching'
<1>0. TypeOK /\ AloneNext /\ Watching
  BY DEF Steady, Solo
<1> SUFFICES ASSUME NEW g \in Handles, watch'[g].pc \in {"armed", "exited"}
             PROVE  /\ Act(mem'[g]) /\ mem'[g].pid = watch'[g].pid
                    /\ watch'[g].pid # NoShim
                    /\ watch'[g].pc = "exited" => shim'[watch'[g].pid] = "dead"
  BY DEF Watching, Act
<1>1. ~Ends
  BY DEF Ends, ProcessGone, NoWatch
<1>2. CASE watch'[g] = watch[g]
  <2>1. /\ Act(mem[g]) /\ mem[g].pid = watch[g].pid /\ watch[g].pid \in Shims
        /\ watch[g].pc = "exited" => shim[watch[g].pid] = "dead"
    BY <1>0, <1>2 DEF Watching, TypeOK, WatchState, ShimOrNone
  <2>2. watch[g].pc = "exited" => shim'[watch[g].pid] = "dead"
    BY <1>0, <2>1, ShimsEnd
  <2>3. ~WatchRecord(g)
    BY <1>0, Recorded
  <2> QED BY <1>1, <1>2, <2>1, <2>2, <2>3, MemKeeps, ConstantsAssumption
<1>3. ASSUME NEW b, watch'[g] = Arm(watch[g], b), mem'[g] = b
      PROVE  watch'[g] = watch[g] \/ (/\ Act(mem'[g]) /\ mem'[g].pid = watch'[g].pid
                                      /\ watch'[g].pid # NoShim /\ watch'[g].pc = "armed")
  BY <1>3, ArmOps DEF Act, IsActive
<1>4. ASSUME NEW b, MadeOf(g, b)
      PROVE  watch'[g] = Arm(watch[g], b) /\ mem'[g] = b
  BY <1>4 DEF MadeOf, Made
<1>5. Found => mem' = mem
  BY DEF Found
<1>6. BootPublish(g) => watch'[g] \in {watch[g], Arm(watch[g], mem'[g])}
  BY <1>0, Published
<1>7. CASE WatchStep(g) /\ watch'[g] # watch[g]
  <2>1. watch[g].pc = "armed" /\ WatchExit(g) /\ watch'[g].pid = watch[g].pid
    BY <1>0, <1>7, WatchMoves
  <2>2. Act(mem[g]) /\ mem[g].pid = watch[g].pid /\ watch[g].pid \in Shims
    BY <1>0, <2>1 DEF Watching, TypeOK, WatchState, ShimOrNone
  <2>3. mem' = mem
    BY <2>1, WatchFrame
  <2>4. shim[watch[g].pid] # "unborn"
    BY <2>2, ConstantsAssumption DEF Steady, Solo, PidsBorn, Known, Born
  <2>5. shim'[watch[g].pid] = "dead"
    BY <1>0, <2>1, <2>2, <2>4, ConstantsAssumption DEF WatchExit, Alive, TypeOK
  <2> QED BY <2>1, <2>2, <2>3, <2>5, ConstantsAssumption
<1> QED BY <1>1, <1>2, <1>3, <1>4, <1>5, <1>6, <1>7, WatchMovesOf

(* A token that was cancelled stays so, and the watcher of a handle that had
   one has one, as long as the process lives. *)
LEMMA TokenGrows ==
  ASSUME Steady, ~Ends, NEW g \in Handles, token[g], watch[g].pc # "none"
  PROVE  token'[g]
<1>1. ASSUME NEW h \in Handles, Create(h) \/ GetCreate(h)
      PROVE  token'[g]
  <2>1. CASE Found
    BY <2>1 DEF Found
  <2>2. ASSUME NEW b, MadeOf(h, b)
        PROVE  token'[g]
    BY <2>2 DEF MadeOf, Made, Same
  <2> QED BY <1>1, <2>1, <2>2, HandedOut
<1>2. Shutdown => token'[g]
  BY DEF Shutdown
<1> QED BY <1>1, <1>2, Writers DEF Steady

LEMMA WatchedStays ==
  ASSUME Steady, ~Ends, NEW g \in Handles, watch[g].pc # "none"
  PROVE  watch'[g].pc # "none"
<1>1. ASSUME NEW b, MadeOf(g, b)
      PROVE  FALSE
  BY <1>1 DEF MadeOf
<1>2. ASSUME NEW b, watch'[g] = Arm(watch[g], b)
      PROVE  watch'[g].pc # "none"
  BY <1>2, ArmOps
<1>3. BootPublish(g) => watch'[g] \in {watch[g], Arm(watch[g], mem'[g])}
  BY Published DEF Steady
<1>4. WatchStep(g) => watch'[g].pc # "none"
  BY WatchMoves DEF Steady
<1> QED BY <1>1, <1>2, <1>3, <1>4, WatchMovesOf

LEMMA FreshNext ==
  ASSUME Steady
  PROVE  Fresh'
<1>0. TypeOK /\ AloneNext /\ Fresh /\ Attends
  BY DEF Steady, Solo
<1> SUFFICES ASSUME NEW g \in Handles, Persisted', watch'[g].pc = "none"
             PROVE  quiesce'[g].pc = "idle" /\ (boot'[g].pc = "idle" \/ boot'[g].plan # "adopt")
  BY DEF Fresh
<1>1. CASE Ends
  BY <1>1 DEF Ends, ProcessGone, NoQuiesce, NoBoot
<1>2. CASE ~Persisted
  BY <1>2, FirstRow
<1>3. CASE ~Ends /\ Persisted
  <2>1. watch[g].pc = "none"
    BY <1>3, WatchedStays
  <2>2. quiesce[g].pc = "idle" /\ (boot[g].pc = "idle" \/ boot[g].plan # "adopt")
    BY <1>0, <1>3, <2>1 DEF Fresh
  <2>3. mem[g].status # "Running"
    BY <1>0, <1>3, <2>1 DEF Attends, Act, IsActive
  <2>4. quiesce'[g].pc = "idle"
    BY <2>2, <2>3, QuiesceMoves
  <2>5. boot'[g].pc = "idle" \/ boot'[g].plan # "adopt"
    <3>1. CASE BootStep(g)
      BY <1>0, <2>2, <2>3, <3>1, BootMoves
         DEF BootMoved, NoBoot, ExecutionPlan, CanStart
    <3> QED BY <1>3, <2>2, <3>1, BootMovesOf
  <2> QED BY <2>4, <2>5
<1> QED BY <1>1, <1>2, <1>3

LEMMA AttendsNext ==
  ASSUME Steady
  PROVE  Attends'
<1>0. /\ TypeOK /\ AloneNext /\ Attends /\ Fresh /\ Filled
      /\ \A h \in Handles : boot[h].pc # "idle" => live[h] = NoShim
  BY DEF Steady, Solo, IInv, CellsAgree
<1> SUFFICES ASSUME NEW g \in Handles, Act(mem'[g])
             PROVE  \/ watch'[g].pc \in {"armed", "exited"}
                    \/ watch'[g].pc = "done" /\ token'[g]
                    \/ /\ watch'[g].pc = "none" /\ live'[g] = NoShim
                       /\ mem'[g].status = "Paused" \/ ~Persisted'
  BY DEF Attends, Act
<1>1. ~Ends
  BY DEF Ends, ProcessGone, NewState, Act, IsActive
<1>2. ~WatchRecord(g)
  BY <1>0, Recorded DEF Act
<1>3. live[g] = NoShim => live'[g] = NoShim \/ BootFinish(g)
  <2>1. ASSUME NEW h \in Handles, BootFinish(h), h # g
        PROVE  live'[g] = live[g]
    BY <2>1, OnlyHeldAct DEF BootStep, Same
  <2> QED BY <1>0, <1>1, <2>1, Writers
<1>4. CASE watch[g].pc \in {"armed", "exited"}
  <2>1. WatchStep(g) => \/ watch'[g].pc \in {"armed", "exited"}
                        \/ watch'[g].pc = "done" /\ token'[g]
    BY <1>0, <1>1, <1>2, <1>4, WatchMoves, TokenGrows
  <2>2. ASSUME NEW b, watch'[g] = Arm(watch[g], b)
        PROVE  watch'[g] = watch[g]
    BY <1>4, <2>2, ArmOps
  <2>3. BootPublish(g) => watch'[g] \in {watch[g], Arm(watch[g], mem'[g])}
    BY <1>0, Published
  <2>4. ~\E b : MadeOf(g, b)
    BY <1>4 DEF MadeOf
  <2> QED BY <1>1, <1>4, <2>1, <2>2, <2>3, <2>4, WatchMovesOf
<1>5. CASE Act(mem[g]) /\ watch[g].pc = "done" /\ token[g]
  <2>1. ASSUME NEW b, watch'[g] = Arm(watch[g], b)
        PROVE  watch'[g] = watch[g]
    BY <1>5, <2>1, ArmOps
  <2>2. BootPublish(g) => watch'[g] \in {watch[g], Arm(watch[g], mem'[g])}
    BY <1>0, Published
  <2>3. ~\E b : MadeOf(g, b)
    BY <1>5 DEF MadeOf
  <2>4. ~WatchStep(g)
    BY <1>0, <1>5, WatchMoves
  <2> QED BY <1>1, <1>5, <2>1, <2>2, <2>3, <2>4, WatchMovesOf, TokenGrows
<1>6. CASE /\ Act(mem[g]) /\ watch[g].pc = "none" /\ live[g] = NoShim
           /\ mem[g].status = "Paused" \/ ~Persisted
  <2>1. live'[g] = NoShim
    BY <1>0, <1>3, <1>6 DEF Filled, BootFinish
  <2>2. CASE watch'[g] # watch[g]
    <3>1. ASSUME NEW b, watch'[g] = Arm(watch[g], b)
          PROVE  watch'[g].pc = "armed"
      BY <2>2, <3>1, ArmOps
    <3>2. BootPublish(g) => watch'[g] \in {watch[g], Arm(watch[g], mem'[g])}
      BY <1>0, Published
    <3>3. ~WatchStep(g)
      BY <1>0, <1>6, WatchMoves
    <3>4. ~\E b : MadeOf(g, b)
      BY <1>6 DEF MadeOf, NewState, Act, IsActive
    <3> QED BY <1>1, <2>2, <3>1, <3>2, <3>3, <3>4, WatchMovesOf
  <2>3. CASE watch'[g] = watch[g]
    <3>1. ~Persisted => ~Persisted'
      BY <1>6, FirstRow DEF NewState, Act, IsActive
    <3>2. CASE mem'[g] = mem[g]
      BY <1>6, <2>1, <2>3, <3>1, <3>2
    <3>3. CASE BootPublish(g) /\ mem'[g] # mem[g]
      <4>1. row # Absent => watch'[g] = Arm(watch[g], mem'[g]) /\ mem'[g].status = "Running"
                            /\ mem'[g].pid # NoShim
        BY <1>0, <3>3, Published
      <4>2. ~Persisted
        BY <1>6, <2>3, <4>1, ArmOps DEF Persisted
      <4> QED BY <1>6, <2>1, <2>3, <3>1, <4>2
    <3>4. CASE QuiesceStep(g)
      <4>1. ~Persisted
        BY <1>0, <1>6, <3>4, Quiesced DEF Fresh
      <4> QED BY <1>6, <2>1, <2>3, <3>1, <4>1
    <3>5. ~\E b : MadeOf(g, b)
      BY <1>6 DEF MadeOf, NewState, Act, IsActive
    <3> QED BY <1>1, <1>2, <3>2, <3>3, <3>4, <3>5, MemMoves
  <2> QED BY <2>2, <2>3
<1>7. CASE ~Act(mem[g])
  <2>1. ASSUME NEW b, MadeOf(g, b)
        PROVE  \/ watch'[g].pc = "armed"
               \/ watch'[g].pc = "none" /\ live'[g] = NoShim /\ mem'[g].status = "Paused"
    <3>1. mem'[g] = b /\ watch'[g] = Arm(watch[g], b) /\ watch[g].pc = "none"
          /\ live'[g] = NoShim
      BY <2>1 DEF MadeOf, Made
    <3>2. b.status = "Running" => b.pid # NoShim
      BY <2>1 DEF MadeOf, Steady, Solo, PidsBorn, Known, NewState
    <3> QED BY <3>1, <3>2, ArmOps DEF Act, IsActive
  <2>2. CASE BootPublish(g)
    <3>1. /\ pidfile # NoShim /\ mem'[g].status = "Running" /\ mem'[g].pid # NoShim
          /\ boot[g].plan # "adopt"
          /\ \/ row = Absent /\ row' = row /\ watch' = watch
             \/ watch'[g] = Arm(watch[g], mem'[g])
      BY <1>0, <1>7, <2>2, Published DEF Act, IsActive
    <3>2. boot[g].pc = "publish" /\ boot[g].plan = "fresh"
      BY <2>2, <3>1 DEF BootPublish, Steady, Solo, Planned, Connecting, TypeOK, BootState, Plans
    <3>3. watch[g].pc = "none"
      BY <3>2 DEF Steady, OneLife, Reuses
    <3>4. live'[g] = NoShim
      BY <1>0, <2>2, <3>2, BootFrame
    <3> QED BY <3>1, <3>3, <3>4, ArmOps DEF Persisted
  <2>3. mem'[g] # mem[g]
    BY <1>7
  <2> QED BY <1>1, <1>2, <1>7, <2>1, <2>2, <2>3, MemMoves
<1> QED BY <1>0, <1>4, <1>5, <1>6, <1>7 DEF Attends

(* The PID file is written by a boot that spawns, alone past the lock, or
   deleted. *)
LEMMA PidFileMoves ==
  ASSUME Steady
  PROVE  /\ pidfile' \in {pidfile, NoShim} \/ \E h \in Handles : BootSpawn(h)
         /\ \A g, h \in Handles :
              boot[g].pc \notin {"idle", "locking"} /\ BootSpawn(h) => g = h
<1>1. Recover => pidfile' \in {pidfile, NoShim}
  BY DEF Recover
<1>2. ASSUME NEW g \in Handles, NEW h \in Handles,
             boot[g].pc \notin {"idle", "locking"}, BootSpawn(h)
      PROVE  g = h
  BY <1>2 DEF Steady, Solo, Locked, BootSpawn
<1> QED BY <1>1, <1>2, Writers DEF Steady, RemoveCommit, RemoveInMemory

(* A row goes, and its PID file with it, when the box is removed. *)
LEMMA RowGoes ==
  ASSUME Steady, Persisted, ~Persisted'
  PROVE  pidfile' = NoShim /\ (RemoveCommit \/ Recover)
<1> USE AbsentAssumption DEF Persisted
<1>0. TypeOK /\ TypeOK' /\ row \in BoxState
  BY DEF Steady, TypeOK
<1>1. ~Provision /\ \A h \in Handles : ~Create(h)
  BY BoxStateOps DEF Provision, Create
<1>2. \A h \in Handles : ~BootGuard(h)
  BY <1>0, BoxStateOps DEF BootGuard
<1>3. ASSUME NEW h \in Handles, BootPublish(h) \/ QuiesceStep(h)
      PROVE  FALSE
  <2>1. mem'[h] \in BoxState
    BY <1>0 DEF TypeOK
  <2> QED BY <1>0, <1>3, <2>1, Published, Quiesced
<1>4. \A h \in Handles : ~WatchSave(h)
  BY <1>0 DEF WatchSave, Save, TypeOK, WatchState
<1>5. \A force \in BOOLEAN : ~Remove(force)
  BY <1>0, BoxStateOps DEF Remove, RemoveChecked
<1>6. CASE Recover
  <2> DEFINE b == IF runtime = "rebooted" /\ row.status = "Running"
                  THEN ResetForReboot(row) ELSE row
  <2>1. b \in BoxState
    BY <1>0, BoxStateOps
  <2>2. \A p \in ShimOrNone : AdoptRecoveredShim(b, p) \in BoxState
    BY <2>1, BoxStateOps
  <2>3. RecoveredShim \in ShimOrNone
    BY <1>0 DEF TypeOK, RecoveredShim, ShimOrNone
  <2>4. pidfile' = NoShim \/ row' = AdoptRecoveredShim(b, RecoveredShim)
    BY <1>6 DEF Recover
  <2> HIDE DEF b
  <2> QED BY <1>6, <2>2, <2>3, <2>4
<1>7. CASE RemoveCommit
  BY <1>7 DEF RemoveCommit
<1> QED BY <1>1, <1>2, <1>3, <1>4, <1>5, <1>6, <1>7, Writers DEF Steady

LEMMA EmptiedNext ==
  ASSUME Steady
  PROVE  Emptied'
<1>0. TypeOK /\ AloneNext /\ Emptied
  BY DEF Steady, Solo
<1> SUFFICES ASSUME Gone', NEW g \in Handles, boot'[g].pc = "attach"
             PROVE  pidfile' = NoShim
  BY DEF Emptied
<1>1. ~Ends
  BY DEF Ends, ProcessGone, NoBoot
<1>2. CASE Persisted
  BY <1>2, RowGoes DEF Gone, Persisted
<1>3. CASE ~Persisted
  <2>1. created
    <3>1. ~Create(g) /\ ~Provision
      BY AbsentAssumption, BoxStateOps DEF Gone, Create, Provision
    <3>2. \A h \in Handles : ~Create(h)
      BY AbsentAssumption, BoxStateOps DEF Gone, Create
    <3> QED BY <1>0, <3>1, <3>2, Writers DEF Gone
  <2>2. boot[g].pc = "attach"
    <3>1. ~BootStep(g) \/ boot[g].pc = "locking" \/ boot[g].pc = "attach"
      BY <1>0, BootMoves DEF BootMoved, NoBoot
    <3>2. CASE boot[g].pc = "locking" /\ BootStep(g)
      <4>1. BootLock(g)
        BY <1>0, <3>2 DEF BootStep, BootRead, BootAttach, BootSpawn, BootConnect,
           BootFail, BootGuard, BootPublish, BootFinish
      <4>2. BootFails(g)
        BY <1>3, <4>1 DEF BootLock, Persisted
      <4> QED BY <1>0, <4>2 DEF BootFails, BootEnds, NoBoot, TypeOK
    <3> QED BY <1>1, <3>1, <3>2, BootMovesOf
  <2>3. pidfile = NoShim
    BY <1>0, <1>3, <2>1, <2>2 DEF Emptied, Gone, Persisted
  <2>4. ASSUME NEW h \in Handles, BootSpawn(h)
        PROVE  FALSE
    BY <2>2, <2>4, PidFileMoves DEF BootSpawn
  <2> QED BY <2>3, <2>4, PidFileMoves
<1> QED BY <1>2, <1>3

LEMMA OverNext ==
  ASSUME Steady
  PROVE  Over'
<1>0. TypeOK /\ AloneNext /\ Over /\ Attends
  BY DEF Steady, Solo
<1> USE DEF IsHeld
<1> SUFFICES ASSUME Persisted', NEW g \in Handles, held'[g] = "held", g # cache'
             PROVE  watch'[g].pc \in {"remove", "done"} /\ ~Act(mem'[g])
  BY DEF Over, Act
<1>1. ~Ends
  BY DEF Ends, ProcessGone
<1>2. IsHeld(g)
  <2>1. ASSUME NEW h \in Handles, Create(h) \/ GetCreate(h)
        PROVE  held'[g] = held[g]
    <3>1. CASE Found
      BY <3>1 DEF Found
    <3>2. ASSUME NEW b, MadeOf(h, b)
          PROVE  held'[g] = held[g]
      BY <3>2 DEF MadeOf, Made, Same
    <3> QED BY <2>1, <3>1, <3>2, HandedOut
  <2> QED BY <1>0, <1>1, <2>1, Writers
<1>3. Persisted
  BY <1>2, FirstRow
<1>4. CASE g # cache
  <2>1. watch[g].pc \in {"remove", "done"} /\ ~Act(mem[g])
    BY <1>0, <1>2, <1>3, <1>4 DEF Over
  <2>2. watch'[g].pc \in {"remove", "done"}
    <3>1. WatchStep(g) => watch'[g].pc \in {"remove", "done"}
      BY <1>0, <2>1, WatchMoves
    <3>2. ASSUME NEW b, watch'[g] = Arm(watch[g], b)
          PROVE  watch'[g] = watch[g]
      BY <2>1, <3>2, ArmOps
    <3>3. BootPublish(g) => watch'[g] \in {watch[g], Arm(watch[g], mem'[g])}
      BY <1>0, Published
    <3>4. ~\E b : MadeOf(g, b)
      BY <1>2 DEF MadeOf
    <3> QED BY <1>1, <2>1, <3>1, <3>2, <3>3, <3>4, WatchMovesOf
  <2>3. ~Act(mem'[g])
    <3>1. ASSUME BootPublish(g), mem'[g] # mem[g]
          PROVE  FALSE
      <4>1. boot[g].plan # "adopt" /\ boot[g].pc = "publish"
        BY <1>0, <2>1, <3>1, Published DEF BootPublish, Act, IsActive
      <4>2. boot[g].plan = "fresh"
        BY <4>1 DEF Steady, Solo, Planned, Connecting, TypeOK, BootState, Plans
      <4> QED BY <2>1, <4>1, <4>2 DEF Steady, OneLife, Reuses
    <3>2. WatchRecord(g) => ~Act(mem'[g])
      BY <1>0, Recorded DEF Act
    <3>3. ~\E b : MadeOf(g, b)
      BY <1>2 DEF MadeOf
    <3> QED BY <1>1, <2>1, <3>1, <3>2, <3>3, MemMoves
  <2> QED BY <2>2, <2>3
<1>5. CASE g = cache
  <2>1. ~RemoveCommit /\ ~RemoveInMemory
    BY <1>3 DEF RemoveCommit, RemoveInMemory, Persisted
  <2>2. ASSUME NEW h \in Handles
        PROVE  ~Create(h) /\ (GetCreate(h) => Found)
    <3>1. ~Create(h)
      BY <1>5, ConstantsAssumption DEF Create, Steady, Solo, Unmade
    <3>2. ~\E b : MadeOf(h, b)
      BY <1>5, ConstantsAssumption DEF MadeOf, Made
    <3> QED BY <3>1, <3>2, HandedOut
  <2>3. PICK h \in Handles : WatchTail(h)
    BY <1>0, <1>1, <1>5, <2>1, <2>2, Writers DEF Found
  <2>4. h = g
    BY <1>0, <1>3, <1>5, <2>3, OnlyHeldAct DEF Over, WatchTail, WatchStep
  <2>5. watch'[g].pc \in {"remove", "done"} /\ mem'[g] = mem[g] /\ watch[g].pc = "tail"
    BY <1>0, <2>3, <2>4, WatchMoves, WatchFrame DEF WatchTail, WatchStep
  <2> QED BY <1>0, <2>5 DEF Attends
<1> QED BY <1>4, <1>5

LEMMA AdoptingNext ==
  ASSUME Steady
  PROVE  Adopting'
<1>0. TypeOK /\ AloneNext /\ Adopting /\ BootNamesShim
  BY DEF Steady, Solo, IInv
<1> SUFFICES ASSUME NEW g \in Handles, boot'[g].plan = "adopt",
                    boot'[g].pc \in {"connect", "publish"}, Act(mem'[g])
             PROVE  pidfile' \in {NoShim, mem'[g].pid}
  BY DEF Adopting, Act
<1>1. ~Ends
  BY DEF Ends, ProcessGone, NoBoot
<1>2. ~BootPublish(g)
  BY <1>0
     DEF BootPublish, BootSet, BootFails, BootEnds, NoBoot, TypeOK, BootState
<1>3. ~WatchRecord(g)
  BY <1>0, Recorded DEF Act
<1>4. Act(mem[g]) /\ mem'[g].pid = mem[g].pid
  <2>1. ASSUME NEW b, MadeOf(g, b)
        PROVE  FALSE
    BY <2>1 DEF MadeOf
  <2>2. mem'[g] = mem[g] => Act(mem[g])
    OBVIOUS
  <2> QED BY <1>1, <1>2, <1>3, <2>1, <2>2, MemMoves
<1>5. boot[g].plan = "adopt" /\ boot[g].pc \in {"attach", "connect", "publish"}
  <2>1. CASE BootStep(g)
    BY <1>0, <2>1, BootMoves DEF BootMoved, NoBoot, Steady, Solo, Planned
  <2> QED BY <1>1, <2>1, BootMovesOf
<1>6. pidfile' \in {pidfile, NoShim}
  BY <1>5, PidFileMoves DEF BootSpawn
<1>7. CASE boot[g].pc # "attach"
  BY <1>0, <1>4, <1>5, <1>6, <1>7 DEF Adopting
<1>8. CASE boot[g].pc = "attach"
  <2>1. BootAttach(g)
    <3>1. BootStep(g)
      BY <1>1, <1>8, BootMovesOf
    <3>2. ~BootFail(g)
      BY <1>0, <1>5, <1>8 DEF BootFail, BootFails, BootEnds, NoBoot, TypeOK
    <3> QED BY <1>8, <3>1, <3>2 DEF BootStep, BootRead, BootLock, BootSpawn,
            BootConnect, BootGuard, BootPublish, BootFinish
  <2>2. Alive(pidfile)
    BY <1>0, <2>1 DEF BootAttach, BootFails, BootEnds, NoBoot, TypeOK
  <2>3. ~NoneRuns /\ pidfile # NoShim
    BY <1>0, <2>2 DEF Alive, NoneRuns, Up, TypeOK, ShimOrNone
  <2>4. IsHeld(g)
    BY <2>1, OnlyHeldAct DEF BootStep
  <2>5. Persisted
    BY <1>8, <2>3, <2>4 DEF Steady, Solo, Unmade, Emptied, Gone, Persisted
  <2>6. g = cache
    BY <1>4, <2>4, <2>5 DEF Steady, Solo, Over
  <2>7. watch[g].pc # "none"
    BY <1>5, <2>5 DEF Steady, Solo, Fresh
  <2>8. mem[g].pid = pidfile
    BY <2>3, <2>5, <2>6, <2>7, ConstantsAssumption DEF Steady, Solo, CacheTrue
  <2> QED BY <1>4, <1>6, <2>8
<1> QED BY <1>7, <1>8

(* While there is a row, its PID file is rewritten by a boot that spawns or
   by recovery. *)
LEMMA PidFileKept ==
  ASSUME Steady, Persisted, Persisted', ~Recover
  PROVE  pidfile' = pidfile \/ \E h \in Handles : BootSpawn(h)
BY Writers DEF Steady, Persisted, RemoveCommit, RemoveInMemory

(* A boot spawns for the cached handle, which had no VM before, and when none
   runs. *)
LEMMA SpawnsAlone ==
  ASSUME Steady, Persisted, NEW h \in Handles, BootSpawn(h)
  PROVE  /\ NoneRuns /\ h = cache /\ cache' = h /\ watch[h].pc = "none"
         /\ watch' = watch /\ row' = row /\ mem' = mem
         /\ Booting(h)' /\ pidfile' \in Shims
<1>1. boot[h].pc = "spawn" /\ boot[h].plan = "fresh" /\ IsHeld(h)
  BY OnlyHeldAct DEF BootStep, BootSpawn, Steady, Solo, Planned
<1>2. watch[h].pc = "none"
  BY <1>1 DEF Steady, OneLife, Reuses
<1>3. h = cache
  BY <1>1, <1>2 DEF Steady, Solo, Over
<1>4. NoneRuns
  BY <1>1, <1>2, <1>3, ConstantsAssumption DEF Steady, Solo, CacheTrue, Booting
<1>5. boot'[h].pc = "connect" /\ boot'[h].plan = boot[h].plan /\ pidfile' \in Shims
  BY DEF BootSpawn, Steady, TypeOK, BootState
<1> QED BY <1>1, <1>2, <1>3, <1>4, <1>5, BootFrame DEF Booting

(* Where none runs, none does until one is spawned. *)
LEMMA NoneStill ==
  ASSUME Steady, NoneRuns, ~\E h \in Handles : BootSpawn(h)
  PROVE  NoneRuns'
BY ShimsEnd DEF Steady, NoneRuns

LEMMA OneVMNext ==
  ASSUME Steady
  PROVE  OneVM'
<1>0. TypeOK /\ AloneNext /\ OneVM
  BY DEF Steady, Solo
<1> SUFFICES ASSUME Persisted', NEW p \in Shims, Up(p)'
             PROVE  p = pidfile'
  BY DEF OneVM
<1>1. CASE ~Persisted
  BY <1>1, RowAppears, HandoutFrame DEF Steady, Solo, Unmade, Up
<1>2. CASE Persisted /\ \E h \in Handles : BootSpawn(h)
  BY <1>0, <1>2, SpawnsAlone, ShimsEnd DEF NoneRuns
<1>3. CASE Persisted /\ ~\E h \in Handles : BootSpawn(h)
  <2>1. Up(p) /\ p = pidfile
    BY <1>0, <1>3, ShimsEnd DEF OneVM
  <2>2. CASE Recover
    BY <2>1, <2>2, ConstantsAssumption
       DEF Recover, Persisted, RecoveredShim, Alive, Up
  <2> QED BY <1>3, <2>1, <2>2, PidFileKept
<1> QED BY <1>1, <1>2, <1>3

LEMMA SpawnedNext ==
  ASSUME Steady
  PROVE  Spawned'
<1>0. TypeOK /\ AloneNext /\ Spawned /\ BootNamesShim
  BY DEF Steady, Solo, IInv
<1> SUFFICES ASSUME Persisted', NEW g \in Handles, Booting(g)'
             PROVE  pidfile' = boot'[g].shim
  BY DEF Spawned
<1> USE DEF Booting
<1>1. ~Ends
  BY DEF Ends, ProcessGone, NoBoot
<1>2. CASE BootSpawn(g)
  BY <1>0, <1>2 DEF BootSpawn, TypeOK, BootState
<1>3. CASE ~BootSpawn(g)
  <2>1. Booting(g) /\ boot'[g].shim = boot[g].shim
    <3>1. CASE BootStep(g)
      <4>1. boot[g].pc # "spawn"
        BY <1>0, <1>3, <3>1
           DEF BootStep, BootRead, BootLock, BootAttach, BootConnect, BootFail,
               BootGuard, BootPublish, BootFinish, BootSet, BootFails, BootEnds,
               NoBoot, TypeOK, BootState
      <4> QED BY <1>0, <3>1, <4>1, BootMoves DEF BootMoved, NoBoot, BootNamesShim
    <3> QED BY <1>1, <3>1, BootMovesOf
  <2>2. Persisted
    BY <2>1, FirstRow
  <2>3. ~Recover
    BY <2>1 DEF Recover, Steady, Solo, Away, Shelved
  <2>4. ASSUME NEW h \in Handles, BootSpawn(h)
        PROVE  FALSE
    <3>1. h = g
      BY <2>1, <2>4, PidFileMoves
    <3> QED BY <2>1, <2>4, <3>1 DEF BootSpawn
  <2> QED BY <1>0, <2>1, <2>2, <2>3, <2>4, PidFileKept DEF Spawned
<1> QED BY <1>2, <1>3

LEMMA CacheTrueNext ==
  ASSUME Steady
  PROVE  CacheTrue'
<1>0. TypeOK /\ AloneNext /\ CacheTrue /\ OneVM
  BY DEF Steady, Solo
<1> SUFFICES ASSUME Persisted', NEW c, c = cache', c # NoHandle
             PROVE  /\ watch'[c].pc = "none" => Booting(c)' \/ NoneRuns'
                    /\ watch'[c].pc # "none" =>
                         \/ NoneRuns'
                         \/ /\ Act(mem'[c]) /\ mem'[c].pid = pidfile'
                            /\ watch'[c].pc \in {"armed", "done"}
  BY DEF CacheTrue, Act, Booting
<1>1. ~Ends
  BY DEF Ends, ProcessGone
<1>2. CASE ~Persisted
  <2>1. NoneRuns /\ shim' = shim
    BY <1>1, <1>2, FirstRow DEF Steady, TypeOK
  <2> QED BY <2>1 DEF NoneRuns, Up
<1>3. CASE Persisted /\ \E h \in Handles : BootSpawn(h)
  BY <1>3, SpawnsAlone
<1> DEFINE Quiet == Persisted /\ ~\E h \in Handles : BootSpawn(h)
<1>4. CASE Quiet /\ NoneRuns
  BY <1>4, NoneStill
<1>5. CASE Quiet /\ ~NoneRuns /\ c = cache
  <2>0. IsHeld(c) /\ c \in Handles
    BY <1>0, <1>5 DEF Steady, Solo, Vacant, TypeOK
  <2>1. pidfile' = pidfile
    <3>1. ~Recover
      BY <2>0 DEF Recover, Steady, Solo, Away
    <3> QED BY <1>5, <3>1, PidFileKept
  <2>2. CASE watch[c].pc # "none"
    <3>1. /\ Act(mem[c]) /\ mem[c].pid = pidfile /\ watch[c].pc \in {"armed", "done"}
      BY <1>0, <1>5, <2>2 DEF CacheTrue
    <3>2. ~WatchRecord(c)
      BY <3>1 DEF WatchRecord
    <3>3. Act(mem'[c]) /\ mem'[c].pid = pidfile'
      BY <1>1, <2>0, <2>1, <3>1, <3>2, MemKeeps
    <3>4. ~WatchExit(c)
      <4>1. ASSUME WatchExit(c)
            PROVE  NoneRuns
        <5>1. watch[c].pid = pidfile
          BY <2>0, <3>1, <4>1 DEF WatchExit, Steady, Solo, Watching
        <5> QED BY <1>0, <1>5, <4>1, <5>1, ConstantsAssumption
                DEF WatchExit, Alive, OneVM, NoneRuns, Up
      <4> QED BY <1>5, <4>1
    <3>5. watch'[c].pc \in {"armed", "done"}
      <4>1. WatchStep(c) => watch'[c].pc \in {"armed", "done"}
        BY <1>0, <2>0, <3>1, <3>4, WatchMoves
      <4>2. ASSUME NEW b, watch'[c] = Arm(watch[c], b)
            PROVE  watch'[c] = watch[c]
        BY <2>2, <4>2, ArmOps
      <4>3. BootPublish(c) => watch'[c] \in {watch[c], Arm(watch[c], mem'[c])}
        BY <1>0, <2>0, Published
      <4>4. ~\E b : MadeOf(c, b)
        BY <2>0 DEF MadeOf
      <4> QED BY <1>1, <2>0, <3>1, <4>1, <4>2, <4>3, <4>4, WatchMovesOf
    <3> QED BY <3>3, <3>5
  <2>3. CASE watch[c].pc = "none"
    <3>1. Booting(c) /\ boot[c].plan = "fresh" /\ ~Act(mem[c])
      BY <1>0, <1>5, <2>0, <2>3
         DEF CacheTrue, Booting, Steady, Solo, Planned, Connecting, TypeOK, BootState, Plans
    <3>2. pidfile = boot[c].shim /\ pidfile \in Shims
      BY <1>5, <2>0, <3>1
         DEF Steady, Solo, Spawned, IInv, BootNamesShim, Connecting, Booting
    <3>3. CASE BootPublish(c)
      <4>1. mem'[c].status = "Running" /\ mem'[c].pid = pidfile
            /\ watch'[c] = Arm(watch[c], mem'[c])
        BY <1>0, <1>5, <2>0, <3>1, <3>2, <3>3, Published, ConstantsAssumption DEF Persisted
      <4> QED BY <2>1, <2>3, <3>2, <4>1, ArmOps, ConstantsAssumption DEF Act, IsActive
    <3>4. CASE BootFail(c)
      <4>1. Teardown(pidfile)
        BY <3>1, <3>2, <3>4 DEF BootFail
      <4>2. NoneRuns'
        BY <1>0, <1>5, <3>2, <4>1, ConstantsAssumption
           DEF Teardown, NoneRuns, Up, OneVM, TypeOK
      <4>3. watch' = watch
        BY <3>4, BootFrame
      <4> QED BY <2>3, <4>2, <4>3
    <3>5. CASE ~BootPublish(c) /\ ~BootFail(c)
      <4>1. Booting(c)'
        <5>1. CASE BootStep(c)
          <6>1. BootConnect(c)
            BY <3>1, <3>5, <5>1
               DEF BootStep, BootRead, BootLock, BootAttach, BootSpawn, BootGuard,
                   BootFinish, Booting
          <6> QED BY <1>0, <2>0, <3>1, <6>1 DEF BootConnect, BootSet, Booting, TypeOK, BootState
        <5> QED BY <1>1, <2>0, <3>1, <5>1, BootMovesOf DEF Booting
      <4>2. watch'[c] = watch[c]
        <5>1. ~WatchStep(c)
          BY <1>0, <2>0, <2>3, WatchMoves
        <5>2. Arm(watch[c], mem[c]) = watch[c]
          BY <3>1, ArmOps DEF Act, IsActive
        <5>3. ~\E b : MadeOf(c, b)
          BY <2>0 DEF MadeOf
        <5> QED BY <1>1, <2>0, <3>5, <5>1, <5>2, <5>3, WatchMovesOf
      <4> QED BY <2>3, <4>1, <4>2
    <3> QED BY <3>3, <3>4, <3>5
  <2> QED BY <2>2, <2>3
<1>6. CASE Quiet /\ ~NoneRuns /\ c # cache
  <2>1. ASSUME NEW h \in Handles, Create(h)
        PROVE  FALSE
    BY <1>6, <2>1 DEF Create, Steady, Solo, Unmade, Persisted
  <2>2. PICK h \in Handles : GetCreate(h)
    BY <1>0, <1>1, <1>6, <2>1, Writers DEF RemoveCommit, RemoveInMemory, WatchTail
  <2>3. MadeOf(h, getter[h]) /\ getter[h] # Absent
    BY <1>6, <2>1, <2>2, HandedOut DEF MadeOf, Found
  <2>4. h = c /\ cache = NoHandle
    BY <2>3 DEF MadeOf, Made
  <2>5. runtime \notin {"down", "rebooted"}
    BY <2>3 DEF Steady, Solo, Away
  <2>6. Shows(getter[h], pidfile) /\ pidfile # NoShim
    BY <1>6, <2>3, <2>4, <2>5 DEF Steady, Solo, RowKept, PidsBorn, Known, Shows
  <2>7. mem'[h] = getter[h] /\ watch'[h].pc = "armed" /\ pidfile' = pidfile
    BY <2>3, <2>6, ArmOps DEF MadeOf, Made, Shows
  <2> QED BY <2>4, <2>6, <2>7 DEF Shows, Act, IsActive
<1> QED BY <1>2, <1>3, <1>4, <1>5, <1>6

(* Only the watcher of the cached handle drops it from the cache. *)
LEMMA CacheDrops ==
  ASSUME Steady, Persisted, Persisted', ~Ends, cache # NoHandle, cache' = NoHandle
  PROVE  /\ watch[cache].pc = "tail" /\ NoneRuns /\ row' = row
         /\ ~\E h \in Handles : BootSpawn(h)
<1>0. TypeOK /\ AloneNext
  BY DEF Steady
<1>1. ~RemoveCommit /\ ~RemoveInMemory
  BY DEF RemoveCommit, RemoveInMemory, Persisted
<1>2. ASSUME NEW h \in Handles, Create(h) \/ GetCreate(h)
      PROVE  FALSE
  <2>1. ~\E b : MadeOf(h, b)
    BY DEF MadeOf, Made
  <2> QED BY <1>2, <2>1, HandedOut DEF Found
<1>3. PICK h \in Handles : WatchTail(h)
  BY <1>0, <1>1, <1>2, Writers
<1>4. h = cache /\ row' = row
  BY <1>3, OnlyHeldAct, WatchFrame DEF Steady, Solo, Over, WatchTail, WatchStep
<1>5. watch[cache].pc = "tail"
  BY <1>3, <1>4 DEF WatchTail
<1>6. NoneRuns
  BY <1>5 DEF Steady, Solo, CacheTrue
<1> QED BY <1>4, <1>5, <1>6, SpawnsAlone

LEMMA RowKeptNext ==
  ASSUME Steady
  PROVE  RowKept'
<1>0. TypeOK /\ AloneNext /\ RowKept /\ OneVM
  BY DEF Steady, Solo
<1> USE DEF IsHeld
<1> SUFFICES ASSUME Persisted', cache' = NoHandle, runtime' \notin {"down", "rebooted"}
             PROVE  \/ NoneRuns'
                    \/ /\ Shows(row', pidfile')
                       /\ \A h \in Handles : /\ held'[h] # "held"
                                             /\ getter'[h] # Absent => Shows(getter'[h], pidfile')
  BY DEF RowKept
<1>1. ~Ends
  BY DEF Ends, Crash, Reboot
<1>2. CASE ~Persisted
  BY <1>2, RowAppears, HandoutFrame DEF Steady, Solo, Unmade, NoneRuns, Up
<1>3. CASE Persisted /\ NoneRuns
  <2>1. ASSUME NEW h \in Handles, BootSpawn(h)
        PROVE  FALSE
    BY <1>3, <2>1, SpawnsAlone, ConstantsAssumption
  <2> QED BY <1>3, <2>1, NoneStill
<1>4. CASE Persisted /\ ~NoneRuns /\ Recover
  <2>1. RecoveredShim = pidfile /\ pidfile # NoShim
    BY <1>0, <1>4, ConstantsAssumption DEF OneVM, NoneRuns, Up, RecoveredShim, Alive
  <2> DEFINE b == IF runtime = "rebooted" /\ row.status = "Running"
                  THEN ResetForReboot(row) ELSE row
  <2>2. row' = AdoptRecoveredShim(b, pidfile) /\ pidfile' = pidfile
    BY <1>4, <2>1 DEF Recover, Persisted
  <2>3. b \in BoxState
    BY <1>0, <1>4, BoxStateOps DEF TypeOK, Persisted
  <2> HIDE DEF b
  <2>4. Shows(row', pidfile')
    BY <2>2, <2>3 DEF AdoptRecoveredShim, Shows, BoxState
  <2>5. \A h \in Handles : held'[h] # "held" /\ getter'[h] = Absent
    BY <1>4, HostFrame DEF Recover, Steady, Solo, Away
  <2> QED BY <2>4, <2>5
<1>5. CASE Persisted /\ ~NoneRuns /\ ~Recover
  <2>1. cache = NoHandle
    BY <1>1, <1>5, CacheDrops
  <2>2. runtime \notin {"down", "rebooted"}
    BY <1>0, <1>1, <1>5, Writers DEF Shutdown
  <2>3. /\ Shows(row, pidfile) /\ pidfile # NoShim
        /\ \A h \in Handles : ~IsHeld(h) /\ (getter[h] # Absent => Shows(getter[h], pidfile))
    BY <1>0, <1>5, <2>1, <2>2 DEF RowKept, Steady, Solo, PidsBorn, Known, Shows
  <2>4. ASSUME NEW h \in Handles, Create(h) \/ GetCreate(h)
        PROVE  FALSE
    <3>1. cache' # NoHandle
      <4>1. Found => cache' # NoHandle
        BY <2>1, ConstantsAssumption DEF Found
      <4>2. ASSUME NEW b, MadeOf(h, b)
            PROVE  cache' # NoHandle
        BY <4>2, ConstantsAssumption DEF MadeOf, Made
      <4> QED BY <2>4, <4>1, <4>2, HandedOut
    <3> QED BY <3>1
  <2>5. ASSUME NEW h \in Handles
        PROVE  ~BootStep(h) /\ ~WatchStep(h) /\ ~QuiesceStep(h)
    BY <2>3, OnlyHeldAct
  <2>6. pidfile' = pidfile
    BY <1>5, <2>5, PidFileKept DEF BootStep
  <2>7. held' = held
    BY <1>0, <1>1, <2>4, Writers
  <2>8. \A h \in Handles : getter'[h] # Absent => Shows(getter'[h], pidfile)
    <3>1. ASSUME NEW h \in Handles, GetRead(h)
          PROVE  \A g \in Handles : getter'[g] \in {getter[g], row}
      BY <1>0, <3>1 DEF GetRead, TypeOK
    <3> QED BY <1>0, <1>1, <2>3, <2>4, <3>1, Writers
  <2>9. row' = row \/ NoneRuns'
    <3>1. ~Provision
      BY <1>5 DEF Provision, Steady, Solo, Unmade, Persisted
    <3>2. ASSUME NEW force \in BOOLEAN, Remove(force)
          PROVE  row' = row \/ NoneRuns'
      <4>1. RemoveChecked(force) /\ IsActive(row.status) /\ row.pid = pidfile
        BY <2>3, <3>2 DEF Remove, Shows, IsActive
      <4>2. CASE force
        <5>1. Teardown(pidfile)
          BY <4>1, <4>2 DEF RemoveChecked
        <5> QED BY <1>0, <1>5, <2>3, <5>1, ConstantsAssumption
                DEF Teardown, NoneRuns, Up, OneVM, TypeOK
      <4> QED BY <4>1, <4>2 DEF RemoveChecked
    <3>3. ~RemoveCommit
      BY DEF RemoveCommit, Persisted
    <3> QED BY <1>0, <1>5, <2>4, <2>5, <3>1, <3>2, <3>3, Writers
            DEF BootStep, WatchStep
  <2> QED BY <2>3, <2>6, <2>7, <2>8, <2>9
<1> QED BY <1>2, <1>3, <1>4, <1>5

(* A row becomes Running, or another one, only by recovery or by what the
   cached handle publishes or brackets. *)
LEMMA RowRuns ==
  ASSUME Steady, Persisted, Persisted', ~Recover, row' # row, row'.status = "Running"
  PROVE  /\ cache' = cache /\ cache \in Handles /\ pidfile' = pidfile
         /\ watch'[cache].pc \notin {"none", "tail"}
         /\ NoneRuns' \/ row'.pid = pidfile
<1>0. TypeOK /\ AloneNext /\ row \in BoxState
  BY DEF Steady, TypeOK, Persisted
<1>1. \A h \in Handles : ~Create(h)
  BY DEF Create, Steady, Solo, Unmade, Persisted
<1>2. ~Provision /\ ~RemoveCommit
  BY DEF Provision, RemoveCommit, Steady, Solo, Unmade, Persisted
<1>3. ASSUME NEW h \in Handles, BootGuard(h) \/ WatchSave(h)
      PROVE  FALSE
  <2>1. MarkFailed(row).status = "Failed"
    BY <1>0 DEF MarkFailed, BoxState
  <2>2. watch[h].snapshot.status # "Running"
    BY DEF Steady, Solo, PidsBorn, Act, IsActive
  <2> QED BY <1>3, <2>1, <2>2 DEF BootGuard, WatchSave, Save, Persisted
<1>4. ASSUME NEW force \in BOOLEAN, Remove(force)
      PROVE  FALSE
  <2>1. MarkStop(row).status = "Stopped"
    BY <1>0 DEF MarkStop, BoxState
  <2> QED BY <1>4, <2>1 DEF Remove, RemoveChecked
<1>5. PICK h \in Handles : BootPublish(h) \/ QuiesceStep(h)
  BY <1>0, <1>1, <1>2, <1>3, <1>4, Writers
<1>6. IsHeld(h) /\ cache' = cache /\ pidfile' = pidfile
  BY <1>5, OnlyHeldAct, BootFrame, QuiesceFrame DEF BootStep, QuiesceStep
<1>7. CASE BootPublish(h)
  <2>1. /\ pidfile # NoShim /\ row' = mem'[h]
        /\ mem'[h].status = "Running" /\ mem'[h].pid = pidfile
        /\ watch'[h] = Arm(watch[h], mem'[h])
        /\ boot[h].plan = "adopt" => mem[h].status = "Running"
    BY <1>0, <1>7, Published DEF Persisted
  <2>2. watch[h].pc = "none" \/ Act(mem[h])
    <3>1. boot[h].pc = "publish"
      BY <1>7 DEF BootPublish
    <3>2. boot[h].plan \in {"fresh", "adopt"}
      BY <1>0, <3>1 DEF Steady, Solo, Planned, Connecting, TypeOK, BootState, Plans
    <3> QED BY <2>1, <3>1, <3>2 DEF Steady, OneLife, Reuses, Act, IsActive
  <2>3. h = cache
    BY <1>6, <2>2 DEF Steady, Solo, Over
  <2>4. watch'[h].pc \notin {"none", "tail"}
    <3>1. watch[h].pc # "none" => watch[h].pc \in {"armed", "exited", "done"}
      BY <2>2 DEF Steady, Solo, Attends
    <3> QED BY <2>1, <3>1, ArmOps
  <2> QED BY <1>6, <2>1, <2>3, <2>4
<1>8. CASE QuiesceStep(h)
  <2>1. /\ quiesce[h].pc # "idle" /\ Act(mem[h]) /\ row' = mem'[h]
        /\ mem'[h].pid = mem[h].pid
    BY <1>8, Quiesced DEF Persisted
  <2>2. h = cache
    BY <1>6, <2>1 DEF Steady, Solo, Over
  <2>3. watch[h].pc # "none"
    BY <2>1 DEF Steady, Solo, Fresh
  <2>4. watch'[h].pc \notin {"none", "tail"}
    BY <1>8, <2>1, <2>3, QuiesceFrame DEF Steady, Solo, Attends, QuiesceStep
  <2>5. NoneRuns \/ mem[h].pid = pidfile
    BY <2>2, <2>3, ConstantsAssumption DEF Steady, Solo, CacheTrue
  <2>6. NoneRuns => NoneRuns'
    <3>1. ASSUME NEW g \in Handles, BootSpawn(g)
          PROVE  FALSE
      BY <2>2, <2>3, <3>1, SpawnsAlone
    <3> QED BY <3>1, NoneStill
  <2> QED BY <1>6, <2>1, <2>2, <2>4, <2>5, <2>6
<1> QED BY <1>5, <1>7, <1>8

(* What recovery makes of a row. *)
LEMMA Recovered ==
  ASSUME Steady, Recover, Persisted'
  PROVE  /\ Persisted /\ cache = NoHandle /\ cache' = NoHandle /\ shim' = shim
         /\ \A h \in Handles : ~IsHeld(h) /\ getter'[h] = Absent
         /\ \/ pidfile' = pidfile /\ Alive(pidfile) /\ Shows(row', pidfile)
            \/ ~Alive(pidfile) /\ row'.status # "Running"
<1>1. Persisted
  BY DEF Recover, Persisted
<1>2. /\ cache = NoHandle /\ cache' = NoHandle /\ shim' = shim
      /\ \A h \in Handles : ~IsHeld(h) /\ getter'[h] = Absent
  BY HostFrame DEF Recover, Steady, Solo, Away
<1> DEFINE b == IF runtime = "rebooted" /\ row.status = "Running"
                THEN ResetForReboot(row) ELSE row
<1>3. b \in BoxState
  BY <1>1, BoxStateOps DEF Steady, TypeOK, Persisted
<1>4. CASE Alive(pidfile)
  <2>1. pidfile' = pidfile /\ row' = AdoptRecoveredShim(b, pidfile)
    BY <1>1, <1>4 DEF Recover, Persisted, RecoveredShim, Alive
  <2> HIDE DEF b
  <2>2. Shows(row', pidfile)
    BY <1>3, <2>1 DEF AdoptRecoveredShim, Shows, BoxState
  <2> QED BY <1>1, <1>2, <1>4, <2>1, <2>2
<1>5. CASE ~Alive(pidfile)
  <2>1. row' = WithoutShim(b)
    BY <1>1, <1>5 DEF Recover, Persisted, RecoveredShim
  <2> HIDE DEF b
  <2>2. MarkFailed(b).status = "Failed"
    BY <1>3 DEF MarkFailed, BoxState
  <2>3. RecordMainCommandExit(b).status = "Stopped"
    <3>1. [b EXCEPT !.exit = IF record = NoShim THEN @ ELSE record] \in BoxState
      BY <1>3 DEF Steady, TypeOK, BoxState
    <3> QED BY <3>1 DEF RecordMainCommandExit, MarkStop, BoxState
  <2> QED BY <1>1, <1>2, <1>5, <2>1, <2>2, <2>3 DEF WithoutShim
<1> QED BY <1>4, <1>5

LEMMA RowShownNext ==
  ASSUME Steady
  PROVE  RowShown'
<1>0. TypeOK /\ AloneNext /\ RowShown
  BY DEF Steady, Solo
<1>1. ASSUME Persisted', cache' # NoHandle, watch'[cache'].pc \in {"none", "tail"}
      PROVE  row'.status # "Running"
  <2>1. ~Ends /\ ~(Recover /\ Persisted')
    <3>1. ~Ends
      BY <1>1 DEF Ends, ProcessGone
    <3> QED BY <1>1, <3>1, Recovered
  <2>2. CASE ~Persisted
    <3>1. MarkStop(NewState).status = "Stopped" /\ NewState.status = "Configured"
      BY DEF MarkStop, NewState
    <3> QED BY <2>2, <3>1, <1>1, RowAppears DEF Provision, Create
  <2>3. CASE Persisted /\ cache' = cache
    <3>1. watch[cache].pc \in {"none", "tail"} \/ WatchSave(cache)
      <4>0. IsHeld(cache) /\ cache \in Handles
        BY <1>0, <1>1, <2>3 DEF Steady, Solo, Vacant, TypeOK
      <4>1. watch'[cache].pc = "none" => watch[cache].pc = "none"
        BY <2>1, <4>0, WatchedStays
      <4>2. CASE watch'[cache].pc = "tail"
        <5>1. WatchStep(cache) => watch'[cache] = watch[cache] \/ watch[cache].pc = "save"
          BY <1>0, <4>0, <4>2, WatchMoves
        <5>2. WatchStep(cache) /\ watch[cache].pc = "save" => WatchSave(cache)
          BY DEF WatchStep, WatchStandDown, WatchExit, WatchRecord, WatchTail, WatchRemove
        <5>3. ASSUME NEW b, watch'[cache] = Arm(watch[cache], b)
              PROVE  watch'[cache] = watch[cache]
          BY <4>2, <5>3, ArmOps
        <5>4. BootPublish(cache) => watch'[cache] \in {watch[cache], Arm(watch[cache], mem'[cache])}
          BY <1>0, <4>0, Published
        <5>5. ~\E b : MadeOf(cache, b)
          BY <4>0 DEF MadeOf
        <5> QED BY <2>1, <4>0, <4>2, <5>1, <5>2, <5>3, <5>4, <5>5, WatchMovesOf
      <4> QED BY <1>1, <2>3, <4>1, <4>2
    <3>2. CASE WatchSave(cache)
      <4>1. watch[cache].snapshot.status # "Running"
        BY <1>0, <1>1, <2>3 DEF Steady, Solo, PidsBorn, Act, IsActive, TypeOK
      <4> QED BY <2>3, <3>2, <4>1 DEF WatchSave, Save, Persisted
    <3>3. CASE watch[cache].pc \in {"none", "tail"}
      <4>1. row.status # "Running"
        BY <1>0, <1>1, <2>3, <3>3 DEF RowShown
      <4> QED BY <1>1, <2>1, <2>3, <4>1, RowRuns
    <3> QED BY <3>1, <3>2, <3>3
  <2>4. CASE Persisted /\ cache' # cache
    <3>1. ASSUME NEW h \in Handles, Create(h)
          PROVE  FALSE
      BY <2>4, <3>1 DEF Create, Steady, Solo, Unmade, Persisted
    <3>2. PICK h \in Handles : GetCreate(h)
      BY <1>0, <1>1, <2>1, <2>4, <3>1, Writers DEF RemoveCommit, RemoveInMemory, WatchTail
    <3>3. MadeOf(h, getter[h]) /\ getter[h] # Absent /\ row' = row
      BY <2>4, <3>1, <3>2, HandedOut DEF MadeOf, Found
    <3>4. h = cache' /\ cache = NoHandle /\ watch[h].pc = "none"
          /\ watch'[h] = Arm(watch[h], getter[h])
      BY <3>3 DEF MadeOf, Made
    <3>5. getter[h].status # "Running"
      BY <1>1, <3>3, <3>4, ArmOps DEF Steady, Solo, PidsBorn, Known
    <3> QED BY <1>0, <2>4, <3>3, <3>4, <3>5 DEF RowShown
  <2> QED BY <2>2, <2>3, <2>4
<1>2. ASSUME Persisted', cache' = NoHandle, row'.status = "Running",
             NEW g \in Handles, getter'[g] # Absent
      PROVE  getter'[g].status = "Running"
  <2>1. ~Ends /\ ~(Recover /\ Persisted')
    <3>1. ~Ends
      BY <1>2 DEF Ends, ProcessGone
    <3> QED BY <1>2, <3>1, Recovered
  <2>2. Persisted
    BY <1>2, FirstRow
  <2>3. row' = row /\ cache = NoHandle
    <3>1. CASE cache = NoHandle
      BY <1>2, <2>1, <2>2, <3>1, RowRuns, ConstantsAssumption
    <3>2. CASE cache # NoHandle
      BY <1>0, <1>2, <2>1, <2>2, <3>2, CacheDrops DEF RowShown
    <3> QED BY <3>1, <3>2
  <2>4. \A h \in Handles : getter[h] # Absent => getter[h].status = "Running"
    BY <1>0, <1>2, <2>2, <2>3 DEF RowShown
  <2>5. getter'[g] \in {getter[g], row, Absent}
    <3>1. ASSUME NEW h \in Handles, GetRead(h) \/ GetCreate(h)
          PROVE  getter'[g] \in {getter[g], row, Absent}
      BY <1>0, <3>1 DEF GetRead, GetCreate, TypeOK
    <3> QED BY <1>0, <2>1, <3>1, Writers
  <2> QED BY <1>2, <2>3, <2>4, <2>5
<1>3. ASSUME Persisted', runtime' \notin {"down", "rebooted"}, row'.status = "Running"
      PROVE  NoneRuns' \/ row'.pid = pidfile'
  <2>1. ~Ends
    BY <1>3 DEF Ends, Crash, Reboot
  <2>2. CASE Recover
    BY <1>3, <2>2, Recovered DEF Shows
  <2>3. CASE ~Persisted
    BY <2>3, <1>3, RowAppears, HandoutFrame DEF Steady, Solo, Unmade, NoneRuns, Up
  <2>4. CASE Persisted /\ ~Recover /\ row' = row
    <3>1. runtime \notin {"down", "rebooted"}
      BY <1>0, <1>3, <2>1, <2>4, Writers DEF Shutdown
    <3>2. NoneRuns \/ row.pid = pidfile
      BY <1>0, <1>3, <2>4, <3>1 DEF RowShown
    <3>3. ASSUME NEW h \in Handles, BootSpawn(h)
          PROVE  FALSE
      BY <1>0, <1>3, <2>4, <3>3, SpawnsAlone, ConstantsAssumption DEF RowShown
    <3> QED BY <1>3, <2>4, <3>2, <3>3, NoneStill, PidFileKept
  <2>5. CASE Persisted /\ ~Recover /\ row' # row
    BY <1>3, <2>5, RowRuns
  <2> QED BY <2>2, <2>3, <2>4, <2>5
<1> QED BY <1>1, <1>2, <1>3 DEF RowShown

-----------------------------------------------------------------------------
(* All parts together are inductive as long as OneLife holds.                *)
LEMMA SoloNext ==
  ASSUME LeftAlone, IInv, Solo, OneLife, Unbroken, [Next]_vars
  PROVE  Solo'
<1>1. IInv'
  BY NextInductive
<1>2. Steady
  BY <1>1, StepsLeft DEF Steady, IInv, Solo
<1>3. NoStops' /\ Shelved' /\ Queued'
  BY NoStopsNext, ShelvedNext, QueuedNext DEF Solo
<1>4. Vacant' /\ Away' /\ Unmade' /\ PidsBorn'
  BY <1>2, VacantNext, AwayNext, UnmadeNext, PidsBornNext
<1>5. Locked' /\ Planned' /\ Bracketed' /\ Fresh'
  BY <1>2, LockedNext, PlannedNext, BracketedNext, FreshNext
<1>6. Watching' /\ Attends' /\ Filled' /\ Over' /\ Adopting' /\ Emptied'
  BY <1>2, WatchingNext, AttendsNext, FilledNext, OverNext, AdoptingNext, EmptiedNext
<1>7. OneVM' /\ Spawned' /\ CacheTrue' /\ RowKept' /\ RowShown'
  BY <1>2, OneVMNext, SpawnedNext, CacheTrueNext, RowKeptNext, RowShownNext
<1> QED BY <1>3, <1>4, <1>5, <1>6, <1>7 DEF Solo

(* What every state of the way satisfies, and every step. *)
LEMMA SoloAlways ==
  ASSUME LeftAlone
  PROVE  Spec /\ []OneLife /\ []Unbroken => [](IInv /\ Solo /\ OneLife /\ Unbroken)
<1>1. Init => IInv /\ Solo
  BY InitInductive, InitSolo
<1>2. IInv /\ Solo /\ OneLife /\ Unbroken /\ [Next]_vars => IInv' /\ Solo'
  BY NextInductive, SoloNext
<1> QED BY <1>1, <1>2, PTL DEF Spec

LEMMA SteadyNext ==
  ASSUME LeftAlone, IInv, Solo, OneLife, Unbroken, [Next]_vars
  PROVE  Steady
BY NextInductive, StepsLeft DEF Steady, IInv, Solo

(* A box that is shown Running is attended, for any number of handles and    *)
(* shims: where no client stops it or lets go of a handle, no handle boots a *)
(* second VM, and no end is recorded between a bracket's signal and its      *)
(* write, its row names the only VM there is, and whoever holds it will hear *)
(* of its end, whatever boots, adoptions, brackets, removals, exits, crashes *)
(* and reboots interleave.                                                   *)
THEOREM ShownIsAttended ==
  ASSUME LeftAlone
  PROVE  Spec /\ []OneLife /\ []Unbroken => []Attended
<1>1. ASSUME IInv, Solo
      PROVE  Attended
  <2>1. RowNamesVM
    BY <1>1 DEF Solo, OneVM, RowShown, RowNamesVM, ShowsVM, Running, Alive, Up, NoneRuns
  <2>2. Watched
    BY <1>1 DEF Solo, Attends, Act, IsActive, Watched, ShowsVM
  <2> QED BY <2>1, <2>2 DEF Attended
<1> QED BY <1>1, SoloAlways, PTL

(* After recovery the row is Running exactly when a shim of the box is, and  *)
(* names that shim, wherever the crash or the reboot fell, under the same    *)
(* conditions.                                                               *)
THEOREM RecoveryTellsTheTruth ==
  ASSUME LeftAlone
  PROVE  Spec /\ []OneLife /\ []Unbroken => RecoveredTruth
<1>1. ASSUME IInv, Solo, OneLife, Unbroken, [Next]_vars,
             runtime # "up", runtime' = "up", row' # Absent
      PROVE  /\ Running \subseteq {row'.pid}
             /\ (row'.status = "Running") <=> (Running # {})
  <2>1. Steady
    BY <1>1, SteadyNext
  <2>2. Recover
    BY <1>1, <2>1, Writers DEF Steady, Shutdown, Ends, Crash, Reboot
  <2>3. Persisted /\ Persisted'
    BY <1>1, <2>1, <2>2, Recovered DEF Persisted
  <2>4. \A p \in Shims : Alive(p) => p = pidfile
    BY <1>1, <2>3 DEF Solo, OneVM, Up, Alive
  <2>5. CASE Alive(pidfile) /\ Shows(row', pidfile)
    BY <1>1, <2>4, <2>5 DEF Running, Shows, IInv, TypeOK, ShimOrNone, Alive
  <2>6. CASE ~Alive(pidfile) /\ row'.status # "Running"
    BY <2>4, <2>6 DEF Running
  <2> QED BY <2>1, <2>2, <2>3, <2>5, <2>6, Recovered
<1>2. IInv /\ Solo /\ OneLife /\ Unbroken /\ [Next]_vars =>
        [runtime # "up" /\ runtime' = "up" /\ row' # Absent
           => /\ Running \subseteq {row'.pid}
              /\ (row'.status = "Running") <=> (Running # {})]_vars
  BY <1>1
<1> QED BY <1>2, SoloAlways, PTL DEF Spec, RecoveredTruth

-----------------------------------------------------------------------------
(* RowOfOneRun and KeepsContract, for clients that take no snapshot either.  *)
(* Any copy of the box's state may be the next one written: the row, those   *)
(* of the handles, what a get() has read and what a watcher is to save.      *)
Saving(h) == watch[h].pc = "save"
Copies == ({row} \cup {mem[h] : h \in Handles} \cup {getter[h] : h \in Handles}
           \cup {watch[h].snapshot : h \in {g \in Handles : Saving(g)}}) \ {Absent}

(* A step of clients that take no snapshots. *)
Calm == Steady /\ NoBracket /\ CopiesAgree /\ CopiesAgree' /\ "quiesce" \notin Calls

(* No quiesce bracket opens, and none is open to move on. *)
LEMMA NoQuiesceStep ==
  ASSUME Calm, NEW h \in Handles
  PROVE  ~QuiesceBegin(h) /\ ~QuiesceStep(h) /\ ~QuiesceAbandon(h)
BY DEF Calm, NoBracket, QuiesceBegin, QuiesceStep, QuiesceStop, QuiescePause, QuiesceCont,
     QuiesceProbe, QuiesceResume, QuiesceSet, QuiesceWrites,
   QuiesceAbandon

(* What a copy may become. *)
Marked(b) == Persisted /\ (b = MarkStop(row) \/ b = MarkFailed(row))
PublishedBy(h, b) ==
  /\ BootPublish(h) /\ boot[h].pc = "publish" /\ pidfile # NoShim
  /\ boot[h].plan = "adopt" => mem[h].status = "Running"
  /\ b = PublishRunning(mem[h], pidfile, boot[h].plan = "adopt")
RecordedBy(h, b) ==
  /\ WatchRecord(h) /\ watch[h].pc = "exited" /\ Act(mem[h])
  /\ b = RecordMainCommandExit(mem[h])
RecoveredAs(b) ==
  /\ Recover /\ Persisted
  /\ \E c \in BoxState :
       /\ c = row \/ c = ResetForReboot(row)
       /\ \/ b = AdoptRecoveredShim(c, pidfile) /\ Alive(pidfile)
          \/ b = MarkFailed(c) \/ b = c
          \/ b = RecordMainCommandExit(c) /\ c.status = "Running"
RowWritten(b) ==
  \/ b = NewState \/ b = MarkStop(NewState)
  \/ Marked(b) \/ RecoveredAs(b)
  \/ \E h \in Handles : PublishedBy(h, b)
Written(b) == RowWritten(b) \/ \E h \in Handles : RecordedBy(h, b)

(* init_live_state publishes into memory and, if the row is there, the row. *)
LEMMA PublishedState ==
  ASSUME TypeOK, NEW h \in Handles, BootPublish(h)
  PROVE  \/ UNCHANGED <<row, mem>>
         \/ /\ PublishedBy(h, mem'[h]) /\ \A g \in Handles : g # h => mem'[g] = mem[g]
            /\ row' = IF Persisted THEN mem'[h] ELSE Absent
<1> DEFINE b == PublishRunning(mem[h], pidfile, boot[h].plan = "adopt")
           Refused == pidfile = NoShim \/ (boot[h].plan = "adopt" /\ mem[h].status # "Running")
<1>1. CASE Refused
  BY <1>1 DEF BootPublish
<1>2. CASE ~Refused
  <2>1. /\ mem' = [mem EXCEPT ![h] = b] /\ boot[h].pc = "publish"
        /\ row' = IF Persisted THEN b ELSE Absent
    BY <1>2 DEF BootPublish, Persisted
  <2>2. PublishedBy(h, b)
    BY <1>2, <2>1 DEF PublishedBy
  <2> HIDE DEF b
  <2>3. mem'[h] = b /\ \A g \in Handles : g # h => mem'[g] = mem[g]
    BY <2>1 DEF TypeOK
  <2> QED BY <2>1, <2>2, <2>3
<1> QED BY <1>1, <1>2

(* on_shim_exit changes the state of an active handle and is to save it. *)
LEMMA RecordedState ==
  ASSUME Steady, NEW h \in Handles, WatchRecord(h)
  PROVE  /\ RecordedBy(h, mem'[h]) /\ watch'[h].pc = "save"
         /\ watch'[h].snapshot = mem'[h]
<1>0. TypeOK
  BY DEF Steady
<1>1. watch[h].pc = "exited" /\ Act(mem[h])
  BY DEF WatchRecord, Steady, Solo, Watching
<1> DEFINE b == RecordMainCommandExit(mem[h])
<1>2. /\ mem' = [mem EXCEPT ![h] = b]
      /\ watch' = [watch EXCEPT ![h] = [pc |-> "save", pid |-> NoShim, snapshot |-> b]]
  BY <1>1 DEF WatchRecord, Act
<1>3. RecordedBy(h, b)
  BY <1>1 DEF RecordedBy
<1> HIDE DEF b
<1>4. mem'[h] = b /\ watch'[h].pc = "save" /\ watch'[h].snapshot = b
  BY <1>0, <1>2 DEF TypeOK
<1> QED BY <1>3, <1>4

(* What recover_boxes makes of a row it keeps. *)
LEMMA RecoveredState ==
  ASSUME TypeOK, Recover, row' # Absent
  PROVE  RecoveredAs(row')
<1> DEFINE c == IF runtime = "rebooted" /\ row.status = "Running"
                THEN ResetForReboot(row) ELSE row
<1>1. Persisted /\ row \in BoxState
  BY DEF Recover, Persisted, TypeOK
<1>2. c \in BoxState /\ (c = row \/ c = ResetForReboot(row))
  BY <1>1, BoxStateOps
<1>3. \/ row' = AdoptRecoveredShim(c, pidfile) /\ Alive(pidfile)
      \/ row' = WithoutShim(c)
  BY DEF Recover, RecoveredShim
<1> HIDE DEF c
<1>4. row' = WithoutShim(c) =>
        \/ row' = MarkFailed(c) \/ row' = c
        \/ row' = RecordMainCommandExit(c) /\ c.status = "Running"
  BY DEF WithoutShim
<1> QED BY <1>1, <1>2, <1>3, <1>4 DEF RecoveredAs

(* Every copy was there before, or is written by the step. *)
LEMMA RowMoves ==
  ASSUME Calm
  PROVE  \/ row' \in {row, Absent} \/ RowWritten(row')
         \/ \E h \in Handles : WatchSave(h) /\ Saving(h) /\ row' = watch[h].snapshot
<1>0. TypeOK /\ AloneNext
  BY DEF Calm, Steady
<1>1. ASSUME NEW h \in Handles, BootGuard(h)
      PROVE  row' \in {row, Absent} \/ Marked(row')
  BY <1>1 DEF BootGuard, Marked, Persisted
<1>2. ASSUME NEW force \in BOOLEAN, Remove(force)
      PROVE  row' = row \/ Marked(row')
  BY <1>2 DEF Remove, RemoveChecked, Marked, Persisted
<1>3. ASSUME NEW h \in Handles, BootPublish(h)
      PROVE  row' \in {row, Absent} \/ PublishedBy(h, row')
  BY <1>0, <1>3, PublishedState
<1>4. ASSUME NEW h \in Handles, WatchSave(h)
      PROVE  row' = Absent \/ (Saving(h) /\ row' = watch[h].snapshot)
  BY <1>4 DEF WatchSave, Saving, Save
<1>5. Recover => row' = Absent \/ RecoveredAs(row')
  BY <1>0, RecoveredState
<1>6. /\ Provision => row' = MarkStop(NewState)
      /\ RemoveCommit => row' = Absent
      /\ \A h \in Handles : Create(h) => row' = NewState
  BY DEF Provision, RemoveCommit, Create
<1> QED BY <1>0, <1>1, <1>2, <1>3, <1>4, <1>5, <1>6, NoQuiesceStep, Writers DEF RowWritten

(* No step makes up a copy: it was there, or it is one of those written. *)
LEMMA CopiesMove ==
  ASSUME Calm
  PROVE  \A b \in Copies' : b \in Copies \/ Written(b)
<1>0. TypeOK /\ AloneNext /\ Steady
  BY DEF Calm, Steady
<1>1. /\ row # Absent => row \in Copies
      /\ \A g \in Handles : mem[g] \in Copies
      /\ \A g \in Handles : getter[g] # Absent => getter[g] \in Copies
      /\ \A g \in Handles : Saving(g) => watch[g].snapshot \in Copies
  BY <1>0, AbsentAssumption DEF Copies, TypeOK, WatchState
<1>2. row' # Absent => row' \in Copies \/ Written(row')
  BY <1>1, RowMoves DEF Written
<1>3. ASSUME NEW g \in Handles
      PROVE  mem'[g] \in Copies \/ Written(mem'[g])
  <2>1. Ends => mem'[g] = NewState
    BY DEF Ends, ProcessGone
  <2>2. ASSUME NEW b, MadeOf(g, b)
        PROVE  mem'[g] = NewState \/ (getter[g] # Absent /\ mem'[g] = getter[g])
    BY <2>2 DEF MadeOf, Made
  <2>3. BootPublish(g) => mem'[g] = mem[g] \/ PublishedBy(g, mem'[g])
    BY <1>0, PublishedState
  <2>4. WatchRecord(g) => RecordedBy(g, mem'[g])
    BY <1>0, RecordedState
  <2> QED BY <1>0, <1>1, <2>1, <2>2, <2>3, <2>4, MemMoves, NoQuiesceStep
          DEF Written, RowWritten
<1>4. ASSUME NEW g \in Handles
      PROVE  getter'[g] \in {getter[g], row, Absent}
  <2>1. ASSUME NEW h \in Handles, GetRead(h) \/ GetCreate(h)
        PROVE  getter'[g] \in {getter[g], row, Absent}
    BY <1>0, <2>1 DEF GetRead, GetCreate, TypeOK
  <2>2. Ends => getter'[g] = Absent
    BY DEF Ends, ProcessGone
  <2> QED BY <1>0, <2>1, <2>2, Writers
<1>5. ASSUME NEW g \in Handles, watch'[g].pc = "save"
      PROVE  watch'[g].snapshot \in Copies \/ Written(watch'[g].snapshot)
  <2>1. ~Ends
    BY <1>5 DEF Ends, ProcessGone, NoWatch
  <2>2. ASSUME NEW b, watch'[g] = Arm(watch[g], b)
        PROVE  watch'[g] = watch[g]
    BY <1>5, <2>2, ArmOps
  <2>3. ASSUME NEW b, MadeOf(g, b)
        PROVE  watch'[g] = watch[g]
    BY <2>2, <2>3 DEF MadeOf, Made
  <2>4. BootPublish(g) => watch'[g] = watch[g]
    BY <1>0, <2>2, Published
  <2>5. WatchRecord(g) => RecordedBy(g, watch'[g].snapshot)
    BY <1>0, RecordedState
  <2>6. WatchStep(g) => watch'[g] = watch[g] \/ WatchRecord(g)
    BY <1>0, <1>5, WatchMoves
  <2> QED BY <1>0, <1>1, <1>5, <2>1, <2>2, <2>3, <2>4, <2>5, <2>6, WatchMovesOf
          DEF Written, Saving
<1>6. \A b \in Copies' : \/ b = row' /\ row' # Absent
                         \/ \E g \in Handles : b = mem'[g]
                         \/ \E g \in Handles : b = getter'[g] /\ getter'[g] # Absent
                         \/ \E g \in Handles : watch'[g].pc = "save" /\ b = watch'[g].snapshot
  BY DEF Copies, Saving
<1> QED BY <1>1, <1>2, <1>3, <1>4, <1>5, <1>6

(* A shim that ended stays so, and what ran has run. *)
Done(p, s) == s[p] \in {"zombie", "dead"}
Ran(p, s, r) == p # NoShim => p \in r /\ Done(p, s)

(* A shim that ended does not come back. *)
LEMMA DoneStays ==
  ASSUME TypeOK, AloneNext, NEW p \in Shims, Done(p, shim)
  PROVE  Done(p, shim')
<1>1. ~Up(p)'
  <2>1. ASSUME NEW h \in Handles, BootSpawn(h), pidfile' = p
        PROVE  FALSE
    BY <2>1 DEF BootSpawn, Done
  <2> QED BY <2>1, ShimsEnd DEF Up, Done
<1>2. shim'[p] # "unborn"
  BY ShimsEnd DEF Done
<1>3. shim'[p] \in {"unborn", "live", "frozen", "zombie", "dead"} \/ shim' = shim
  <2>1. CASE \E q : Teardown(q)
    BY <2>1 DEF Teardown, TypeOK
  <2>2. ASSUME NEW h \in Handles, BootSpawn(h) \/ BootFail(h) \/ WatchExit(h) \/ QuiesceStep(h)
        PROVE  shim'[p] \in {"unborn", "live", "frozen", "zombie", "dead"} \/ shim' = shim
    <3>1. CASE QuiesceStop(h)
      BY <3>1 DEF TypeOK, QuiesceStop
    <3>2. CASE QuiesceCont(h)
      BY <3>2 DEF TypeOK, QuiesceCont, Continued
    <3>3. CASE QuiescePause(h) \/ QuiesceProbe(h) \/ QuiesceResume(h)
      BY <3>3 DEF QuiescePause, QuiesceProbe, QuiesceResume, QuiesceWrites, procVars
    <3>4. CASE BootSpawn(h) \/ BootFail(h) \/ WatchExit(h)
      BY <2>1, <3>4 DEF TypeOK, BootSpawn, BootFail, WatchExit
    <3> QED BY <2>2, <3>1, <3>2, <3>3, <3>4 DEF QuiesceStep
  <2>3. ASSUME NEW q \in Shims, ShimStep(q)
        PROVE  shim'[p] \in {"unborn", "live", "frozen", "zombie", "dead"} \/ shim' = shim
    BY <2>3 DEF TypeOK, ShimStep, MainExits, ShimDies, Watchdog, Exit
  <2>4. ASSUME NEW force \in BOOLEAN, Remove(force)
        PROVE  shim'[p] \in {"unborn", "live", "frozen", "zombie", "dead"} \/ shim' = shim
    BY <2>1, <2>4 DEF TypeOK, Remove, RemoveChecked
  <2>5. Ends => shim'[p] \in {"unborn", "live", "frozen", "zombie", "dead"}
    BY DEF Ends, Crash, Reboot, TypeOK
  <2> QED BY <2>2, <2>3, <2>4, <2>5, HandoutFrame, BootFrame, WatchFrame, QuiesceFrame, HostFrame
          DEF AloneNext, AloneStep, AloneHost, BootStep, WatchStep, vars, procVars
<1> QED BY <1>1, <1>2, <1>3 DEF Up, Done

(* Only Container.Start adds to what ran, and nothing takes from it. *)
LEMMA RanGrows ==
  ASSUME AloneNext
  PROVE  /\ ran \subseteq ran'
         /\ ran' = ran \/ \E h \in Handles : StartStep(h)
<1>1. ASSUME NEW h \in Handles, StartStep(h)
      PROVE  ran \subseteq ran'
  BY <1>1 DEF StartStep, ContainerStart, ContainerStartFails
<1>2. ran' = ran \/ \E h \in Handles : StartStep(h)
  BY HandoutFrame, BootFrame, WatchFrame, QuiesceFrame, HostFrame
     DEF AloneNext, AloneStep, AloneHost, Ends, BootStep, WatchStep, QuiesceStep,
         vars, procVars
<1> QED BY <1>1, <1>2

(* What ran and ended stays a run that ended. *)
LEMMA RanStays ==
  ASSUME TypeOK, AloneNext, NEW p \in ShimOrNone, Ran(p, shim, ran)
  PROVE  Ran(p, shim', ran')
BY DoneStays, RanGrows DEF Ran, ShimOrNone

(* Who writes the exit record: a boot that starts over, a removal, or a VM
   whose init ran and which ends. *)
LEMMA RecordWriters ==
  ASSUME TypeOK, AloneNext
  PROVE  \/ record' = record
         \/ record' = NoShim /\ (RemoveCommit \/ RemoveInMemory \/ (Recover /\ row' = Absent))
         \/ /\ record' = NoShim
            /\ \E h \in Handles : BootConnect(h) /\ boot[h].plan # "adopt"
         \/ record' \in Shims /\ shim[record'] = "live" /\ Ran(record', shim', ran')
<1> DEFINE Goal ==
      \/ record' = record
      \/ record' = NoShim /\ (RemoveCommit \/ RemoveInMemory \/ (Recover /\ row' = Absent))
      \/ /\ record' = NoShim
         /\ \E h \in Handles : BootConnect(h) /\ boot[h].plan # "adopt"
      \/ record' \in Shims /\ shim[record'] = "live" /\ Ran(record', shim', ran')
<1>1. ASSUME NEW p, Teardown(p), ran' = ran
      PROVE  Goal
  BY <1>1 DEF Teardown, MayRecord, Ran, Done, TypeOK
<1>2. ASSUME NEW h \in Handles, AloneStep(h)
      PROVE  Goal
  <2>1. CASE BootFail(h)
    <3>1. ran' = ran
      BY <2>1, BootFrame
    <3> QED BY <1>1, <2>1, <3>1 DEF BootFail
  <2>2. CASE BootConnect(h)
    BY <2>2 DEF BootConnect
  <2>3. CASE BootStep(h) /\ ~BootFail(h) /\ ~BootConnect(h)
    BY <2>3 DEF BootStep, BootRead, BootLock, BootAttach, BootSpawn, BootGuard,
       BootPublish, BootFinish, diskVars
  <2>4. CASE WatchStep(h)
    BY <2>4 DEF WatchStep, WatchStandDown, WatchExit, WatchRecord, WatchSave,
       WatchTail, WatchRemove, RemoveChecked, diskVars
  <2>5. CASE QuiesceBegin(h) \/ QuiesceStep(h) \/ QuiesceAbandon(h)
    BY <2>5 DEF QuiesceBegin, QuiesceStep, QuiesceStop, QuiescePause, QuiesceCont,
     QuiesceProbe, QuiesceResume, QuiesceSet, QuiesceWrites, QuiesceAbandon, diskVars
  <2>6. CASE Create(h) \/ GetRead(h) \/ GetCreate(h) \/ StartStep(h)
    BY <2>6 DEF Create, GetRead, GetCreate, StartStep, ContainerStart,
       ContainerStartFails, diskVars
  <2>7. CASE \E r \in Requests : Request(h, r)
    BY <2>7 DEF Request, diskVars
  <2> QED BY <1>2, <2>1, <2>2, <2>3, <2>4, <2>5, <2>6, <2>7 DEF AloneStep
<1>3. ASSUME NEW p \in Shims, ShimStep(p)
      PROVE  Goal
  <2>1. ran' = ran
    BY <1>3, HostFrame
  <2>2. ASSUME shim[p] = "live", p \in ran, record' = p, Exit(p)
        PROVE  Goal
    BY <2>1, <2>2 DEF Exit, Ran, Done, TypeOK
  <2> QED BY <1>3, <2>2 DEF ShimStep, MainExits, ShimDies, Watchdog, MayRecord
<1>4. ASSUME NEW force \in BOOLEAN, Remove(force)
      PROVE  Goal
  <2>1. ran' = ran
    BY <1>4, HostFrame
  <2> QED BY <1>1, <1>4, <2>1 DEF Remove, RemoveChecked
<1>5. CASE AloneHost \/ Ends
  BY <1>4, <1>5 DEF AloneHost, Ends, Provision, RemoveCommit, RemoveInMemory,
     Shutdown, Recover, Crash, Reboot, diskVars
<1>6. CASE UNCHANGED vars
  BY <1>6 DEF vars, diskVars
<1> QED BY <1>2, <1>3, <1>5, <1>6 DEF AloneNext

(* The exit codes that are told are those of inits that ran in VMs that ended. *)
ExitsRan == Ran(record, shim, ran) /\ \A b \in Copies : Ran(b.exit, shim, ran)

(* Every copy is a BoxState. *)
LEMMA CopiesTyped ==
  ASSUME TypeOK
  PROVE  Copies \subseteq BoxState
BY DEF Copies, TypeOK, WatchState

(* What the operations do to the exit code. *)
LEMMA ExitOps ==
  ASSUME TypeOK, NEW b \in BoxState
  PROVE  /\ b.exit \in ShimOrNone
         /\ MarkStop(b).exit = b.exit /\ MarkFailed(b).exit = b.exit
         /\ ResetForReboot(b).exit = b.exit
         /\ \A p : AdoptRecoveredShim(b, p).exit = b.exit
         /\ \A p, a : PublishRunning(b, p, a).exit = NoShim
         /\ RecordMainCommandExit(b).exit = IF record = NoShim THEN b.exit ELSE record
         /\ NewState.exit = NoShim
<1>1. RecordMainCommandExit(b).exit = IF record = NoShim THEN b.exit ELSE record
  BY DEF BoxState, RecordMainCommandExit, MarkStop, TypeOK
<1> QED BY <1>1 DEF BoxState, MarkStop, MarkFailed, ResetForReboot, AdoptRecoveredShim,
   PublishRunning, NewState

(* A written exit code comes from the exit record or from another copy. *)
LEMMA ExitsWritten ==
  ASSUME TypeOK, NEW b, Written(b)
  PROVE  b.exit \in {NoShim, record} \/ \E c \in Copies : b.exit = c.exit
<1>1. /\ Persisted => row \in Copies /\ row \in BoxState
      /\ \A h \in Handles : mem[h] \in Copies /\ mem[h] \in BoxState
  BY AbsentAssumption DEF Copies, TypeOK, Persisted
<1>2. CASE Marked(b)
  BY <1>1, <1>2, ExitOps DEF Marked
<1>3. CASE RecoveredAs(b)
  <2>1. PICK c \in BoxState : 
          /\ c = row \/ c = ResetForReboot(row)
          /\ \/ b = AdoptRecoveredShim(c, pidfile) /\ Alive(pidfile)
             \/ b = MarkFailed(c) \/ b = c
             \/ b = RecordMainCommandExit(c) /\ c.status = "Running"
    BY <1>3 DEF RecoveredAs
  <2>2. c.exit = row.exit
    BY <1>1, <1>3, <2>1, ExitOps DEF RecoveredAs
  <2>3. b.exit \in {c.exit, record}
    BY <2>1, ExitOps
  <2> QED BY <1>1, <1>3, <2>2, <2>3 DEF RecoveredAs
<1>4. ASSUME NEW h \in Handles, PublishedBy(h, b)
      PROVE  b.exit = NoShim
  BY <1>1, <1>4, ExitOps DEF PublishedBy
<1>5. ASSUME NEW h \in Handles, RecordedBy(h, b)
      PROVE  b.exit = record \/ b.exit = mem[h].exit
  BY <1>1, <1>5, ExitOps DEF RecordedBy
<1>6. b = NewState \/ b = MarkStop(NewState) => b.exit = NoShim
  BY ExitOps, BoxStateOps
<1> QED BY <1>1, <1>2, <1>3, <1>4, <1>5, <1>6 DEF Written, RowWritten

(* Every step keeps ExitsRan. *)
LEMMA ExitsRanNext ==
  ASSUME Calm, ExitsRan
  PROVE  ExitsRan'
<1>0. TypeOK /\ AloneNext
  BY DEF Calm, Steady
<1>1. Ran(record', shim', ran')
  <2>1. Ran(record, shim', ran')
    BY <1>0, RanStays DEF ExitsRan, TypeOK
  <2>2. Ran(NoShim, shim', ran')
    BY DEF Ran
  <2> QED BY <1>0, <2>1, <2>2, RecordWriters
<1>2. Ran(record, shim', ran') /\ Ran(NoShim, shim', ran')
  BY <1>0, RanStays DEF ExitsRan, TypeOK, Ran
<1>3. ASSUME NEW b \in Copies
      PROVE  Ran(b.exit, shim', ran')
  BY <1>0, <1>3, RanStays, CopiesTyped DEF ExitsRan, BoxState
<1>4. ASSUME NEW b \in Copies'
      PROVE  Ran(b.exit, shim', ran')
  BY <1>0, <1>2, <1>3, <1>4, CopiesMove, ExitsWritten
<1> QED BY <1>1, <1>4 DEF ExitsRan, Ran, Done

(* While a VM runs, a Running row names it, be the host up or not.           *)
RowNamed == Persisted /\ row.status = "Running" => NoneRuns \/ row.pid = pidfile

(* Every step keeps RowNamed, those of a host that is down included. *)
LEMMA RowNamedNext ==
  ASSUME Steady, RowNamed
  PROVE  RowNamed'
<1>0. TypeOK /\ AloneNext
  BY DEF Steady
<1>1. CASE runtime' \notin {"down", "rebooted"}
  BY <1>1, RowShownNext DEF RowNamed, RowShown
<1>2. CASE runtime' \in {"down", "rebooted"} /\ Persisted'
  <2>1. ~Recover /\ ~Shutdown
    BY <1>2 DEF Recover, Shutdown
  <2>2. Persisted
    BY <1>2, <2>1, RowAppears DEF Create, Provision, hostVars
  <2>3. CASE Ends
    <3>1. row' = row /\ pidfile' = pidfile
      BY <2>3, HostFrame DEF Ends
    <3>2. ~\E h \in Handles : BootSpawn(h)
      BY <2>3 DEF BootSpawn, hostVars, Ends, Crash, Reboot
    <3> QED BY <2>2, <2>3, <3>1, <3>2, NoneStill DEF RowNamed, Persisted
  <2>4. CASE ~Ends
    <3>1. runtime' = runtime
      BY <1>0, <2>1, <2>4, Writers
    <3>2. \A h \in Handles : ~IsHeld(h)
      BY <1>2, <3>1 DEF Steady, Solo, Away
    <3>3. \A h \in Handles : ~BootStep(h) /\ ~WatchStep(h) /\ ~QuiesceStep(h)
      BY <3>2, OnlyHeldAct
    <3>4. row' = row /\ ~\E h \in Handles : BootSpawn(h)
      BY <1>0, <1>2, <2>1, <3>1, <3>3, Writers
         DEF Provision, RemoveCommit, Persisted, Remove, Create, BootStep, WatchStep
    <3>5. pidfile' = pidfile
      BY <1>2, <2>1, <2>2, <3>4, PidFileKept
    <3> QED BY <2>2, <3>4, <3>5, NoneStill DEF RowNamed, Persisted
  <2> QED BY <2>3, <2>4
<1> QED BY <1>1, <1>2 DEF RowNamed

(* What the operations do to a copy of the state. *)
LEMMA RunOps ==
  ASSUME TypeOK, NEW b \in BoxState
  PROVE  /\ b.pid \in ShimOrNone /\ b.started \in ShimOrNone
         /\ MarkStop(b).started = b.started /\ MarkStop(b).pid = NoShim
         /\ MarkFailed(b).started = b.started /\ MarkFailed(b).pid = NoShim
         /\ ResetForReboot(b).started = b.started /\ ResetForReboot(b).pid = NoShim
         /\ RecordMainCommandExit(b).started = b.started
         /\ RecordMainCommandExit(b).pid = NoShim
         /\ \A p : /\ AdoptRecoveredShim(b, p).pid = p
                   /\ AdoptRecoveredShim(b, p).started =
                        IF b.pid = p THEN b.started ELSE NoShim
         /\ \A p, a : /\ PublishRunning(b, p, a).pid = p
                      /\ PublishRunning(b, p, a).started = IF a THEN b.started ELSE p
         /\ NewState.started = NoShim /\ NewState.pid = NoShim
<1>1. /\ RecordMainCommandExit(b).started = b.started
      /\ RecordMainCommandExit(b).pid = NoShim
  BY DEF BoxState, RecordMainCommandExit, MarkStop, TypeOK
<1> QED BY <1>1 DEF BoxState, MarkStop, MarkFailed, ResetForReboot, AdoptRecoveredShim,
   PublishRunning, NewState

(* Which operations leave a copy active. *)
LEMMA ActOps ==
  ASSUME TypeOK, NEW b \in BoxState
  PROVE  /\ ~Act(NewState) /\ ~Act(MarkStop(b)) /\ ~Act(MarkFailed(b))
         /\ ~Act(ResetForReboot(b)) /\ ~Act(RecordMainCommandExit(b))
         /\ \A p : Act(AdoptRecoveredShim(b, p))
         /\ \A p, a : Act(PublishRunning(b, p, a))
<1>1. ~Act(RecordMainCommandExit(b))
  BY DEF BoxState, RecordMainCommandExit, MarkStop, TypeOK, Act, IsActive
<1> QED BY <1>1 DEF BoxState, MarkStop, MarkFailed, ResetForReboot, AdoptRecoveredShim,
   PublishRunning, NewState, Act, IsActive

(* While a VM runs, it is the one every active copy names. *)
LEMMA ActiveNamed ==
  ASSUME TypeOK, Solo, RowNamed, CopiesAgree, Timely, Persisted,
         NEW p \in Shims, Up(p), NEW b \in Copies, Act(b)
  PROVE  p = pidfile /\ b.pid = pidfile
<1>1. p = pidfile /\ ~NoneRuns
  BY DEF Solo, OneVM, NoneRuns
<1>2. CASE b = row
  BY <1>1, <1>2 DEF RowNamed, CopiesAgree, Act, IsActive, PidOfRunning, Persisted
<1>3. ASSUME NEW h \in Handles, b = mem[h]
      PROVE  b.pid = pidfile
  <2>1. IsHeld(h)
    BY <1>3 DEF Solo, Vacant, NewState, Act, IsActive
  <2>2. h = cache
    BY <1>3, <2>1 DEF Solo, Over
  <2>3. watch[h].pc # "none"
    BY <1>3 DEF Solo, Attends, CopiesAgree, PidOfRunning
  <2> QED BY <1>1, <1>3, <2>2, <2>3, ConstantsAssumption DEF Solo, CacheTrue
<1>4. ASSUME NEW h \in Handles, b = getter[h], getter[h] # Absent
      PROVE  b.pid = pidfile
  BY <1>4 DEF Timely, Act
<1>5. ASSUME NEW h \in Handles, b = watch[h].snapshot
      PROVE  FALSE
  BY <1>5 DEF Solo, PidsBorn
<1> QED BY <1>1, <1>2, <1>3, <1>4, <1>5 DEF Copies

(* A copy is of one run, and while it is active the exit record is of no
   other, as a boot that starts over drops it before it publishes. *)
OneRun(b) == /\ b.pid # NoShim => b.started \in {NoShim, b.pid}
             /\ b.exit # NoShim => b.started \in {NoShim, b.exit}
Fits(b, r) == Act(b) /\ b.started # NoShim => r \in {NoShim, b.pid}
RunsApart ==
  Persisted =>
    /\ \A b \in Copies : OneRun(b) /\ Fits(b, record)
    /\ \A h \in Handles : boot[h].pc = "publish" /\ boot[h].plan = "fresh"
                            => record \in {NoShim, boot[h].shim}

(* Where a box is created, all copies are new. *)
LEMMA FirstCopies ==
  ASSUME Calm, ~Persisted, Persisted', NEW b \in Copies'
  PROVE  b = NewState \/ b = MarkStop(NewState)
<1>0. Steady
  BY DEF Calm
<1>1. ASSUME b \in Copies
      PROVE  b = NewState
  BY <1>0, <1>1, FirstRow DEF Copies, Saving, Persisted
<1>2. ASSUME NEW h \in Handles
      PROVE  ~PublishedBy(h, b) /\ ~RecordedBy(h, b)
  BY <1>0, FirstRow DEF PublishedBy, RecordedBy
<1> QED BY <1>1, <1>2, CopiesMove DEF Written, RowWritten, Marked, RecoveredAs

(* What is written is of one run. *)
LEMMA WrittenOfOneRun ==
  ASSUME Calm, RunsApart, Persisted, Persisted', NEW b, Written(b)
  PROVE  OneRun(b) /\ (Act(b) => record' = record /\ Fits(b, record))
<1>0. TypeOK /\ Solo /\ AloneNext
  BY DEF Calm, Steady
<1>1. /\ row \in Copies /\ row \in BoxState
      /\ \A h \in Handles : mem[h] \in Copies /\ mem[h] \in BoxState
  BY <1>0, AbsentAssumption DEF Copies, TypeOK, Persisted
<1>2. /\ OneRun(row) /\ Fits(row, record)
      /\ \A h \in Handles : OneRun(mem[h]) /\ Fits(mem[h], record)
  BY <1>1 DEF RunsApart
<1>3. CASE b = NewState \/ b = MarkStop(NewState) \/ Marked(b)
  <2>1. b = NewState \/ b = MarkStop(NewState) => OneRun(b) /\ ~Act(b)
    <3>1. NewState \in BoxState
      BY BoxStateOps
    <3> QED BY <1>0, <3>1, RunOps, ActOps, ExitOps DEF OneRun
  <2>2. Marked(b) => OneRun(b) /\ ~Act(b)
    BY <1>0, <1>1, <1>2, RunOps, ActOps, ExitOps DEF OneRun, Marked
  <2> QED BY <1>3, <2>1, <2>2
<1>4. ASSUME NEW c \in BoxState, OneRun(c), Fits(c, record), Act(c),
             b = RecordMainCommandExit(c)
      PROVE  OneRun(b) /\ ~Act(b)
  BY <1>0, <1>4, RunOps, ActOps, ExitOps DEF OneRun, Fits
<1>5. ASSUME NEW h \in Handles, PublishedBy(h, b)
      PROVE  OneRun(b) /\ record' = record /\ Fits(b, record)
  <2> DEFINE a == boot[h].plan = "adopt"
  <2>1. /\ b.pid = pidfile /\ pidfile # NoShim /\ b.exit = NoShim
        /\ b.started = IF a THEN mem[h].started ELSE pidfile
    BY <1>1, <1>5 DEF PublishedBy, PublishRunning, BoxState
  <2>2. record' = record
    BY <1>5 DEF PublishedBy, BootPublish
  <2>3. CASE a
    <3>1. pidfile = mem[h].pid /\ Act(mem[h])
      BY <1>0, <1>5, <2>1, <2>3 DEF PublishedBy, Solo, Adopting, Act, IsActive
    <3> QED BY <1>2, <2>1, <2>2, <2>3, <3>1 DEF OneRun, Fits
  <2>4. CASE ~a
    <3>1. boot[h].pc = "publish" /\ boot[h].plan = "fresh"
      BY <1>0, <1>5, <2>4 DEF PublishedBy, Solo, Planned, Connecting, TypeOK, BootState, Plans
    <3>2. pidfile = boot[h].shim
      BY <3>1 DEF Calm, Steady, Solo, Spawned, Booting
    <3> QED BY <2>1, <2>2, <2>4, <3>1, <3>2 DEF RunsApart, OneRun, Fits
  <2> QED BY <2>3, <2>4
<1>6. ASSUME NEW h \in Handles, RecordedBy(h, b)
      PROVE  OneRun(b) /\ ~Act(b)
  BY <1>1, <1>2, <1>4, <1>6 DEF RecordedBy
<1>7. CASE RecoveredAs(b)
  <2>1. PICK c \in BoxState :
          /\ c = row \/ c = ResetForReboot(row)
          /\ \/ b = AdoptRecoveredShim(c, pidfile) /\ Alive(pidfile)
             \/ b = MarkFailed(c) \/ b = c
             \/ b = RecordMainCommandExit(c) /\ c.status = "Running"
    BY <1>7 DEF RecoveredAs
  <2>2. record' = record
    BY <1>7 DEF RecoveredAs, Recover, Persisted
  <2>3. OneRun(c) /\ Fits(c, record)
    <3>1. OneRun(ResetForReboot(row)) /\ ~Act(ResetForReboot(row))
      BY <1>0, <1>1, <1>2, RunOps, ActOps, ExitOps DEF OneRun
    <3> QED BY <1>2, <2>1, <3>1 DEF Fits
  <2>4. CASE b = AdoptRecoveredShim(c, pidfile) /\ Alive(pidfile)
    <3>1. /\ b.pid = pidfile /\ b.exit = c.exit
          /\ b.started = IF c.pid = pidfile THEN c.started ELSE NoShim
      BY <1>0, <2>4, RunOps, ExitOps
    <3>2. OneRun(b)
      BY <2>3, <3>1 DEF OneRun
    <3>3. c.pid # NoShim => Act(c)
      <4>1. ResetForReboot(row).pid = NoShim
        BY <1>0, <1>1, RunOps
      <4> QED BY <2>1, <4>1 DEF Calm, CopiesAgree, PidOfRunning, Act, IsActive, Persisted
    <3>4. Alive(pidfile) => pidfile # NoShim
      BY DEF Alive
    <3>5. Fits(b, record)
      BY <2>3, <2>4, <3>1, <3>3, <3>4 DEF Fits
    <3> QED BY <2>2, <3>2, <3>5
  <2>5. CASE b = MarkFailed(c)
    BY <1>0, <2>3, <2>5, RunOps, ActOps, ExitOps DEF OneRun
  <2>6. CASE b = RecordMainCommandExit(c) /\ c.status = "Running"
    BY <1>4, <2>3, <2>6 DEF Act, IsActive
  <2> QED BY <2>1, <2>2, <2>3, <2>4, <2>5, <2>6
<1> QED BY <1>3, <1>5, <1>6, <1>7 DEF Written, RowWritten

(* Every step keeps RunsApart. *)
LEMMA RunsApartNext ==
  ASSUME Calm, RunsApart, RowNamed, Timely
  PROVE  RunsApart'
<1>0. TypeOK /\ Solo /\ AloneNext /\ Steady /\ CopiesAgree
  BY DEF Calm, Steady
<1>1. CASE ~Persisted /\ Persisted'
  <2>1. ASSUME NEW b \in Copies'
        PROVE  OneRun(b) /\ ~Act(b)
    BY <1>0, <1>1, <2>1, FirstCopies, RunOps, ActOps, ExitOps, BoxStateOps DEF OneRun
  <2>2. \A h \in Handles : boot'[h].pc = "idle"
    BY <1>0, <1>1, FirstRow
  <2> QED BY <2>1, <2>2 DEF RunsApart, OneRun, Fits, Act
<1>2. CASE Persisted /\ Persisted'
  <2>1. \/ record' \in {record, NoShim}
        \/ record' \in Shims /\ Up(record')
    BY <1>0, RecordWriters DEF Up
  <2>2. ASSUME NEW b \in Copies
        PROVE  OneRun(b) /\ Fits(b, record')
    <3>1. OneRun(b) /\ Fits(b, record)
      BY <1>2, <2>2 DEF RunsApart
    <3>2. record' \in Shims /\ Up(record') /\ Act(b) => record' = b.pid
      BY <1>0, <1>2, <2>2, ActiveNamed
    <3> QED BY <2>1, <3>1, <3>2 DEF Fits
  <2>3. ASSUME NEW b \in Copies'
        PROVE  OneRun(b) /\ Fits(b, record')
    BY <1>2, <2>2, <2>3, CopiesMove, WrittenOfOneRun DEF Fits
  <2>4. ASSUME NEW h \in Handles, boot'[h].pc = "publish", boot'[h].plan = "fresh"
        PROVE  record' \in {NoShim, boot'[h].shim}
    <3>1. ~Ends
      BY <2>4 DEF Ends, ProcessGone, NoBoot
    <3>2. CASE boot'[h] = boot[h]
      <4>1. record \in {NoShim, boot[h].shim} /\ pidfile = boot[h].shim
        BY <1>0, <1>2, <2>4, <3>2 DEF RunsApart, Solo, Spawned, Booting
      <4>2. record' \in Shims /\ Up(record') => record' = pidfile
        BY <1>0, <1>2 DEF Solo, OneVM
      <4> QED BY <2>1, <3>2, <4>1, <4>2
    <3>3. CASE BootStep(h) /\ boot'[h] # boot[h]
      <4>1. boot[h].pc = "connect" /\ boot[h].plan = "fresh"
        BY <1>0, <2>4, <3>3, BootMoves DEF BootMoved, NoBoot
      <4>2. BootConnect(h)
        BY <1>0, <2>4, <3>3, <4>1
           DEF BootStep, BootRead, BootLock, BootAttach, BootSpawn, BootFail,
               BootGuard, BootPublish, BootFinish, BootFails, BootSet, TypeOK, BootState
      <4> QED BY <4>1, <4>2 DEF BootConnect
    <3> QED BY <1>0, <3>1, <3>2, <3>3, BootMovesOf
  <2> QED BY <2>3, <2>4 DEF RunsApart, OneRun, Fits, Act
<1> QED BY <1>1, <1>2 DEF RunsApart

(* What holds of every state on the way, and of the first one. *)
LEMMA InitTold == Init => ExitsRan /\ RowNamed /\ RunsApart
<1> SUFFICES ASSUME Init PROVE ExitsRan /\ RowNamed /\ RunsApart
  OBVIOUS
<1>1. \A b \in Copies : b = NewState
  BY DEF Init, Copies, Saving, NoWatch
<1> QED BY <1>1 DEF Init, ExitsRan, Ran, RowNamed, RunsApart, Persisted, NewState

(* Without snapshots no bracket opens, and so none breaks. *)
LEMMA NeverBroken ==
  ASSUME "quiesce" \notin Calls
  PROVE  Spec => []Unbroken
<1>1. Init => NoBracket
  BY DEF Init, NoBracket, NoQuiesce, NoBoot
<1>2. IInv /\ NoBracket /\ [Next]_vars => IInv' /\ NoBracket'
  BY NextInductive, BracketNeverOpens DEF IInv
<1>3. NoBracket => Unbroken
  BY DEF NoBracket, Unbroken
<1>4. Init => IInv
  BY InitInductive
<1> QED BY <1>1, <1>2, <1>3, <1>4, PTL DEF Spec

(* The exit code a row tells is that of an init that ran in a VM that ended, *)
(* for any number of handles and shims: where no client stops or snapshots   *)
(* the box or lets go of a handle, and no handle boots a second VM, though   *)
(* five writers copy the code from one state to the next.                    *)
THEOREM ToldExitsRan ==
  ASSUME LeftAlone, "quiesce" \notin Calls
  PROVE  Spec /\ []OneLife =>
           [](Persisted /\ row.exit # NoShim =>
                row.exit \in ran /\ shim[row.exit] \in {"zombie", "dead"})
<1> DEFINE Inv == CopiesAgree /\ NoBracket /\ ExitsRan
<1>1. Init => Inv
  <2>1. Init => CopiesAgree /\ NoBracket
    BY ConstantsAssumption DEF Init, CopiesAgree, NoBracket, PidOfRunning,
       NewState, NoWatch, NoQuiesce, NoBoot
  <2> QED BY <2>1, InitTold
<1>2. ASSUME IInv, Solo, OneLife, Unbroken, Inv, [Next]_vars
      PROVE  Inv'
  <2>1. Steady /\ TypeOK
    BY <1>2, SteadyNext DEF Steady
  <2>2. CopiesAgree' /\ NoBracket'
    BY <1>2, <2>1, NextCopies, BracketNeverOpens
  <2>3. Calm
    BY <1>2, <2>1, <2>2 DEF Calm
  <2> QED BY <1>2, <2>2, <2>3, ExitsRanNext
<1>3. Inv => (Persisted /\ row.exit # NoShim =>
                row.exit \in ran /\ shim[row.exit] \in {"zombie", "dead"})
  BY DEF ExitsRan, Copies, Persisted, Ran, Done
<1>4. IInv /\ Solo /\ OneLife /\ Unbroken /\ Inv /\ [Next]_vars => Inv'
  BY <1>2
<1> HIDE DEF Inv
<1> QED BY <1>1, <1>3, <1>4, SoloAlways, NeverBroken, PTL DEF Spec

(* The pid, the start time and the exit code of the row are of one run, for  *)
(* any number of handles and shims: where no client stops or snapshots the   *)
(* box or lets go of a handle, no handle boots a second VM, and no get() is  *)
(* overtaken by the boot of another VM, whatever boots, adoptions, removals, *)
(* exits, crashes, reboots and recoveries interleave.                        *)
THEOREM RowTellsOneRun ==
  ASSUME LeftAlone, "quiesce" \notin Calls
  PROVE  Spec /\ []OneLife /\ []Timely => []RowOfOneRun
<1> DEFINE Inv == CopiesAgree /\ NoBracket /\ RowNamed /\ RunsApart
<1>1. Init => Inv
  <2>1. Init => CopiesAgree /\ NoBracket
    BY ConstantsAssumption DEF Init, CopiesAgree, NoBracket, PidOfRunning,
       NewState, NoWatch, NoQuiesce, NoBoot
  <2> QED BY <2>1, InitTold
<1>2. ASSUME IInv, Solo, OneLife, Unbroken, Timely, Inv, [Next]_vars
      PROVE  Inv'
  <2>1. Steady /\ TypeOK
    BY <1>2, SteadyNext DEF Steady
  <2>2. CopiesAgree' /\ NoBracket'
    BY <1>2, <2>1, NextCopies, BracketNeverOpens
  <2>3. Calm
    BY <1>2, <2>1, <2>2 DEF Calm
  <2> QED BY <1>2, <2>1, <2>2, <2>3, RowNamedNext, RunsApartNext
<1>3. Inv /\ IInv => RowOfOneRun
  <2>1. Persisted => row \in Copies
    BY DEF Copies, Persisted
  <2> QED BY <2>1 DEF RunsApart, RowOfOneRun, OneRun
<1>4. IInv /\ Solo /\ OneLife /\ Unbroken /\ Timely /\ Inv /\ [Next]_vars => Inv'
  BY <1>2
<1> HIDE DEF Inv
<1> QED BY <1>1, <1>3, <1>4, SoloAlways, NeverBroken, PTL DEF Spec

-----------------------------------------------------------------------------
(* The steps of clients that do not remove the box either, and of a box that *)
(* is not removed when it stops.                                             *)
Stays == /\ ~removing /\ \A h \in Handles : watch[h].pc # "remove"
         /\ created => Persisted
Plain == /\ Calm /\ Stays /\ ~RemoveOnStop
         /\ Calls \cap {"remove", "force_remove"} = {}

(* The box is not removed, and recovery deletes no row. *)
LEMMA NoRemoval ==
  ASSUME Plain
  PROVE  /\ ~RemoveCommit /\ ~RemoveInMemory
         /\ \A force \in BOOLEAN : ~Remove(force)
         /\ \A h \in Handles : ~WatchRemove(h)
         /\ Recover => (row' = Absent <=> row = Absent)
<1>1. ~RemoveCommit /\ \A h \in Handles : ~WatchRemove(h)
  BY DEF Plain, Stays, RemoveCommit, WatchRemove
<1>2. ~RemoveInMemory /\ \A force \in BOOLEAN : ~Remove(force)
  BY DEF Plain, RemoveInMemory, Remove
<1>3. ASSUME Recover, Persisted, ~Persisted'
      PROVE  FALSE
  <2> DEFINE b == IF runtime = "rebooted" /\ row.status = "Running"
                  THEN ResetForReboot(row) ELSE row
  <2>0. TypeOK /\ row \in BoxState
    BY <1>3 DEF Plain, Calm, Steady, TypeOK, Persisted
  <2>1. b \in BoxState
    BY <2>0, BoxStateOps
  <2>2. RecoveredShim \in ShimOrNone
    BY <2>0 DEF TypeOK, RecoveredShim, ShimOrNone
  <2>3. AdoptRecoveredShim(b, RecoveredShim) \in BoxState
    BY <2>1, <2>2, BoxStateOps
  <2>4. WithoutShim(b) \in BoxState
    BY <2>0, <2>1, BoxStateOps, RecordedTyped DEF WithoutShim
  <2>5. row' = AdoptRecoveredShim(b, RecoveredShim) \/ row' = WithoutShim(b)
    BY <1>3 DEF Recover, Plain, Persisted
  <2> HIDE DEF b
  <2> QED BY <1>3, <2>3, <2>4, <2>5, AbsentAssumption DEF Persisted
<1>4. Recover /\ row = Absent => row' = Absent
  BY DEF Recover
<1> QED BY <1>1, <1>2, <1>3, <1>4 DEF Persisted

(* Every step keeps Stays. *)
LEMMA StaysNext ==
  ASSUME Plain
  PROVE  Stays'
<1>0. TypeOK /\ AloneNext /\ Steady /\ Stays
  BY DEF Plain, Calm, Steady
<1>1. ~removing'
  <2>1. ASSUME NEW h \in Handles, AloneStep(h)
        PROVE  removing' = removing
    <3>1. CASE BootStep(h)
      BY <3>1 DEF BootStep, BootRead, BootLock, BootAttach, BootSpawn, BootConnect,
         BootFail, BootGuard, BootPublish, BootFinish, hostVars
    <3>2. CASE WatchStep(h)
      BY <3>2, NoRemoval DEF WatchStep, WatchStandDown, WatchExit, WatchRecord,
         WatchSave, WatchTail, hostVars
    <3>3. CASE QuiesceBegin(h) \/ QuiesceStep(h) \/ QuiesceAbandon(h)
      BY <3>3, NoQuiesceStep DEF Plain
    <3>4. CASE Create(h) \/ GetRead(h) \/ GetCreate(h) \/ StartStep(h)
      BY <3>4 DEF Create, GetRead, GetCreate, StartStep, ContainerStart,
         ContainerStartFails, hostVars
    <3>5. CASE \E r \in Requests : Request(h, r)
      BY <3>5 DEF Request, hostVars
    <3> QED BY <2>1, <3>1, <3>2, <3>3, <3>4, <3>5 DEF AloneStep
  <2>2. ASSUME NEW p \in Shims, ShimStep(p)
        PROVE  removing' = removing
    BY <2>2 DEF ShimStep, MainExits, ShimDies, Watchdog, hostVars
  <2>3. AloneHost => removing' = removing
    BY NoRemoval DEF AloneHost, Provision, Shutdown, Recover, hostVars
  <2>4. Ends => ~removing'
    BY DEF Ends, ProcessGone
  <2> QED BY <1>0, <2>1, <2>2, <2>3, <2>4 DEF AloneNext, Stays, vars, hostVars
<1>2. ASSUME NEW h \in Handles
      PROVE  watch'[h].pc # "remove"
  <2>1. Ends => watch'[h].pc # "remove"
    BY DEF Ends, ProcessGone, NoWatch
  <2>2. ASSUME NEW b, watch'[h] = Arm(watch[h], b)
        PROVE  watch'[h].pc # "remove"
    BY <1>0, <2>2, ArmOps DEF Stays
  <2>3. ASSUME NEW b, MadeOf(h, b)
        PROVE  watch'[h].pc # "remove"
    BY <2>2, <2>3 DEF MadeOf, Made
  <2>4. BootPublish(h) => watch'[h] = watch[h] \/ watch'[h] = Arm(watch[h], mem'[h])
    BY <1>0, Published
  <2>5. WatchTail(h) => watch'[h].pc = "done"
    BY <1>0 DEF WatchTail, WatchSet, AfterExit, Plain, NoWatch, TypeOK
  <2>6. WatchStep(h) => watch'[h].pc # "remove"
    BY <1>0, <2>5, WatchMoves
  <2> QED BY <1>0, <2>1, <2>2, <2>3, <2>4, <2>6, WatchMovesOf DEF Stays
<1>3. created' => Persisted'
  <2>1. ASSUME Persisted, ~Persisted'
        PROVE  FALSE
    BY <1>0, <2>1, RowGoes, NoRemoval DEF Persisted
  <2>2. ASSUME ~created, created'
        PROVE  Persisted'
    <3>1. Provision \/ \E h \in Handles : Create(h)
      BY <1>0, <2>2, Writers
    <3> QED BY <3>1, AbsentAssumption, BoxStateOps DEF Provision, Create, Persisted
  <2> QED BY <1>0, <2>1, <2>2 DEF Stays
<1> QED BY <1>0, <1>1, <1>2, <1>3 DEF Stays, Persisted

(* Who is the cached handle: one that saves, boots afresh or shows a VM.     *)
LEMMA OnlyCached ==
  ASSUME Steady, CopiesAgree, Persisted, NEW h \in Handles
  PROVE  /\ Act(mem[h]) => h = cache /\ ~Saving(h) /\ IsHeld(h)
         /\ Saving(h) => h = cache /\ IsHeld(h)
         /\ boot[h].plan = "fresh" /\ boot[h].pc \in {"connect", "publish"}
              => h = cache /\ watch[h].pc = "none" /\ ~Act(mem[h]) /\ ~Saving(h)
<1>1. Act(mem[h]) \/ Saving(h) => IsHeld(h)
  BY DEF Steady, Solo, Vacant, NewState, Act, IsActive, Saving
<1>2. IsHeld(h) /\ (Act(mem[h]) \/ Saving(h)) => h = cache
  BY DEF Steady, Solo, Over, Saving
<1>3. Act(mem[h]) => ~Saving(h)
  BY DEF Steady, Solo, Attends, Saving
<1>4. ASSUME boot[h].plan = "fresh", boot[h].pc \in {"connect", "publish"}
      PROVE  h = cache /\ watch[h].pc = "none" /\ ~Act(mem[h]) /\ ~Saving(h)
  <2>1. watch[h].pc = "none" /\ ~Act(mem[h])
    BY <1>4 DEF Steady, OneLife, Reuses, Solo, Planned
  <2>2. IsHeld(h)
    BY <1>4 DEF Steady, Solo, Shelved
  <2> QED BY <2>1, <2>2 DEF Steady, Solo, Over, Saving
<1> QED BY <1>1, <1>2, <1>3, <1>4

(* The exit code a row tells is not forgotten by whoever overwrites it with  *)
(* an older copy: what a get() has read of a Running row are copies of one    *)
(* row, and where no exit record is left, an active copy that knows no exit   *)
(* code is as old as the row.                                                *)
Reading(h) == getter[h] # Absent /\ Act(getter[h])
Connected == \E h \in Handles : boot[h].pc = "publish" /\ boot[h].plan = "fresh"
ReadAlike ==
  \A h \in Handles : Reading(h) =>
    /\ \A g \in Handles : Reading(g) => getter[g].exit = getter[h].exit
    /\ Persisted /\ cache = NoHandle /\ row.status = "Running" => getter[h].exit = row.exit
Unknown(h) == /\ Act(mem[h]) => mem[h].exit = NoShim
              /\ Saving(h) => watch[h].snapshot.exit = NoShim
ReadNone ==
  Persisted /\ record = NoShim /\ ~Connected =>
    \A h \in Handles : Reading(h) /\ getter[h].exit = NoShim =>
      row.exit = NoShim /\ \A g \in Handles : Unknown(g)
ShownNone ==
  Persisted =>
    \A h \in Handles :
      /\ record = NoShim /\ Act(mem[h]) /\ mem[h].exit = NoShim => row.exit = NoShim
      /\ Saving(h) /\ watch[h].snapshot.exit = NoShim => row.exit = NoShim

(* An active row in the hands of a get() was there, or is read from the row
   while no handle is cached. *)
LEMMA GetterMoves ==
  ASSUME Plain, NEW h \in Handles, Reading(h)'
  PROVE  /\ ~Ends /\ ~Recover /\ Persisted /\ Persisted'
         /\ \/ getter'[h] = getter[h] /\ Reading(h)
            \/ /\ GetRead(h) /\ getter'[h] = row /\ Act(row) /\ row.status = "Running"
               /\ cache = NoHandle
               /\ UNCHANGED <<row, created, mem, watch, boot, cache, record>>
               /\ \A g \in Handles : g # h => getter'[g] = getter[g]
<1>0. TypeOK /\ AloneNext /\ Steady /\ Solo /\ Stays /\ CopiesAgree
  BY DEF Plain, Calm, Steady
<1>1. ~Ends
  BY DEF Ends, ProcessGone, Reading
<1>2. ~Recover
  <2>1. ASSUME Recover
        PROVE  getter[h] = Absent
    BY <1>0, <2>1 DEF Recover, Solo, Away
  <2> QED BY <2>1 DEF Recover, Reading
<1>3. getter'[h] = getter[h] \/ getter'[h] = Absent \/ GetRead(h)
  <2>1. ASSUME NEW g \in Handles, GetCreate(g)
        PROVE  getter'[h] \in {getter[h], Absent}
    BY <1>0, <2>1 DEF GetCreate, TypeOK
  <2>2. ASSUME NEW g \in Handles, GetRead(g), g # h
        PROVE  getter'[h] = getter[h]
    BY <1>0, <2>2 DEF GetRead, TypeOK
  <2> QED BY <1>0, <1>1, <2>1, <2>2, Writers
<1>4. CASE GetRead(h)
  <2>1. /\ getter'[h] = row /\ Persisted
        /\ UNCHANGED <<row, created, mem, watch, boot, cache, record>>
        /\ \A g \in Handles : g # h => getter'[g] = getter[g]
    BY <1>0, <1>4 DEF GetRead, TypeOK, Persisted, diskVars, handleVars, taskVars
  <2>2. cache = NoHandle
    BY <1>0, <1>4 DEF GetRead, Cached, Solo, Vacant, IsHeld
  <2>3. Act(row) /\ row.status = "Running"
    BY <1>0, <2>1 DEF Reading, CopiesAgree, PidOfRunning, Act, IsActive, Persisted
  <2> QED BY <1>1, <1>2, <1>4, <2>1, <2>2, <2>3 DEF Persisted
<1>5. CASE getter'[h] = getter[h]
  <2>1. Reading(h)
    BY <1>5 DEF Reading, Act
  <2>2. Persisted
    BY <1>0, <2>1 DEF Solo, Unmade, Stays, Reading
  <2>3. Persisted'
    BY <1>0, <1>2, <2>2, RowGoes, NoRemoval
  <2> QED BY <1>1, <1>2, <1>5, <2>1, <2>2, <2>3
<1> QED BY <1>3, <1>4, <1>5 DEF Reading

(* Every step keeps ReadAlike. *)
LEMMA ReadAlikeNext ==
  ASSUME Plain, ReadAlike
  PROVE  ReadAlike'
<1>0. TypeOK /\ AloneNext /\ Steady /\ Solo
  BY DEF Plain, Calm, Steady
<1>1. ASSUME NEW h \in Handles, Reading(h)', NEW g \in Handles, Reading(g)'
      PROVE  getter'[g].exit = getter'[h].exit
  <2>1. CASE GetRead(h) \/ GetRead(g)
    BY <1>1, <2>1, GetterMoves DEF ReadAlike
  <2>2. CASE ~GetRead(h) /\ ~GetRead(g)
    BY <1>1, <2>2, GetterMoves DEF ReadAlike
  <2> QED BY <2>1, <2>2
<1>2. ASSUME NEW h \in Handles, Reading(h)', cache' = NoHandle, row'.status = "Running"
      PROVE  getter'[h].exit = row'.exit
  <2>1. /\ ~Ends /\ ~Recover /\ Persisted /\ Persisted'
        /\ \/ getter'[h] = row /\ row' = row /\ cache = NoHandle
           \/ getter'[h] = getter[h] /\ Reading(h)
    BY <1>2, GetterMoves
  <2>2. row' = row
    BY <1>0, <1>2, <2>1, RowRuns, ConstantsAssumption
  <2>3. cache = NoHandle
    <3>1. cache # NoHandle => watch[cache].pc = "tail"
      BY <1>0, <1>2, <2>1, CacheDrops
    <3> QED BY <1>0, <1>2, <2>1, <2>2, <3>1 DEF Solo, RowShown
  <2> QED BY <1>2, <2>1, <2>2, <2>3 DEF ReadAlike
<1> QED BY <1>1, <1>2 DEF ReadAlike, Reading, Act

(* A boot that starts over drops the record before it publishes. *)
LEMMA RecordDropped ==
  ASSUME Plain, ExitsRan, record # NoShim, record' = NoShim
  PROVE  \E h \in Handles :
           /\ BootConnect(h) /\ boot[h].plan = "fresh" /\ boot[h].pc = "connect"
           /\ boot'[h].pc = "publish" /\ boot'[h].plan = "fresh"
<1>0. TypeOK /\ AloneNext
  BY DEF Plain, Calm, Steady
<1>1. ~(Recover /\ row' = Absent)
  <2>1. row # Absent
    BY <1>0, ConstantsAssumption
       DEF Plain, Calm, Steady, Solo, Unmade, Stays, Persisted, ExitsRan, Ran, Done,
           TypeOK, ShimOrNone
  <2> QED BY <2>1, NoRemoval
<1>2. PICK h \in Handles : BootConnect(h) /\ boot[h].plan # "adopt"
  BY <1>0, <1>1, RecordWriters, NoRemoval, ConstantsAssumption
<1>3. boot[h].pc = "connect" /\ boot[h].plan = "fresh"
  BY <1>0, <1>2 DEF BootConnect, Plain, Calm, Steady, Solo, Planned, Connecting, TypeOK, BootState, Plans
<1>4. boot'[h].pc = "publish" /\ boot'[h].plan = "fresh"
  BY <1>0, <1>2, <1>3 DEF BootConnect, BootSet, TypeOK, BootState
<1> QED BY <1>2, <1>3, <1>4

(* What becomes of the exit code a row, a handle and a watcher know. *)
LEMMA RowExit ==
  ASSUME Plain, Persisted, Persisted'
  PROVE  \/ row'.exit \in {row.exit, NoShim}
         \/ Recover /\ row'.exit = record
         \/ \E h \in Handles : WatchSave(h) /\ Saving(h) /\ row' = watch[h].snapshot
<1>0. TypeOK /\ row \in BoxState /\ NewState \in BoxState /\ \A h \in Handles : mem[h] \in BoxState
  BY BoxStateOps DEF Plain, Calm, Steady, TypeOK, Persisted
<1>1. ASSUME NEW b, RecoveredAs(b)
      PROVE  Recover /\ b.exit \in {row.exit, record}
  <2>1. PICK c \in BoxState :
          /\ c = row \/ c = ResetForReboot(row)
          /\ \/ b = AdoptRecoveredShim(c, pidfile) /\ Alive(pidfile)
             \/ b = MarkFailed(c) \/ b = c
             \/ b = RecordMainCommandExit(c) /\ c.status = "Running"
    BY <1>1 DEF RecoveredAs
  <2>2. c.exit = row.exit
    BY <1>0, <2>1, ExitOps
  <2> QED BY <1>0, <1>1, <2>1, <2>2, ExitOps DEF RecoveredAs
<1>2. ASSUME NEW b, Marked(b)
      PROVE  b.exit = row.exit
  BY <1>0, <1>2, ExitOps DEF Marked
<1>3. ASSUME NEW b, NEW h \in Handles, PublishedBy(h, b)
      PROVE  b.exit = NoShim
  BY <1>0, <1>3 DEF PublishedBy, PublishRunning, BoxState
<1>4. NewState.exit = NoShim /\ MarkStop(NewState).exit = NoShim
  BY <1>0, ExitOps
<1>5. row' \in {row, Absent} \/ RowWritten(row')
      \/ \E h \in Handles : WatchSave(h) /\ Saving(h) /\ row' = watch[h].snapshot
  BY RowMoves DEF Plain
<1>6. ASSUME RowWritten(row')
      PROVE  row'.exit \in {row.exit, NoShim} \/ (Recover /\ row'.exit = record)
  BY <1>1, <1>2, <1>3, <1>4, <1>6 DEF RowWritten
<1> QED BY <1>5, <1>6 DEF Persisted

(* An active handle is unchanged, made of what a get() has read, or has just
   published and knows no exit code. *)
LEMMA MemExit ==
  ASSUME Plain, NEW h \in Handles, Act(mem'[h]), Persisted
  PROVE  \/ mem'[h] = mem[h]
         \/ /\ cache = NoHandle /\ GetCreate(h) /\ mem'[h] = getter[h] /\ Reading(h)
            /\ row' = row /\ record' = record
         \/ BootPublish(h) /\ mem'[h].exit = NoShim /\ row' = mem'[h] /\ record' = record
<1>0. TypeOK /\ AloneNext /\ Steady /\ Solo /\ mem[h] \in BoxState
  BY DEF Plain, Calm, Steady, TypeOK
<1>1. ~Ends
  BY DEF Ends, ProcessGone, NewState, Act, IsActive
<1>2. ASSUME NEW b, MadeOf(h, b)
      PROVE  /\ cache = NoHandle /\ GetCreate(h) /\ mem'[h] = getter[h] /\ Reading(h)
             /\ row' = row /\ record' = record
  <2>1. cache = NoHandle /\ mem'[h] = b
    BY <1>2 DEF MadeOf, Made
  <2>2. GetCreate(h) /\ getter[h] # Absent /\ b = getter[h] /\ row' = row
    BY <1>2, <2>1 DEF MadeOf, NewState, Act, IsActive
  <2>3. record' = record
    BY <2>2 DEF GetCreate, diskVars
  <2> QED BY <2>1, <2>2, <2>3 DEF Reading, Act
<1>3. ASSUME BootPublish(h), mem'[h] # mem[h]
      PROVE  mem'[h].exit = NoShim /\ row' = mem'[h] /\ record' = record
  <2>1. PublishedBy(h, mem'[h]) /\ row' = mem'[h]
    BY <1>0, <1>3, PublishedState
  <2>2. record' = record
    BY <1>3 DEF BootPublish
  <2>3. mem'[h].exit = NoShim
    BY <1>0, <2>1 DEF PublishedBy, PublishRunning, BoxState
  <2> QED BY <2>1, <2>2, <2>3
<1>4. ~WatchRecord(h)
  <2>1. WatchRecord(h) => ~IsActive(mem'[h].status)
    BY <1>0, Recorded
  <2> QED BY <2>1 DEF Act
<1>5. ~QuiesceStep(h)
  BY NoQuiesceStep DEF Plain
<1> QED BY <1>0, <1>1, <1>2, <1>3, <1>4, <1>5, MemMoves

(* A watcher about to save was so before, or has just recorded the exit. *)
LEMMA SaveExit ==
  ASSUME Plain, NEW h \in Handles, Saving(h)'
  PROVE  /\ ~Ends /\ ~WatchSave(h)
         /\ \/ watch'[h] = watch[h] /\ Saving(h)
            \/ RecordedBy(h, watch'[h].snapshot) /\ row' = row /\ record' = record
<1>0. TypeOK /\ AloneNext /\ Steady
  BY DEF Plain, Calm, Steady
<1>1. ~Ends
  BY DEF Ends, ProcessGone, NoWatch, Saving
<1>2. ASSUME NEW b, watch'[h] = Arm(watch[h], b)
      PROVE  watch'[h] = watch[h]
  BY <1>2, ArmOps DEF Saving
<1>3. ASSUME NEW b, MadeOf(h, b)
      PROVE  watch'[h] = watch[h]
  BY <1>2, <1>3 DEF MadeOf, Made
<1>4. BootPublish(h) => watch'[h] = watch[h]
  BY <1>0, <1>2, Published
<1>5. WatchStep(h) => watch'[h] = watch[h] \/ WatchRecord(h)
  BY <1>0, WatchMoves DEF Saving
<1>6. WatchRecord(h) => RecordedBy(h, watch'[h].snapshot) /\ row' = row /\ record' = record
  BY <1>0, RecordedState DEF WatchRecord, diskVars
<1>7. ~WatchSave(h)
  BY <1>0 DEF WatchSave, Saving, NoWatch, TypeOK
<1> QED BY <1>0, <1>1, <1>2, <1>3, <1>4, <1>5, <1>6, <1>7, WatchMovesOf DEF Saving

(* No exit code is known where no copy knows one and none is recorded. *)
LEMMA RecordedNone ==
  ASSUME TypeOK, NEW h \in Handles, NEW b, RecordedBy(h, b)
  PROVE  b.exit = NoShim <=> record = NoShim /\ mem[h].exit = NoShim
BY ExitOps DEF RecordedBy, TypeOK

(* Every step keeps ShownNone. *)
LEMMA ShownNoneNext ==
  ASSUME Plain, ExitsRan, ReadNone, ShownNone
  PROVE  ShownNone'
<1>0. TypeOK /\ AloneNext /\ Steady /\ Solo /\ CopiesAgree
  BY DEF Plain, Calm, Steady
<1> SUFFICES ASSUME Persisted', NEW h \in Handles
             PROVE  /\ record' = NoShim /\ Act(mem'[h]) /\ mem'[h].exit = NoShim
                         => row'.exit = NoShim
                    /\ Saving(h)' /\ watch'[h].snapshot.exit = NoShim => row'.exit = NoShim
  BY DEF ShownNone, Saving, Act
<1>1. CASE ~Persisted
  <2>1. row' \in Copies'
    BY DEF Copies, Persisted
  <2>2. row' = NewState \/ row' = MarkStop(NewState)
    BY <1>1, <2>1, FirstCopies DEF Plain
  <2> QED BY <1>0, <2>2, ExitOps, BoxStateOps
<1>2. ASSUME Persisted, record' = NoShim, Act(mem'[h]), mem'[h].exit = NoShim
      PROVE  row'.exit = NoShim
  <2>1. CASE mem'[h] = mem[h]
    <3>1. Act(mem[h]) /\ h = cache /\ ~Saving(h) /\ IsHeld(h)
      BY <1>0, <1>2, <2>1, OnlyCached
    <3>2. record = NoShim
      BY <1>0, <1>2, <3>1, RecordDropped, OnlyCached
    <3>3. row.exit = NoShim
      BY <1>2, <2>1, <3>1, <3>2 DEF ShownNone
    <3>4. ~\E g \in Handles : Saving(g)
      BY <1>0, <1>2, <3>1, OnlyCached
    <3> QED BY <1>2, <3>2, <3>3, <3>4, RowExit
  <2>2. CASE cache = NoHandle /\ GetCreate(h) /\ mem'[h] = getter[h] /\ Reading(h)
             /\ row' = row /\ record' = record
    <3>1. ~Connected
      <4>1. ASSUME NEW g \in Handles, boot[g].pc = "publish", boot[g].plan = "fresh"
            PROVE  FALSE
        BY <1>0, <1>2, <2>2, <4>1, OnlyCached, ConstantsAssumption
      <4> QED BY <4>1 DEF Connected
    <3> QED BY <1>2, <2>2, <3>1 DEF ReadNone
  <2>3. CASE BootPublish(h) /\ mem'[h].exit = NoShim /\ row' = mem'[h] /\ record' = record
    BY <2>3
  <2> QED BY <1>2, <2>1, <2>2, <2>3, MemExit
<1>3. ASSUME Persisted, Saving(h)', watch'[h].snapshot.exit = NoShim
      PROVE  row'.exit = NoShim
  <2>1. CASE watch'[h] = watch[h] /\ Saving(h)
    <3>1. h = cache /\ IsHeld(h)
      BY <1>0, <1>3, <2>1, OnlyCached
    <3>2. row.exit = NoShim
      BY <1>3, <2>1 DEF ShownNone
    <3>3. ~Recover
      BY <1>0, <3>1 DEF Solo, Away, Recover
    <3>4. ~\E g \in Handles : WatchSave(g) /\ Saving(g)
      BY <1>0, <1>3, <3>1, OnlyCached, SaveExit
    <3> QED BY <1>3, <3>2, <3>3, <3>4, RowExit
  <2>2. CASE RecordedBy(h, watch'[h].snapshot) /\ row' = row
    <3>1. record = NoShim /\ mem[h].exit = NoShim /\ Act(mem[h])
      BY <1>0, <1>3, <2>2, RecordedNone DEF RecordedBy
    <3> QED BY <1>3, <2>2, <3>1 DEF ShownNone
  <2> QED BY <1>3, <2>1, <2>2, SaveExit
<1> QED BY <1>1, <1>2, <1>3

(* Every step keeps ReadNone. *)
LEMMA ReadNoneNext ==
  ASSUME Plain, ExitsRan, ReadAlike, ReadNone, ShownNone
  PROVE  ReadNone'
<1>0. TypeOK /\ AloneNext /\ Steady /\ Solo /\ CopiesAgree
  BY DEF Plain, Calm, Steady
<1> SUFFICES ASSUME Persisted', record' = NoShim, ~Connected',
                    NEW h \in Handles, Reading(h)', getter'[h].exit = NoShim
             PROVE  /\ row'.exit = NoShim
                    /\ \A g \in Handles :
                         /\ Act(mem'[g]) => mem'[g].exit = NoShim
                         /\ Saving(g)' => watch'[g].snapshot.exit = NoShim
  BY DEF ReadNone, Unknown, Saving, Act
<1>1. ~Ends /\ ~Recover /\ Persisted
  BY GetterMoves
<1>2. record = NoShim
  BY RecordDropped DEF Connected
<1>3. CASE Connected
  <2>1. PICK g \in Handles : boot[g].pc = "publish" /\ boot[g].plan = "fresh"
    BY <1>3 DEF Connected
  <2>2. g = cache /\ watch[g].pc = "none" /\ ~Act(mem[g])
    BY <1>0, <1>1, <2>1, OnlyCached
  <2>3. BootStep(g)
    <3>1. boot'[g] # boot[g]
      BY <2>1 DEF Connected
    <3> QED BY <1>0, <1>1, <3>1, BootMovesOf
  <2>4. BootPublish(g)
    BY <2>1, <2>3 DEF BootStep, BootRead, BootLock, BootAttach, BootSpawn,
       BootConnect, BootFail, BootGuard, BootFinish
  <2>5. pidfile # NoShim
    BY <1>0, <1>1, <2>1, ConstantsAssumption
       DEF Solo, Spawned, Booting, Steady, IInv, BootNamesShim, Connecting
  <2>6. mem'[g].status = "Running" /\ row' = mem'[g] /\ watch'[g] = Arm(watch[g], mem'[g])
    BY <1>0, <1>1, <2>1, <2>4, <2>5, Published DEF Persisted
  <2>7. mem'[g].exit = NoShim
    BY <1>1, <2>2, <2>4, <2>6, MemExit, ConstantsAssumption, OnlyHeldAct
       DEF Act, IsActive, BootStep
  <2>8. ~Saving(g)'
    BY <2>2, <2>6, ArmOps DEF Saving
  <2>9. ASSUME NEW k \in Handles, k # g
        PROVE  ~Act(mem'[k]) /\ ~Saving(k)'
    <3>1. mem'[k] = mem[k] /\ watch'[k] = watch[k]
      BY <1>0, <2>4, <2>9, Published
    <3> QED BY <1>0, <1>1, <2>2, <2>9, <3>1, OnlyCached DEF Saving
  <2> QED BY <2>6, <2>7, <2>8, <2>9
<1>4. CASE ~Connected /\ getter'[h] = getter[h] /\ Reading(h)
  <2>1. row.exit = NoShim /\ \A g \in Handles : Unknown(g)
    BY <1>1, <1>2, <1>4 DEF ReadNone
  <2>2. row'.exit = NoShim
    BY <1>1, <1>2, <2>1, RowExit DEF Unknown
  <2>3. ASSUME NEW g \in Handles, Act(mem'[g])
        PROVE  mem'[g].exit = NoShim
    <3>1. Reading(g) => getter[g].exit = NoShim
      BY <1>4 DEF ReadAlike
    <3> QED BY <1>1, <2>1, <2>3, <3>1, MemExit DEF Unknown
  <2>4. ASSUME NEW g \in Handles, Saving(g)'
        PROVE  watch'[g].snapshot.exit = NoShim
    BY <1>0, <1>2, <2>1, <2>4, SaveExit, RecordedNone DEF Unknown, RecordedBy
  <2> QED BY <2>2, <2>3, <2>4
<1>5. CASE GetRead(h) /\ getter'[h] = row /\ cache = NoHandle
           /\ UNCHANGED <<row, mem, watch>>
  <2>1. \A g \in Handles : ~Act(mem[g]) /\ ~Saving(g)
    BY <1>0, <1>1, <1>5, OnlyCached, ConstantsAssumption
  <2> QED BY <1>5, <2>1 DEF Saving
<1> QED BY <1>3, <1>4, <1>5, GetterMoves

-----------------------------------------------------------------------------
(* What the contract sees of a state. *)
UpIn(p, s) == s[p] \in {"live", "frozen"}
TheOnly(R) == CASE R = {} -> NoShim
                [] \E p \in Shims : R = {p} -> CHOOSE p \in Shims : R = {p}
                [] OTHER -> Absent
(* v is the VM that runs among the shims s. *)
VmFits(s, v) == v \in ShimOrNone /\ \A p \in Shims : UpIn(p, s) <=> v = p

(* Where at most one shim runs, TheOnly names it. *)
LEMMA OnlyFits ==
  ASSUME NEW s, \A p, q \in Shims : UpIn(p, s) /\ UpIn(q, s) => p = q
  PROVE  VmFits(s, TheOnly({p \in Shims : p # NoShim /\ s[p] \in {"live", "frozen"}}))
<1> DEFINE R == {p \in Shims : p # NoShim /\ s[p] \in {"live", "frozen"}}
<1>1. \A p \in Shims : p \in R <=> UpIn(p, s)
  BY ConstantsAssumption DEF UpIn
<1>2. R \subseteq Shims
  OBVIOUS
<1> HIDE DEF R
<1>3. ASSUME R = {}
      PROVE  VmFits(s, TheOnly(R))
  BY <1>1, <1>3, ConstantsAssumption DEF TheOnly, VmFits, ShimOrNone
<1>4. ASSUME R # {}
      PROVE  VmFits(s, TheOnly(R))
  <2>1. PICK p \in Shims : p \in R
    BY <1>2, <1>4
  <2>2. R = {p}
    BY <1>1, <1>2, <2>1
  <2>3. TheOnly(R) = CHOOSE q \in Shims : R = {q}
    BY <1>4, <2>1, <2>2 DEF TheOnly
  <2>4. TheOnly(R) \in Shims /\ R = {TheOnly(R)}
    BY <2>1, <2>2, <2>3
  <2>5. TheOnly(R) = p
    BY <2>2, <2>4
  <2> QED BY <1>1, <2>1, <2>2, <2>5 DEF VmFits, ShimOrNone
<1>5. VmFits(s, TheOnly(R))
  BY <1>3, <1>4
<1> QED BY <1>5 DEF R

(* The contract's VM is the shim that runs, and a box that is no more has none. *)
LEMMA VmIs ==
  ASSUME Steady, Stays
  PROVE  VmFits(shim, VmNow) /\ (Persisted \/ (VmNow = NoShim /\ ~created))
<1>1. \A p, q \in Shims : UpIn(p, shim) /\ UpIn(q, shim) => p = q
  BY DEF Steady, Solo, OneVM, Unmade, Stays, UpIn, Up
<1>2. VmNow = TheOnly({p \in Shims : p # NoShim /\ shim[p] \in {"live", "frozen"}})
  BY DEF VmNow, TheOnly, Running, Alive
<1>3. VmFits(shim, VmNow)
  BY <1>1, <1>2, OnlyFits
<1>4. ~created => \A p \in Shims : ~UpIn(p, shim)
  BY DEF Steady, Solo, Unmade, UpIn
<1> QED BY <1>3, <1>4 DEF VmFits, ShimOrNone, Stays

(* And so after the step. *)
LEMMA VmNext ==
  ASSUME Plain
  PROVE  VmFits(shim', VmNow') /\ (Persisted' \/ VmNow' = NoShim)
<1>0. Steady /\ Stays'
  BY StaysNext DEF Plain, Calm
<1>1. OneVM' /\ Unmade'
  BY <1>0, OneVMNext, UnmadeNext
<1>2. \A p, q \in Shims : UpIn(p, shim') /\ UpIn(q, shim') => p = q
  BY <1>0, <1>1 DEF OneVM, Unmade, Stays, UpIn, Up
<1>3. VmNow' = TheOnly({p \in Shims : p # NoShim /\ shim'[p] \in {"live", "frozen"}})
  BY DEF VmNow, TheOnly, Running, Alive
<1>4. VmFits(shim', VmNow')
  BY <1>2, <1>3, OnlyFits
<1>5. ~created' => \A p \in Shims : ~UpIn(p, shim')
  BY <1>1 DEF Unmade, UpIn
<1> QED BY <1>0, <1>4, <1>5 DEF VmFits, ShimOrNone, Stays

(* The contract's ended runs are the shims that ended, before and after. *)
LEMMA EndedIs ==
  /\ \A p : p \in EndedNow <=> p \in Shims /\ Done(p, shim)
  /\ \A p : p \in EndedNow' <=> p \in Shims /\ Done(p, shim')
BY DEF EndedNow, Done

(* A step that changes nothing the contract sees. *)
SameShims == \A p \in Shims : /\ UpIn(p, shim') <=> UpIn(p, shim)
                              /\ Done(p, shim') <=> Done(p, shim)

(* The contract sees the VM and the ended runs unchanged. *)
LEMMA SameVm ==
  ASSUME Plain, SameShims
  PROVE  VmNow' = VmNow /\ EndedNow' = EndedNow
<1>1. VmFits(shim, VmNow) /\ VmFits(shim', VmNow')
  BY VmIs, VmNext DEF Plain, Calm
<1>2. VmNow' = VmNow
  BY <1>1, ConstantsAssumption DEF VmFits, SameShims, ShimOrNone
<1>3. EndedNow' = EndedNow
  BY EndedIs DEF SameShims
<1> QED BY <1>2, <1>3

SameRow == /\ BoxNow' = BoxNow /\ ShownNow' = ShownNow /\ ToldNow' = ToldNow

(* The contract sees the row unchanged. *)
LEMMA RowSame ==
  ASSUME row' = row, created' = created
  PROVE  SameRow
BY DEF SameRow, BoxNow, ShownNow, ToldNow, Persisted

(* What the contract sees is all it knows. *)
LEMMA Stutter ==
  ASSUME Plain, SameRow, SameShims, ran' = ran, HostUp' = HostUp
  PROVE  UNCHANGED Contract!vars
BY SameVm DEF SameRow, Contract!vars

(* The VM ends, and the host perhaps with it. *)
LEMMA EndStep ==
  ASSUME Plain, SameRow, ran' = ran, HostUp' \in {HostUp, FALSE},
         VmNow # NoShim, \A p \in Shims : ~UpIn(p, shim'),
         \A p \in Shims : Done(p, shim') <=> Done(p, shim) \/ p = VmNow
  PROVE  Contract!End
<1>1. VmFits(shim, VmNow) /\ VmFits(shim', VmNow')
  BY VmIs, VmNext DEF Plain, Calm
<1>2. VmNow' = NoShim /\ VmNow \in Shims
  BY <1>1 DEF VmFits, ShimOrNone
<1>3. EndedNow' = EndedNow \cup {VmNow}
  BY <1>2, EndedIs
<1> QED BY <1>2, <1>3 DEF Contract!End, SameRow

(* One shim ends: it was the VM of the box, or had ended before. *)
LEMMA ShimEnds ==
  ASSUME Plain, SameRow, ran' = ran, HostUp' = HostUp, NEW p \in Shims,
         shim[p] # "unborn", shim' = [shim EXCEPT ![p] = "dead"]
                          \/ (Up(p) /\ shim' = [shim EXCEPT ![p] = "zombie"])
  PROVE  Contract!End \/ UNCHANGED Contract!vars
<1>0. TypeOK /\ Steady /\ Stays
  BY DEF Plain, Calm, Steady
<1>1. CASE Up(p)
  <2>1. VmFits(shim, VmNow)
    BY <1>0, VmIs
  <2>2. VmNow = p /\ VmNow # NoShim
    BY <1>1, <2>1, ConstantsAssumption DEF VmFits, UpIn, Up
  <2>3. \A q \in Shims : ~UpIn(q, shim') /\ (Done(q, shim') <=> Done(q, shim) \/ q = VmNow)
    BY <1>0, <2>1, <2>2 DEF VmFits, UpIn, Done, TypeOK
  <2> QED BY <2>2, <2>3, EndStep
<1>2. CASE ~Up(p)
  <2>1. SameShims
    BY <1>0, <1>2 DEF SameShims, UpIn, Done, Up, TypeOK
  <2> QED BY <2>1, Stutter
<1> QED BY <1>1, <1>2

(* A boot that fails under its guard was to start a VM.                      *)
PlansFresh ==
  \A h \in Handles : /\ boot[h].pc # "idle" => boot[h].plan # "none"
                     /\ boot[h].pc = "failing" => boot[h].plan = "fresh"

(* Every step keeps PlansFresh. *)
LEMMA PlansFreshNext ==
  ASSUME Plain, PlansFresh
  PROVE  PlansFresh'
<1>0. TypeOK /\ Steady /\ CopiesAgree
  BY DEF Plain, Calm, Steady
<1>1. ASSUME NEW h \in Handles
      PROVE  /\ boot'[h].pc # "idle" => boot'[h].plan # "none"
             /\ boot'[h].pc = "failing" => boot'[h].plan = "fresh"
  <2>1. boot[h] \in BootState /\ mem[h] \in BoxState
    BY <1>0 DEF TypeOK
  <2>2. CASE boot'[h] = boot[h]
    BY <2>2 DEF PlansFresh
  <2>3. CASE Ends
    BY <2>3 DEF Ends, ProcessGone, NoBoot
  <2>4. CASE BootStep(h)
    <3>1. BootMoved(boot[h], boot'[h], mem[h])
      BY <1>0, <2>4, BootMoves
    <3>2. ExecutionPlan(mem[h].status) \in {"fresh", "adopt"}
      BY <1>0, <2>1 DEF CopiesAgree, PidOfRunning, ExecutionPlan, CanStart, BoxState, Status
    <3>3. ASSUME boot'[h].pc = "failing"
          PROVE  boot'[h].plan = "fresh"
      <4>1. boot[h].plan \in {"fresh", "adopt"} \/ boot[h].pc = "idle"
        BY <2>1 DEF PlansFresh, BootState, Plans
      <4>2. \A r \in Requests : ~BootRead(h, r)
        BY <1>0, <2>1, <3>3 DEF BootRead, TypeOK
      <4>3. ~BootLock(h)
        <5>1. BootLock(h) => boot[h].pc = "locking" /\ boot[h].plan \in {"fresh", "adopt"}
          BY <4>1 DEF BootLock
        <5>2. BootFails(h) => boot'[h].pc = "idle"
          BY <1>0 DEF BootFails, BootEnds, NoBoot, TypeOK
        <5> QED BY <1>0, <2>1, <3>3, <5>1, <5>2 DEF BootLock, BootSet, TypeOK, BootState
      <4>4. ~BootAttach(h) /\ ~BootSpawn(h) /\ ~BootConnect(h)
        BY <1>0, <2>1, <3>3 DEF BootAttach, BootSpawn, BootConnect, BootFails, BootEnds, BootSet,
           NoBoot, TypeOK, BootState
      <4>5. ~BootGuard(h) /\ ~BootFinish(h)
        BY <1>0, <2>1, <3>3 DEF BootGuard, BootFinish, BootFails, BootSucceeds, BootEnds,
           NoBoot, TypeOK
      <4>6. BootFail(h) \/ BootPublish(h)
        BY <2>4, <4>2, <4>3, <4>4, <4>5 DEF BootStep
      <4>7. boot[h].plan # "adopt" /\ boot[h].pc # "idle" /\ boot'[h].plan = boot[h].plan
        BY <1>0, <2>1, <3>3, <4>6 DEF BootFail, BootPublish, BootFails, BootEnds, BootSet,
           NoBoot, TypeOK, BootState
      <4> QED BY <4>1, <4>7
    <3> QED BY <2>1, <3>1, <3>2, <3>3 DEF PlansFresh, BootMoved, NoBoot
  <2> QED BY <1>0, <2>2, <2>3, <2>4, BootMovesOf
<1> QED BY <1>1 DEF PlansFresh

(* A handle at work is of a box that is kept.                                *)
LEMMA WorksOnKept ==
  ASSUME Plain, NEW h \in Handles, StartStep(h) \/ BootStep(h) \/ WatchStep(h)
  PROVE  /\ Persisted /\ row \in BoxState /\ BoxNow = "kept" /\ IsHeld(h)
         /\ ShownNow = row.pid /\ ToldNow = row.exit
<1>1. IsHeld(h)
  BY OnlyHeldAct DEF Plain, Calm
<1>2. created
  BY <1>1 DEF Plain, Calm, Steady, Solo, Unmade
<1>3. Persisted /\ row \in BoxState
  BY <1>2 DEF Plain, Stays, Calm, Steady, TypeOK, Persisted
<1> QED BY <1>1, <1>2, <1>3 DEF BoxNow, ShownNow, ToldNow

(* Most of what handles do is none of the contract's business.               *)
LEMMA QuietSteps ==
  ASSUME Plain, NEW h \in Handles,
         \/ GetRead(h) \/ GetCreate(h) \/ (\E r \in Requests : Request(h, r))
         \/ (\E r \in Requests : BootRead(h, r)) \/ BootLock(h) \/ BootAttach(h)
         \/ BootConnect(h) \/ BootFinish(h)
         \/ WatchStandDown(h) \/ WatchExit(h) \/ WatchRecord(h) \/ WatchTail(h)
  PROVE  UNCHANGED Contract!vars
<1>0. TypeOK
  BY DEF Plain, Calm, Steady
<1>1. /\ row' = row /\ created' = created /\ runtime' = runtime /\ ran' = ran
      /\ shim' = shim \/ WatchExit(h)
  <2>1. CASE \/ GetRead(h) \/ GetCreate(h) \/ (\E r \in Requests : Request(h, r))
    BY <2>1 DEF GetRead, GetCreate, Request, diskVars, procVars, hostVars
  <2>2. CASE \/ (\E r \in Requests : BootRead(h, r)) \/ BootLock(h) \/ BootAttach(h)
             \/ BootConnect(h) \/ BootFinish(h)
    BY <2>2 DEF BootRead, BootLock, BootAttach, BootConnect, BootFinish,
       diskVars, procVars, hostVars
  <2>3. CASE WatchStandDown(h) \/ WatchExit(h) \/ WatchRecord(h) \/ WatchTail(h)
    BY <2>3 DEF WatchStandDown, WatchExit, WatchRecord, WatchTail,
       diskVars, procVars, hostVars
  <2> QED BY <2>1, <2>2, <2>3
<1>2. SameShims
  <2>1. CASE shim' = shim
    BY <2>1 DEF SameShims, UpIn, Done
  <2>2. CASE WatchExit(h)
    BY <1>0, <2>2 DEF WatchExit, SameShims, UpIn, Done, TypeOK
  <2> QED BY <1>1, <2>1, <2>2
<1> QED BY <1>1, <1>2, RowSame, Stutter DEF HostUp

(* Creating the box, as Configured or as Stopped.                            *)
LEMMA CreateStep ==
  ASSUME Plain, Provision \/ \E h \in Handles : Create(h)
  PROVE  Contract!Create
<1>1. /\ ~created /\ created' /\ row' \in {NewState, MarkStop(NewState)}
      /\ runtime' = runtime /\ ran' = ran /\ shim' = shim
  BY DEF Provision, Create, hostVars, procVars
<1>2. row' # Absent /\ row'.pid = NoShim /\ row'.exit = NoShim
  <2>1. TypeOK /\ NewState \in BoxState /\ MarkStop(NewState) \in BoxState
    BY BoxStateOps DEF Plain, Calm, Steady
  <2>2. /\ NewState.pid = NoShim /\ MarkStop(NewState).pid = NoShim
        /\ NewState.exit = NoShim /\ MarkStop(NewState).exit = NoShim
    BY <2>1, RunOps, ExitOps
  <2> QED BY <1>1, <2>1, <2>2, AbsentAssumption
<1>3. row = Absent
  BY <1>1 DEF Plain, Calm, Steady, Solo, Unmade
<1>4. SameShims
  BY <1>1 DEF SameShims, UpIn, Done
<1>5. BoxNow = "none" /\ BoxNow' = "kept"
  BY <1>1, <1>2 DEF BoxNow, Persisted
<1>6. ShownNow' = ShownNow /\ ToldNow' = ToldNow
  BY <1>2, <1>3 DEF ShownNow, ToldNow, Persisted
<1> QED BY <1>1, <1>4, <1>5, <1>6, SameVm DEF Contract!Create, HostUp

(* Container.Start runs init, or finds it running.                           *)
LEMMA StartsOnce ==
  ASSUME Plain, NEW h \in Handles, StartStep(h)
  PROVE  Contract!RunMain \/ UNCHANGED Contract!vars
<1>0. TypeOK /\ Steady /\ Stays
  BY DEF Plain, Calm, Steady
<1>1. /\ row' = row /\ created' = created /\ runtime' = runtime /\ shim' = shim
      /\ ran' \in {ran, ran \cup {live[h]}}
      /\ cstart[h] = "wanted" /\ (ran' # ran => shim[live[h]] = "live")
  BY DEF StartStep, ContainerStart, ContainerStartFails, diskVars, hostVars
<1>2. live[h] \in Shims
  BY <1>0, <1>1 DEF Steady, IInv, CellsAgree, TypeOK, ShimOrNone
<1>3. SameShims /\ SameRow /\ HostUp' = HostUp
  BY <1>1, RowSame DEF SameShims, UpIn, Done, HostUp
<1>4. CASE ran' = ran
  BY <1>3, <1>4, Stutter
<1>5. CASE ran' # ran
  <2>1. VmNow = live[h]
    BY <1>0, <1>1, <1>2, <1>5, VmIs DEF VmFits, UpIn
  <2>2. VmNow # NoShim /\ VmNow \notin ran /\ ran' = ran \cup {VmNow}
    BY <1>1, <1>2, <1>5, <2>1, ConstantsAssumption
  <2> QED BY <1>3, <2>2, SameVm DEF Contract!RunMain, SameRow
<1> QED BY <1>4, <1>5

(* Where no shim runs, the contract sees no VM.                              *)
LEMMA NoVm ==
  ASSUME Steady, Stays, NoneRuns
  PROVE  VmNow = NoShim
BY VmIs DEF NoneRuns, UpIn, Up, VmFits, ShimOrNone

(* A shim that was born runs or has ended.                                   *)
LEMMA BornEnded ==
  ASSUME TypeOK, NEW p \in ShimOrNone, Born(p, shim), p # NoShim
  PROVE  p \in Shims /\ (Up(p) \/ p \in EndedNow)
BY DEF TypeOK, Born, ShimOrNone, Up, EndedNow

(* A boot spawns a VM where none runs.                                       *)
LEMMA SpawnBoots ==
  ASSUME Plain, NEW h \in Handles, BootSpawn(h)
  PROVE  \E r \in Shims : Contract!Boot(r)
<1>0. TypeOK /\ Steady /\ Stays
  BY DEF Plain, Calm, Steady
<1>1. Persisted /\ BoxNow = "kept"
  BY WorksOnKept DEF BootStep
<1>2. NoneRuns
  BY <1>0, <1>1, SpawnsAlone
<1>3. PICK p \in Shims : shim[p] = "unborn" /\ shim' = [shim EXCEPT ![p] = "live"]
  BY DEF BootSpawn
<1>4. row' = row /\ created' = created /\ runtime' = runtime /\ ran' = ran
  BY DEF BootSpawn, hostVars
<1>5. VmNow' = p
  <2>1. VmFits(shim', VmNow')
    BY VmNext
  <2> QED BY <1>0, <1>3, <2>1 DEF VmFits, UpIn, TypeOK
<1>6. \A q \in Shims : Done(q, shim') <=> Done(q, shim)
  BY <1>0, <1>3 DEF Done, TypeOK
<1>7. EndedNow' = EndedNow /\ p \notin EndedNow
  BY <1>3, <1>6, EndedIs DEF Done
<1>8. SameRow /\ HostUp' = HostUp
  BY <1>4, RowSame DEF HostUp
<1>9. Contract!Boot(p)
  BY <1>0, <1>1, <1>2, <1>4, <1>5, <1>7, <1>8, NoVm DEF Contract!Boot, SameRow
<1> QED BY <1>9

(* A fresh boot that fails ends the VM it spawned, if it had one.            *)
LEMMA FailEnds ==
  ASSUME Plain, Shimless, NEW h \in Handles, BootFail(h)
  PROVE  Contract!End \/ UNCHANGED Contract!vars
<1>0. TypeOK /\ Steady /\ Solo /\ IInv
  BY DEF Plain, Calm, Steady
<1>1. /\ row' = row /\ created' = created /\ runtime' = runtime /\ ran' = ran
      /\ shim' = shim \/ (Teardown(boot[h].shim) /\ boot[h].plan # "adopt")
      /\ boot[h].pc \in {"attach", "spawn", "connect"}
  BY DEF BootFail
<1>2. SameRow /\ HostUp' = HostUp
  BY <1>1, RowSame DEF HostUp
<1>3. CASE shim' = shim
  <2>1. SameShims
    BY <1>3 DEF SameShims, UpIn, Done
  <2> QED BY <1>1, <1>2, <2>1, Stutter
<1>4. CASE Teardown(boot[h].shim) /\ boot[h].plan # "adopt" /\ shim' # shim
  <2>1. boot[h].pc = "connect"
    BY <1>0, <1>1, <1>4 DEF IInv, BootNamesShim, Shimless, Teardown
  <2>2. boot[h].shim \in Shims
    BY <1>0, <2>1 DEF IInv, BootNamesShim, Connecting
  <2>3. shim[boot[h].shim] # "unborn"
    <3>1. Persisted
      BY WorksOnKept DEF BootStep
    <3>2. pidfile = boot[h].shim
      BY <1>0, <1>4, <2>1, <3>1 DEF Solo, Spawned, Booting
    <3> QED BY <1>0, <2>2, <3>2, ConstantsAssumption DEF Solo, PidsBorn, Born
  <2>4. shim' = [shim EXCEPT ![boot[h].shim] = "dead"]
    BY <1>4, <2>2, ConstantsAssumption DEF Teardown
  <2> QED BY <1>1, <1>2, <2>2, <2>3, <2>4, ShimEnds
<1> QED BY <1>1, <1>3, <1>4

(* A shim that ends by itself was the VM of the box.                         *)
LEMMA ExitEnds ==
  ASSUME Plain, NEW p \in Shims, ShimStep(p)
  PROVE  Contract!End \/ UNCHANGED Contract!vars
<1>1. /\ row' = row /\ created' = created /\ runtime' = runtime /\ ran' = ran
      /\ Up(p) /\ Exit(p)
  BY DEF ShimStep, MainExits, ShimDies, Watchdog, hostVars, Up
<1>2. SameRow /\ HostUp' = HostUp
  BY <1>1, RowSame DEF HostUp
<1>3. \/ shim' = [shim EXCEPT ![p] = "dead"]
      \/ shim' = [shim EXCEPT ![p] = "zombie"]
  BY <1>1 DEF Exit
<1> QED BY <1>1, <1>2, <1>3, ShimEnds DEF Up

(* The cleanup guard marks a row that showed nothing.                        *)
LEMMA GuardKeeps ==
  ASSUME Plain, PlansFresh, NEW h \in Handles, BootGuard(h)
  PROVE  UNCHANGED Contract!vars
<1>0. TypeOK /\ Steady /\ Solo /\ OneLife /\ Unbroken /\ CopiesAgree
  BY DEF Plain, Calm, Steady
<1>1. Persisted /\ row \in BoxState /\ IsHeld(h)
  BY WorksOnKept DEF BootStep
<1>2. /\ row' = MarkFailed(row) /\ created' = created /\ runtime' = runtime
      /\ ran' = ran /\ shim' = shim /\ boot[h].pc = "failing"
  BY <1>1 DEF BootGuard, Persisted, procVars
<1>3. watch[h].pc = "none"
  BY <1>0, <1>2 DEF PlansFresh, OneLife, Reuses
<1>4. h = cache
  BY <1>0, <1>1, <1>3 DEF Solo, Over
<1>5. row.pid = NoShim
  BY <1>0, <1>1, <1>3, <1>4, ConstantsAssumption
     DEF Solo, RowShown, CopiesAgree, PidOfRunning, Persisted
<1>6. row' # Absent /\ row'.pid = row.pid /\ row'.exit = row.exit
  <2>1. MarkFailed(row) \in BoxState
    BY <1>1, BoxStateOps
  <2> QED BY <1>0, <1>1, <1>2, <1>5, <2>1, AbsentAssumption, RunOps, ExitOps
<1>7. SameRow
  BY <1>1, <1>2, <1>6 DEF SameRow, BoxNow, ShownNow, ToldNow, Persisted
<1>8. SameShims /\ HostUp' = HostUp
  BY <1>2 DEF SameShims, UpIn, Done, HostUp
<1> QED BY <1>2, <1>7, <1>8, Stutter

(* A boot publishes the VM that runs, or one that has just ended.            *)
LEMMA PublishShows ==
  ASSUME Plain, NEW h \in Handles, BootPublish(h)
  PROVE  (\E r \in Shims : Contract!Show(r)) \/ UNCHANGED Contract!vars
<1>0. TypeOK /\ Steady /\ Solo /\ Stays
  BY DEF Plain, Calm, Steady
<1>1. Persisted /\ BoxNow = "kept"
  BY WorksOnKept DEF BootStep
<1>2. created' = created /\ runtime' = runtime /\ ran' = ran /\ shim' = shim
  BY DEF BootPublish
<1>3. SameShims /\ HostUp' = HostUp
  BY <1>2 DEF SameShims, UpIn, Done, HostUp
<1>4. CASE row' = row
  BY <1>2, <1>3, <1>4, RowSame, Stutter
<1>5. CASE PublishedBy(h, mem'[h]) /\ row' = mem'[h]
  <2>1. row' # Absent /\ row'.pid = pidfile /\ row'.exit = NoShim /\ pidfile # NoShim
    <3>1. mem[h] \in BoxState /\ mem'[h] \in BoxState
      BY <1>0 DEF TypeOK, Steady
    <3> QED BY <1>0, <1>5, <3>1, AbsentAssumption, RunOps, ExitOps DEF PublishedBy
  <2>2. pidfile \in Shims /\ (Up(pidfile) \/ pidfile \in EndedNow)
    BY <1>0, <2>1, BornEnded DEF Solo, PidsBorn, TypeOK
  <2>3. VmFits(shim, VmNow)
    BY <1>0, VmIs
  <2>4. VmNow \in {pidfile, NoShim} /\ (Up(pidfile) => VmNow = pidfile)
    BY <1>0, <1>1, <2>2, <2>3 DEF VmFits, ShimOrNone, UpIn, Up, Solo, OneVM
  <2>5. ShownNow' = pidfile /\ ToldNow' = NoShim /\ BoxNow' = BoxNow
    BY <1>1, <1>2, <2>1 DEF ShownNow, ToldNow, BoxNow, Persisted
  <2>6. Contract!Show(pidfile)
    BY <1>1, <1>2, <1>3, <2>1, <2>2, <2>4, <2>5, SameVm DEF Contract!Show, Contract!Shown
  <2> QED BY <2>2, <2>6
<1> QED BY <1>0, <1>1, <1>4, <1>5, PublishedState

(* A watcher saves how a run ended that the row shows, or showed.            *)
LEMMA SaveSettles ==
  ASSUME Plain, ExitsRan, ShownNone, NEW h \in Handles, WatchSave(h)
  PROVE  Contract!Settle \/ (\E r \in Shims : Contract!Tell(r)) \/ UNCHANGED Contract!vars
<1>0. TypeOK /\ Steady /\ Solo /\ Stays /\ CopiesAgree
  BY DEF Plain, Calm, Steady
<1>1. /\ Persisted /\ row \in BoxState /\ BoxNow = "kept"
      /\ ShownNow = row.pid /\ ToldNow = row.exit
  BY WorksOnKept DEF WatchStep
<1> DEFINE b == watch[h].snapshot
<1>2. Saving(h) /\ row' = b
  BY <1>1 DEF WatchSave, Save, Saving, Persisted
<1>3. created' = created /\ runtime' = runtime /\ ran' = ran /\ shim' = shim
  BY DEF WatchSave, procVars, hostVars
<1>4. b \in BoxState /\ b.pid = NoShim /\ b.exit \in ShimOrNone
  BY <1>0, ConstantsAssumption
     DEF TypeOK, WatchState, Solo, PidsBorn, CopiesAgree, PidOfRunning, Act, IsActive, BoxState
<1>5. NoneRuns
  BY <1>0, <1>1, <1>2, OnlyCached, ConstantsAssumption DEF Solo, CacheTrue, Saving, TypeOK
<1>6. b.exit = NoShim => row.exit = NoShim
  BY <1>1, <1>2 DEF ShownNone
<1>7. b.exit # NoShim => b.exit \in EndedNow \cap ran
  <2>1. b \in Copies
    BY <1>2, <1>4, AbsentAssumption DEF Copies
  <2> QED BY <1>4, <2>1, EndedIs DEF ExitsRan, Ran, ShimOrNone
<1>8. ShownNow' = NoShim /\ ToldNow' = b.exit /\ BoxNow' = BoxNow
  BY <1>1, <1>2, <1>3, <1>4, AbsentAssumption DEF ShownNow, ToldNow, BoxNow, Persisted
<1>9. VmNow' = VmNow /\ EndedNow' = EndedNow /\ HostUp' = HostUp
  BY <1>3, SameVm DEF SameShims, UpIn, Done, HostUp
<1> HIDE DEF b
<1>10. CASE row.pid # NoShim
  <2>1. row.pid \in EndedNow
    BY <1>0, <1>1, <1>5, <1>10, BornEnded DEF Solo, PidsBorn, Known, NoneRuns, BoxState
  <2>2. ToldNow' \in {ToldNow} \cup (EndedNow \cap ran)
    BY <1>1, <1>6, <1>7, <1>8
  <2> QED BY <1>1, <1>3, <1>8, <1>9, <2>1, <2>2 DEF Contract!Settle, Contract!Settled
<1>11. CASE row.pid = NoShim
  <2>1. CASE b.exit = NoShim
    BY <1>1, <1>3, <1>6, <1>8, <1>9, <1>11, <2>1 DEF Contract!vars
  <2>2. CASE b.exit # NoShim
    <3>1. b.exit \in Shims
      BY <1>4, <2>2 DEF ShimOrNone
    <3>2. Contract!Tell(b.exit)
      BY <1>1, <1>3, <1>7, <1>8, <1>9, <1>11, <2>2 DEF Contract!Tell
    <3> QED BY <3>1, <3>2
  <2> QED BY <2>1, <2>2
<1> QED BY <1>10, <1>11

(* The host process dies, or the whole host with the VM.                     *)
LEMMA EndsLeave ==
  ASSUME Plain, Ends
  PROVE  Contract!Leave \/ Contract!End \/ UNCHANGED Contract!vars
<1>0. TypeOK /\ Steady /\ Stays
  BY DEF Plain, Calm, Steady
<1>1. row' = row /\ created' = created /\ ran' = ran /\ HostUp' = FALSE
  BY DEF Ends, Crash, Reboot, ProcessGone, HostUp
<1>2. SameRow /\ HostUp \in BOOLEAN
  BY <1>1, RowSame DEF HostUp
<1>3. CASE SameShims
  <2>1. CASE HostUp
    BY <1>1, <1>2, <1>3, <2>1, SameVm DEF Contract!Leave, SameRow
  <2>2. CASE ~HostUp
    BY <1>1, <1>2, <1>3, <2>2, Stutter
  <2> QED BY <2>1, <2>2
<1>4. CASE Crash
  <2>1. SameShims
    BY <1>0, <1>4 DEF Crash, SameShims, UpIn, Done, TypeOK
  <2> QED BY <1>3, <2>1
<1>5. CASE Reboot
  <2>1. \A p \in Shims : /\ ~UpIn(p, shim')
                         /\ Done(p, shim') <=> UpIn(p, shim) \/ Done(p, shim)
    BY <1>0, <1>5 DEF Reboot, UpIn, Done, TypeOK
  <2>2. VmFits(shim, VmNow)
    BY <1>0, VmIs
  <2>3. CASE VmNow = NoShim
    <3>1. SameShims
      BY <2>1, <2>2, <2>3, ConstantsAssumption DEF VmFits, SameShims
    <3> QED BY <1>3, <3>1
  <2>4. CASE VmNow # NoShim
    <3>1. \A p \in Shims : Done(p, shim') <=> Done(p, shim) \/ p = VmNow
      BY <2>1, <2>2 DEF VmFits
    <3> QED BY <1>1, <1>2, <2>1, <2>4, <3>1, EndStep
  <2> QED BY <2>3, <2>4
<1> QED BY <1>4, <1>5 DEF Ends

(* Recovery shows the VM that still runs, or settles the row.                *)
LEMMA RecoverReturns ==
  ASSUME Plain, ExitsRan, Recover
  PROVE  Contract!Return
<1>0. TypeOK /\ Steady /\ Solo /\ Stays /\ CopiesAgree /\ CopiesAgree'
  BY DEF Plain, Calm, Steady
<1>1. /\ created' = created /\ ran' = ran /\ shim' = shim
      /\ ~HostUp /\ HostUp' = TRUE
  BY DEF Recover, procVars, HostUp
<1>2. VmNow' = VmNow /\ EndedNow' = EndedNow
  BY <1>1, SameVm DEF SameShims, UpIn, Done
<1>3. Persisted' <=> Persisted
  BY NoRemoval DEF Persisted
<1>4. BoxNow' = BoxNow
  BY <1>1, <1>3 DEF BoxNow
<1>5. CASE ~Persisted
  <2>1. VmNow = NoShim /\ ShownNow = NoShim /\ ToldNow = NoShim
    BY <1>0, <1>5, VmIs DEF ShownNow, ToldNow
  <2>2. ShownNow' = NoShim /\ ToldNow' = NoShim
    BY <1>3, <1>5 DEF ShownNow, ToldNow
  <2> QED BY <1>1, <1>2, <1>4, <2>1, <2>2 DEF Contract!Return, Contract!Settled
<1>6. CASE Persisted
  <2>1. /\ row \in BoxState /\ row' \in BoxState /\ BoxNow = "kept"
        /\ ShownNow = row.pid /\ ToldNow = row.exit
        /\ ShownNow' = row'.pid /\ ToldNow' = row'.exit
    BY <1>0, <1>3, <1>6
       DEF TypeOK, Steady, Persisted, BoxNow, ShownNow, ToldNow, Solo, Unmade
  <2>2. RecoveredAs(row')
    BY <1>0, <1>3, <1>6, RecoveredState DEF Persisted
  <2>3. PICK c \in BoxState :
          /\ c = row \/ c = ResetForReboot(row)
          /\ \/ row' = AdoptRecoveredShim(c, pidfile) /\ Alive(pidfile)
             \/ row' = MarkFailed(c) \/ row' = c
             \/ row' = RecordMainCommandExit(c) /\ c.status = "Running"
    BY <2>2 DEF RecoveredAs
  <2>4. c.exit = row.exit
    BY <1>0, <2>1, <2>3, ExitOps
  <2>5. VmFits(shim, VmNow)
    BY <1>0, VmIs
  <2>6. CASE Alive(pidfile) /\ Shows(row', pidfile)
    <3>1. pidfile \in Shims /\ VmNow = pidfile /\ VmNow # NoShim
      BY <1>0, <2>5, <2>6 DEF Alive, VmFits, UpIn, TypeOK, ShimOrNone
    <3>2. Act(row')
      BY <2>6 DEF Shows, Act, IsActive
    <3>3. row'.exit = row.exit
      BY <1>0, <2>3, <2>4, <3>2, ExitOps, ActOps
    <3>4. row'.pid = VmNow
      BY <2>6, <3>1 DEF Shows
    <3> QED BY <1>1, <1>2, <1>4, <2>1, <3>1, <3>3, <3>4 DEF Contract!Return, Contract!Shown
  <2>7. CASE ~Alive(pidfile) /\ row'.status # "Running"
    <3>1. NoneRuns
      BY <1>0, <1>6, <2>7, ConstantsAssumption DEF Solo, OneVM, NoneRuns, Up, Alive
    <3>2. VmNow = NoShim
      BY <1>0, <3>1, NoVm
    <3>3. row.pid \in EndedNow \cup {NoShim}
      BY <1>0, <1>6, <2>1, <3>1, BornEnded DEF Solo, PidsBorn, Known, NoneRuns, BoxState
    <3>4. row'.pid = NoShim
      BY <1>0, <1>3, <1>6, <2>7 DEF CopiesAgree, PidOfRunning, Persisted
    <3>5. row'.exit \in {row.exit} \cup (EndedNow \cap ran)
      <4>1. record # NoShim => record \in EndedNow \cap ran
        BY <1>0, EndedIs DEF ExitsRan, Ran, TypeOK, ShimOrNone
      <4>2. row'.exit = row.exit \/ (record # NoShim /\ row'.exit = record)
        BY <1>0, <2>3, <2>4, ExitOps
      <4> QED BY <4>1, <4>2
    <3> QED BY <1>1, <1>2, <1>4, <2>1, <3>2, <3>3, <3>4, <3>5
            DEF Contract!Return, Contract!Settled
  <2> QED BY <1>0, <1>3, <1>6, <2>6, <2>7, Recovered
<1> QED BY <1>5, <1>6

(* Every step is one of the contract, or none of its business; and none is   *)
(* the one that makes up the hole in the promise.                            *)
Contracted ==
  \/ Contract!Create \/ Contract!RunMain \/ Contract!End \/ Contract!Settle
  \/ Contract!Leave \/ Contract!Return \/ UNCHANGED Contract!vars
  \/ \E r \in Shims : Contract!Boot(r) \/ Contract!Show(r) \/ Contract!Tell(r)

(* Each action maps to a step of the contract or to a stutter. *)
LEMMA StepOfContract ==
  ASSUME Plain, ExitsRan, ShownNone, Shimless, PlansFresh
  PROVE  Contracted
<1>0. AloneNext
  BY DEF Plain, Calm, Steady
<1>1. ASSUME NEW h \in Handles, BootStep(h)
      PROVE  Contracted
  BY <1>1, QuietSteps, SpawnBoots, FailEnds, GuardKeeps, PublishShows
     DEF BootStep, Contracted
<1>2. ASSUME NEW h \in Handles, WatchStep(h)
      PROVE  Contracted
  BY <1>2, QuietSteps, SaveSettles, NoRemoval DEF WatchStep, Contracted
<1>3. ASSUME NEW h \in Handles, AloneStep(h)
      PROVE  Contracted
  <2>1. CASE Create(h)
    BY <2>1, CreateStep DEF Contracted
  <2>2. CASE GetRead(h) \/ GetCreate(h) \/ \E r \in Requests : Request(h, r)
    BY <2>2, QuietSteps DEF Contracted
  <2>3. CASE StartStep(h)
    BY <2>3, StartsOnce DEF Contracted
  <2>4. ~QuiesceBegin(h) /\ ~QuiesceStep(h) /\ ~QuiesceAbandon(h)
    BY NoQuiesceStep DEF Plain
  <2> QED BY <1>1, <1>2, <1>3, <2>1, <2>2, <2>3, <2>4 DEF AloneStep
<1>4. ASSUME AloneHost
      PROVE  Contracted
  <2>1. CASE Provision
    BY <2>1, CreateStep DEF Contracted
  <2>2. CASE Recover
    BY <2>2, RecoverReturns DEF Contracted
  <2>3. CASE Shutdown
    <3>1. /\ row' = row /\ created' = created /\ ran' = ran /\ shim' = shim
          /\ HostUp' = HostUp
      BY <2>3 DEF Shutdown, diskVars, procVars, HostUp
    <3> QED BY <3>1, RowSame, Stutter DEF SameShims, UpIn, Done, Contracted
  <2> QED BY <1>4, <2>1, <2>2, <2>3, NoRemoval DEF AloneHost
<1>5. ASSUME UNCHANGED vars
      PROVE  UNCHANGED Contract!vars
  <2>1. /\ row' = row /\ created' = created /\ ran' = ran /\ shim' = shim
        /\ HostUp' = HostUp
    BY <1>5 DEF vars, diskVars, procVars, hostVars, HostUp
  <2> QED BY <2>1, RowSame, Stutter DEF SameShims, UpIn, Done
<1>6. ASSUME NEW p \in Shims, ShimStep(p)
      PROVE  Contracted
  BY <1>6, ExitEnds DEF Contracted
<1>7. ASSUME Ends
      PROVE  Contracted
  BY <1>7, EndsLeave DEF Contracted
<1> QED BY <1>0, <1>3, <1>4, <1>5, <1>6, <1>7 DEF AloneNext, Contracted

(* Those steps are steps of the contract. *)
LEMMA StepOfSafe ==
  ASSUME Contracted
  PROVE  [Contract!Next]_(Contract!vars)
BY DEF Contracted, Contract!Next

(* And none of them is Overwrite, which leaves a VM up that is not shown. *)
LEMMA StepOverwritesNot ==
  ASSUME Steady, Stays, Contracted
  PROVE  ~Contract!Overwrite
<1>1. VmNow # NoShim => VmNow \notin EndedNow
  BY VmIs DEF VmFits, ShimOrNone, UpIn, EndedNow
<1>2. ASSUME Contract!Overwrite
      PROVE  FALSE
  <2>1. /\ VmNow # NoShim /\ ShownNow = VmNow /\ ShownNow' = NoShim /\ VmNow' = VmNow
        /\ HostUp' = HostUp /\ BoxNow' = BoxNow
    BY <1>2 DEF Contract!Overwrite, Contract!Settled
  <2>2. ~Contract!Create /\ ~Contract!RunMain /\ ~Contract!End /\ ~Contract!Settle
    BY <1>1, <2>1 DEF Contract!Create, Contract!RunMain, Contract!End, Contract!Settle
  <2>3. ~Contract!Leave /\ ~Contract!Return /\ ~UNCHANGED Contract!vars
    BY <2>1 DEF Contract!Leave, Contract!Return, Contract!vars
  <2>4. \A r \in Shims : ~Contract!Boot(r) /\ ~Contract!Show(r) /\ ~Contract!Tell(r)
    BY <2>1 DEF Contract!Boot, Contract!Show, Contract!Shown, Contract!Tell
  <2> QED BY <2>2, <2>3, <2>4 DEF Contracted
<1> QED BY <1>2

(* The first state is the contract's, and has what the steps keep.           *)
LEMMA FirstOfContract ==
  Init => /\ Contract!Init
          /\ Stays /\ ReadAlike /\ ReadNone /\ ShownNone /\ Shimless /\ PlansFresh
<1> SUFFICES ASSUME Init
             PROVE  /\ Contract!Init
                    /\ Stays /\ ReadAlike /\ ReadNone /\ ShownNone /\ Shimless /\ PlansFresh
  OBVIOUS
<1>1. Stays /\ ReadAlike /\ ReadNone /\ ShownNone /\ Shimless /\ PlansFresh
  BY DEF Init, Stays, ReadAlike, ReadNone, ShownNone, Shimless, PlansFresh, Reading,
     Persisted, NoWatch, NoBoot
<1>2. BoxNow = "none" /\ ShownNow = NoShim /\ ToldNow = NoShim /\ HostUp = TRUE
  BY DEF Init, BoxNow, ShownNow, ToldNow, HostUp, Persisted
<1>3. EndedNow = {} /\ Running = {} /\ ran = {}
  BY DEF Init, EndedNow, Running, Alive
<1>4. VmNow = NoShim
  BY <1>3 DEF VmNow
<1> QED BY <1>1, <1>2, <1>3, <1>4 DEF Contract!Init

(* What the steps keep, of a box that is neither snapshotted nor removed.    *)
Abides == /\ CopiesAgree /\ NoBracket /\ ExitsRan /\ Stays
          /\ ReadAlike /\ ReadNone /\ ShownNone /\ Shimless /\ PlansFresh
Undisturbed == ~RemoveOnStop /\ Calls \cap {"quiesce", "remove", "force_remove"} = {}

(* Every step keeps what Abides collects, and is one of the contract. *)
LEMMA AbidesNext ==
  ASSUME LeftAlone, Undisturbed, IInv, Solo, OneLife, Unbroken, Abides, [Next]_vars
  PROVE  Abides' /\ Contracted /\ Steady
<1>1. Steady /\ TypeOK
  BY SteadyNext DEF Steady
<1>2. CopiesAgree' /\ NoBracket'
  BY <1>1, NextCopies, BracketNeverOpens DEF Abides, Undisturbed
<1>3. Plain
  BY <1>1, <1>2 DEF Abides, Undisturbed, Calm, Plain
<1>4. ExitsRan' /\ Stays' /\ ReadAlike' /\ ReadNone' /\ ShownNone'
  BY <1>3, ExitsRanNext, StaysNext, ReadAlikeNext, ReadNoneNext, ShownNoneNext
     DEF Abides, Plain
<1>5. Shimless' /\ PlansFresh'
  BY <1>3, ShimlessNext, PlansFreshNext DEF Abides
<1>6. Contracted
  BY <1>3, StepOfContract DEF Abides
<1> QED BY <1>1, <1>2, <1>4, <1>5, <1>6 DEF Abides

(* What holds on the way, as a temporal fact. *)
LEMMA AbidesAlways ==
  ASSUME LeftAlone, Undisturbed
  PROVE  Spec /\ []OneLife => Contract!Init /\ [](IInv /\ Solo /\ OneLife /\ Unbroken /\ Abides)
<1>1. Init => Abides /\ Contract!Init
  <2>1. Init => CopiesAgree /\ NoBracket
    BY ConstantsAssumption DEF Init, CopiesAgree, NoBracket, PidOfRunning,
       NewState, NoWatch, NoQuiesce, NoBoot
  <2> QED BY <2>1, InitTold, FirstOfContract DEF Abides
<1>2. IInv /\ Solo /\ OneLife /\ Unbroken /\ Abides /\ [Next]_vars => Abides'
  BY AbidesNext
<1>3. Spec => []Unbroken
  BY NeverBroken DEF Undisturbed
<1> QED BY <1>1, <1>2, <1>3, SoloAlways, PTL DEF Spec

(* The lifecycle implements BoxContract, for any number of handles and       *)
(* shims: where no client stops, snapshots or removes the box or lets go of  *)
(* a handle, the box is not removed when it stops, and no handle boots a     *)
(* second VM, every step of boots, adoptions, watchers, exits, crashes,      *)
(* reboots and recoveries is one the contract allows: VMs run one after      *)
(* another, each runs the main command at most once, the row shows none but  *)
(* the newest, and every exit code it tells is of a command that ran and     *)
(* ended. The refinement mapping is that of KeepsContract.                   *)
THEOREM ContractIsKept ==
  ASSUME LeftAlone, Undisturbed
  PROVE  Spec /\ []OneLife => KeepsContract
<1>1. IInv /\ Solo /\ OneLife /\ Unbroken /\ Abides /\ [Next]_vars => [Contract!Next]_(Contract!vars)
  BY AbidesNext, StepOfSafe
<1> QED BY <1>1, AbidesAlways, PTL DEF Spec, KeepsContract, Contract!Safe

(* And the hole in the contract is not used: nobody writes down how an       *)
(* earlier run ended over a row that shows the VM that runs.                 *)
THEOREM NothingOverwritten ==
  ASSUME LeftAlone, Undisturbed
  PROVE  Spec /\ []OneLife => [][~Contract!Overwrite]_vars
<1>1. IInv /\ Solo /\ OneLife /\ Unbroken /\ Abides /\ [Next]_vars => [~Contract!Overwrite]_vars
  BY AbidesNext, StepOverwritesNot DEF Abides
<1> QED BY <1>1, AbidesAlways, PTL DEF Spec
=============================================================================
