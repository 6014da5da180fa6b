------------------------- MODULE BoxLifecycleProofs -------------------------
(***************************************************************************)
(* Theorems about BoxLifecycle, for every value of its constants: type     *)
(* correctness, and with it the inductive invariant behind                 *)
(* OnlySpawnerStarts; that a removed box stays removed; and that pid and   *)
(* status agree where no quiesce bracket is used.                          *)
(***************************************************************************)
EXTENDS BoxLifecycleProperties, TLAPS

(* What every reachable state has, and an action needs to keep its types and *)
(* OnlySpawnerStarts. A boot past vmm_attach or vmm_spawn works on a shim,   *)
(* which a fresh boot has spawned itself ...                                 *)
Connecting(h) == boot[h].pc \in {"connect", "publish", "finish"}
BootNamesShim ==
  \A h \in Handles :
    /\ boot[h].pc = "attach" => boot[h].plan = "adopt"
    /\ Connecting(h) => boot[h].shim \in Shims
    /\ Connecting(h) /\ boot[h].plan # "adopt" => spawner[boot[h].shim] = h
(* ... while an adopter has filled the container-start cell ...              *)
AdopterMarked ==
  \A h \in Handles :
    boot[h].pc \in {"publish", "finish"} /\ boot[h].plan = "adopt"
      => cstart[h] = "done"
(* ... a boot runs over an empty live cell, and only a full one has a        *)
(* container start in flight ...                                             *)
CellsAgree ==
  \A h \in Handles : /\ boot[h].pc # "idle" => live[h] = NoShim
                     /\ cstart[h] = "wanted" => live[h] # NoShim
(* ... and no handle has spawned a shim that is not born.                    *)
UnbornIsNobodys == \A p \in Shims : shim[p] = "unborn" => spawner[p] = NoHandle

IInv == /\ TypeOK /\ BootNamesShim /\ AdopterMarked /\ CellsAgree
        /\ UnbornIsNobodys /\ OnlySpawnerStarts

-----------------------------------------------------------------------------
(* mark_stop, mark_failed, reset_for_reboot, force_status,
   adopt_recovered_shim and publishing keep BoxState's types. *)
LEMMA BoxStateOps ==
  /\ NewState \in BoxState
  /\ \A b \in BoxState :
       /\ b.status \in Status /\ b.pid \in ShimOrNone
       /\ MarkStop(b) \in BoxState
       /\ MarkFailed(b) \in BoxState
       /\ ResetForReboot(b) \in BoxState
       /\ \A s \in Status : ForceStatus(b, s) \in BoxState
       /\ \A p \in ShimOrNone :
            /\ AdoptRecoveredShim(b, p) \in BoxState
            /\ [b EXCEPT !.exit = p] \in BoxState
            /\ \A a \in BOOLEAN : PublishRunning(b, p, a) \in BoxState
<1>1. NewState \in BoxState
  BY DEF NewState, BoxState, Status, ShimOrNone
<1>2. ASSUME NEW b \in BoxState
      PROVE  /\ b.status \in Status /\ b.pid \in ShimOrNone
             /\ MarkStop(b) \in BoxState
             /\ MarkFailed(b) \in BoxState
             /\ ResetForReboot(b) \in BoxState
  BY DEF BoxState, MarkStop, MarkFailed, ResetForReboot, Status, ShimOrNone
<1>3. ASSUME NEW b \in BoxState, NEW s \in Status
      PROVE  ForceStatus(b, s) \in BoxState
  BY DEF BoxState, ForceStatus
<1>4. ASSUME NEW b \in BoxState, NEW p \in ShimOrNone
      PROVE  AdoptRecoveredShim(b, p) \in BoxState
  BY DEF BoxState, AdoptRecoveredShim, ShimOrNone, Status
<1>5. ASSUME NEW b \in BoxState, NEW p \in ShimOrNone
      PROVE  [b EXCEPT !.exit = p] \in BoxState
  BY DEF BoxState
<1>6. ASSUME NEW b \in BoxState, NEW p \in ShimOrNone, NEW a \in BOOLEAN
      PROVE  PublishRunning(b, p, a) \in BoxState
  BY DEF BoxState, PublishRunning, ShimOrNone, Status
<1> QED BY <1>1, <1>2, <1>3, <1>4, <1>5, <1>6

(* record_main_command_exit keeps BoxState's types. *)
LEMMA RecordedTyped ==
  ASSUME TypeOK, NEW b \in BoxState
  PROVE  RecordMainCommandExit(b) \in BoxState
<1>1. [b EXCEPT !.exit = IF record = NoShim THEN @ ELSE record] \in BoxState
  BY DEF TypeOK, BoxState
<1> QED BY <1>1, BoxStateOps DEF RecordMainCommandExit

(* The states of a handle with nothing in flight have their types. *)
LEMMA IdleTyped ==
  /\ NoBoot \in BootState /\ NoQuiesce \in QuiesceState
  /\ NoWatch \in WatchState
BY BoxStateOps DEF NoBoot, NoQuiesce, NoWatch, BootState, QuiesceState,
   WatchState, BootPc, QuiescePc, WatchPc, Requests, Plans, ShimOrNone

(* What moving a boot on does to its type. *)
LEMMA BootOps ==
  ASSUME NEW f \in [Handles -> BootState], NEW h \in Handles
  PROVE  /\ f[h].pc \in BootPc /\ f[h].by \in Requests /\ f[h].plan \in Plans
         /\ f[h].shim \in ShimOrNone
         /\ [f EXCEPT ![h] = NoBoot] \in [Handles -> BootState]
         /\ \A pc \in BootPc :
              /\ [f EXCEPT ![h].pc = pc] \in [Handles -> BootState]
              /\ \A p \in ShimOrNone :
                   [f EXCEPT ![h].pc = pc, ![h].shim = p] \in [Handles -> BootState]
BY IdleTyped DEF BootState

(* What moving a quiesce bracket on does to its type. *)
LEMMA QuiesceOps ==
  ASSUME NEW f \in [Handles -> QuiesceState], NEW h \in Handles
  PROVE  /\ f[h].pc \in QuiescePc /\ f[h].pid \in ShimOrNone
         /\ [f EXCEPT ![h] = NoQuiesce] \in [Handles -> QuiesceState]
         /\ \A pc \in QuiescePc :
              [f EXCEPT ![h].pc = pc] \in [Handles -> QuiesceState]
BY IdleTyped DEF QuiesceState

(* What moving a watcher on does to its type. *)
LEMMA WatchOps ==
  ASSUME NEW f \in [Handles -> WatchState], NEW h \in Handles
  PROVE  /\ f[h].pc \in WatchPc /\ f[h].pid \in ShimOrNone
         /\ f[h].snapshot \in BoxState
         /\ \A pc \in WatchPc :
              /\ [f EXCEPT ![h].pc = pc] \in [Handles -> WatchState]
              /\ [f EXCEPT ![h] = [NoWatch EXCEPT !.pc = pc]]
                   \in [Handles -> WatchState]
              /\ \A p \in ShimOrNone :
                 [f EXCEPT ![h] = [NoWatch EXCEPT !.pc = pc, !.pid = p]]
                   \in [Handles -> WatchState]
BY IdleTyped DEF WatchState

(* The initial state has its types. *)
LEMMA InitTyped == Init => TypeOK
<1> SUFFICES ASSUME Init PROVE TypeOK
  OBVIOUS
<1>1. /\ boot \in [Handles -> BootState] /\ quiesce \in [Handles -> QuiesceState]
      /\ watch \in [Handles -> WatchState]
  BY IdleTyped DEF Init
<1>2. mem \in [Handles -> BoxState]
  BY BoxStateOps DEF Init
<1>3. stop \in [Handles -> StopPc]
  BY DEF Init, StopPc
<1>4. /\ row \in BoxState \cup {Absent} /\ created \in BOOLEAN
      /\ pidfile \in ShimOrNone /\ record \in ShimOrNone /\ crash \in ShimOrNone
      /\ getter \in [Handles -> BoxState \cup {Absent}]
      /\ live \in [Handles -> ShimOrNone]
  BY DEF Init, ShimOrNone
<1>5. /\ shim \in [Shims -> {"unborn", "live", "frozen", "zombie", "dead"}]
      /\ ran \subseteq Shims
      /\ spawner \in [Shims -> Handles \cup {NoHandle}]
      /\ keep \subseteq Shims
      /\ runtime \in {"up", "closing", "down", "rebooted"}
      /\ cache \in Handles \cup {NoHandle} /\ flock \in Handles \cup {NoHandle}
      /\ removing \in BOOLEAN
      /\ held \in [Handles -> {"unborn", "held", "dropped"}]
      /\ token \in [Handles -> BOOLEAN]
      /\ cstart \in [Handles -> {"empty", "wanted", "done"}]
      /\ gate \in [Handles -> SUBSET Requests]
  BY DEF Init
<1> QED BY <1>1, <1>2, <1>3, <1>4, <1>5 DEF TypeOK

(* arm_watcher keeps the watchers' types. *)
LEMMA ArmedTyped ==
  ASSUME TypeOK, NEW h \in Handles, NEW b \in BoxState
  PROVE  Armed(h, b) \in [Handles -> WatchState]
<1>1. b.pid \in ShimOrNone /\ "armed" \in WatchPc
  BY BoxStateOps DEF WatchPc
<1> QED BY <1>1, WatchOps DEF TypeOK, Armed

(* So does every other step of a watcher. *)
LEMMA WatchSetTyped ==
  ASSUME TypeOK, NEW h \in Handles, NEW pc \in WatchPc, WatchSet(h, pc)
  PROVE  watch' \in [Handles -> WatchState]
<1>1. [watch EXCEPT ![h].pc = pc] = [watch EXCEPT ![h] = [@ EXCEPT !.pc = pc]]
  OBVIOUS
<1> QED BY <1>1, WatchOps DEF TypeOK, WatchSet

(* save_box writes a BoxState or nothing. *)
LEMMA SaveTyped ==
  ASSUME TypeOK, NEW b \in BoxState, Save(b)
  PROVE  row' \in BoxState \cup {Absent}
BY DEF Save

(* ShimHandler::stop keeps the types of the processes and of the exit
   record. *)
LEMMA TeardownTyped ==
  ASSUME TypeOK, NEW p \in ShimOrNone, Teardown(p)
  PROVE  /\ shim' \in [Shims -> {"unborn", "live", "frozen", "zombie", "dead"}]
         /\ record' \in ShimOrNone
BY DEF TypeOK, Teardown, MayRecord, ShimOrNone

(* The state a boot that returns leaves to its callers.                      *)
ReturnTyped == /\ boot' \in [Handles -> BootState]
               /\ flock' \in Handles \cup {NoHandle}
               /\ gate' \in [Handles -> SUBSET Requests]
               /\ stop' \in [Handles -> StopPc]
               /\ quiesce' \in [Handles -> QuiesceState]

(* An init closure that returns leaves its callers in states of their
   types. *)
LEMMA BootEndsTyped ==
  ASSUME TypeOK, NEW h \in Handles, BootSucceeds(h) \/ BootFails(h)
  PROVE  ReturnTyped
<1> USE DEF BootSucceeds, BootFails, BootEnds
<1>1. boot' \in [Handles -> BootState]
  BY BootOps DEF TypeOK
<1>2. flock' \in Handles \cup {NoHandle}
  BY DEF TypeOK
<1>3. gate' \in [Handles -> SUBSET Requests]
  BY DEF TypeOK
<1>4. stop' \in [Handles -> StopPc]
  BY DEF TypeOK, StopPc
<1>5. quiesce' \in [Handles -> QuiesceState]
  <2>1. "signal" \in QuiescePc
    BY DEF QuiescePc
  <2> QED BY <2>1, QuiesceOps DEF TypeOK
<1> QED BY <1>1, <1>2, <1>3, <1>4, <1>5 DEF ReturnTyped

(* The first half of remove_box keeps the types of what it writes. *)
LEMMA RemoveCheckedTyped ==
  ASSUME TypeOK, row # Absent, NEW force, RemoveChecked(force)
  PROVE  /\ row' \in BoxState \cup {Absent}
         /\ shim' \in [Shims -> {"unborn", "live", "frozen", "zombie", "dead"}]
         /\ record' \in ShimOrNone
         /\ removing' \in BOOLEAN
<1>1. row \in BoxState /\ row.pid \in ShimOrNone /\ MarkStop(row) \in BoxState
  BY BoxStateOps DEF TypeOK
<1> QED BY <1>1, TeardownTyped DEF TypeOK, RemoveChecked

(* get_or_create_box_impl keeps the types of what it writes. *)
LEMMA NewHandleTyped ==
  ASSUME TypeOK, NEW h \in Handles, NEW b \in BoxState, NewHandle(h, b)
  PROVE  /\ held' \in [Handles -> {"unborn", "held", "dropped"}]
         /\ mem' \in [Handles -> BoxState]
         /\ token' \in [Handles -> BOOLEAN]
         /\ watch' \in [Handles -> WatchState]
         /\ cache' \in Handles \cup {NoHandle}
BY ArmedTyped DEF TypeOK, NewHandle

(* The end of the host process keeps the types of all it resets. *)
LEMMA ProcessGoneTyped ==
  ASSUME TypeOK, ProcessGone
  PROVE  /\ cache' \in Handles \cup {NoHandle} /\ flock' \in Handles \cup {NoHandle}
         /\ getter' \in [Handles -> BoxState \cup {Absent}]
         /\ removing' \in BOOLEAN
         /\ held' \in [Handles -> {"unborn", "held", "dropped"}]
         /\ mem' \in [Handles -> BoxState]
         /\ token' \in [Handles -> BOOLEAN]
         /\ live' \in [Handles -> ShimOrNone]
         /\ cstart' \in [Handles -> {"empty", "wanted", "done"}]
         /\ gate' \in [Handles -> SUBSET Requests]
         /\ boot' \in [Handles -> BootState]
         /\ stop' \in [Handles -> StopPc]
         /\ quiesce' \in [Handles -> QuiesceState]
         /\ watch' \in [Handles -> WatchState]
         /\ keep' \subseteq Shims
         /\ spawner' \in [Shims -> Handles \cup {NoHandle}]
         /\ created' \in BOOLEAN /\ ran' \subseteq Shims
<1>1. /\ boot' \in [Handles -> BootState] /\ quiesce' \in [Handles -> QuiesceState]
      /\ watch' \in [Handles -> WatchState]
  BY IdleTyped DEF ProcessGone
<1>2. mem' \in [Handles -> BoxState]
  BY BoxStateOps DEF ProcessGone
<1>3. stop' \in [Handles -> StopPc]
  BY DEF ProcessGone, StopPc
<1>4. live' \in [Handles -> ShimOrNone]
  BY DEF ProcessGone, ShimOrNone
<1>5. held' \in [Handles -> {"unborn", "held", "dropped"}]
  BY DEF ProcessGone, TypeOK
<1> QED BY <1>1, <1>2, <1>3, <1>4, <1>5 DEF ProcessGone, TypeOK

-----------------------------------------------------------------------------
(* Type correctness of create, provision_box, get and of dropping a
   handle. *)
LEMMA HandoutTyped ==
  ASSUME TypeOK, NEW h \in Handles,
         Create(h) \/ Provision \/ GetRead(h) \/ GetCreate(h) \/ DropHandle(h)
  PROVE  TypeOK'
<1> USE DEF diskVars, procVars, hostVars, handleVars, taskVars
<1>1. CASE Create(h)
  BY <1>1, BoxStateOps, NewHandleTyped DEF TypeOK, Create
<1>2. CASE Provision
  BY <1>2, BoxStateOps DEF TypeOK, Provision
<1>3. CASE GetRead(h)
  BY <1>3 DEF TypeOK, GetRead
<1>4. CASE GetCreate(h)
  <2>1. getter[h] \in BoxState
    BY <1>4 DEF TypeOK, GetCreate
  <2>2. CASE Cached = NoHandle
    BY <1>4, <2>1, <2>2, NewHandleTyped DEF TypeOK, GetCreate
  <2>3. CASE Cached # NoHandle
    <3>1. cache \in Handles
      BY <2>3 DEF Cached, TypeOK
    <3>2. watch' \in [Handles -> WatchState]
      BY <1>4, <2>3, <3>1, ArmedTyped DEF TypeOK, GetCreate
    <3> QED BY <1>4, <2>3, <3>2 DEF TypeOK, GetCreate
  <2> QED BY <2>2, <2>3
<1>5. CASE DropHandle(h)
  BY <1>5 DEF TypeOK, DropHandle, PipesWithout, ShimOrNone
<1> QED BY <1>1, <1>2, <1>3, <1>4, <1>5

(* Type correctness of start, exec, attach and of the container's start. *)
LEMMA CallTyped ==
  ASSUME TypeOK, CellsAgree, NEW h \in Handles,
         (\E r \in Requests : Request(h, r)) \/ StartStep(h)
  PROVE  TypeOK'
<1> USE DEF diskVars, procVars, hostVars, handleVars, taskVars
<1>1. ASSUME NEW r \in Requests, Request(h, r)
      PROVE  TypeOK'
  BY <1>1 DEF TypeOK, Request
<1>2. CASE ContainerStart(h)
  <2>1. live[h] \in Shims
    BY <1>2 DEF CellsAgree, TypeOK, ContainerStart, ShimOrNone
  <2> QED BY <1>2, <2>1 DEF TypeOK, ContainerStart
<1>3. CASE ContainerStartFails(h)
  <2>1. live[h] \in Shims
    BY <1>3 DEF CellsAgree, TypeOK, ContainerStartFails, ShimOrNone
  <2> QED BY <1>3, <2>1 DEF TypeOK, ContainerStartFails, FailedStart
<1> QED BY <1>1, <1>2, <1>3 DEF StartStep

(* Type correctness of init_live_state. *)
LEMMA BootTyped ==
  ASSUME TypeOK, BootNamesShim, NEW h \in Handles, BootStep(h)
  PROVE  TypeOK'
<1> USE DEF diskVars, procVars, hostVars, handleVars, taskVars
<1>0. BootPc = {"idle", "locking", "attach", "spawn", "connect", "publish",
                "finish", "failing"}
  BY DEF BootPc
<1>1. ASSUME NEW r \in Requests, BootRead(h, r)
      PROVE  TypeOK'
  <2>1. [pc |-> "locking", by |-> r, shim |-> NoShim,
         plan |-> ExecutionPlan(mem[h].status)] \in BootState
    BY DEF BootState, BootPc, Plans, ShimOrNone, ExecutionPlan
  <2> QED BY <1>1, <2>1 DEF TypeOK, BootRead
<1>2. CASE BootLock(h)
  <2>1. CASE row # Absent
    <3> DEFINE next == CASE boot[h].plan = "adopt" -> "attach"
                         [] boot[h].plan = "fresh" -> "spawn"
                         [] OTHER -> "failing"
    <3>1. next \in BootPc
      BY <1>0
    <3>2. boot' = [boot EXCEPT ![h].pc = next]
      BY <1>2, <2>1 DEF BootLock, BootSet
    <3>3. boot' \in [Handles -> BootState]
      BY <3>1, <3>2, BootOps DEF TypeOK
    <3> QED BY <1>2, <2>1, <3>3 DEF TypeOK, BootLock
  <2>2. CASE row = Absent
    <3>1. BootFails(h)
      BY Zenon, <1>2, <2>2 DEF BootLock
    <3>2. ReturnTyped
      BY Zenon, <3>1, BootEndsTyped
    <3> QED BY <1>2, <3>2 DEF TypeOK, BootLock, ReturnTyped
  <2> QED BY <2>1, <2>2
<1>3. CASE BootAttach(h)
  <2>1. CASE Alive(pidfile)
    <3>1. boot' = [boot EXCEPT ![h].pc = "connect", ![h].shim = pidfile]
      BY <1>3, <2>1 DEF BootAttach
    <3>2. boot' \in [Handles -> BootState]
      BY <3>1, <1>0, BootOps DEF TypeOK
    <3> QED BY <1>3, <2>1, <3>2 DEF TypeOK, BootAttach, ShimOrNone
  <2>2. CASE ~Alive(pidfile)
    <3>1. BootFails(h)
      BY Zenon, <1>3, <2>2 DEF BootAttach
    <3>2. ReturnTyped
      BY Zenon, <3>1, BootEndsTyped
    <3> QED BY <1>3, <2>2, <3>2 DEF TypeOK, BootAttach, ReturnTyped
  <2> QED BY <2>1, <2>2
<1>4. CASE BootSpawn(h)
  <2>1. PICK p \in Shims :
          /\ shim' = [shim EXCEPT ![p] = "live"]
          /\ spawner' = [spawner EXCEPT ![p] = h]
          /\ keep' = IF Detach THEN keep ELSE keep \cup {p}
          /\ pidfile' = p
          /\ boot' = [boot EXCEPT ![h].pc = "connect", ![h].shim = p]
    BY <1>4 DEF BootSpawn
  <2>2. boot' \in [Handles -> BootState]
    BY <2>1, <1>0, BootOps DEF TypeOK, ShimOrNone
  <2> QED BY <1>4, <2>1, <2>2 DEF TypeOK, BootSpawn, ShimOrNone
<1>5. CASE BootConnect(h)
  BY <1>5, <1>0, BootOps DEF TypeOK, BootConnect, BootSet, StartCell, ShimOrNone
<1>6. CASE BootFail(h)
  <2>1. CASE boot[h].plan = "adopt"
    <3>1. BootFails(h) /\ UNCHANGED <<shim, record>>
      BY Zenon, <1>6, <2>1 DEF BootFail
    <3>2. ReturnTyped
      BY Zenon, <3>1, BootEndsTyped
    <3> QED BY <1>6, <3>1, <3>2 DEF TypeOK, BootFail, ReturnTyped
  <2>2. CASE boot[h].plan # "adopt"
    <3>1. boot[h].shim \in ShimOrNone
      BY BootOps DEF TypeOK
    <3>2. Teardown(boot[h].shim) /\ boot' = [boot EXCEPT ![h].pc = "failing"]
      BY <1>6, <2>2 DEF BootFail, BootSet
    <3>3. boot' \in [Handles -> BootState]
      BY <3>2, <1>0, BootOps DEF TypeOK
    <3> QED BY <1>6, <2>2, <3>1, <3>2, <3>3, TeardownTyped DEF TypeOK, BootFail
  <2> QED BY <2>1, <2>2
<1>7. CASE BootGuard(h)
  <2>1. BootFails(h)
    BY Zenon, <1>7 DEF BootGuard
  <2>2. ReturnTyped
    BY Zenon, <2>1, BootEndsTyped
  <2> QED BY <1>7, <2>2, BoxStateOps DEF TypeOK, BootGuard, ReturnTyped
<1>8. CASE BootPublish(h)
  <2> DEFINE b == PublishRunning(mem[h], pidfile, boot[h].plan = "adopt")
  <2>1. b \in BoxState
    BY BoxStateOps DEF TypeOK
  <2>2. row' \in BoxState \cup {Absent} /\ mem' \in [Handles -> BoxState]
    BY <1>8, <2>1 DEF TypeOK, BootPublish
  <2>3. watch' \in [Handles -> WatchState]
    BY <1>8, <2>1, ArmedTyped DEF TypeOK, BootPublish
  <2>4. /\ boot' \in [Handles -> BootState]
        /\ flock' \in Handles \cup {NoHandle}
        /\ gate' \in [Handles -> SUBSET Requests]
        /\ stop' \in [Handles -> StopPc]
        /\ quiesce' \in [Handles -> QuiesceState]
        /\ keep' \subseteq Shims
    <3>1. CASE BootFails(h) /\ UNCHANGED keep
      <4>1. ReturnTyped
        BY Zenon, <3>1, BootEndsTyped
      <4> QED BY <3>1, <4>1 DEF TypeOK, ReturnTyped
    <3>2. CASE ~(BootFails(h) /\ UNCHANGED keep)
      <4>1. /\ \/ boot' = [boot EXCEPT ![h].pc = "failing"]
               \/ boot' = [boot EXCEPT ![h].pc = "finish"]
            /\ keep' = keep \/ keep' = keep \ {boot[h].shim}
            /\ UNCHANGED <<flock, gate, stop, quiesce>>
        BY <1>8, <3>2 DEF BootPublish, BootSet
      <4>2. boot' \in [Handles -> BootState]
        <5>1. "failing" \in BootPc /\ "finish" \in BootPc
          BY <1>0
        <5>2. ASSUME NEW pc \in BootPc
              PROVE  [boot EXCEPT ![h].pc = pc] \in [Handles -> BootState]
          BY BootOps DEF TypeOK
        <5> QED BY <4>1, <5>1, <5>2
      <4> QED BY <4>1, <4>2 DEF TypeOK
    <3> QED BY <3>1, <3>2
  <2> QED BY <1>8, <2>2, <2>3, <2>4 DEF TypeOK, BootPublish
<1>9. CASE BootFinish(h)
  <2>1. BootSucceeds(h)
    BY Zenon, <1>9 DEF BootFinish
  <2>2. ReturnTyped
    BY Zenon, <2>1, BootEndsTyped
  <2>3. boot[h].shim \in ShimOrNone
    BY BootOps DEF TypeOK
  <2>4. cstart' \in [Handles -> {"empty", "wanted", "done"}]
    BY <1>9 DEF TypeOK, BootFinish
  <2>5. live' \in [Handles -> ShimOrNone] /\ crash' \in ShimOrNone
    BY <1>9, <2>3 DEF TypeOK, BootFinish, ShimOrNone
  <2>6. UNCHANGED <<row, created, pidfile, record, procVars, runtime, cache,
                    getter, removing, held, mem, token, watch>>
    BY Zenon, <1>9 DEF BootFinish
  <2> QED BY <2>2, <2>4, <2>5, <2>6 DEF TypeOK, ReturnTyped
<1> QED BY <1>1, <1>2, <1>3, <1>4, <1>5, <1>6, <1>7, <1>8, <1>9 DEF BootStep

(* Type correctness of stop(). *)
LEMMA StopTyped ==
  ASSUME TypeOK, NEW h \in Handles,
         StopBegin(h) \/ StopStep(h) \/ StopAbandon(h)
  PROVE  TypeOK'
<1> USE DEF diskVars, procVars, hostVars, handleVars, taskVars, StopPc
<1>1. CASE StopBegin(h)
  <2>1. "done" \in WatchPc
    BY DEF WatchPc
  <2> QED BY <1>1, <2>1, WatchOps DEF TypeOK, StopBegin
<1>2. CASE StopAttach(h)
  BY <1>2 DEF TypeOK, StopAttach, Requests
<1>3. CASE StopKill(h)
  <2>1. live[h] \in ShimOrNone
    BY DEF TypeOK
  <2> QED BY <1>3, <2>1, TeardownTyped DEF TypeOK, StopKill
<1>4. CASE StopClean(h)
  BY <1>4 DEF TypeOK, StopClean, ShimOrNone
<1>5. CASE StopRecord(h)
  <2> DEFINE b == IF mem[h].status = "Configured" THEN mem[h]
                  ELSE RecordMainCommandExit(mem[h])
  <2>1. b \in BoxState
    BY RecordedTyped DEF TypeOK
  <2> QED BY <1>5, <2>1, SaveTyped DEF TypeOK, StopRecord
<1>6. CASE StopFinish(h)
  BY <1>6 DEF TypeOK, StopFinish
<1>7. CASE StopRemove(h)
  BY <1>7, RemoveCheckedTyped DEF TypeOK, StopRemove
<1>8. CASE StopAbandon(h)
  BY <1>8 DEF TypeOK, StopAbandon
<1> QED BY <1>1, <1>2, <1>3, <1>4, <1>5, <1>6, <1>7, <1>8 DEF StopStep

(* Type correctness of the watcher task. *)
LEMMA WatchTyped ==
  ASSUME TypeOK, NEW h \in Handles, WatchStep(h)
  PROVE  TypeOK'
<1> USE DEF diskVars, procVars, hostVars, handleVars, taskVars
<1>0. {"none", "armed", "exited", "save", "tail", "remove", "done"} = WatchPc
  BY DEF WatchPc
<1>1. CASE WatchStandDown(h)
  BY <1>1, <1>0, WatchSetTyped DEF TypeOK, WatchStandDown
<1>2. CASE WatchExit(h)
  BY <1>2, <1>0, WatchSetTyped DEF TypeOK, WatchExit
<1>3. CASE WatchRecord(h)
  <2> DEFINE b == mem[h]
             fill == ~IsActive(b.status) /\ b.exit = NoShim /\ record # NoShim
             seen == IF fill THEN [b EXCEPT !.exit = record]
                     ELSE RecordMainCommandExit(b)
  <2>1. seen \in BoxState
    BY BoxStateOps, RecordedTyped DEF TypeOK
  <2>2. [pc |-> "save", pid |-> NoShim, snapshot |-> seen] \in WatchState
    BY <2>1, <1>0 DEF WatchState, ShimOrNone
  <2>3. mem' \in [Handles -> BoxState] /\ watch' \in [Handles -> WatchState]
    BY <1>3, <1>0, <2>1, <2>2, WatchSetTyped DEF TypeOK, WatchRecord
  <2> QED BY <1>3, <2>3 DEF TypeOK, WatchRecord
<1>4. CASE WatchSave(h)
  BY <1>4, <1>0, WatchOps, SaveTyped DEF TypeOK, WatchSave
<1>5. CASE WatchTail(h)
  BY <1>5, <1>0, WatchSetTyped DEF TypeOK, WatchTail, AfterExit
<1>6. CASE WatchRemove(h)
  BY <1>6, <1>0, WatchSetTyped, RemoveCheckedTyped DEF TypeOK, WatchRemove
<1> QED BY <1>1, <1>2, <1>3, <1>4, <1>5, <1>6 DEF WatchStep

(* Type correctness of with_quiesce_async. *)
LEMMA QuiesceTyped ==
  ASSUME TypeOK, NEW h \in Handles,
         QuiesceBegin(h) \/ QuiesceStep(h) \/ QuiesceAbandon(h)
  PROVE  TypeOK'
<1> USE DEF diskVars, procVars, hostVars, handleVars, taskVars
<1>0. \A s \in {"Running", "Paused"} : ForceStatus(mem[h], s) \in BoxState
  BY BoxStateOps DEF TypeOK, Status
<1>1. CASE QuiesceBegin(h)
  <2>1. mem[h].pid \in ShimOrNone
    BY BoxStateOps DEF TypeOK
  <2>2. [pc |-> IF live[h] = NoShim THEN "freeze" ELSE "signal",
         pid |-> mem[h].pid] \in QuiesceState
    BY <2>1 DEF QuiesceState, QuiescePc
  <2> QED BY <1>1, <2>2 DEF TypeOK, QuiesceBegin, Requests
<1>2. CASE QuiesceStop(h)
  <2>1. "pausing" \in QuiescePc
    BY DEF QuiescePc
  <2>2. quiesce' \in [Handles -> QuiesceState]
    <3>1. \/ quiesce' = [quiesce EXCEPT ![h].pc = "pausing"]
          \/ quiesce' = [quiesce EXCEPT ![h] = NoQuiesce]
      BY <1>2 DEF QuiesceStop, QuiesceSet
    <3> QED BY <3>1, <2>1, QuiesceOps DEF TypeOK
  <2>3. shim' \in [Shims -> {"unborn", "live", "frozen", "zombie", "dead"}]
    BY <1>2 DEF TypeOK, QuiesceStop
  <2> QED BY <1>2, <2>2, <2>3 DEF TypeOK, QuiesceStop
<1>3. ASSUME NEW s \in {"Running", "Paused"}, QuiesceWrites(h, s)
      PROVE  row' \in BoxState \cup {Absent} /\ mem' \in [Handles -> BoxState]
  <2>1. ForceStatus(mem[h], s) \in BoxState
    BY <1>0
  <2> QED BY <1>3, <2>1, SaveTyped DEF TypeOK, QuiesceWrites
<1>4. CASE QuiescePause(h)
  <2>1. "paused" \in QuiescePc
    BY DEF QuiescePc
  <2>2. quiesce' \in [Handles -> QuiesceState]
    BY <1>4, <2>1, QuiesceOps DEF TypeOK, QuiescePause, QuiesceSet
  <2> QED BY <1>3, <1>4, <2>2 DEF TypeOK, QuiescePause, QuiesceWrites
<1>5. CASE QuiesceCont(h)
  <2>1. "probing" \in QuiescePc
    BY DEF QuiescePc
  <2>2. quiesce' \in [Handles -> QuiesceState]
    BY <1>5, <2>1, QuiesceOps DEF TypeOK, QuiesceCont, QuiesceSet
  <2>3. shim' \in [Shims -> {"unborn", "live", "frozen", "zombie", "dead"}]
    BY <1>5 DEF TypeOK, QuiesceCont, Continued
  <2> QED BY <1>5, <2>2, <2>3 DEF TypeOK, QuiesceCont
<1>6. CASE QuiesceProbe(h)
  <2>1. quiesce[h] \in QuiesceState /\ "resuming" \in QuiescePc
    BY DEF TypeOK, QuiescePc
  <2>2. [quiesce[h] EXCEPT !.pc = "resuming"] \in QuiesceState
    BY <2>1 DEF QuiesceState
  <2>3. quiesce' \in [Handles -> QuiesceState]
    BY <1>6, <2>2, IdleTyped DEF TypeOK, QuiesceProbe
  <2> QED BY <1>6, <2>3 DEF TypeOK, QuiesceProbe
<1>7. CASE QuiesceResume(h)
  <2>1. quiesce' \in [Handles -> QuiesceState]
    BY <1>7, QuiesceOps DEF TypeOK, QuiesceResume
  <2> QED BY <1>3, <1>7, <2>1 DEF TypeOK, QuiesceResume, QuiesceWrites
<1>8. CASE QuiesceAbandon(h)
  BY <1>8, QuiesceOps DEF TypeOK, QuiesceAbandon
<1> QED BY <1>1, <1>2, <1>4, <1>5, <1>6, <1>7, <1>8 DEF QuiesceStep

(* Type correctness of the shim's own steps. *)
LEMMA ShimTyped ==
  ASSUME TypeOK, NEW p \in Shims, ShimStep(p)
  PROVE  TypeOK'
<1> USE DEF diskVars, procVars, hostVars, handleVars, taskVars
<1>1. CASE MainExits(p)
  BY <1>1 DEF TypeOK, MainExits, Exit, ShimOrNone
<1>2. CASE ShimDies(p)
  BY <1>2 DEF TypeOK, ShimDies, Exit, ShimOrNone
<1>3. CASE Watchdog(p)
  BY <1>3 DEF TypeOK, Watchdog, Exit, MayRecord, ShimOrNone
<1> QED BY <1>1, <1>2, <1>3 DEF ShimStep

(* Type correctness of remove_box, of the runtime's shutdown, of crashes
   and of recovery. *)
LEMMA HostTyped ==
  ASSUME TypeOK, HostStep
  PROVE  TypeOK'
<1> USE DEF diskVars, procVars, hostVars, handleVars, taskVars
<1>1. CASE Provision
  BY <1>1, BoxStateOps DEF TypeOK, Provision
<1>2. ASSUME NEW force \in BOOLEAN, Remove(force)
      PROVE  TypeOK'
  BY <1>2, RemoveCheckedTyped DEF TypeOK, Remove
<1>3. CASE RemoveCommit
  BY <1>3 DEF TypeOK, RemoveCommit, ShimOrNone
<1>4. CASE RemoveInMemory
  BY <1>4 DEF TypeOK, RemoveInMemory, ShimOrNone
<1>5. CASE Shutdown
  BY <1>5 DEF TypeOK, Shutdown, IsHeld
<1>6. CASE Crash
  BY <1>6, ProcessGoneTyped DEF TypeOK, Crash
<1>7. CASE Reboot
  BY <1>7, ProcessGoneTyped DEF TypeOK, Reboot
<1>8. CASE RuntimeDrop
  <2>1. /\ record' \in ShimOrNone /\ pidfile' \in ShimOrNone
        /\ shim' \in [Shims -> {"unborn", "live", "frozen", "zombie", "dead"}]
    BY <1>8 DEF TypeOK, RuntimeDrop, ShimOrNone, Alive
  <2>2. row' \in BoxState \cup {Absent}
    <3>1. ASSUME row # Absent
          PROVE  MarkStop([row EXCEPT !.exit = IF record' = NoShim THEN @
                                               ELSE record']) \in BoxState
      <4>1. [row EXCEPT !.exit = IF record' = NoShim THEN @ ELSE record']
              \in BoxState
        BY <3>1, <2>1 DEF TypeOK, BoxState
      <4> QED BY <4>1, BoxStateOps
    <3> QED BY <1>8, <3>1 DEF TypeOK, RuntimeDrop
  <2> QED BY <1>8, <2>1, <2>2, ProcessGoneTyped DEF TypeOK, RuntimeDrop
<1>9. CASE Recover
  <2> DEFINE b == IF runtime = "rebooted" /\ row.status = "Running"
                  THEN ResetForReboot(row) ELSE row
  <2>1. RecoveredShim \in ShimOrNone
    BY DEF TypeOK, RecoveredShim, ShimOrNone
  <2>2. row' \in BoxState \cup {Absent}
    <3>1. CASE row = Absent \/ RemoveOnStop
      BY <1>9, <3>1 DEF Recover
    <3>2. CASE ~(row = Absent \/ RemoveOnStop)
      <4>1. b \in BoxState
        BY <3>2, BoxStateOps DEF TypeOK
      <4>2. WithoutShim(b) \in BoxState
        BY <4>1, BoxStateOps, RecordedTyped DEF WithoutShim
      <4>3. AdoptRecoveredShim(b, RecoveredShim) \in BoxState
        BY <4>1, <2>1, BoxStateOps
      <4>4. row' = AdoptRecoveredShim(b, RecoveredShim) \/ row' = WithoutShim(b)
        BY <1>9, <3>2 DEF Recover
      <4> QED BY <4>2, <4>3, <4>4
    <3> QED BY <3>1, <3>2
  <2> QED BY <1>9, <2>2 DEF TypeOK, Recover, ShimOrNone
<1> QED BY <1>1, <1>2, <1>3, <1>4, <1>5, <1>6, <1>7, <1>8, <1>9 DEF HostStep

(* Type correctness of every step. *)
LEMMA NextTyped == IInv /\ [Next]_vars => TypeOK'
<1> SUFFICES ASSUME IInv, [Next]_vars PROVE TypeOK'
  OBVIOUS
<1>1. ASSUME NEW h \in Handles, HandleStep(h)
      PROVE  TypeOK'
  BY <1>1, HandoutTyped, CallTyped, BootTyped, StopTyped, WatchTyped,
     QuiesceTyped DEF IInv, HandleStep
<1>2. ASSUME NEW p \in Shims, ShimStep(p)
      PROVE  TypeOK'
  BY <1>2, ShimTyped DEF IInv
<1>3. CASE HostStep
  BY <1>3, HostTyped DEF IInv
<1>4. CASE UNCHANGED vars
  BY <1>4 DEF IInv, TypeOK, vars, diskVars, procVars, hostVars, handleVars,
          taskVars
<1> QED BY <1>1, <1>2, <1>3, <1>4 DEF Next

-----------------------------------------------------------------------------
(* The inductive invariant holds initially. *)
LEMMA InitInductive == Init => IInv
<1>1. Init => BootNamesShim /\ AdopterMarked /\ CellsAgree
  BY DEF Init, BootNamesShim, AdopterMarked, CellsAgree, Connecting, NoBoot
<1>2. Init => UnbornIsNobodys /\ OnlySpawnerStarts
  BY DEF Init, UnbornIsNobodys, OnlySpawnerStarts
<1> QED BY <1>1, <1>2, InitTyped DEF IInv

(* Most actions leave alone all that the parts of IInv beyond TypeOK read,   *)
(* or only let shims go.                                                     *)
Rest == /\ BootNamesShim /\ AdopterMarked /\ CellsAgree /\ UnbornIsNobodys
        /\ OnlySpawnerStarts

(* A step that touches no boot, cell or spawner keeps the rest of IInv as
   long as no shim is unborn again. *)
LEMMA ShimsOnlyGo ==
  ASSUME IInv, UNCHANGED <<boot, cstart, live, spawner>>,
         \A p \in Shims : shim'[p] = "unborn" => shim[p] = "unborn"
  PROVE  Rest'
BY DEF IInv, Rest, BootNamesShim, AdopterMarked, CellsAgree, UnbornIsNobodys,
       OnlySpawnerStarts, Connecting

(* A handle that stops booting, for whatever reason, claims nothing.         *)
LEMMA BootGivesUp ==
  ASSUME IInv, NEW h \in Handles, UNCHANGED <<cstart, live, spawner, shim>>,
         BootFails(h)
  PROVE  Rest'
<1>1. \A g \in Handles : boot'[g] = IF g = h THEN NoBoot ELSE boot[g]
  BY DEF IInv, TypeOK, BootFails, BootEnds
<1> QED BY <1>1 DEF IInv, Rest, BootNamesShim, AdopterMarked, CellsAgree,
           UnbornIsNobodys, OnlySpawnerStarts, Connecting, NoBoot

(* create, provision_box and get claim no shim; an idle handle that is
   dropped lets its own go. *)
LEMMA HandoutRest ==
  ASSUME IInv, NEW h \in Handles,
         Create(h) \/ Provision \/ GetRead(h) \/ GetCreate(h) \/ DropHandle(h)
  PROVE  Rest'
<1> USE DEF procVars, handleVars, taskVars
<1>1. CASE Create(h) \/ Provision \/ GetRead(h) \/ GetCreate(h)
  <2>1. UNCHANGED <<boot, cstart, live, spawner, shim>>
    BY <1>1 DEF Create, Provision, GetRead, GetCreate
  <2> QED BY <2>1, ShimsOnlyGo
<1>2. CASE DropHandle(h)
  BY <1>2 DEF IInv, TypeOK, Rest, BootNamesShim, AdopterMarked, CellsAgree,
          UnbornIsNobodys, OnlySpawnerStarts, Connecting, DropHandle, Idle
<1> QED BY <1>1, <1>2

(* Calls and container starts move only the container-start cell, and
   never back from done. *)
LEMMA CallRest ==
  ASSUME IInv, NEW h \in Handles,
         (\E r \in Requests : Request(h, r)) \/ StartStep(h) \/ QuiesceBegin(h)
  PROVE  Rest'
<1>1. UNCHANGED <<boot, live, spawner, shim>>
  BY DEF Request, StartStep, ContainerStart, ContainerStartFails, QuiesceBegin,
         procVars, handleVars, taskVars
<1>2. \A g \in Handles : /\ cstart[g] = "done" => cstart'[g] = "done"
                         /\ cstart'[g] = "wanted" =>
                              cstart[g] = "wanted" \/ live[g] # NoShim
  BY DEF IInv, TypeOK, Request, StartStep, ContainerStart, ContainerStartFails,
         QuiesceBegin, FailedStart, CellEmpty
<1> QED BY <1>1, <1>2 DEF IInv, Rest, BootNamesShim, AdopterMarked,
           CellsAgree, UnbornIsNobodys, OnlySpawnerStarts, Connecting

(* init_live_state: an adopter fills the container-start cell before it
   publishes, and a fresh boot has spawned the shim it publishes. *)
LEMMA BootRest ==
  ASSUME IInv, NEW h \in Handles, BootStep(h)
  PROVE  Rest'
<1> USE DEF procVars, handleVars, taskVars
<1>a. ASSUME UNCHANGED <<cstart, live, spawner, shim>>, NEW pc \in BootPc,
             pc \in {"locking", "spawn", "failing"}, live[h] = NoShim,
             boot'[h].pc = pc,
             \A g \in Handles \ {h} : boot'[g] = boot[g]
      PROVE  Rest'
  BY <1>a DEF IInv, Rest, BootNamesShim, AdopterMarked, CellsAgree,
          UnbornIsNobodys, OnlySpawnerStarts, Connecting
<1>1. ASSUME NEW r \in Requests, BootRead(h, r)
      PROVE  Rest'
  <2>1. UNCHANGED <<cstart, live, spawner, shim>> /\ live[h] = NoShim
    BY <1>1 DEF BootRead, CellEmpty
  <2>2. CASE UNCHANGED boot
    BY <2>1, <2>2, ShimsOnlyGo
  <2>3. CASE ~UNCHANGED boot
    <3>1. boot'[h].pc = "locking" /\ \A g \in Handles \ {h} : boot'[g] = boot[g]
      BY <1>1, <2>3 DEF BootRead, IInv, TypeOK
    <3> QED BY <2>1, <3>1, <1>a DEF BootPc
  <2> QED BY <2>2, <2>3
<1>2. CASE BootLock(h)
  <2>1. UNCHANGED <<cstart, live, spawner, shim>>
    BY <1>2 DEF BootLock
  <2>2. CASE BootFails(h)
    BY <2>1, <2>2, BootGivesUp
  <2>3. CASE ~BootFails(h)
    <3>1. /\ boot'[h].pc \in {"attach", "spawn", "failing"}
          /\ boot'[h].pc = "attach" => boot[h].plan = "adopt"
          /\ boot'[h].plan = boot[h].plan /\ live[h] = NoShim
          /\ \A g \in Handles \ {h} : boot'[g] = boot[g]
      BY <1>2, <2>3 DEF BootLock, BootSet, IInv, TypeOK, CellsAgree, BootState
    <3> QED BY <2>1, <3>1 DEF IInv, Rest, BootNamesShim, AdopterMarked,
               CellsAgree, UnbornIsNobodys, OnlySpawnerStarts, Connecting
  <2> QED BY <2>2, <2>3
<1>3. CASE BootAttach(h)
  <2>1. UNCHANGED <<cstart, live, spawner, shim>>
    BY <1>3 DEF BootAttach
  <2>2. CASE ~Alive(pidfile)
    BY <1>3, <2>1, <2>2, BootGivesUp DEF BootAttach
  <2>3. CASE Alive(pidfile)
    <3>1. /\ boot'[h].pc = "connect" /\ boot'[h].shim \in Shims
          /\ boot'[h].plan = "adopt" /\ live[h] = NoShim
          /\ \A g \in Handles \ {h} : boot'[g] = boot[g]
      BY <1>3, <2>3 DEF BootAttach, IInv, TypeOK, CellsAgree, BootState,
              BootNamesShim, Alive, ShimOrNone
    <3> QED BY <2>1, <3>1 DEF IInv, Rest, BootNamesShim, AdopterMarked,
               CellsAgree, UnbornIsNobodys, OnlySpawnerStarts, Connecting
  <2> QED BY <2>2, <2>3
<1>4. CASE BootSpawn(h)
  <2>1. PICK p \in Shims :
          /\ shim[p] = "unborn"
          /\ shim' = [shim EXCEPT ![p] = "live"]
          /\ spawner' = [spawner EXCEPT ![p] = h]
          /\ boot' = [boot EXCEPT ![h].pc = "connect", ![h].shim = p]
    BY <1>4 DEF BootSpawn
  <2>2. UNCHANGED <<cstart, live>> /\ boot[h].pc = "spawn"
    BY <1>4 DEF BootSpawn
  <2>3. /\ boot'[h].pc = "connect" /\ boot'[h].shim = p
        /\ \A g \in Handles \ {h} : boot'[g] = boot[g]
    BY <2>1 DEF IInv, TypeOK, BootState
  <2>4. spawner[p] = NoHandle /\ live[h] = NoShim
    BY <2>1, <2>2 DEF IInv, UnbornIsNobodys, CellsAgree
  <2>5. /\ spawner'[p] = h
        /\ \A q \in Shims : spawner[q] # NoHandle => spawner'[q] = spawner[q]
        /\ \A q \in Shims : shim'[q] = "unborn" => q # p /\ shim[q] = "unborn"
        /\ \A q \in Shims : q # p => spawner'[q] = spawner[q]
    BY <2>1, <2>4 DEF IInv, TypeOK
  <2>6. BootNamesShim'
    BY <2>3, <2>5, ConstantsAssumption DEF IInv, BootNamesShim, Connecting
  <2>7. AdopterMarked' /\ CellsAgree'
    BY <2>2, <2>3, <2>4 DEF IInv, AdopterMarked, CellsAgree
  <2>8. UnbornIsNobodys'
    BY <2>5 DEF IInv, UnbornIsNobodys
  <2>9. OnlySpawnerStarts'
    BY <2>2, <2>5, ConstantsAssumption
       DEF IInv, OnlySpawnerStarts, TypeOK, ShimOrNone
  <2> QED BY <2>6, <2>7, <2>8, <2>9 DEF Rest
<1>5. CASE BootConnect(h)
  <2>1. UNCHANGED <<live, spawner, shim>> /\ boot[h].pc = "connect"
    BY <1>5 DEF BootConnect
  <2>2. /\ boot'[h].pc = "publish" /\ boot'[h].shim = boot[h].shim
        /\ boot'[h].plan = boot[h].plan
        /\ \A g \in Handles \ {h} : boot'[g] = boot[g]
    BY <1>5 DEF BootConnect, BootSet, IInv, TypeOK, BootState
  <2>3. /\ boot[h].plan = "adopt" => cstart'[h] = "done"
        /\ cstart'[h] \in {cstart[h], "done"}
        /\ \A g \in Handles \ {h} : cstart'[g] = cstart[g]
    BY <1>5 DEF BootConnect, StartCell, IInv, TypeOK
  <2> QED BY <2>1, <2>2, <2>3 DEF IInv, Rest, BootNamesShim, AdopterMarked,
             CellsAgree, UnbornIsNobodys, OnlySpawnerStarts, Connecting
<1>6. CASE BootFail(h)
  <2>1. UNCHANGED <<cstart, live, spawner>> /\ boot[h].pc # "idle"
    BY <1>6 DEF BootFail
  <2>2. CASE boot[h].plan = "adopt"
    BY <1>6, <2>1, <2>2, BootGivesUp DEF BootFail
  <2>3. CASE boot[h].plan # "adopt"
    <3>1. \A p \in Shims : shim'[p] = "unborn" => shim[p] = "unborn"
      BY <1>6, <2>3 DEF BootFail, Teardown, IInv, TypeOK
    <3>2. boot'[h].pc = "failing" /\ \A g \in Handles \ {h} : boot'[g] = boot[g]
      BY <1>6, <2>3 DEF BootFail, BootSet, IInv, TypeOK, BootState
    <3> QED BY <2>1, <3>1, <3>2 DEF IInv, Rest, BootNamesShim, AdopterMarked,
               CellsAgree, UnbornIsNobodys, OnlySpawnerStarts, Connecting
  <2> QED BY <2>2, <2>3
<1>7. CASE BootGuard(h)
  BY <1>7, BootGivesUp DEF BootGuard
<1>8. CASE BootPublish(h)
  <2>1. UNCHANGED <<cstart, live, spawner, shim>> /\ boot[h].pc = "publish"
    BY <1>8 DEF BootPublish
  <2>2. CASE BootFails(h)
    BY <2>1, <2>2, BootGivesUp
  <2>3. CASE ~BootFails(h)
    <3>1. BootSet(h, "failing") \/ BootSet(h, "finish")
      BY <1>8, <2>3 DEF BootPublish
    <3>2. /\ boot'[h].pc \in {"failing", "finish"}
          /\ boot'[h].shim = boot[h].shim /\ boot'[h].plan = boot[h].plan
          /\ \A g \in Handles \ {h} : boot'[g] = boot[g]
      BY <3>1 DEF BootSet, IInv, TypeOK, BootState
    <3> QED BY <2>1, <3>2 DEF IInv, Rest, BootNamesShim, AdopterMarked,
               CellsAgree, UnbornIsNobodys, OnlySpawnerStarts, Connecting
  <2> QED BY <2>2, <2>3
<1>9. CASE BootFinish(h)
  <2>1. UNCHANGED <<spawner, shim>> /\ Connecting(h) /\ boot[h].pc = "finish"
    BY <1>9 DEF BootFinish, Connecting
  <2>2. \A g \in Handles : boot'[g] = IF g = h THEN NoBoot ELSE boot[g]
    BY <1>9 DEF BootFinish, BootSucceeds, BootEnds, IInv, TypeOK
  <2>3. /\ live'[h] = boot[h].shim /\ boot[h].shim \in Shims
        /\ \A g \in Handles \ {h} : live'[g] = live[g]
    BY <1>9, <2>1 DEF BootFinish, IInv, TypeOK, BootNamesShim
  <2>4. /\ cstart'[h] = "done" \/ cstart[h] # "done"
        /\ \A g \in Handles \ {h} : cstart'[g] = cstart[g]
    BY <1>9 DEF BootFinish, IInv, TypeOK
  <2> QED BY <2>1, <2>2, <2>3, <2>4, ConstantsAssumption
          DEF IInv, Rest, BootNamesShim, AdopterMarked, CellsAgree,
              UnbornIsNobodys, OnlySpawnerStarts, Connecting, NoBoot
<1> QED BY <1>1, <1>2, <1>3, <1>4, <1>5, <1>6, <1>7, <1>8, <1>9 DEF BootStep

(* A teardown kills at most the shim it is given.                            *)
LEMMA TeardownOnlyGoes ==
  ASSUME TypeOK, NEW p \in ShimOrNone, Teardown(p)
  PROVE  \A q \in Shims : shim'[q] = "unborn" => shim[q] = "unborn"
BY DEF TypeOK, Teardown

(* Nor does the first half of remove_box bring a shim back. *)
LEMMA RemoveOnlyGoes ==
  ASSUME TypeOK, row # Absent, NEW force, RemoveChecked(force)
  PROVE  \A q \in Shims : shim'[q] = "unborn" => shim[q] = "unborn"
<1>1. row.pid \in ShimOrNone
  BY BoxStateOps DEF TypeOK
<1> QED BY <1>1, TeardownOnlyGoes DEF RemoveChecked

(* stop() leaves cells and spawners alone. *)
LEMMA StopRest ==
  ASSUME IInv, NEW h \in Handles,
         StopBegin(h) \/ StopStep(h) \/ StopAbandon(h)
  PROVE  Rest'
<1> USE DEF procVars, handleVars, taskVars
<1>1. UNCHANGED <<boot, cstart, live, spawner>>
  BY DEF StopBegin, StopStep, StopAbandon, StopAttach, StopKill, StopClean,
         StopRecord, StopFinish, StopRemove
<1>2. CASE StopKill(h)
  <2>1. live[h] \in ShimOrNone /\ TypeOK
    BY DEF IInv, TypeOK
  <2> QED BY <1>1, <1>2, <2>1, TeardownOnlyGoes, ShimsOnlyGo DEF StopKill
<1>3. CASE StopRemove(h)
  BY <1>1, <1>3, RemoveOnlyGoes, ShimsOnlyGo DEF IInv, StopRemove
<1>4. CASE UNCHANGED shim
  BY <1>1, <1>4, ShimsOnlyGo
<1> QED BY <1>2, <1>3, <1>4 DEF StopBegin, StopStep, StopAbandon, StopAttach,
           StopClean, StopRecord, StopFinish

(* So does the watcher ... *)
LEMMA WatchRest ==
  ASSUME IInv, NEW h \in Handles, WatchStep(h)
  PROVE  Rest'
<1> USE DEF procVars, handleVars, taskVars
<1>1. UNCHANGED <<boot, cstart, live, spawner>>
  BY DEF WatchStep, WatchStandDown, WatchExit, WatchRecord, WatchSave,
         WatchTail, WatchRemove
<1>2. CASE WatchExit(h)
  <2>1. \A p \in Shims : shim'[p] = "unborn" => shim[p] = "unborn"
    BY <1>2 DEF WatchExit, IInv, TypeOK
  <2> QED BY <1>1, <2>1, ShimsOnlyGo
<1>3. CASE WatchRemove(h)
  BY <1>1, <1>3, RemoveOnlyGoes, ShimsOnlyGo DEF IInv, WatchRemove
<1>4. CASE UNCHANGED shim
  BY <1>1, <1>4, ShimsOnlyGo
<1> QED BY <1>2, <1>3, <1>4 DEF WatchStep, WatchStandDown, WatchRecord,
           WatchSave, WatchTail

(* ... the quiesce bracket ... *)
LEMMA QuiesceRest ==
  ASSUME IInv, NEW h \in Handles, QuiesceStep(h) \/ QuiesceAbandon(h)
  PROVE  Rest'
<1>1. UNCHANGED <<boot, cstart, live, spawner>>
  BY DEF QuiesceStep, QuiesceStop, QuiescePause, QuiesceCont,
     QuiesceProbe, QuiesceResume, QuiesceSet, QuiesceWrites, QuiesceAbandon, procVars,
         handleVars, taskVars
<1>2. \A p \in Shims : shim'[p] = "unborn" => shim[p] = "unborn"
  BY DEF QuiesceStep, QuiesceStop, QuiescePause, QuiesceCont,
     QuiesceProbe, QuiesceResume, QuiesceSet, QuiesceWrites, QuiesceAbandon, Continued,
         procVars, IInv, TypeOK
<1> QED BY <1>1, <1>2, ShimsOnlyGo

(* ... and a shim that ends. *)
LEMMA ShimRest ==
  ASSUME IInv, NEW p \in Shims, ShimStep(p)
  PROVE  Rest'
<1>1. UNCHANGED <<boot, cstart, live, spawner>>
  BY DEF ShimStep, MainExits, ShimDies, Watchdog, handleVars, taskVars
<1>2. \A q \in Shims : shim'[q] = "unborn" => shim[q] = "unborn"
  BY DEF ShimStep, MainExits, ShimDies, Watchdog, Exit, IInv, TypeOK
<1> QED BY <1>1, <1>2, ShimsOnlyGo

(* With the host process gone no handle claims a shim.                       *)
LEMMA HostRest ==
  ASSUME IInv, HostStep
  PROVE  Rest'
<1> USE DEF procVars, handleVars, taskVars
<1>1. CASE ProcessGone
  BY <1>1 DEF ProcessGone, Rest, BootNamesShim, AdopterMarked, CellsAgree,
          UnbornIsNobodys, OnlySpawnerStarts, Connecting, NoBoot
<1>2. CASE ~ProcessGone
  <2>1. UNCHANGED <<boot, cstart, live, spawner>>
    BY <1>2 DEF HostStep, Provision, Remove, RemoveCommit, RemoveInMemory,
            Shutdown, Crash, Reboot, RuntimeDrop, Recover
  <2>2. \A p \in Shims : shim'[p] = "unborn" => shim[p] = "unborn"
    <3>1. ASSUME NEW force \in BOOLEAN, Remove(force)
          PROVE  \A p \in Shims : shim'[p] = "unborn" => shim[p] = "unborn"
      BY <3>1, RemoveOnlyGoes DEF IInv, Remove
    <3>2. CASE UNCHANGED shim
      BY <3>2
    <3> QED BY <1>2, <3>1, <3>2 DEF HostStep, Provision, RemoveCommit,
               RemoveInMemory, Shutdown, Crash, Reboot, RuntimeDrop, Recover
  <2> QED BY <2>1, <2>2, ShimsOnlyGo
<1> QED BY <1>1, <1>2

(* Every step keeps the inductive invariant. *)
LEMMA NextInductive == IInv /\ [Next]_vars => IInv'
<1> SUFFICES ASSUME IInv, [Next]_vars PROVE IInv'
  OBVIOUS
<1>1. TypeOK'
  BY NextTyped
<1>2. Rest'
  <2>1. ASSUME NEW h \in Handles, HandleStep(h)
        PROVE  Rest'
    BY <2>1, HandoutRest, CallRest, BootRest, StopRest, WatchRest, QuiesceRest
       DEF HandleStep
  <2>2. ASSUME NEW p \in Shims, ShimStep(p)
        PROVE  Rest'
    BY <2>2, ShimRest
  <2>3. CASE HostStep
    BY <2>3, HostRest
  <2>4. CASE UNCHANGED vars
    BY <2>4, ShimsOnlyGo DEF vars, procVars, handleVars, taskVars
  <2> QED BY <2>1, <2>2, <2>3, <2>4 DEF Next
<1> QED BY <1>1, <1>2 DEF IInv, Rest

(* The inductive invariant holds of every behaviour, for any number of
   handles and shims, any clients and any faults. *)
THEOREM Invariance == Spec => []IInv
BY InitInductive, NextInductive, PTL DEF Spec

(* Every state has its types: no operation of the box, in whatever order,
   leaves a status, a pid or a cell the code does not know. *)
THEOREM TypeCorrect == Spec => []TypeOK
<1>1. IInv => TypeOK
  BY DEF IInv
<1> QED BY <1>1, Invariance, PTL

(* A handle that may still send Container.Start to a VM has spawned it,
   in every behaviour: init_live_state marks the container-start cell of
   every adopter before it publishes. *)
THEOREM SpawnerStarts == Spec => []OnlySpawnerStarts
<1>1. IInv => OnlySpawnerStarts
  BY DEF IInv
<1> QED BY <1>1, Invariance, PTL

-----------------------------------------------------------------------------
(* RemovedForever needs no invariant: every write to the row but Create's and *)
(* Provision's finds a row there.                                            *)
LEMMA RowStaysAbsent ==
  ASSUME created, row = Absent, Next
  PROVE  row' = Absent
<1> USE DEF diskVars, vars
<1>1. ASSUME NEW h \in Handles, HandleStep(h)
      PROVE  row' = Absent
  <2>1. CASE Create(h) \/ GetRead(h) \/ GetCreate(h) \/ DropHandle(h)
             \/ (\E r \in Requests : Request(h, r)) \/ StartStep(h)
    BY <2>1 DEF Create, GetRead, GetCreate, DropHandle, Request, StartStep,
            ContainerStart, ContainerStartFails
  <2>2. CASE BootStep(h)
    BY <2>2 DEF BootStep, BootRead, BootLock, BootAttach, BootSpawn,
            BootConnect, BootFail, BootGuard, BootPublish, BootFinish
  <2>3. CASE StopBegin(h) \/ StopStep(h) \/ StopAbandon(h)
    BY <2>3 DEF StopBegin, StopStep, StopAbandon, StopAttach, StopKill,
            StopClean, StopRecord, StopFinish, StopRemove, Save
  <2>4. CASE WatchStep(h)
    BY <2>4 DEF WatchStep, WatchStandDown, WatchExit, WatchRecord, WatchSave,
            WatchTail, WatchRemove, Save
  <2>5. CASE QuiesceBegin(h) \/ QuiesceStep(h) \/ QuiesceAbandon(h)
    BY <2>5 DEF QuiesceBegin, QuiesceStep, QuiesceAbandon, QuiesceStop, QuiescePause,
            QuiesceCont, QuiesceProbe, QuiesceResume, QuiesceSet, QuiesceWrites, Save
  <2> QED BY <1>1, <2>1, <2>2, <2>3, <2>4, <2>5 DEF HandleStep
<1>2. ASSUME NEW p \in Shims, ShimStep(p)
      PROVE  row' = Absent
  BY <1>2 DEF ShimStep, MainExits, ShimDies, Watchdog
<1>3. CASE HostStep
  BY <1>3 DEF HostStep, Provision, Remove, RemoveCommit, RemoveInMemory,
          Shutdown, Crash, Reboot, RuntimeDrop, Recover
<1> QED BY <1>1, <1>2, <1>3 DEF Next

(* A removed box does not come back, whoever outlives remove_box. *)
THEOREM RemovedStays == Spec => RemovedForever
<1>1. [Next]_vars => (created /\ row = Absent => row' = Absent)
  BY RowStaysAbsent DEF vars, diskVars
<1> QED BY <1>1, PTL DEF Spec, RemovedForever

-----------------------------------------------------------------------------
(* PidIffActive, for clients that take no snapshot. Every copy of the state  *)
(* must have the property, as any of them may be the next one written: those *)
(* of the handles, of a get() between its halves and of a watcher.           *)
PidOfRunning(b) == b.status # "Paused" /\ (b.pid # NoShim <=> b.status = "Running")
CopiesAgree ==
  /\ row # Absent => PidOfRunning(row)
  /\ \A h \in Handles : /\ PidOfRunning(mem[h])
                        /\ getter[h] # Absent => PidOfRunning(getter[h])
                        /\ PidOfRunning(watch[h].snapshot)
NoBracket == \A h \in Handles : /\ quiesce[h].pc = "idle"
                                /\ "quiesce" \notin gate[h]
                                /\ boot[h].by # "quiesce"

(* mark_stop, mark_failed and the reset after a reboot drop the pid with
   the active status, adopting and publishing set both. *)
LEMMA PidOps ==
  ASSUME NEW b \in BoxState
  PROVE  /\ PidOfRunning(MarkStop(b)) /\ PidOfRunning(MarkFailed(b))
         /\ PidOfRunning(b) => PidOfRunning(ResetForReboot(b))
         /\ \A p \in Shims :
              /\ PidOfRunning(AdoptRecoveredShim(b, p))
              /\ \A a \in BOOLEAN : PidOfRunning(PublishRunning(b, p, a))
         /\ \A p \in ShimOrNone :
              PidOfRunning(b) => PidOfRunning([b EXCEPT !.exit = p])
BY ConstantsAssumption
   DEF PidOfRunning, BoxState, MarkStop, MarkFailed, ResetForReboot,
       AdoptRecoveredShim, PublishRunning, IsActive

(* record_main_command_exit is a mark_stop. *)
LEMMA RecordedPid ==
  ASSUME TypeOK, NEW b \in BoxState
  PROVE  PidOfRunning(RecordMainCommandExit(b))
<1>1. [b EXCEPT !.exit = IF record = NoShim THEN @ ELSE record] \in BoxState
  BY DEF TypeOK, BoxState
<1> QED BY <1>1, PidOps DEF RecordMainCommandExit

(* Clients that take no snapshot open no quiesce bracket. *)
LEMMA BracketNeverOpens ==
  ASSUME "quiesce" \notin Calls, TypeOK, NoBracket, [Next]_vars
  PROVE  NoBracket'
<1> USE DEF procVars, hostVars, handleVars, taskVars
<1>0. CASE UNCHANGED <<quiesce, gate, boot>>
  BY <1>0 DEF NoBracket
<1>1. ASSUME NEW h \in Handles, HandleStep(h)
      PROVE  NoBracket'
  <2>1. CASE Create(h) \/ GetRead(h) \/ GetCreate(h) \/ DropHandle(h)
             \/ StartStep(h) \/ WatchStep(h)
    BY <2>1, <1>0 DEF Create, GetRead, GetCreate, DropHandle, StartStep,
       ContainerStart, ContainerStartFails, WatchStep, WatchStandDown,
       WatchExit, WatchRecord, WatchSave, WatchTail, WatchRemove
  <2>2. ASSUME NEW r \in Requests, Request(h, r)
        PROVE  NoBracket'
    BY <2>2 DEF NoBracket, Request, TypeOK
  <2>3. CASE BootStep(h)
    <3>1. /\ quiesce' = quiesce
          /\ \A g \in Handles : /\ "quiesce" \notin gate'[g]
                                /\ boot'[g].by # "quiesce"
      <4>1. CASE BootSucceeds(h) \/ BootFails(h)
        BY <4>1 DEF NoBracket, TypeOK, BootSucceeds, BootFails, BootEnds,
                Served, NoBoot
      <4>2. CASE ~(BootSucceeds(h) \/ BootFails(h))
        <5>1. UNCHANGED quiesce
          BY <2>3, <4>2 DEF BootStep, BootRead, BootLock, BootAttach, BootSpawn,
             BootConnect, BootFail, BootGuard, BootPublish, BootFinish
        <5>2. \A g \in Handles : "quiesce" \notin gate'[g]
          BY <2>3, <4>2 DEF NoBracket, TypeOK, BootStep, BootRead, BootLock,
             BootAttach, BootSpawn, BootConnect, BootFail, BootGuard,
             BootPublish, BootFinish
        <5>3. \A g \in Handles : boot'[g].by # "quiesce"
          <6>1. ASSUME NEW r \in Requests, BootRead(h, r)
                PROVE  \A g \in Handles : boot'[g].by # "quiesce"
            BY <6>1 DEF NoBracket, TypeOK, BootRead
          <6>2. CASE UNCHANGED boot
            BY <6>2 DEF NoBracket
          <6>3. ASSUME NEW pc, BootSet(h, pc)
                PROVE  \A g \in Handles : boot'[g].by # "quiesce"
            BY <6>3 DEF BootSet, NoBracket, TypeOK, BootState
          <6>4. ASSUME NEW p, boot' = [boot EXCEPT ![h].pc = "connect",
                                                   ![h].shim = p]
                PROVE  \A g \in Handles : boot'[g].by # "quiesce"
            BY <6>4 DEF NoBracket, TypeOK, BootState
          <6> QED BY <2>3, <4>2, <6>1, <6>2, <6>3, <6>4
                  DEF BootStep, BootLock, BootAttach, BootSpawn, BootConnect,
                      BootFail, BootGuard, BootPublish, BootFinish
        <5> QED BY <5>1, <5>2, <5>3
      <4> QED BY <4>1, <4>2
    <3> QED BY <3>1 DEF NoBracket
  <2>4. CASE StopBegin(h) \/ StopStep(h) \/ StopAbandon(h)
    <3>1. UNCHANGED <<quiesce, boot>>
      BY <2>4 DEF StopBegin, StopStep, StopAbandon, StopAttach, StopKill,
         StopClean, StopRecord, StopFinish, StopRemove
    <3>2. \A g \in Handles : "quiesce" \notin gate'[g]
      <4>1. CASE StopAttach(h)
        BY <4>1 DEF NoBracket, TypeOK, StopAttach
      <4>2. CASE UNCHANGED gate
        BY <4>2 DEF NoBracket
      <4> QED BY <2>4, <4>1, <4>2 DEF StopBegin, StopStep, StopAbandon,
              StopKill, StopClean, StopRecord, StopFinish, StopRemove
    <3> QED BY <3>1, <3>2 DEF NoBracket
  <2>5. CASE QuiesceBegin(h) \/ QuiesceStep(h) \/ QuiesceAbandon(h)
    BY <2>5 DEF NoBracket, QuiesceBegin, QuiesceStep, QuiesceStop, QuiescePause,
       QuiesceCont, QuiesceProbe, QuiesceResume, QuiesceSet, QuiesceWrites, QuiesceAbandon
  <2> QED BY <1>1, <2>1, <2>2, <2>3, <2>4, <2>5 DEF HandleStep
<1>2. ASSUME NEW p \in Shims, ShimStep(p)
      PROVE  NoBracket'
  BY <1>2, <1>0 DEF ShimStep, MainExits, ShimDies, Watchdog
<1>3. CASE HostStep
  <2>1. CASE ProcessGone
    BY <2>1 DEF ProcessGone, NoBracket, NoBoot, NoQuiesce
  <2>2. CASE ~ProcessGone
    BY <1>0, <1>3, <2>2 DEF HostStep, Provision, Remove, RemoveCommit,
       RemoveInMemory, Shutdown, Crash, Reboot, RuntimeDrop, Recover
  <2> QED BY <2>1, <2>2
<1>4. CASE UNCHANGED vars
  BY <1>4, <1>0 DEF vars
<1> QED BY <1>1, <1>2, <1>3, <1>4 DEF Next

(* A step that writes no state of its own.                                   *)
LEMMA CopiesKept ==
  ASSUME CopiesAgree, row' \in {row, Absent}, mem' = mem,
         \A h \in Handles :
           /\ getter'[h] \in {getter[h], row, Absent}
           /\ watch'[h].snapshot \in {watch[h].snapshot, NewState}
  PROVE  CopiesAgree'
BY DEF CopiesAgree, PidOfRunning, NewState

(* Arming a watcher and moving it on bring in no state but NewState. *)
LEMMA WatchKept ==
  ASSUME TypeOK, NEW h \in Handles,
         \/ \E b : watch' = Armed(h, b)
         \/ \E pc : WatchSet(h, pc)
         \/ watch' = watch
  PROVE  \A g \in Handles : watch'[g].snapshot \in {watch[g].snapshot, NewState}
<1> USE DEF TypeOK, WatchState
<1>1. ASSUME NEW b, watch' = Armed(h, b)
      PROVE  \A g \in Handles : watch'[g].snapshot \in {watch[g].snapshot, NewState}
  BY <1>1 DEF Armed, NoWatch
<1>2. ASSUME NEW pc, WatchSet(h, pc)
      PROVE  \A g \in Handles : watch'[g].snapshot \in {watch[g].snapshot, NewState}
  <2>1. \/ watch' = [watch EXCEPT ![h] = [NoWatch EXCEPT !.pc = pc]]
        \/ watch' = [watch EXCEPT ![h] = [@ EXCEPT !.pc = pc]]
    BY <1>2 DEF WatchSet
  <2>2. [NoWatch EXCEPT !.pc = pc].snapshot = NewState
    BY DEF NoWatch
  <2>3. [watch[h] EXCEPT !.pc = pc].snapshot = watch[h].snapshot
    OBVIOUS
  <2> QED BY <2>1, <2>2, <2>3
<1> QED BY <1>1, <1>2

(* CopiesAgree, of the next state. *)
LEMMA CopiesNext ==
  ASSUME row' # Absent => PidOfRunning(row'),
         \A g \in Handles :
           /\ PidOfRunning(mem'[g])
           /\ getter'[g] # Absent => PidOfRunning(getter'[g])
           /\ PidOfRunning(watch'[g].snapshot)
  PROVE  CopiesAgree'
BY DEF CopiesAgree, PidOfRunning

(* A step that writes state b to the row and to one handle, or to one of them. *)
LEMMA CopiesWritten ==
  ASSUME TypeOK, CopiesAgree, NEW h \in Handles, NEW b \in BoxState,
         PidOfRunning(b), row' \in {row, Absent, b},
         mem' = mem \/ mem' = [mem EXCEPT ![h] = b], getter' = getter,
         \A g \in Handles : watch'[g].snapshot \in {watch[g].snapshot, NewState, b}
  PROVE  CopiesAgree'
<1>1. row' # Absent => PidOfRunning(row')
  BY Zenon DEF CopiesAgree
<1>2. \A g \in Handles : mem'[g] \in {mem[g], b}
  BY DEF TypeOK
<1>3. PidOfRunning(NewState)
  BY DEF PidOfRunning, NewState
<1>4. \A g \in Handles : /\ PidOfRunning(mem'[g])
                         /\ getter'[g] # Absent => PidOfRunning(getter'[g])
                         /\ PidOfRunning(watch'[g].snapshot)
  BY <1>2, <1>3 DEF CopiesAgree
<1> QED BY <1>1, <1>4, CopiesNext

(* The first half of remove_box keeps the row's pid and status in step. *)
LEMMA RemoveKeepsPid ==
  ASSUME TypeOK, CopiesAgree, row # Absent, NEW force, RemoveChecked(force)
  PROVE  row' # Absent => PidOfRunning(row')
BY PidOps DEF TypeOK, CopiesAgree, RemoveChecked

(* create, provision_box and get hand out copies that agree. *)
LEMMA HandoutPid ==
  ASSUME TypeOK, CopiesAgree, NEW h \in Handles,
         Create(h) \/ Provision \/ GetRead(h) \/ GetCreate(h) \/ DropHandle(h)
  PROVE  CopiesAgree'
<1> USE DEF diskVars, hostVars, handleVars, taskVars
<1>1. CASE Create(h)
  <2>1. NewState \in BoxState /\ PidOfRunning(NewState)
    BY BoxStateOps DEF PidOfRunning, NewState
  <2>2. \A g \in Handles : watch'[g].snapshot \in {watch[g].snapshot, NewState}
    BY <1>1, WatchKept DEF Create, NewHandle
  <2> QED BY <1>1, <2>1, <2>2, CopiesWritten DEF Create, NewHandle
<1>2. CASE Provision
  <2>1. MarkStop(NewState) \in BoxState /\ PidOfRunning(MarkStop(NewState))
    BY BoxStateOps, PidOps
  <2> QED BY <1>2, <2>1, CopiesWritten DEF Provision
<1>3. CASE GetRead(h)
  BY <1>3, CopiesKept DEF GetRead, TypeOK
<1>4. CASE GetCreate(h)
  <2>1. getter[h] \in BoxState /\ PidOfRunning(getter[h])
    BY <1>4 DEF TypeOK, GetCreate, CopiesAgree
  <2>2. getter' = [getter EXCEPT ![h] = Absent] /\ row' = row
    BY <1>4 DEF GetCreate
  <2>3. CASE Cached = NoHandle
    <3>1. NewHandle(h, getter[h])
      BY <1>4, <2>3 DEF GetCreate
    <3>2. \A g \in Handles : watch'[g].snapshot \in {watch[g].snapshot, NewState}
      BY <3>1, WatchKept DEF NewHandle
    <3>3. mem' = [mem EXCEPT ![h] = getter[h]]
      BY <3>1 DEF NewHandle
    <3> QED BY <2>1, <2>2, <3>2, <3>3
            DEF CopiesAgree, TypeOK, PidOfRunning, NewState
  <2>4. CASE Cached # NoHandle
    <3>1. cache \in Handles
      BY <2>4 DEF Cached, TypeOK
    <3>2. watch' = Armed(cache, mem[cache]) /\ mem' = mem
      BY <1>4, <2>4 DEF GetCreate
    <3>3. \A g \in Handles : watch'[g].snapshot \in {watch[g].snapshot, NewState}
      BY <3>1, <3>2, WatchKept
    <3> QED BY <2>2, <3>2, <3>3, CopiesKept DEF TypeOK
  <2> QED BY <2>3, <2>4
<1>5. CASE DropHandle(h)
  BY <1>5, CopiesKept DEF DropHandle
<1> QED BY <1>1, <1>2, <1>3, <1>4, <1>5

(* So does a boot, which publishes or fails ... *)
LEMMA BootPid ==
  ASSUME TypeOK, CopiesAgree, NEW h \in Handles, BootStep(h)
  PROVE  CopiesAgree'
<1> USE DEF diskVars, hostVars, handleVars, taskVars
<1>1. CASE BootGuard(h)
  <2>1. CASE row = Absent
    BY <1>1, <2>1, CopiesKept DEF BootGuard
  <2>2. CASE row # Absent
    <3>1. MarkFailed(row) \in BoxState /\ PidOfRunning(MarkFailed(row))
      BY <2>2, BoxStateOps, PidOps DEF TypeOK
    <3> QED BY <1>1, <2>2, <3>1, CopiesWritten DEF BootGuard
  <2> QED BY <2>1, <2>2
<1>2. CASE BootPublish(h)
  <2> DEFINE b == PublishRunning(mem[h], pidfile, boot[h].plan = "adopt")
  <2>1. b \in BoxState
    BY BoxStateOps DEF TypeOK
  <2>2. CASE UNCHANGED <<row, mem, watch>>
    BY <1>2, <2>2, CopiesKept DEF BootPublish
  <2>3. CASE ~UNCHANGED <<row, mem, watch>>
    <3>1. pidfile \in Shims
      BY <1>2, <2>3 DEF BootPublish, TypeOK, ShimOrNone
    <3>2. PidOfRunning(b)
      BY <3>1, PidOps DEF TypeOK
    <3>3. row' \in {row, b} /\ mem' = [mem EXCEPT ![h] = b] /\ getter' = getter
      BY <1>2, <2>3 DEF BootPublish
    <3>4. \A g \in Handles : watch'[g].snapshot \in {watch[g].snapshot, NewState}
      BY <1>2, WatchKept DEF BootPublish
    <3> QED BY <2>1, <3>2, <3>3, <3>4, CopiesWritten
  <2> QED BY <2>2, <2>3
<1>3. CASE ~(BootGuard(h) \/ BootPublish(h))
  <2>1. UNCHANGED <<row, mem, getter, watch>>
    BY <1>3 DEF BootStep, BootRead, BootLock, BootAttach, BootSpawn,
       BootConnect, BootFail, BootFinish
  <2> QED BY <2>1, CopiesKept
<1> QED BY <1>1, <1>2, <1>3

(* ... a stop() ... *)
LEMMA StopPid ==
  ASSUME TypeOK, CopiesAgree, NEW h \in Handles,
         StopBegin(h) \/ StopStep(h) \/ StopAbandon(h)
  PROVE  CopiesAgree'
<1> USE DEF diskVars, hostVars, handleVars, taskVars
<1>1. CASE StopBegin(h)
  <2>1. \A g \in Handles : watch'[g].snapshot \in {watch[g].snapshot, NewState}
    BY <1>1 DEF StopBegin, TypeOK, WatchState, NoWatch
  <2> QED BY <1>1, <2>1, CopiesKept DEF StopBegin
<1>2. CASE StopRecord(h)
  <2> DEFINE b == IF mem[h].status = "Configured" THEN mem[h]
                  ELSE RecordMainCommandExit(mem[h])
  <2>1. b \in BoxState /\ PidOfRunning(b)
    BY RecordedTyped, RecordedPid DEF TypeOK, CopiesAgree
  <2> QED BY <1>2, <2>1, CopiesWritten DEF StopRecord, Save
<1>3. CASE StopRemove(h)
  <2>1. CASE row = Absent
    BY <1>3, <2>1, CopiesKept DEF StopRemove
  <2>2. CASE row # Absent
    <3>1. row' # Absent => PidOfRunning(row')
      BY <1>3, <2>2, RemoveKeepsPid DEF StopRemove
    <3> QED BY <1>3, <3>1 DEF StopRemove, CopiesAgree
  <2> QED BY <2>1, <2>2
<1>4. CASE StopAttach(h) \/ StopKill(h) \/ StopClean(h) \/ StopFinish(h)
           \/ StopAbandon(h)
  BY <1>4, CopiesKept DEF StopAttach, StopKill, StopClean, StopFinish, StopAbandon
<1> QED BY <1>1, <1>2, <1>3, <1>4 DEF StopStep

(* ... a watcher, whose snapshot is saved after it lost the lock ... *)
LEMMA WatchPid ==
  ASSUME TypeOK, CopiesAgree, NEW h \in Handles, WatchStep(h)
  PROVE  CopiesAgree'
<1> USE DEF diskVars, hostVars, handleVars, taskVars
<1>1. CASE WatchRecord(h)
  <2> DEFINE b == mem[h]
             fill == ~IsActive(b.status) /\ b.exit = NoShim /\ record # NoShim
             seen == IF fill THEN [b EXCEPT !.exit = record]
                     ELSE RecordMainCommandExit(b)
  <2>1. seen \in BoxState /\ PidOfRunning(seen)
    BY BoxStateOps, PidOps, RecordedTyped, RecordedPid DEF TypeOK, CopiesAgree
  <2>2. \A g \in Handles : watch'[g].snapshot \in {watch[g].snapshot, NewState, seen}
    <3>1. CASE WatchSet(h, "done")
      BY <3>1, WatchKept
    <3>2. CASE ~WatchSet(h, "done")
      <4>1. watch' = [watch EXCEPT ![h] = [pc |-> "save", pid |-> NoShim,
                                           snapshot |-> seen]]
        BY <1>1, <3>2 DEF WatchRecord
      <4> HIDE DEF seen
      <4> QED BY <4>1 DEF TypeOK
    <3> QED BY <3>1, <3>2
  <2>3. /\ mem' = mem \/ mem' = [mem EXCEPT ![h] = seen]
        /\ row' = row /\ getter' = getter
    BY <1>1 DEF WatchRecord
  <2> HIDE DEF seen
  <2> QED BY <2>1, <2>2, <2>3, CopiesWritten
<1>2. CASE WatchSave(h)
  <2>1. \A g \in Handles : watch'[g].snapshot \in {watch[g].snapshot, NewState}
    BY <1>2 DEF WatchSave, TypeOK, WatchState, NoWatch
  <2>2. row' \in {Absent, watch[h].snapshot} /\ mem' = mem /\ getter' = getter
    BY <1>2 DEF WatchSave, Save
  <2> QED BY <2>1, <2>2 DEF CopiesAgree, PidOfRunning, NewState
<1>3. CASE WatchStandDown(h) \/ WatchExit(h) \/ WatchTail(h)
  <2>1. \A g \in Handles : watch'[g].snapshot \in {watch[g].snapshot, NewState}
    BY <1>3, WatchKept DEF WatchStandDown, WatchExit, WatchTail
  <2> QED BY <1>3, <2>1, CopiesKept DEF WatchStandDown, WatchExit, WatchTail
<1>4. CASE WatchRemove(h)
  <2>1. \A g \in Handles : watch'[g].snapshot \in {watch[g].snapshot, NewState}
    BY <1>4, WatchKept DEF WatchRemove
  <2>2. row' # Absent => PidOfRunning(row')
    BY <1>4, RemoveKeepsPid DEF WatchRemove, CopiesAgree
  <2> QED BY <1>4, <2>1, <2>2 DEF WatchRemove, CopiesAgree, PidOfRunning, NewState
<1> QED BY <1>1, <1>2, <1>3, <1>4 DEF WatchStep

(* ... and the host process, in removing, shutting down and recovering. *)
LEMMA HostPid ==
  ASSUME TypeOK, CopiesAgree, HostStep
  PROVE  CopiesAgree'
<1> USE DEF diskVars, hostVars, handleVars, taskVars
<1>a. ASSUME ProcessGone, row' # Absent => PidOfRunning(row')
      PROVE  CopiesAgree'
  BY <1>a DEF ProcessGone, CopiesAgree, PidOfRunning, NewState, NoWatch
<1>1. CASE Provision
  <2>1. MarkStop(NewState) \in BoxState /\ PidOfRunning(MarkStop(NewState))
    BY BoxStateOps, PidOps
  <2> QED BY <1>1, <2>1 DEF Provision, CopiesAgree
<1>2. ASSUME NEW force \in BOOLEAN, Remove(force)
      PROVE  CopiesAgree'
  <2>1. row' # Absent => PidOfRunning(row')
    BY <1>2, RemoveKeepsPid DEF Remove
  <2> QED BY <1>2, <2>1 DEF Remove, CopiesAgree
<1>3. CASE RemoveCommit \/ RemoveInMemory \/ Shutdown
  BY <1>3, CopiesKept DEF RemoveCommit, RemoveInMemory, Shutdown
<1>4. CASE Crash \/ Reboot
  BY <1>4, <1>a DEF Crash, Reboot, CopiesAgree
<1>5. CASE RuntimeDrop
  <2>1. row' # Absent => PidOfRunning(row')
    <3>1. CASE row' = row
      BY <3>1 DEF CopiesAgree
    <3>2. CASE row' # row
      <4>1. row \in BoxState
        BY <1>5, <3>2 DEF RuntimeDrop, TypeOK
      <4>2. row' = MarkStop([row EXCEPT !.exit = IF record' = NoShim THEN @
                                                 ELSE record'])
        BY <1>5, <3>2 DEF RuntimeDrop
      <4> QED BY <4>1, <4>2, ConstantsAssumption
              DEF MarkStop, PidOfRunning, BoxState
    <3> QED BY <3>1, <3>2
  <2> QED BY <1>5, <2>1, <1>a DEF RuntimeDrop
<1>6. CASE Recover
  <2> DEFINE b == IF runtime = "rebooted" /\ row.status = "Running"
                  THEN ResetForReboot(row) ELSE row
  <2>1. CASE row = Absent \/ RemoveOnStop
    BY <1>6, <2>1, CopiesKept DEF Recover
  <2>2. CASE ~(row = Absent \/ RemoveOnStop)
    <3>1. b \in BoxState /\ PidOfRunning(b)
      BY <2>2, BoxStateOps, PidOps DEF TypeOK, CopiesAgree
    <3>2. PidOfRunning(WithoutShim(b))
      BY <3>1, PidOps, RecordedPid DEF WithoutShim
    <3>3. RecoveredShim # NoShim => PidOfRunning(AdoptRecoveredShim(b, RecoveredShim))
      <4>1. RecoveredShim # NoShim => RecoveredShim \in Shims
        BY DEF RecoveredShim, TypeOK, ShimOrNone
      <4> QED BY <3>1, <4>1, PidOps
    <3>4. \/ RecoveredShim # NoShim /\ row' = AdoptRecoveredShim(b, RecoveredShim)
          \/ row' = WithoutShim(b)
      BY <1>6, <2>2 DEF Recover
    <3>5. row' # Absent => PidOfRunning(row')
      BY <3>2, <3>3, <3>4
    <3> QED BY <1>6, <3>5 DEF Recover, CopiesAgree
  <2> QED BY <2>1, <2>2
<1> QED BY <1>1, <1>2, <1>3, <1>4, <1>5, <1>6 DEF HostStep

(* Every step keeps the copies in agreement. *)
LEMMA NextCopies ==
  ASSUME TypeOK, CopiesAgree, NoBracket, "quiesce" \notin Calls, [Next]_vars
  PROVE  CopiesAgree'
<1> USE DEF diskVars, hostVars, handleVars, taskVars
<1>1. ASSUME NEW h \in Handles, HandleStep(h)
      PROVE  CopiesAgree'
  <2>1. CASE (\E r \in Requests : Request(h, r)) \/ StartStep(h)
    BY <2>1, CopiesKept DEF Request, StartStep, ContainerStart,
       ContainerStartFails
  <2>2. CASE QuiesceBegin(h) \/ QuiesceStep(h) \/ QuiesceAbandon(h)
    BY <2>2 DEF NoBracket, QuiesceBegin, QuiesceStep, QuiesceStop, QuiescePause, QuiesceCont,
     QuiesceProbe, QuiesceResume, QuiesceSet, QuiesceWrites,
       QuiesceAbandon
  <2> QED BY <1>1, <2>1, <2>2, HandoutPid, BootPid, StopPid, WatchPid
          DEF HandleStep
<1>2. ASSUME NEW p \in Shims, ShimStep(p)
      PROVE  CopiesAgree'
  BY <1>2, CopiesKept DEF ShimStep, MainExits, ShimDies, Watchdog
<1>3. CASE HostStep
  BY <1>3, HostPid
<1>4. CASE UNCHANGED vars
  BY <1>4, CopiesKept DEF vars
<1> QED BY <1>1, <1>2, <1>3, <1>4 DEF Next

(* A pid is recorded exactly while the box is active, in the row and in
   every handle, if no client snapshots, clones or exports the box. *)
THEOREM PidAgrees ==
  ASSUME "quiesce" \notin Calls
  PROVE  Spec => []PidIffActive
<1>1. Init => CopiesAgree /\ NoBracket
  BY ConstantsAssumption DEF Init, CopiesAgree, NoBracket, PidOfRunning,
     NewState, NoWatch, NoQuiesce, NoBoot
<1>2. TypeOK /\ CopiesAgree /\ NoBracket /\ [Next]_vars
        => CopiesAgree' /\ NoBracket'
  BY NextCopies, BracketNeverOpens
<1>3. CopiesAgree => PidIffActive
  BY DEF CopiesAgree, PidOfRunning, PidIffActive, Persisted, IsActive
<1> QED BY <1>1, <1>2, <1>3, TypeCorrect, PTL DEF Spec
=============================================================================
