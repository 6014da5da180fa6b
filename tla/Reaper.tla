------------------------------- MODULE Reaper -------------------------------
(***************************************************************************)
(* The guest agent's child reaper: one task that collects every exited     *)
(* child with waitpid(-1) and deposits the exit under the child's pid,     *)
(* where the request that spawned the child, the container's init session  *)
(* and later waiters read it.                                              *)
(*                                                                         *)
(* A process is one incarnation: pids are reused, processes are not, and   *)
(* an exit status is named by the process it belongs to. The watch channel *)
(* inside a slot is modelled by its receivers: `readers` of the slot, and  *)
(* what each of them has been sent, `heard`. An Instant is modelled by the *)
(* exits deposited before it was taken, which is all the code compares.    *)
(*                                                                         *)
(* Assumed of the system: a pid is not handed out again while the spawn    *)
(* that got it, or the one that will get it, is still under way. Linux     *)
(* hands pids out in a cycle; a spawn would have to outlast it.            *)
(***************************************************************************)

CONSTANTS Procs, Pids, NoProc, NoPid, NoSlot

Slot == [exit : Procs \cup {NoProc}, stray : BOOLEAN,
         readers : SUBSET Procs, action : Procs \cup {NoProc}]

ASSUME ReaperAssumption ==
  NoProc \notin Procs /\ NoPid \notin Pids /\ NoSlot \notin Slot

Kinds == {"none", "exec", "init", "stray", "self"}
ProcStates == {"unborn", "running", "zombie", "reaped", "delivered", "gone"}
ClientStates == {"idle", "spawning", "holding", "fenced", "done", "robbed"}

VARIABLES
  \* each process: its state in the kernel ("reaped" is taken by the sweep and
  \* not yet deposited, "gone" was collected by its own spawner) and its pid
  os, pid,
  \* each process's spawner in the guest: what it is, how far it is, the exits
  \* deposited before its spawned_at, what its receiver and its action got
  kind, client, before, heard, fired,
  \* Inner::slots
  slots,
  \* the reap loop: an unread SIGCHLD, its phase, the exit between waitpid and
  \* deliver, the exits whose actions run once the sweep is over
  sigchld, sweep, hand, batch

procVars == <<os, pid>>
clientVars == <<kind, client, before, heard, fired>>
loopVars == <<sigchld, sweep, hand, batch>>
vars == <<procVars, clientVars, slots, loopVars>>

Delivered == {p \in Procs : os[p] = "delivered"}
Alive(p) == os[p] \in {"running", "zombie", "reaped"}
(* The holders of reap_fence(), the read side of REAP_LOCK. *)
Fence == {p \in Procs : client[p] = "fenced"}

TypeOK ==
  /\ os \in [Procs -> ProcStates]
  /\ pid \in [Procs -> Pids \cup {NoPid}]
  /\ kind \in [Procs -> Kinds]
  /\ client \in [Procs -> ClientStates]
  /\ before \in [Procs -> SUBSET Procs]
  /\ heard \in [Procs -> Procs \cup {NoProc}]
  /\ fired \in [Procs -> Procs \cup {NoProc}]
  /\ slots \in [Pids -> Slot \cup {NoSlot}]
  /\ sigchld \in BOOLEAN
  /\ sweep \in {"idle", "sweeping", "firing"}
  /\ hand \in Procs \cup {NoProc}
  /\ batch \in SUBSET (Procs \X Procs)

Init ==
  /\ os = [p \in Procs |-> "unborn"]
  /\ pid = [p \in Procs |-> NoPid]
  /\ kind = [p \in Procs |-> "none"]
  /\ client = [p \in Procs |-> "idle"]
  /\ before = [p \in Procs |-> {}]
  /\ heard = [p \in Procs |-> NoProc]
  /\ fired = [p \in Procs |-> NoProc]
  /\ slots = [i \in Pids |-> NoSlot]
  /\ sigchld = TRUE             \* run() drains once before it waits
  /\ sweep = "idle" /\ hand = NoProc /\ batch = {}

-----------------------------------------------------------------------------
(* Processes. The kernel gives process p a pid that no process has, and     *)
(* whose last owner's spawn was over, and exit deposited, before p's spawn. *)
Free(p, i) ==
  \A q \in Procs : pid[q] = i =>
    /\ os[q] \in {"gone", "delivered"}
    /\ kind[p] = "exec" /\ os[q] = "delivered" => q \in before[p]
    /\ client[q] # "spawning"

Born(p, i) ==
  /\ os' = [os EXCEPT ![p] = "running"]
  /\ pid' = [pid EXCEPT ![p] = i]

Fork(p, i) ==
  /\ client[p] = "spawning" /\ os[p] = "unborn" /\ Free(p, i)
  /\ Born(p, i)
  /\ UNCHANGED <<clientVars, slots, loopVars>>

(* libcontainer's intermediate, or any descendant orphaned to the agent. *)
Orphan(p, i) ==
  /\ client[p] = "idle" /\ os[p] = "unborn" /\ Free(p, i)
  /\ kind' = [kind EXCEPT ![p] = "stray"]
  /\ client' = [client EXCEPT ![p] = "done"]
  /\ Born(p, i)
  /\ UNCHANGED <<before, heard, fired, slots, loopVars>>

(* A child run under reap_fence(), by Command::output() or the like. *)
SelfSpawn(p, i) ==
  /\ client[p] = "idle" /\ os[p] = "unborn" /\ Free(p, i)
  /\ sweep # "sweeping"
  /\ kind' = [kind EXCEPT ![p] = "self"]
  /\ client' = [client EXCEPT ![p] = "fenced"]
  /\ Born(p, i)
  /\ UNCHANGED <<before, heard, fired, slots, loopVars>>

(* A container's init blocks on the exec fifo until its session is there. *)
Exit(p) ==
  /\ os[p] = "running"
  /\ kind[p] = "init" => client[p] # "spawning"
  /\ os' = [os EXCEPT ![p] = "zombie"]
  /\ sigchld' = TRUE
  /\ UNCHANGED <<pid, clientVars, slots, sweep, hand, batch>>

(* Child::wait() of a fenced spawner; ECHILD when the sweep was faster. *)
SelfWait(p) ==
  /\ client[p] = "fenced" /\ os[p] \notin {"unborn", "running"}
  /\ IF os[p] = "zombie"
       THEN /\ os' = [os EXCEPT ![p] = "gone"]
            /\ client' = [client EXCEPT ![p] = "done"]
       ELSE /\ client' = [client EXCEPT ![p] = "robbed"]
            /\ UNCHANGED os
  /\ UNCHANGED <<pid, kind, before, heard, fired, slots, loopVars>>

-----------------------------------------------------------------------------
(* Spawners: an exec takes spawned_at and then spawns; init's session is   *)
(* registered after Container::start with a timestamp taken then.          *)
BeginSpawn(p, k) ==
  /\ client[p] = "idle" /\ os[p] = "unborn"
  /\ kind' = [kind EXCEPT ![p] = k]
  /\ client' = [client EXCEPT ![p] = "spawning"]
  /\ before' = [before EXCEPT ![p] = IF k = "exec" THEN Delivered ELSE {}]
  /\ UNCHANGED <<procVars, heard, fired, slots, loopVars>>

NewSlotNoAction(stray) ==
  [exit |-> NoProc, stray |-> stray, readers |-> {}, action |-> NoPid]
NewSlot(stray) ==
  [exit |-> NoProc, stray |-> stray, readers |-> {}, action |-> NoProc]

(* The slot a registration at a time uses: one settled before that time
   belongs to a past owner of the pid and is removed first. *)
SlotAtStaleKept(i, time) ==
  IF slots[i] = NoSlot THEN NewSlot(FALSE) ELSE [slots[i] EXCEPT !.stray = FALSE]
SlotAt(i, time) ==
  IF slots[i] = NoSlot \/ slots[i].exit \in time
    THEN NewSlot(FALSE)
    ELSE [slots[i] EXCEPT !.stray = FALSE]

Register(p) ==
  /\ client[p] = "spawning" /\ kind[p] = "exec" /\ os[p] # "unborn"
  /\ LET s == SlotAt(pid[p], before[p])
     IN  /\ slots' = [slots EXCEPT ![pid[p]] = [s EXCEPT !.readers = @ \cup {p}]]
         /\ heard' = [heard EXCEPT ![p] = s.exit]
  /\ client' = [client EXCEPT ![p] = "holding"]
  /\ before' = [before EXCEPT ![p] = {}]
  /\ UNCHANGED <<procVars, kind, fired, loopVars>>

(* on_exit parks the action, or runs it at once on a settled slot. *)
OnExit(p) ==
  /\ client[p] = "spawning" /\ kind[p] = "init" /\ os[p] # "unborn"
  /\ LET s == SlotAt(pid[p], Delivered)
         parked == [s EXCEPT !.readers = @ \cup {p},
                             !.action = IF s.exit = NoProc THEN p ELSE @]
     IN  /\ slots' = [slots EXCEPT ![pid[p]] = parked]
         /\ heard' = [heard EXCEPT ![p] = s.exit]
         /\ fired' = [fired EXCEPT ![p] = s.exit]
  /\ client' = [client EXCEPT ![p] = "holding"]
  /\ UNCHANGED <<procVars, kind, before, loopVars>>

(* ExecHandle::new failed: terminate_child takes the fence, kills, waits. *)
HandleFailed(p) ==
  /\ client[p] = "spawning" /\ kind[p] = "exec" /\ os[p] # "unborn"
  /\ sweep # "sweeping"
  /\ client' = [client EXCEPT ![p] = "fenced"]
  /\ before' = [before EXCEPT ![p] = {}]
  /\ UNCHANGED <<procVars, kind, heard, fired, slots, loopVars>>

(* release_slot removes the slot of the very channel p holds. *)
ReleaseByPid(p) ==
  [i \in Pids |-> IF i = pid[p] THEN NoSlot ELSE slots[i]]
ReleaseSlot(p) ==
  [i \in Pids |->
     IF slots[i] # NoSlot /\ p \in slots[i].readers THEN NoSlot ELSE slots[i]]

(* An execution's resources are released: after it was retained, or by a
   kill that does not wait (shutdown, an unpublished spawn). *)
Release(p) ==
  /\ client[p] = "holding"
  /\ slots' = ReleaseSlot(p)
  /\ client' = [client EXCEPT ![p] = "done"]
  /\ heard' = [heard EXCEPT ![p] = NoProc]
  /\ UNCHANGED <<procVars, kind, before, fired, loopVars>>

(* The request is dropped, or fails, between the spawn and its publication,
   before the registration or after it; the receiver goes with it, the slot
   and init's action stay. *)
Readerless(p) ==
  [i \in Pids |-> IF slots[i] = NoSlot THEN NoSlot
                  ELSE [slots[i] EXCEPT !.readers = @ \ {p}]]
Drop(p) ==
  /\ os[p] # "unborn" /\ client[p] \in {"spawning", "holding"}
  /\ client' = [client EXCEPT ![p] = "done"]
  /\ slots' = Readerless(p)
  /\ before' = [before EXCEPT ![p] = {}]
  /\ heard' = [heard EXCEPT ![p] = NoProc]
  /\ UNCHANGED <<procVars, kind, fired, loopVars>>

-----------------------------------------------------------------------------
(* The reap loop. sweep_exits holds the write side of REAP_LOCK. *)
LockFreeUnfenced == sweep = "idle"
LockFree == sweep = "idle" /\ Fence = {}
SweepBegin ==
  /\ sigchld /\ LockFree
  /\ sigchld' = FALSE
  /\ sweep' = "sweeping"
  /\ UNCHANGED <<procVars, clientVars, slots, hand, batch>>

Reap(p) ==
  /\ sweep = "sweeping" /\ hand = NoProc /\ os[p] = "zombie"
  /\ os' = [os EXCEPT ![p] = "reaped"]
  /\ hand' = p
  /\ UNCHANGED <<pid, clientVars, slots, sigchld, sweep, batch>>

(* prune_stale: strays past REAPED_TTL. A spawn that will still register its
   own settled stray does so long before it is that old. *)
Prunable == {i \in Pids : /\ slots[i] # NoSlot /\ slots[i].stray
                          /\ client[slots[i].exit] # "spawning"}

(* deliver: a settled slot under the pid is a past owner's and is detached. *)
AnyDetached(i) == NoSlot
SettledDetached(i) ==
  IF slots[i] # NoSlot /\ slots[i].exit # NoProc THEN NoSlot ELSE slots[i]
Delivery(i) ==
  IF SettledDetached(i) = NoSlot THEN NewSlot(TRUE) ELSE SettledDetached(i)
Pruned(i) == IF SettledDetached(i) = NoSlot THEN Prunable \ {i} ELSE {}
Deliver(p) ==
  /\ hand = p
  /\ LET i == pid[p]
         s == Delivery(i)
     IN  /\ \E old \in SUBSET Pruned(i) :
              slots' = [j \in Pids |->
                          IF j = i THEN [s EXCEPT !.exit = p, !.action = NoProc]
                          ELSE IF j \in old THEN NoSlot ELSE slots[j]]
         /\ heard' = [q \in Procs |-> IF q \in s.readers THEN p ELSE heard[q]]
         /\ batch' = IF s.action = NoProc THEN batch
                     ELSE batch \cup {<<p, s.action>>}
  /\ os' = [os EXCEPT ![p] = "delivered"]
  /\ hand' = NoProc
  /\ UNCHANGED <<pid, kind, client, before, fired, sigchld, sweep>>

(* waitpid finds no more zombies: StillAlive or ECHILD ends the sweep. *)
OnePerSignal == TRUE
NothingLeft == \A p \in Procs : os[p] # "zombie"
SweepEnd ==
  /\ sweep = "sweeping" /\ hand = NoProc /\ NothingLeft
  /\ sweep' = "firing"
  /\ UNCHANGED <<procVars, clientVars, slots, sigchld, hand, batch>>

(* drain runs the collected actions outside both locks. *)
Fire ==
  /\ sweep = "firing"
  /\ \/ \E e \in batch :
          /\ fired' = [fired EXCEPT ![e[2]] = e[1]]
          /\ batch' = batch \ {e}
          /\ UNCHANGED sweep
     \/ /\ batch = {}
        /\ sweep' = "idle"
        /\ UNCHANGED <<fired, batch>>
  /\ UNCHANGED <<procVars, kind, client, before, heard, slots, sigchld, hand>>

-----------------------------------------------------------------------------
SpawnerStep(p) ==
  \/ \E k \in {"exec", "init"} : BeginSpawn(p, k)
  \/ Register(p) \/ OnExit(p) \/ HandleFailed(p) \/ Release(p) \/ Drop(p)
  \/ SelfWait(p)

KernelStep(p) ==
  \/ \E i \in Pids : Fork(p, i) \/ Orphan(p, i) \/ SelfSpawn(p, i)
  \/ Exit(p)

LoopStep == \/ SweepBegin \/ SweepEnd \/ Fire
            \/ \E p \in Procs : Reap(p) \/ Deliver(p)

Next == LoopStep \/ \E p \in Procs : SpawnerStep(p) \/ KernelStep(p)

Spec == Init /\ [][Next]_vars

(* The loop is a task of the runtime; a fenced child is a short helper
   (mkfs, newidmap) or was just killed, and its spawner waits for it. *)
Fairness ==
  /\ WF_vars(LoopStep)
  /\ \A p \in Procs : /\ WF_vars(SelfWait(p))
                      /\ WF_vars(client[p] = "fenced" /\ Exit(p))
FairSpec == Spec /\ Fairness
=============================================================================
