-------------------------- MODULE ReaperProperties --------------------------
(* What the guest relies on the reaper for. *)
EXTENDS Reaper

(* A waiter reads the exit of its own process, and an action runs with it,  *)
(* however often the kernel has reused the pid, whichever of exit and       *)
(* registration came first, and whoever failed to release a slot.           *)
OwnStatus == \A p \in Procs : /\ heard[p] \in {NoProc, p}
                              /\ fired[p] \in {NoProc, p}

(* A holder that has heard nothing can still hear: its slot is under its    *)
(* pid and unsettled, and its process is still to be delivered. No release, *)
(* prune, detach or registration of another process takes it away.          *)
NoneStranded ==
  \A p \in Procs : client[p] = "holding" /\ heard[p] = NoProc =>
    /\ Alive(p)
    /\ slots[pid[p]] # NoSlot
    /\ p \in slots[pid[p]].readers /\ slots[pid[p]].exit = NoProc

(* An init's follow-up is parked, about to run, or has run: never dropped   *)
(* by a sweep, a stray or a reused pid while its session is held.           *)
ActionKept ==
  \A p \in Procs : client[p] = "holding" /\ kind[p] = "init" =>
    \/ fired[p] = p
    \/ <<p, p>> \in batch
    \/ slots[pid[p]] # NoSlot /\ slots[pid[p]].action = p
                              /\ slots[pid[p]].exit = NoProc

(* A helper spawned and awaited under reap_fence() is never reaped by the   *)
(* sweep: its waiter gets the status and not ECHILD.                        *)
NeverRobbed == \A p \in Procs : kind[p] = "self" => client[p] # "robbed"

(* Every exit of a held process is heard, and init's follow-up runs, though *)
(* one SIGCHLD may stand for several exits and fenced waiters delay sweeps. *)
ExitHeard ==
  \A p \in Procs :
    (client[p] = "holding" /\ os[p] = "zombie")
      ~> \/ client[p] = "done"
         \/ heard[p] = p /\ (kind[p] = "init" => fired[p] = p)
=============================================================================
