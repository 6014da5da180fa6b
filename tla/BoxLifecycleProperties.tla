----------------------- MODULE BoxLifecycleProperties -----------------------
(***************************************************************************)
(* What the box lifecycle promises, and what comments and docs of the code *)
(* say of it. The README's table of runs tells which of these hold, for    *)
(* which clients and faults, and which the code falls short of.            *)
(***************************************************************************)
EXTENDS BoxLifecycle

Running == {p \in Shims : Alive(p)}
Persisted == row # Absent
RowIs(s) == Persisted /\ row.status = s

(* A state that tells of a running VM, and of which. The end of a snapshot's *)
(* bracket may leave a box whose end was recorded Running without a pid: it  *)
(* looks at the pid before it takes the state lock (box_impl.rs:1533).       *)
ShowsVM(b) == b.status = "Running" /\ b.pid # NoShim

-----------------------------------------------------------------------------
(* Safety of the box's state under concurrent handles. *)

(* A pid is recorded exactly while the box is active. mark_stop, mark_failed, *)
(* publishing, adopting and the reset after a reboot each write the two      *)
(* fields, in memory and in the row, and recovery and remove_box read them   *)
(* apart: a Stopped row with a pid could never be removed.                   *)
PidIffActive ==
  /\ Persisted => (row.pid # NoShim <=> IsActive(row.status))
  /\ \A h \in Handles : mem[h].pid # NoShim <=> IsActive(mem[h].status)

(* The pid, the start time and the exit code of a row describe one and the   *)
(* same run, whatever stop(), the watcher, a restart and recovery each wrote *)
(* of it: publishing stamps fresh boots only, adoption keeps the stamp of    *)
(* the same process and drops that of another (adopt_recovered_shim).        *)
RowOfOneRun ==
  Persisted =>
    /\ row.pid # NoShim => row.started \in {NoShim, row.pid}
    /\ row.exit # NoShim => row.started \in {NoShim, row.exit}

(* A handle that may still send Container.Start to a VM is the one that      *)
(* spawned it: init_live_state fills the container-start cell of every       *)
(* adopter, whichever way handles, stops and boots interleave.               *)
OnlySpawnerStarts ==
  \A h \in Handles :
    live[h] # NoShim /\ cstart[h] # "done" => spawner[live[h]] = h

(* While the host is up and the row shows a running VM, no other of the box  *)
(* runs.                                                                     *)
RowNamesVM == Persisted /\ ShowsVM(row) /\ runtime = "up" => Running \subseteq {row.pid}

(* A handle whose container-start cell is filled holds a VM whose init ran:  *)
(* "Run the container's init exactly once" (box_impl.rs, at                  *)
(* ensure_container_started).                                                *)
Started ==
  \A h \in Handles : live[h] # NoShim /\ cstart[h] = "done" => live[h] \in ran

(* A handle that a client holds, that was not stopped and that shows a       *)
(* running VM has a watcher that will still see that VM end.                 *)
Watched ==
  \A h \in Handles :
    IsHeld(h) /\ live[h] # NoShim /\ ShowsVM(mem[h]) /\ ~token[h]
      => watch[h].pc \notin {"none", "done"}

(* A handle boots a VM after the one it had watched: the watcher cell is     *)
(* used, and another handle may boot one as well. No run claims that the     *)
(* code excludes it; theorems say what holds as long as it does not happen.  *)
Reuses(h) == /\ watch[h].pc # "none" /\ boot[h].plan = "fresh"
             /\ boot[h].pc \notin {"idle", "finish"}
OneLife == \A h \in Handles : ~Reuses(h)

(* A get() that has read an active row is not overtaken by the boot of       *)
(* another VM. Nor does any run claim that of the code.                      *)
Timely ==
  \A h \in Handles :
    getter[h] # Absent /\ IsActive(getter[h].status) /\ Persisted
      => getter[h].pid = pidfile

(* The end of a VM is not recorded between a bracket's signal, or its last   *)
(* look at the pid, and the status it writes then. The code does not exclude *)
(* this either (box_impl.rs:1504, 1533).                                     *)
Unbroken ==
  \A h \in Handles :
    quiesce[h].pc \in {"pausing", "resuming"}
      => IsActive(mem[h].status) /\ mem[h].pid = quiesce[h].pid

(* A box that shows a running VM is attended: its row names the only one     *)
(* there is, and whoever holds it will hear of its end.                      *)
Attended == RowNamesVM /\ Watched

-----------------------------------------------------------------------------
(* What a step may never do. *)

(* A handle whose VM was recorded as ended is spent: it never holds or names *)
(* another one, as ensure_booted's comment promises, whoever asks it to.     *)
SpentForever ==
  [][\A h \in Handles :
       live[h] # NoShim /\ live'[h] # NoShim /\ mem[h].pid = NoShim
         => live'[h] = live[h] /\ mem'[h].pid = NoShim]_vars

(* A removed box does not come back: a stop, a watcher, a boot or a snapshot *)
(* that outlives remove_box saves into nothing.                              *)
RemovedForever == [][created /\ row = Absent => row' = Absent]_vars

(* After recovery the row is Running exactly when a shim of the box is, and  *)
(* names that shim, wherever the crash fell in the box's boot.               *)
RecoveredTruth ==
  [][runtime # "up" /\ runtime' = "up" /\ row' # Absent
       => /\ Running \subseteq {row'.pid}
          /\ (row'.status = "Running") <=> (Running # {})]_vars

(* The VM of a detached box ends only when its own init does or a stop()     *)
(* ends it: handles that are dropped, a shutdown, and a host that crashes    *)
(* leave it alone.                                                           *)
NeverKilled ==
  [][\A p \in Shims :
       /\ shim[p] = "live" /\ \A h \in Handles : stop[h] = "idle"
       => shim'[p] = "live" \/ record' = p]_vars

-----------------------------------------------------------------------------
(* Liveness, under FairSpec. *)

(* Every boot and every stop() ends, and a caller waiting in the live cell   *)
(* is not left there when nobody else calls: the cell is filled, empties its *)
(* queue on success, or hands itself to the next caller on failure.          *)
CallsReturn ==
  \A h \in Handles :
    /\ boot[h].pc # "idle" ~> boot[h].pc = "idle"
    /\ stop[h] # "idle" ~> stop[h] = "idle"
    /\ gate[h] # {} ~> gate[h] = {} \/ boot[h].pc # "idle"

(* A VM that was stopped for a snapshot is resumed: "SIGCONT - resume vCPUs  *)
(* (always, even if f() failed)" (box_impl.rs, with_quiesce_async).          *)
Resumed == \A p \in Shims : shim[p] = "frozen" ~> shim[p] # "frozen"

(* The exit code of a run the row shows as active reaches the row.           *)
ExitKept ==
  \A p \in Shims :
    LET Pending == /\ record = p /\ Persisted /\ runtime = "up"
                   /\ IsActive(row.status) /\ row.pid = p
        Kept == Persisted /\ row.exit = p
    IN Pending ~> (Kept \/ ~Persisted \/ runtime # "up")

(* A shim nobody holds the watchdog pipe of goes away: dropping the last     *)
(* handle, a failed publish, a cancelled stop and a crash leak no VM.        *)
OrphanEnds ==
  \A p \in Shims :
    LET Orphan == /\ shim[p] = "live"
                  /\ \A h \in Handles : live[h] # p /\ boot[h].shim # p
    IN Orphan ~> ~Orphan

(* A remove-on-stop box that stops, by itself or through stop(), is removed. *)
AutoRemoved ==
  LET Left == RowIs("Stopped") /\ runtime = "up" IN Left ~> ~Left

(* What is over leaves nothing behind: neither a VM nor a box to be removed. *)
NothingStays == OrphanEnds /\ AutoRemoved

-----------------------------------------------------------------------------
(* The lifecycle implements the contract of one box. Two VMs at a time would *)
(* be none that the contract knows.                                          *)

BoxNow == IF ~created THEN "none" ELSE IF Persisted THEN "kept" ELSE "removed"
VmNow == CASE Running = {} -> NoShim
           [] \E p \in Shims : Running = {p} -> CHOOSE p \in Shims : Running = {p}
           [] OTHER -> Absent
EndedNow == {p \in Shims : shim[p] \in {"zombie", "dead"}}
ShownNow == IF Persisted THEN row.pid ELSE NoShim
ToldNow == IF Persisted THEN row.exit ELSE NoShim
HostUp == runtime \in {"up", "closing"}

Contract == INSTANCE BoxContract WITH
  Runs <- Shims, NoRun <- NoShim, box <- BoxNow, vm <- VmNow, ended <- EndedNow,
  main <- ran, shown <- ShownNow, told <- ToldNow, up <- HostUp

(* Wherever boots, adoptions, exits, crashes and reboots interleave, the box *)
(* runs one VM after another, shows none but the newest, and tells the exit  *)
(* codes of commands that ran and ended.                                     *)
KeepsContract == Contract!Safe

(* And while the host stays up, a run that has ended is not shown for ever.  *)
HonoursContract == Contract!Spec

-----------------------------------------------------------------------------
(* Statements of the code that its behaviour contradicts. *)

(* A box that runs a command the user chose is booted by no exec             *)
(* ("That is a decision for you, not for a side effect").                    *)
ExecNeverBootsMain ==
  [][\A h \in Handles :
       HasMain /\ boot[h].by = "exec" /\ boot[h].plan = "fresh"
         => boot'[h].pc # "finish"]_vars
=============================================================================
