---------------------------- MODULE BoxContract ----------------------------
(***************************************************************************)
(* What BoxLite promises of one box, seen from outside: it runs one VM     *)
(* after another, each runs the box's main command at most once, the row   *)
(* shows a run only after its VM booted and stops showing it once the VM   *)
(* has ended, and the exit codes it tells are those of main commands that  *)
(* ran and ended. Handles, boots, watchers, locks and crashes of the host  *)
(* do not occur here; BoxLifecycle implements this through them.           *)
(***************************************************************************)
CONSTANTS Runs, NoRun

VARIABLES
  box,    \* "none", "kept" or "removed"
  vm,     \* the run whose VM is alive
  ended,  \* the runs whose VM has ended
  main,   \* the runs in which the main command was started
  shown,  \* the run the row shows as active
  told,   \* the run whose exit code the row tells
  up      \* whether a host process has the box in hand

vars == <<box, vm, ended, main, shown, told, up>>

Init ==
  /\ box = "none" /\ vm = NoRun /\ ended = {} /\ main = {}
  /\ shown = NoRun /\ told = NoRun /\ up = TRUE

Create ==
  /\ box = "none" /\ box' = "kept"
  /\ UNCHANGED <<vm, ended, main, shown, told, up>>

Boot(r) ==
  /\ box = "kept" /\ vm = NoRun /\ r \notin ended
  /\ vm' = r
  /\ UNCHANGED <<box, ended, main, shown, told, up>>

RunMain ==
  /\ vm # NoRun /\ vm \notin main
  /\ main' = main \cup {vm}
  /\ UNCHANGED <<box, vm, ended, shown, told, up>>

(* The row stops showing any run and may tell how one ended.                *)
Settled(over) == shown' = NoRun /\ told' \in {told} \cup (over \cap main)

(* A VM that a call ends may be gone from the row in the same step.         *)
End ==
  /\ vm # NoRun
  /\ vm' = NoRun /\ ended' = ended \cup {vm}
  /\ UNCHANGED <<shown, told>> \/ Settled(ended')
  /\ UNCHANGED <<box, main>> /\ up' \in {up, FALSE}

(* The row comes to show a run, perhaps one that has just ended.            *)
Shown(r) ==
  /\ box = "kept" /\ r \in {vm} \cup ended /\ r # NoRun
  /\ vm \in {r, NoRun}
  /\ shown' = r /\ told' \in {told, NoRun}

Show(r) == Shown(r) /\ UNCHANGED <<box, vm, ended, main, up>>

Settle ==
  /\ shown \in ended /\ Settled(ended)
  /\ UNCHANGED <<box, vm, ended, main, up>>

(* The promise has one hole: whoever writes down how an earlier run ended   *)
(* writes the row as it was then, and may do so when the next one is up.     *)
Overwrite ==
  /\ shown = vm /\ vm # NoRun /\ ended # {}
  /\ Settled(ended)
  /\ UNCHANGED <<box, vm, ended, main, up>>

(* An exit code that becomes known after the box was marked stopped.        *)
Tell(r) ==
  /\ shown = NoRun /\ r \in ended \cap main
  /\ told' = r
  /\ UNCHANGED <<box, vm, ended, main, shown, up>>

(* The host process goes away. When one is back, it has made the row true.  *)
Leave ==
  /\ up /\ up' = FALSE
  /\ UNCHANGED <<box, vm, ended, main, shown, told>>
Return ==
  /\ ~up /\ up' = TRUE
  /\ \/ vm = NoRun /\ shown \in ended \cup {NoRun} /\ Settled(ended)
     \/ Shown(vm)
  /\ UNCHANGED <<box, vm, ended, main>>

Next == Create \/ RunMain \/ End \/ Settle \/ Overwrite \/ Leave \/ Return
        \/ \E r \in Runs : Boot(r) \/ Show(r) \/ Tell(r)

Safe == Init /\ [][Next]_vars
Spec == Safe /\ WF_vars(up /\ Settle)
=============================================================================
