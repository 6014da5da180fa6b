---------------------- MODULE BoxReconcilerProperties ----------------------
(* What the control plane promises of a box (see BoxReconciler), and what    *)
(* must go wrong before it breaks the promise.                               *)
EXTENDS BoxReconciler

Without(faults) == late \intersect faults = {}

Pcs == {"idle", "act", "check", "save", "unlock"}

(* Every variable stays in its domain; the row says it is pending when its   *)
(* states differ and someone works on it, and a write never leaves what the  *)
(* entity's assertion forbids: only Post looks at it, so no other write ever *)
(* meets it (box.entity.ts:249, 314).                                        *)
TypeOK ==
    /\ row \in Rows /\ row = Normal(row) /\ row.state \in ValidStates(row.desired)
    /\ lock \in Workers \union {NoOne}
    /\ called \in BOOLEAN
    /\ syncs \in [Workers -> [pc : Pcs, box : Rows, to : States]]
    /\ jobs \in Seq([type : JobTypes, status : {"pending", "in_progress"} \union Ended])
    /\ handlers \subseteq [job : DOMAIN jobs, pc : {"read", "save", "unlock"}, box : Rows]
    /\ execs \subseteq [job : DOMAIN jobs, pc : {"run", "report"}, ok : BOOLEAN]
    /\ vm \in {"absent", "made", "running", "stopped", "failed"}
    /\ report \in [pc : {"idle", "local", "post"}, local : States]
    /\ load \in LoadSet /\ late \subseteq FaultNames

(* The user's word stands: once a box is to be destroyed, no pass, handler   *)
(* or report that was under way makes it wanted again (box.service.ts:1454,  *)
(* box.repository.ts:236).                                                   *)
DestroyStands == [][row.desired = "destroyed" => row'.desired = "destroyed"]_row

(* A box that is shown destroyed has left nothing on the runner, though      *)
(* operations fail, outcomes are lost, repeated, late or given up on, and    *)
(* VMs exit. A runner that restarts repeats the jobs it finds in progress,   *)
(* and a pass whose lock ran out may submit a job that was done              *)
(* (runnerAdapter.v2.ts:52, executor.go:66).                                 *)
NothingLeftBehind ==
    Without({"runner", "api", "unlock", "expiry"}) => (row.state = "destroyed" => vm = "absent")

(* Nothing happens to the box or to the API behind a job's back, and each    *)
(* finished job is handled while it is the latest.                           *)
InOrder == Without({"runner", "exit", "overtaken", "api", "unlock", "expiry", "tardy"})

(* A box that is shown at rest and stopped, and so neither billed as running *)
(* nor looked at by the runner's report again, hides no running VM. A VM     *)
(* that exits excuses it: when its report has made the box stopped and it is *)
(* started again, the handler of the first start, held up since, writes      *)
(* "started", the next report writes "stopped", and the start goes on        *)
(* (box_sync.go:91, job-state-handler.service.ts:134).                       *)
StoppedIsStopped == InOrder => (Settled /\ row.state = "stopped" => vm # "running")

(* A row that looks final is true of the runner.                             *)
RowIsTrue == NothingLeftBehind /\ StoppedIsStopped

(* A box its user wants started is stopped by no job, whatever pass comes    *)
(* late, as long as no pass loses its lock, no job is given up or handled    *)
(* late, and no report is overtaken (box.action.ts:47).                      *)
OnlyTheUserStops ==
    [][Without({"unlock", "expiry", "gave_up", "tardy", "overtaken"}) =>
        ~(vm = "running" /\ vm' = "stopped" /\ row.desired = "started" /\ late' = late)]_vm

(* A job that is submitted is what the row asks for at that moment, not what *)
(* it asked for when the pass read it (box.manager.ts:331).                  *)
JobsAsTheRowAsks ==
    [][InOrder =>
        \A i \in (DOMAIN jobs') \ DOMAIN jobs : row.desired = Reached(jobs'[i].type)]_jobs

(* Jobs are submitted, and stop the VM, as the row asks.                     *)
OnlyAsAsked == OnlyTheUserStops /\ JobsAsTheRowAsks

(* The runner never works on a box for two jobs at a time: the unique index  *)
(* admits one incomplete job, and a job is over on the runner before it is   *)
(* over in the API (job.entity.ts:25, job.service.ts:50).                    *)
OneAtATime ==
    Without({"gave_up", "overtaken"}) =>
        \A e, f \in execs : e.pc = "run" /\ f.pc = "run" => e = f

(* A VM that exits, an outcome that comes twice or late and a report that is *)
(* overtaken put no box into error, and an API process that dies, once as    *)
(* every fault of a load, none but a box that is to be destroyed and is      *)
(* already gone: the pass after it may ask for the box while the first       *)
(* destroy still runs, and submit a second one, which fails                  *)
(* (box-destroy.action.ts:48, box.manager.ts:391).                           *)
GoneThoughApiDied == "api" \in late /\ row.desired = "destroyed" /\ vm = "absent"
ErrorHasCause ==
    row.state = "error" =>
        \/ ~(late \subseteq {"api", "exit", "again", "tardy", "overtaken"})
        \/ GoneThoughApiDied

(* A box that is coming up is started, or in error, in the end, whatever     *)
(* fails: the job's handler, the passes that ask for the job's state, and    *)
(* the timeout make up for one another (box-start.action.ts:140, 208).       *)
ComesUp == row.pending /\ row.desired = "started"
StartupEnds == ComesUp ~> ~ComesUp

(* Any request comes to an end, though the API dies and outcomes come twice  *)
(* or late, unless its job fails: the pass that submitted a stop or a        *)
(* destroy may write "stopping" or "destroying" over the failure, which no   *)
(* timeout ends. A stop that is submitted after the destroy, by a pass that  *)
(* lost its lock, fails as well, and so does the second destroy of a box     *)
(* that is gone, after the API died: the row may stay, but the box does not  *)
(* (box-stop.action.ts:44, box-destroy.action.ts:56). Activity of the user   *)
(* moves lastActivityAt, and with it the timeout (box-start.action.ts:204).  *)
UnderWay == row.pending /\ row.state # "error"
EndsUnlessFailed ==
    UnderWay ~> \/ ~UnderWay \/ GoneThoughApiDied
                \/ ~Without({"op", "poll", "report", "gave_up", "runner", "call", "unlock", "expiry"})

(* So nobody waits for a box for ever.                                       *)
RequestsEnd == StartupEnds /\ EndsUnlessFailed
=============================================================================
