--------------------------- MODULE BoxReconciler ---------------------------
(* The hosted control plane of one box: the row that says what the box is    *)
(* and what it should be, the sync passes that submit jobs for the runner,   *)
(* the handlers of finished jobs, the runner that polls and executes them,   *)
(* and its periodic report of the states it sees.                            *)
(*                                                                           *)
(* One box on one runner of API version 2. A job's payload, the box's image, *)
(* activity times and the organisation are left out; time is a choice, so a  *)
(* timeout may strike whenever its precondition holds.                       *)
EXTENDS Naturals, Sequences, FiniteSets, TLC

CONSTANTS
    Workers,      \* sync passes that may be under way
    NoOne,        \* nobody holds the box's state-change lock
    Loads         \* what may happen in a behaviour: bounds on the user's
                  \* requests and the runner's reports, and what may go wrong once

FaultNames ==
    {"op",        \* an operation fails on the runner
     "exit",      \* the VM exits by itself
     "poll",      \* the answer to a poll is lost after the claim
     "report",    \* a job's outcome never reaches the API
     "again",     \* ... or reaches it twice
     "runner",    \* the runner restarts, its VMs with or without it
     "timeout",   \* the API stops waiting for a start
     "gave_up",   \* a job is ended as stale though the runner still works on it
     "unlock",    \* a pass or a handler deletes a lock another pass holds
     "expiry",    \* the lock runs out under the pass that holds it
     "api",       \* the API process dies
     "call",      \* a call a sync pass makes fails
     "tardy",     \* a finished job is handled when there is a later job
     "overtaken"} \* the runner posts a state its box has left since

LoadSet == [requests : Nat, reports : Nat, faults : SUBSET FaultNames]

ASSUME LoadsAssumption == Loads \subseteq LoadSet
ASSUME NoOneAssumption == NoOne \notin Workers

VARIABLES
    row,        \* the box row: [state, desired, pending]
    lock,       \* the holder of the Redis state-change lock
    called,     \* a request has called syncInstanceState, which has not run yet
    syncs,      \* worker -> [pc, box, to], a sync pass and its copy of the row
    jobs,       \* the box's jobs, oldest first: [type, status]
    handlers,   \* completion handlers under way: [job, pc, box]
    execs,      \* jobs on the runner: [job, pc, ok]
    vm,         \* the box on the runner
    report,     \* the runner's report under way: [pc, local]
    load,       \* what may still happen
    late        \* what has gone wrong so far

vars == <<row, lock, called, syncs, jobs, handlers, execs, vm, report, load, late>>
calm == <<load, late>>
api == <<row, lock, called, syncs, handlers>>
runner == <<execs, vm, report>>

States == {"unknown", "creating", "starting", "started", "stopping", "stopped",
           "destroying", "destroyed", "error"}
DesiredStates == {"started", "stopped", "destroyed"}
JobTypes == {"create", "start", "stop", "destroy"}
Rows == [state : States, desired : DesiredStates, pending : BOOLEAN]

Fault(k) ==
    /\ k \in load.faults
    /\ load' = [load EXCEPT !.faults = @ \ {k}]
    /\ late' = late \union {k}

(* -------------------------------- the row -------------------------------- *)

\* assertValid: the states a box may be in for what it should be.
ValidStates(desired) ==
    CASE desired = "started" -> {"unknown", "creating", "starting", "started", "stopped", "error"}
      [] desired = "stopped" -> {"started", "stopping", "stopped", "error"}
      [] desired = "destroyed" -> {"started", "stopped", "destroying", "destroyed", "error"}

\* enforceInvariants: pending follows from the two states.
Normal(r) ==
    [r EXCEPT !.pending = r.state # r.desired /\ (r.state = "error" => r.desired = "destroyed")]

InStatePendingKept(r, s) == [r EXCEPT !.state = s]

InState(r, s) == Normal([r EXCEPT !.state = s])

\* BoxRepository.update: the write lands if the row is still as it was read.
\* The columns compared are the ones of Rows.
Unchanged(box) == row = box

(* -------------------------------- requests ------------------------------- *)

SettledIgnoringPending == row.state # "destroyed"

Settled == ~row.pending /\ row.state = row.desired

\* A request writes the row and calls syncInstanceState through its event.
Request(desired) ==
    /\ load.requests > 0
    /\ load' = [load EXCEPT !.requests = @ - 1]
    /\ row' = [row EXCEPT !.desired = desired, !.pending = TRUE]
    /\ called' = TRUE
    /\ UNCHANGED <<lock, syncs, jobs, handlers, runner, late>>

Start == Settled /\ row.state = "stopped" /\ Request("started")

\* stop() and autostopCheck.
Stop == Settled /\ row.state = "started" /\ Request("stopped")

DestroyThoughPending == row.state # "destroyed" /\ Request("destroyed")

\* destroy() and autoDeleteCheck.
Destroy == ~row.pending /\ row.state # "destroyed" /\ Request("destroyed")

(* ------------------------------ sync passes ------------------------------ *)

NewRow == [state |-> "unknown", desired |-> "started", pending |-> TRUE]

\* A copy of the row and a target are kept while the pass needs them.
At(pc) == [pc |-> pc, box |-> NewRow, to |-> "unknown"]

Acting(box, pc, to) == [pc |-> pc, box |-> box, to |-> to]

Final(r) == r.state = "destroyed" \/ (r.state = "error" /\ r.desired # "destroyed")

\* The lock is taken and the row is read. Which worker it is does not matter.
Enter ==
    /\ \E w \in Workers : syncs[w].pc = "idle"
    /\ LET free == CHOOSE w \in Workers : syncs[w].pc = "idle"
       IN  /\ lock' = free
           /\ syncs' = [syncs EXCEPT ![free] = IF Final(row) \/ row.state = row.desired
                                               THEN At("unlock") ELSE Acting(row, "act", "unknown")]

\* syncInstanceState, called for a request's event. A call that finds the lock
\* taken returns, and nobody calls again for it.
EventCall ==
    /\ called
    /\ called' = FALSE
    /\ IF lock = NoOne
       THEN Enter
       ELSE UNCHANGED <<lock, syncs>>
    /\ UNCHANGED <<row, jobs, handlers, runner, calm>>

\* syncStates calls it for a box whose states differ, unless it is in error.
CronCall ==
    /\ row.state \notin {"destroyed", "error"}
    /\ row.state # row.desired
    /\ lock = NoOne
    /\ Enter
    /\ UNCHANGED <<row, called, jobs, handlers, runner, calm>>

Incomplete == \E i \in DOMAIN jobs : jobs[i].status \in {"pending", "in_progress"}

Underway(type) ==
    CASE type = "create" -> "creating"
      [] type = "start" -> "starting"
      [] type = "stop" -> "stopping"
      [] type = "destroy" -> "destroying"

Reached(type) ==
    CASE type \in {"create", "start"} -> "started"
      [] type = "stop" -> "stopped"
      [] type = "destroy" -> "destroyed"

InferredWhenOver ==
    IF jobs = <<>> THEN row.state
    ELSE LET job == jobs[Len(jobs)]
         IN  IF Incomplete THEN Underway(job.type) ELSE Reached(job.type)

\* boxInfo of a v2 runner: what the box's latest job says of it. An incomplete
\* job is always the latest.
Inferred ==
    IF jobs = <<>> THEN row.state
    ELSE LET job == jobs[Len(jobs)]
         IN  IF job.status = "completed" THEN Reached(job.type) ELSE Underway(job.type)

\* The job a pass that read box is to submit, if any.
Wanted(box) ==
    CASE box.desired = "started" /\ box.state = "unknown" -> {"create"}
      [] box.desired = "started" /\ box.state = "stopped" -> {"start"}
      [] box.desired = "stopped" /\ box.state = "started" -> {"stop"}
      [] box.desired = "destroyed" /\ box.state # "destroying" -> {"destroy"}
      [] OTHER -> {}

ComingUp(box) == box.desired = "started" /\ box.state \in {"creating", "starting"}

\* The state a pass that read box takes from boxInfo, if any.
Learned(box) ==
    CASE ComingUp(box) /\ Inferred \in {"started", "unknown"} -> {Inferred}
      [] ComingUp(box) /\ Inferred \in {"stopping", "stopped", "destroying", "error"} -> {"error"}
      [] box.desired = "stopped" /\ box.state = "stopping" -> {Inferred} \intersect {"stopped"}
      [] box.desired = "destroyed" -> {Inferred} \intersect {"destroyed"}
      [] OTHER -> {}

CreateJobAnyway(type) == jobs' = Append(jobs, [type |-> type, status |-> "pending"])

\* createJob: the unique index refuses a second incomplete job.
CreateJob(type) ==
    /\ ~Incomplete
    /\ jobs' = Append(jobs, [type |-> type, status |-> "pending"])

\* A destroy asks boxInfo first, which has answered that the box is there when
\* the pass goes for "destroying". The answer may be old by the time it submits.
Asked(w) == syncs[w].to = "destroying"

Look(w) ==
    /\ syncs[w].pc = "act" /\ ~Asked(w)
    /\ "destroy" \in Wanted(syncs[w].box) /\ Inferred # "destroyed"
    /\ syncs' = [syncs EXCEPT ![w] = Acting(@.box, "act", "destroying")]
    /\ UNCHANGED <<row, lock, called, jobs, handlers, runner, calm>>

Ready(w) == {type \in Wanted(syncs[w].box) : type = "destroy" => Asked(w)}

\* createBox, startBox, stopBox, destroyBox: the job is in, the row is next.
Submit(w) ==
    /\ syncs[w].pc = "act"
    /\ \E type \in Ready(w) :
        /\ CreateJob(type)
        /\ syncs' = [syncs EXCEPT ![w] = Acting(@.box, "check", Underway(type))]
    /\ UNCHANGED <<row, lock, called, handlers, runner, calm>>

\* JobConflictError, or nothing to do before the runner is done.
Leave(w) ==
    /\ syncs[w].pc = "act"
    /\ \/ Ready(w) # {} /\ Incomplete
       \/ Wanted(syncs[w].box) \union Learned(syncs[w].box) = {}
    /\ syncs' = [syncs EXCEPT ![w] = At("unlock")]
    /\ UNCHANGED <<row, lock, called, jobs, handlers, runner, calm>>

Learn(w) ==
    /\ syncs[w].pc = "act" /\ ~Asked(w)
    /\ \E s \in Learned(syncs[w].box) :
        syncs' = [syncs EXCEPT ![w] = Acting(@.box, "check", s)]
    /\ UNCHANGED <<row, lock, called, jobs, handlers, runner, calm>>

TimeOutOfJob(w) ==
    /\ syncs[w].pc = "act"
    /\ ComingUp(syncs[w].box) /\ Incomplete
    /\ Inferred \in {"creating", "starting", "destroyed"}
    /\ Fault("timeout")
    /\ syncs' = [syncs EXCEPT ![w] = Acting(@.box, "save", "error")]
    /\ UNCHANGED <<row, lock, called, jobs, handlers, runner>>

\* checkTimeoutError goes to the row without a look at the lock.
TimeOut(w) ==
    /\ syncs[w].pc = "act"
    /\ ComingUp(syncs[w].box)
    /\ Inferred \in {"creating", "starting", "destroyed"}
    /\ IF Incomplete THEN Fault("timeout") ELSE UNCHANGED calm
    /\ syncs' = [syncs EXCEPT ![w] = Acting(@.box, "save", "error")]
    /\ UNCHANGED <<row, lock, called, jobs, handlers, runner>>

\* updateBoxState, up to the write: the lock must still be this pass's.
Check(w) ==
    /\ syncs[w].pc = "check"
    /\ syncs' = [syncs EXCEPT ![w] = IF lock = w /\ syncs[w].box.pending
                                     THEN Acting(@.box, "save", @.to) ELSE At("unlock")]
    /\ UNCHANGED <<row, lock, called, jobs, handlers, runner, calm>>

SaveOrError(w) ==
    /\ syncs[w].pc = "save"
    /\ row' = InState(row, IF Unchanged(syncs[w].box) THEN syncs[w].to ELSE "error")
    /\ syncs' = [syncs EXCEPT ![w] = At("unlock")]
    /\ UNCHANGED <<lock, called, jobs, handlers, runner, calm>>

\* The write of updateBoxState. On a conflict the pass gives way.
Save(w) ==
    /\ syncs[w].pc = "save"
    /\ row' = IF Unchanged(syncs[w].box) THEN InState(row, syncs[w].to) ELSE row
    /\ syncs' = [syncs EXCEPT ![w] = At("unlock")]
    /\ UNCHANGED <<lock, called, jobs, handlers, runner, calm>>

\* Any other error of a pass: the row is set to error "without safeguards".
Fail(w) ==
    /\ syncs[w].pc \in {"act", "check"}
    /\ Fault("call")
    /\ row' = InState(row, "error")
    /\ syncs' = [syncs EXCEPT ![w] = At("unlock")]
    /\ UNCHANGED <<lock, called, jobs, handlers, runner>>

\* unlock deletes the key, whoever holds it by now.
Release(held) ==
    /\ lock' = NoOne
    /\ IF lock \in held \union {NoOne} \/ syncs[lock].pc = "idle"
       THEN UNCHANGED calm ELSE Fault("unlock")

Unlock(w) ==
    /\ syncs[w].pc = "unlock"
    /\ syncs' = [syncs EXCEPT ![w] = At("idle")]
    /\ Release({w})
    /\ UNCHANGED <<row, called, jobs, handlers, runner>>

\* The lock's time to live is over: its pass died, or it is slow.
Expire ==
    /\ lock # NoOne
    /\ IF syncs[lock].pc = "idle" THEN UNCHANGED calm ELSE Fault("expiry")
    /\ lock' = NoOne
    /\ UNCHANGED <<row, called, syncs, jobs, handlers, runner>>

\* The API process dies. The lock stays until it expires.
CrashApi ==
    /\ Fault("api")
    /\ called' = FALSE /\ handlers' = {} /\ syncs' = [w \in Workers |-> At("idle")]
    /\ UNCHANGED <<row, lock, jobs, runner>>

(* --------------------------- finished jobs ------------------------------- *)

Ended == {"completed", "failed"}

\* updateJobStatus: a status may be repeated, and each time handled.
MayBecome(from, to) ==
    \/ from = to
    \/ from = "pending" /\ to \in {"in_progress", "failed"}
    \/ from = "in_progress" /\ to \in Ended

UpdateJob(i, status) ==
    /\ MayBecome(jobs[i].status, status)
    /\ jobs' = [jobs EXCEPT ![i].status = status]
    /\ handlers' = handlers \union {[job |-> i, pc |-> "read", box |-> NewRow]}

\* handleStaleJobs
Stale(i) ==
    /\ jobs[i].status = "in_progress"
    /\ IF \E e \in execs : e.job = i THEN Fault("gave_up") ELSE UNCHANGED calm
    /\ UpdateJob(i, "failed")
    /\ UNCHANGED <<row, lock, called, syncs, runner>>

\* What the handler of a finished job makes of the row.
Outcome(job) == IF job.status = "completed" THEN Reached(job.type) ELSE "error"

HandleRead(h) ==
    /\ h.pc = "read"
    /\ IF h.job = Len(jobs) THEN UNCHANGED calm ELSE Fault("tardy")
    /\ handlers' = (handlers \ {h}) \union
        {IF row.desired = Reached(jobs[h.job].type)
         THEN [h EXCEPT !.pc = "save", !.box = row] ELSE [h EXCEPT !.pc = "unlock"]}
    /\ UNCHANGED <<row, lock, called, syncs, jobs, runner>>

\* A conflict is logged and dropped. Rows are compared by their columns, so a
\* handler may meet the row it has read again, a stop and a start later.
HandleSave(h) ==
    /\ h.pc = "save"
    /\ IF Unchanged(h.box)
       THEN /\ row' = InState(row, Outcome(jobs[h.job]))
            /\ IF h.job = Len(jobs) THEN UNCHANGED calm ELSE Fault("tardy")
       ELSE UNCHANGED <<row, calm>>
    /\ handlers' = (handlers \ {h}) \union {[h EXCEPT !.pc = "unlock", !.box = NewRow]}
    /\ UNCHANGED <<lock, called, syncs, jobs, runner>>

HandleUnlock(h) ==
    /\ h.pc = "unlock"
    /\ handlers' = handlers \ {h}
    /\ Release({})
    /\ UNCHANGED <<row, called, syncs, jobs, runner>>

(* ------------------------------- the runner ------------------------------ *)

\* claimPendingJobs, and the poller's goroutine if the answer arrives.
Claim(i) ==
    /\ jobs[i].status = "pending"
    /\ jobs' = [jobs EXCEPT ![i].status = "in_progress"]
    /\ \/ /\ execs' = execs \union {[job |-> i, pc |-> "run", ok |-> TRUE]}
          /\ UNCHANGED calm
       \/ Fault("poll") /\ UNCHANGED execs
    /\ UNCHANGED <<api, vm, report>>

\* What the operation leaves on the runner when it succeeds and when it fails.
\* A box that was never booted stays so when it is stopped, and one whose boot
\* fails is marked as failed, if there is time.
Success(type) ==
    CASE type = "create" -> {"running"}
      [] type # "create" /\ vm = "absent" -> {}
      [] type = "start" /\ vm # "absent" -> {"running"}
      [] type = "stop" /\ vm # "absent" -> {IF vm = "made" THEN "made" ELSE "stopped"}
      [] type = "destroy" /\ vm # "absent" -> {"absent"}

Failure(type) ==
    CASE type = "create" /\ vm = "absent" -> {"absent", "made", "failed"}
      [] type \in {"create", "start"} /\ vm \in {"made", "stopped"} -> {vm, "failed"}
      [] OTHER -> {vm}

Execute(e) ==
    /\ e.pc = "run"
    /\ LET type == jobs[e.job].type
       IN  \/ /\ vm' \in Success(type)
              /\ execs' = (execs \ {e}) \union {[e EXCEPT !.pc = "report"]}
              /\ UNCHANGED calm
           \/ /\ vm' \in Failure(type)
              /\ IF Success(type) = {} THEN UNCHANGED calm ELSE Fault("op")
              /\ execs' = (execs \ {e}) \union {[e EXCEPT !.pc = "report", !.ok = FALSE]}
    /\ UNCHANGED <<api, jobs, report>>

\* The executor's updateJobStatus: retried until answered, given up on a 4xx.
Report(e) ==
    LET status == IF e.ok THEN "completed" ELSE "failed"
    IN  /\ e.pc = "report"
        /\ \/ /\ UpdateJob(e.job, status)
              /\ \/ execs' = execs \ {e} /\ UNCHANGED calm
                 \/ Fault("again") /\ UNCHANGED execs
           \/ /\ IF MayBecome(jobs[e.job].status, status) THEN Fault("report") ELSE UNCHANGED calm
              /\ execs' = execs \ {e}
              /\ UNCHANGED <<jobs, handlers>>
        /\ UNCHANGED <<row, lock, called, syncs, vm, report>>

NoReport == [pc |-> "idle", local |-> "unknown"]

\* A new process executes what the API still shows in progress. It takes a box
\* that is down and has left an exit file for failed.
RestartRunner ==
    /\ Fault("runner")
    /\ execs' = {[job |-> i, pc |-> "run", ok |-> TRUE] :
                    i \in {j \in DOMAIN jobs : jobs[j].status = "in_progress"}}
    /\ vm' \in IF vm = "absent" THEN {vm}
              ELSE IF vm = "running" THEN {vm, "stopped", "failed"} ELSE {vm, "failed"}
    /\ report' = NoReport
    /\ UNCHANGED <<api, jobs>>

Exit ==
    /\ vm = "running"
    /\ Fault("exit")
    /\ vm' = "stopped"
    /\ UNCHANGED <<api, jobs, execs, report>>

(* -------------------------- the runner's report -------------------------- *)

\* ToBoxState. A box that is not there is not reported, a paused one counts as
\* running, and nothing in the runtime ever makes a box Stopping.
LocalState ==
    CASE vm = "running" -> "started"
      [] vm = "stopped" -> "stopped"
      [] vm = "made" -> "creating"
      [] vm = "failed" -> "error"
      [] vm = "absent" -> "unknown"

\* PerformSync reads the runner's boxes first ...
Observe ==
    /\ report.pc = "idle"
    /\ vm # "absent"
    /\ load.reports > 0
    /\ load' = [load EXCEPT !.reports = @ - 1]
    /\ report' = [pc |-> "local", local |-> LocalState]
    /\ UNCHANGED <<api, jobs, execs, vm, late>>

\* ... then the API's rows: the ones that are started and meant to be, and
\* the ones coming up, which only a started box may answer (canReport).
Compare ==
    /\ report.pc = "local"
    /\ report' =
        IF \/ row.state = "started" /\ row.desired = "started" /\ report.local # "started"
           \/ row.state \in {"creating", "starting"} /\ report.local = "started"
        THEN [report EXCEPT !.pc = "post"] ELSE NoReport
    /\ UNCHANGED <<api, jobs, execs, vm, calm>>

\* findStalledStartupJob
Stalled(i) ==
    /\ jobs[i].status = "in_progress"
    /\ row.state = Underway(jobs[i].type)
    /\ jobs[i].type \in {"create", "start"}

\* getExpectedDesiredStateForState, where it has an answer.
Followed == IF report.local \in DesiredStates THEN report.local ELSE row.desired

\* A report that is taken for true though the VM has changed since.
OfThePast(otherwise) ==
    IF report.local = LocalState THEN otherwise ELSE Fault("overtaken")

\* updateState: a settled row follows the runner if the entity's assertion
\* lets it, and a start that stalled is completed from its report. A post that
\* is lost or refused, or comes before a start counts as stalled, changes
\* nothing.
Post ==
    /\ report.pc = "post"
    /\ report' = NoReport
    /\ \/ /\ row.state \in {"started", "stopped"} /\ row.state # report.local /\ Settled
          /\ report.local \in ValidStates(Followed)
          /\ row' = InState([row EXCEPT !.desired = Followed], report.local)
          /\ OfThePast(UNCHANGED calm)
          /\ UNCHANGED <<jobs, handlers>>
       \/ /\ report.local = "started" /\ row.desired = "started"
          /\ \E i \in DOMAIN jobs :
                /\ Stalled(i) /\ UpdateJob(i, "completed")
                /\ OfThePast(IF [job |-> i, pc |-> "run", ok |-> TRUE] \in execs
                             THEN Fault("gave_up") ELSE UNCHANGED calm)
          /\ UNCHANGED row
       \/ UNCHANGED <<row, jobs, handlers, calm>>
    /\ UNCHANGED <<lock, called, syncs, execs, vm>>

-----------------------------------------------------------------------------
Init ==
    /\ row = NewRow
    /\ lock = NoOne /\ called = TRUE
    /\ syncs = [w \in Workers |-> At("idle")]
    /\ jobs = <<>> /\ handlers = {} /\ execs = {}
    /\ vm = "absent" /\ report = NoReport
    /\ load \in Loads /\ late = {}

Pass(w) ==
    \/ Look(w) \/ Submit(w) \/ Leave(w) \/ Learn(w)
    \/ Check(w) \/ Save(w) \/ Unlock(w)

Handle == \E h \in handlers : HandleRead(h) \/ HandleSave(h) \/ HandleUnlock(h)

Next ==
    \/ Start \/ Stop \/ Destroy
    \/ EventCall \/ CronCall
    \/ \E w \in Workers : Pass(w) \/ TimeOut(w) \/ Fail(w)
    \/ Expire \/ CrashApi
    \/ Handle
    \/ \E i \in DOMAIN jobs : Stale(i) \/ Claim(i)
    \/ \E e \in execs : Execute(e) \/ Report(e)
    \/ RestartRunner \/ Exit
    \/ Observe \/ Compare \/ Post

\* The crons run every ten seconds and every minute, every pass, handler and
\* execution goes on until it dies, the runner polls, and a lock whose holder
\* died expires. A start that makes no progress is timed out by the first pass
\* after its time, so passes cannot miss that for ever. Nothing obliges the
\* user, or the runner to report.
Fairness ==
    /\ WF_vars(EventCall) /\ WF_vars(CronCall) /\ WF_vars(Handle)
    /\ \A w \in Workers : WF_vars(Pass(w)) /\ SF_vars(TimeOut(w) /\ UNCHANGED late)
    /\ WF_vars(Expire /\ UNCHANGED calm)
    /\ WF_vars(\E i \in DOMAIN jobs : Stale(i) /\ UNCHANGED calm)
    /\ WF_vars(\E i \in DOMAIN jobs : Claim(i))
    /\ WF_vars(\E e \in execs : Execute(e))
    /\ WF_vars(\E e \in execs : Report(e))

Spec == Init /\ [][Next]_vars /\ Fairness
=============================================================================
