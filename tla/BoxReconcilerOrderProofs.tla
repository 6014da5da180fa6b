---------------------- MODULE BoxReconcilerOrderProofs ----------------------
(* Theorems of BoxReconciler that relate the row to the latest job: jobs are *)
(* submitted as the row asks, a row that looks final is true, and a box in   *)
(* error had a failure.                                                      *)
EXTENDS BoxReconcilerTruthProofs

(* A pass submits a job, and nothing else happens.                           *)
Submits(w, type) ==
    /\ syncs[w].pc = "act" /\ type \in Wanted(syncs[w].box) /\ ~Incomplete
    /\ type = "destroy" => Asked(w)
    /\ jobs' = Append(jobs, [type |-> type, status |-> "pending"])
    /\ Writing(w)' /\ syncs'[w].box = syncs[w].box /\ syncs'[w].to = Underway(type)
    /\ \A v \in Workers : v # w => syncs'[v] = syncs[v]
    /\ UNCHANGED <<row, lock, called, handlers, runner, calm>>

(* Either a job is submitted, or the jobs are as many as they were.          *)
LEMMA JobsGrow ==
    ASSUME Typed, [Next]_vars
    PROVE  \/ Len(jobs') = Len(jobs) /\ DOMAIN jobs' = DOMAIN jobs
           \/ \E w \in Workers : \E type \in Wanted(syncs[w].box) : Submits(w, type)
<1> DEFINE Same == Len(jobs') = Len(jobs) /\ DOMAIN jobs' = DOMAIN jobs
<1>1. jobs \in Seq(Jobs) /\ syncs \in [Workers -> [pc : Pcs, box : Rows, to : States]]
    BY DEF Typed, JobsTyped, PassesTyped
<1>2. ASSUME NEW i \in DOMAIN jobs, NEW status, jobs' = [jobs EXCEPT ![i].status = status]
      PROVE  Same
    <2>1. jobs' \in Seq(Jobs)
        BY TypedStep DEF Typed, JobsTyped
    <2>2. DOMAIN jobs' = DOMAIN jobs
        BY <1>2
    <2> QED BY <1>1, <2>1, <2>2
<1>3. ASSUME NEW w \in Workers, Submit(w)
      PROVE  \E type \in Wanted(syncs[w].box) : Submits(w, type)
    <2>1. PICK type \in Wanted(syncs[w].box) :
            /\ CreateJob(type) /\ (type = "destroy" => Asked(w))
            /\ syncs' = [syncs EXCEPT ![w] = Acting(@.box, "check", Underway(type))]
        BY <1>3 DEF Submit, Ready
    <2>2. syncs'[w] = [pc |-> "check", box |-> syncs[w].box, to |-> Underway(type)]
        BY <1>1, <2>1 DEF Acting
    <2>3. \A v \in Workers : v # w => syncs'[v] = syncs[v]
        BY <1>1, <2>1
    <2> QED BY <1>3, <2>1, <2>2, <2>3 DEF Submit, Submits, CreateJob, Writing
<1>4. ASSUME NEW i \in DOMAIN jobs, Stale(i) \/ Claim(i) PROVE Same
    BY <1>2, <1>4 DEF Stale, Claim, UpdateJob
<1>5. ASSUME NEW e \in execs, Report(e) PROVE Same
    <2>1. e.job \in DOMAIN jobs
        BY ExecsTyped DEF Typed, RunnerTyped
    <2> QED BY <1>2, <1>5, <2>1 DEF Report, UpdateJob
<1>6. ASSUME Post PROVE Same
    BY <1>2, <1>6 DEF Post, UpdateJob
<1> QED BY <1>3, <1>4, <1>5, <1>6, JobsWriters

LEMMA SubmitsLast ==
    ASSUME Typed, NEW w \in Workers, NEW type, Submits(w, type)
    PROVE  /\ Len(jobs') = Len(jobs) + 1 /\ DOMAIN jobs' = DOMAIN jobs \union {Len(jobs) + 1}
           /\ Len(jobs) + 1 \notin DOMAIN jobs /\ jobs' # <<>>
           /\ \A i \in DOMAIN jobs : jobs'[i] = jobs[i]
           /\ jobs'[Len(jobs')].type = type /\ jobs'[Len(jobs')].status = "pending"
           /\ type \in JobTypes
<1>1. jobs \in Seq(Jobs) /\ jobs' = Append(jobs, [type |-> type, status |-> "pending"])
    BY DEF Typed, JobsTyped, Submits
<1>2. type \in JobTypes
    BY DEF Submits, Wanted, JobTypes
<1>3. jobs'[Len(jobs')] = [type |-> type, status |-> "pending"]
    BY <1>1
<1> QED BY <1>1, <1>2, <1>3

(* An incomplete job is the latest.                                          *)
Last == Len(jobs)
OpenIsLast == \A i \in DOMAIN jobs : Open(i) => i = Last

LEMMA OpenIsLastStep == Typed /\ OpenIsLast /\ [Next]_vars => OpenIsLast'
<1> SUFFICES ASSUME Typed, OpenIsLast, [Next]_vars, NEW i \in DOMAIN jobs', Open(i)'
             PROVE  i = Last'
    BY DEF OpenIsLast
<1>1. ASSUME NEW w \in Workers, NEW type, Submits(w, type) PROVE i = Last'
    <2>1. \A k \in DOMAIN jobs : ~Open(k)
        BY <1>1 DEF Submits, Incomplete, Open
    <2> QED BY <1>1, <2>1, SubmitsLast DEF Last, Open
<1>2. ASSUME Len(jobs') = Len(jobs), DOMAIN jobs' = DOMAIN jobs PROVE i = Last'
    <2>1. Open(i)
        BY <1>2, JobsMove DEF MayBecome, Open, Ended
    <2> QED BY <1>2, <2>1 DEF OpenIsLast, Last
<1> QED BY <1>1, <1>2, JobsGrow

(* A fault happens once.                                                     *)
FaultsOnce == load.faults \intersect late = {}

LEMMA CalmMoves ==
    ASSUME Lawful, [Next]_vars
    PROVE  \/ load'.faults = load.faults /\ late' = late
           \/ \E k \in FaultNames : Fault(k)
<1> DEFINE Goal == \/ load'.faults = load.faults /\ late' = late
                   \/ \E k \in FaultNames : Fault(k)
<1>1. ASSUME UNCHANGED calm PROVE Goal
    BY <1>1 DEF calm
<1>2. /\ {"op", "exit", "poll", "report", "again", "runner", "timeout", "gave_up"} \subseteq FaultNames
      /\ {"unlock", "expiry", "api", "call", "tardy", "overtaken"} \subseteq FaultNames
    BY DEF FaultNames
<1>3. ASSUME NEW held, Release(held) PROVE Goal
    BY <1>1, <1>2, <1>3 DEF Release
<1>4. ASSUME Start \/ Stop \/ Destroy \/ Observe PROVE Goal
    BY <1>4 DEF Start, Stop, Destroy, Request, Observe, Lawful, OthersTyped, LoadSet
<1>5. CASE EventCall \/ CronCall \/ Expire \/ CrashApi
    BY <1>1, <1>2, <1>5 DEF EventCall, CronCall, Expire, CrashApi
<1>6. ASSUME NEW w \in Workers, Pass(w) \/ TimeOut(w) \/ Fail(w) PROVE Goal
    BY <1>1, <1>2, <1>3, <1>6
       DEF Pass, Look, Submit, Leave, Learn, Check, Save, Unlock, TimeOut, Fail
<1>7. ASSUME NEW h \in handlers, HandleRead(h) \/ HandleSave(h) \/ HandleUnlock(h) PROVE Goal
    <2>1. CASE HandleSave(h)
        <3>1. UNCHANGED calm \/ Fault("tardy")
            BY <2>1 DEF HandleSave, calm
        <3> QED BY <1>1, <1>2, <3>1
    <2> QED BY <1>1, <1>2, <1>3, <1>7, <2>1 DEF HandleRead, HandleUnlock
<1>8. ASSUME NEW i \in DOMAIN jobs, Stale(i) \/ Claim(i) PROVE Goal
    BY <1>1, <1>2, <1>8 DEF Stale, Claim
<1>9. ASSUME NEW e \in execs, Execute(e) \/ Report(e) PROVE Goal
    BY <1>1, <1>2, <1>9 DEF Execute, Report
<1>10. ASSUME RestartRunner \/ Exit PROVE Goal
    <2>1. Fault("runner") \/ Fault("exit")
        BY <1>10 DEF RestartRunner, Exit
    <2> QED BY <1>2, <2>1
<1>11. ASSUME Compare \/ Post PROVE Goal
    <2>1. UNCHANGED calm \/ Fault("overtaken") \/ Fault("gave_up")
        BY <1>11 DEF Compare, Post, OfThePast, calm
    <2> QED BY <1>1, <1>2, <2>1
<1>12. CASE UNCHANGED vars
    BY <1>1, <1>12 DEF vars, calm
<1> QED BY <1>4, <1>5, <1>6, <1>7, <1>8, <1>9, <1>10, <1>11, <1>12 DEF Next, Handle

LEMMA FaultsOnceStep == Lawful /\ FaultsOnce /\ [Next]_vars => FaultsOnce'
<1> SUFFICES ASSUME Lawful, FaultsOnce, [Next]_vars PROVE FaultsOnce'
    OBVIOUS
<1>1. ASSUME NEW k, Fault(k) PROVE FaultsOnce'
    <2>1. load'.faults = load.faults \ {k} /\ late' = late \union {k}
        BY <1>1 DEF Fault, Lawful, OthersTyped, LoadSet
    <2> QED BY <2>1 DEF FaultsOnce
<1> QED BY <1>1, CalmMoves DEF FaultsOnce, Lawful

(* While there is no job the row is not at rest and no pass is to say so.    *)
WithJobs ==
    jobs = <<>> =>
        /\ row.state \notin {"started", "stopped"}
        /\ \A w \in Workers : Writing(w) => syncs[w].to \notin {"started", "stopped"}

LastDone(types) ==
    jobs # <<>> /\ jobs[Last].type \in types /\ jobs[Last].status = "completed"
Up == {"create", "start"}

(* What a pass infers from the latest job is what that job did.              *)
LEMMA InferredDone ==
    ASSUME Typed, WithJobs
    PROVE  /\ Inferred = "started" => LastDone(Up)
           /\ Inferred = "stopped" => LastDone({"stop"})
<1>1. CASE jobs = <<>>
    BY <1>1 DEF Inferred, WithJobs
<1>2. CASE jobs # <<>>
    <2>1. Last \in DOMAIN jobs /\ jobs[Last] \in Jobs
        BY <1>2 DEF Typed, JobsTyped, Last
    <2> QED BY <1>2, <2>1 DEF Inferred, Underway, Reached, Jobs, JobTypes, LastDone, Up, Last
<1> QED BY <1>1, <1>2

(* The steps that change the row, and what they make of it. None of them     *)
(* touches a job, an execution or the VM.                                    *)
Is(r, state, desired) == r.state = state /\ r.desired = desired
Saves(w) ==
    /\ Save(w) /\ syncs[w].box = row
    /\ row'.state = syncs[w].to /\ row'.desired = row.desired
Handles(h) ==
    /\ HandleSave(h) /\ h.box = row /\ h.job \in DOMAIN jobs
    /\ h.job = Last \/ "tardy" \in late'
    /\ row'.state = Outcome(jobs[h.job]) /\ row'.desired = row.desired
Posts ==
    /\ Post /\ Settled /\ row.state \in {"started", "stopped"} /\ report.pc = "post"
    /\ report.local # row.state /\ report.local \in ValidStates(Followed)
    /\ row'.state = report.local /\ row'.desired = Followed
    /\ report.local = LocalState \/ "overtaken" \in late'
RowStep ==
    \/ Start /\ Is(row, "stopped", "stopped") /\ Is(row', "stopped", "started")
    \/ Stop /\ Is(row, "started", "started") /\ Is(row', "started", "stopped")
    \/ Destroy /\ ~row.pending /\ row'.desired = "destroyed"
    \/ \E w \in Workers : Fail(w) /\ row'.state = "error"
    \/ \E w \in Workers : Saves(w)
    \/ \E h \in handlers : Handles(h)
    \/ Posts

LEMMA RowSteps ==
    ASSUME Typed, [Next]_vars, row' # row
    PROVE  RowStep /\ UNCHANGED <<jobs, execs, vm>>
<1>1. row \in Rows /\ "error" \in States
    BY DEF Typed, RowTyped, States
<1>2. ASSUME Start \/ Stop \/ Destroy PROVE RowStep /\ UNCHANGED <<jobs, execs, vm>>
    BY <1>1, <1>2 DEF Start, Stop, Destroy, Request, Settled, Rows, Is, RowStep, runner
<1>3. ASSUME NEW w \in Workers, Save(w) PROVE RowStep /\ UNCHANGED <<jobs, execs, vm>>
    <2>1. syncs[w].to \in States /\ syncs[w].box = row
        BY <1>3 DEF Typed, PassesTyped, Save, Unchanged
    <2>2. row' = InState(row, syncs[w].to)
        BY <1>3, <2>1 DEF Save, Unchanged
    <2>3. Saves(w)
        BY <1>1, <1>3, <2>1, <2>2, InStateTyped, InStateState DEF Saves
    <2> QED BY <1>3, <2>3 DEF RowStep, Save, runner
<1>4. ASSUME NEW w \in Workers, Fail(w) PROVE RowStep /\ UNCHANGED <<jobs, execs, vm>>
    <2>1. row'.state = "error"
        BY <1>1, <1>4, InStateState DEF Fail
    <2> QED BY <1>4, <2>1 DEF RowStep, Fail, runner
<1>5. ASSUME NEW h \in handlers, HandleSave(h) PROVE RowStep /\ UNCHANGED <<jobs, execs, vm>>
    <2>1. h.job \in DOMAIN jobs /\ jobs[h.job] \in Jobs
        BY DEF Typed, HandlersTyped, JobsTyped
    <2>2. Outcome(jobs[h.job]) \in States
        BY <1>1, <2>1, TargetsTyped DEF Outcome, Jobs
    <2>3. /\ h.box = row /\ row' = InState(row, Outcome(jobs[h.job]))
          /\ h.job = Last \/ "tardy" \in late'
        BY <1>5 DEF HandleSave, Unchanged, Fault, Last
    <2>4. Handles(h)
        BY <1>1, <1>5, <2>1, <2>2, <2>3, InStateTyped, InStateState DEF Handles
    <2> QED BY <1>5, <2>4 DEF RowStep, HandleSave, runner
<1>6. ASSUME Post PROVE RowStep /\ UNCHANGED <<jobs, execs, vm>>
    <2>1. /\ row.state \in {"started", "stopped"} /\ row.state # report.local /\ Settled
          /\ report.local \in ValidStates(Followed) /\ report.pc = "post"
          /\ row' = InState([row EXCEPT !.desired = Followed], report.local)
          /\ OfThePast(UNCHANGED calm) /\ UNCHANGED <<jobs, execs, vm>>
        BY <1>6 DEF Post
    <2>2. Followed \in DesiredStates /\ report.local \in States
        BY <1>1 DEF Typed, RunnerTyped, Followed, Rows, DesiredStates, States
    <2>3. /\ [row EXCEPT !.desired = Followed] \in Rows
          /\ [row EXCEPT !.desired = Followed].desired = Followed
        BY <1>1, <2>2 DEF Rows
    <2>4. row'.state = report.local /\ row'.desired = Followed
        BY <2>1, <2>2, <2>3, InStateTyped, InStateState
    <2>5. report.local = LocalState \/ "overtaken" \in late'
        BY <2>1 DEF OfThePast, Fault
    <2> QED BY <1>6, <2>1, <2>4, <2>5 DEF RowStep, Posts
<1> QED BY <1>2, <1>3, <1>4, <1>5, <1>6, RowWriters

LEMMA WithJobsStep == Typed /\ WithJobs /\ [Next]_vars => WithJobs'
<1> SUFFICES ASSUME Typed, WithJobs, [Next]_vars, jobs' = <<>>
             PROVE  /\ row'.state \notin {"started", "stopped"}
                    /\ \A w \in Workers : Writing(w)' => syncs'[w].to \notin {"started", "stopped"}
    BY DEF WithJobs
<1>1. jobs = <<>>
    <2>1. \A i \in DOMAIN jobs : i \in DOMAIN jobs'
        BY JobsMove
    <2> QED BY <2>1 DEF Typed, JobsTyped
<1>2. row'.state \notin {"started", "stopped"}
    <2>1. \A h \in handlers : ~Handles(h)
        BY <1>1 DEF Handles
    <2>2. ASSUME NEW w \in Workers, Saves(w) PROVE row'.state \notin {"started", "stopped"}
        BY <1>1, <2>2 DEF Saves, Save, Writing, WithJobs
    <2> QED BY <1>1, <2>1, <2>2, RowSteps DEF RowStep, Posts, Is, WithJobs, Destroy, Request,
                                                 Typed, RowTyped, Rows
<1>3. ASSUME NEW w \in Workers, Writing(w)' PROVE syncs'[w].to \notin {"started", "stopped"}
    <2>1. syncs[w] \in [pc : Pcs, box : Rows, to : States]
        BY DEF Typed, PassesTyped
    <2>2. CASE UNCHANGED syncs[w] \/ Checks(w)
        BY <1>1, <1>3, <2>1, <2>2 DEF Checks, Writing, WithJobs
    <2>3. CASE Targets(w)
        <3>1. ASSUME NEW type, jobs' = Append(jobs, [type |-> type, status |-> "pending"])
              PROVE  FALSE
            BY <1>1, <3>1
        <3>2. ~LastDone(Up) /\ ~LastDone({"stop"})
            BY <1>1 DEF LastDone
        <3> QED BY <2>3, <3>1, <3>2, InferredDone DEF Targets, Learned
    <2>4. ~Reads(w) /\ ~Looks(w) /\ ~Leaves(w)
        BY <1>3 DEF Reads, Looks, Leaves, Writing, Acting
    <2> QED BY <2>2, <2>3, <2>4, PassMoves
<1> QED BY <1>2, <1>3
-----------------------------------------------------------------------------
(* A job that is the latest has been carried out if it is completed, or if   *)
(* the runner is about to report that it went well.                          *)
CarriedOut(i) ==
    \/ jobs[i].status = "completed"
    \/ \E e \in execs : e.job = i /\ e.pc = "report" /\ e.ok

LEMMA CarriedOutMoves ==
    ASSUME Typed, [Next]_vars, NEW i \in DOMAIN jobs, CarriedOut(i)'
    PROVE  \/ CarriedOut(i)
           \/ \E f \in execs : Execute(f) /\ f.job = i /\ vm' \in Success(jobs[i].type)
           \/ jobs[i].type \in Up /\ CompletedByReport
<1>1. CASE jobs'[i].status = "completed"
    BY <1>1, JobsMove DEF CarriedOut, Up
<1>2. ASSUME NEW e \in execs', e.job = i, e.pc = "report", e.ok
      PROVE  \/ CarriedOut(i)
             \/ \E f \in execs : Execute(f) /\ f.job = i /\ vm' \in Success(jobs[i].type)
    <2>1. CASE e \in execs
        BY <1>2, <2>1 DEF CarriedOut
    <2>2. CASE e \notin execs
        <3>1. ASSUME RestartRunner PROVE FALSE
            BY <1>2, <3>1 DEF RestartRunner
        <3> QED BY <1>2, <2>2, <3>1, ExecsMove
    <2> QED BY <2>1, <2>2
<1> QED BY <1>1, <1>2 DEF CarriedOut

(* The VM starts by a create or a start job only.                            *)
LEMMA VmStarts ==
    ASSUME Typed, [Next]_vars, vm # "running", vm' = "running"
    PROVE  \E e \in execs : /\ Execute(e) /\ e.pc = "run"
                            /\ e.job \in DOMAIN jobs /\ jobs[e.job].type \in Up
<1>1. ~RestartRunner /\ ~Exit
    BY DEF RestartRunner, Exit
<1>2. PICK e \in execs : Execute(e)
    BY <1>1, RunnerWriters
<1>3. e.job \in DOMAIN jobs /\ jobs[e.job] \in Jobs
    <2>1. e.job \in DOMAIN jobs
        BY ExecsTyped DEF Typed, RunnerTyped
    <2> QED BY <2>1 DEF Typed, JobsTyped
<1>4. jobs[e.job].type \in Up
    BY <1>2, <1>3 DEF Execute, Success, Failure, Jobs, JobTypes, Up
<1> QED BY <1>2, <1>3, <1>4 DEF Execute

(* Jobs run one after the other, each before the next is there: so the VM    *)
(* does not run after a stop.                                                *)
OneByOne == Without({"gave_up", "overtaken"})
StopsTheVm ==
    OneByOne => (LastDone({"stop"}) \/ (jobs # <<>> /\ jobs[Last].type = "stop" /\ CarriedOut(Last))
                    => vm # "running")

LEMMA StopsTheVmStep ==
    Typed /\ OneJob /\ OpenIsLast /\ StopsTheVm /\ [Next]_vars => StopsTheVm'
<1> DEFINE Stopped == jobs # <<>> /\ jobs[Last].type = "stop" /\ CarriedOut(Last)
<1> SUFFICES ASSUME Typed, OneJob, OpenIsLast, StopsTheVm, [Next]_vars,
                    OneByOne', Stopped', vm' = "running"
             PROVE  FALSE
    BY DEF StopsTheVm, LastDone, CarriedOut
<1>1. OneByOne /\ (Stopped => vm # "running")
    BY LateStays DEF StopsTheVm, OneByOne
<1>2. \A e \in execs : e.pc = "run" => jobs[e.job].status = "in_progress" /\ e.job = Last
    BY <1>1, ExecsTyped DEF OneByOne, OneJob, NoneGivenUp, OpenIsLast, Open, Typed, RunnerTyped
<1>3. ASSUME NEW w \in Workers, NEW type, Submits(w, type) PROVE FALSE
    <2>1. ~CarriedOut(Last)'
        <3>1. execs' = execs
            BY <1>3 DEF Submits, runner
        <3>2. \A e \in execs : e.job \in DOMAIN jobs
            BY ExecsTyped DEF Typed, RunnerTyped
        <3>3. Len(jobs') \notin DOMAIN jobs
            BY <1>3, SubmitsLast
        <3> QED BY <1>3, <3>1, <3>2, <3>3, SubmitsLast DEF CarriedOut, Last
    <2> QED BY <2>1
<1>4. ASSUME Len(jobs') = Len(jobs), DOMAIN jobs' = DOMAIN jobs PROVE FALSE
    <2>1. Last \in DOMAIN jobs /\ Last' = Last /\ jobs # <<>>
        <3>1. jobs' \in Seq(Jobs) /\ jobs \in Seq(Jobs)
            BY TypedStep DEF Typed, JobsTyped
        <3> QED BY <1>4, <3>1 DEF Last
    <2>2. jobs[Last].type = "stop" /\ CarriedOut(Last)'
        BY <2>1, JobsMove
    <2>3. vm = "running"
        BY <1>2, <2>2, VmStarts DEF Up
    <2>4. ~CarriedOut(Last)
        BY <1>1, <2>1, <2>2, <2>3
    <2> QED BY <2>1, <2>2, <2>4, CarriedOutMoves DEF Success, Up
<1> QED BY <1>3, <1>4, JobsGrow

(* A pass writes "stopped" for a stop job that is still the latest.          *)
StopWritten ==
    Without(Locks) => \A w \in Workers :
        Writing(w) /\ syncs[w].to = "stopped" => LastDone({"stop"})

(* A job that went well stays the latest until the next is submitted.        *)
LEMMA LastStaysDone ==
    ASSUME Typed, [Next]_vars, NEW types, LastDone(types)
    PROVE  \/ LastDone(types)'
           \/ \E w \in Workers : \E type \in Wanted(syncs[w].box) : Submits(w, type)
<1>1. ASSUME Len(jobs') = Len(jobs), DOMAIN jobs' = DOMAIN jobs PROVE LastDone(types)'
    <2>1. Last \in DOMAIN jobs /\ Last' = Last /\ jobs' # <<>>
        <3>1. jobs' \in Seq(Jobs) /\ jobs \in Seq(Jobs)
            BY TypedStep DEF Typed, JobsTyped
        <3> QED BY <1>1, <3>1 DEF Last, LastDone
    <2> QED BY <2>1, JobsMove DEF LastDone, MayBecome
<1> QED BY <1>1, JobsGrow

LEMMA StopWrittenStep ==
    Typed /\ LockHeld /\ WithJobs /\ StopWritten /\ [Next]_vars => StopWritten'
<1> SUFFICES ASSUME Typed, LockHeld, WithJobs, StopWritten, [Next]_vars, Without(Locks)',
                    NEW w \in Workers, Writing(w)', syncs'[w].to = "stopped"
             PROVE  LastDone({"stop"})'
    BY DEF StopWritten
<1>1. Without(Locks) /\ \A v \in Workers : syncs[v].pc # "idle" => lock = v
    BY LateStays DEF LockHeld
<1>2. syncs[w] \in [pc : Pcs, box : Rows, to : States]
    BY DEF Typed, PassesTyped
<1>3. CASE UNCHANGED syncs[w] \/ Checks(w)
    <2>1. Writing(w) /\ LastDone({"stop"})
        BY <1>1, <1>2, <1>3 DEF Checks, Writing, StopWritten
    <2>2. ASSUME NEW v \in Workers, NEW type, Submits(v, type) PROVE FALSE
        BY <1>1, <2>1, <2>2 DEF Submits, Writing
    <2> QED BY <2>1, <2>2, LastStaysDone
<1>4. CASE Targets(w)
    <2>1. ASSUME NEW type \in Wanted(syncs[w].box) PROVE Underway(type) # "stopped"
        BY <2>1 DEF Wanted, Underway
    <2>2. Inferred = "stopped" /\ UNCHANGED jobs
        BY <1>4, <2>1 DEF Targets, Learned
    <2> QED BY <2>2, InferredDone DEF LastDone, Last
<1>5. ~Reads(w) /\ ~Looks(w) /\ ~Leaves(w)
    BY DEF Reads, Looks, Leaves, Writing, Acting
<1> QED BY <1>3, <1>4, <1>5, PassMoves

(* Where the user wants the box started, or it is at rest and stopped, no    *)
(* stop is under way that would stop a VM that runs, and a pass that is to   *)
(* submit one comes after the stop.                                          *)
Undelayed == Without({"unlock", "expiry", "gave_up", "tardy", "overtaken"})
NotToBeStopped == row.desired = "started" \/ Is(row, "stopped", "stopped")
StopsOnPurpose ==
    Undelayed /\ NotToBeStopped =>
        /\ jobs # <<>> /\ jobs[Last].type = "stop" /\ Open(Last) => vm # "running"
        /\ \A w \in Workers : syncs[w].pc = "act" /\ Is(syncs[w].box, "started", "stopped") =>
            LastDone({"stop"})

LEMMA StopsOnPurposeStep ==
    /\ Typed /\ OneJob /\ OpenIsLast /\ LockHeld /\ WithJobs /\ StopsTheVm /\ StopWritten
    /\ StopsOnPurpose /\ [Next]_vars
    => StopsOnPurpose'
<1> SUFFICES ASSUME Typed, OneJob, OpenIsLast, LockHeld, WithJobs, StopsTheVm, StopWritten,
                    StopsOnPurpose, [Next]_vars, Undelayed', NotToBeStopped'
             PROVE  /\ jobs' # <<>> /\ jobs'[Last'].type = "stop" /\ Open(Last)' => vm' # "running"
                    /\ \A w \in Workers :
                        syncs'[w].pc = "act" /\ Is(syncs'[w].box, "started", "stopped") =>
                            LastDone({"stop"})'
    BY DEF StopsOnPurpose
<1>1. /\ Undelayed /\ OneByOne /\ Without(Locks)
      /\ \A v \in Workers : syncs[v].pc # "idle" => lock = v
    BY LateStays DEF Undelayed, OneByOne, LockHeld, Locks, Without
<1>2. \A w \in Workers : syncs[w] \in [pc : Pcs, box : Rows, to : States]
    BY DEF Typed, PassesTyped
<1>3. NotToBeStopped \/ LastDone({"stop"})
    <2>1. CASE row' = row
        BY <2>1 DEF NotToBeStopped
    <2>2. CASE row' # row
        <3>1. ASSUME NEW w \in Workers, Saves(w) PROVE NotToBeStopped \/ LastDone({"stop"})
            BY <1>1, <3>1 DEF Saves, Save, NotToBeStopped, Is, StopWritten, Writing
        <3>2. ASSUME NEW h \in handlers, Handles(h) PROVE NotToBeStopped \/ LastDone({"stop"})
            <4>1. h.job = Last /\ jobs[h.job] \in Jobs /\ jobs # <<>>
                BY <3>2 DEF Handles, Undelayed, Without, Typed, JobsTyped
            <4> QED BY <3>2, <4>1 DEF Handles, NotToBeStopped, Is, Outcome, Reached, LastDone,
                                      Jobs, JobTypes
        <3>3. ASSUME NEW w \in Workers, Fail(w), row'.state = "error" PROVE NotToBeStopped
            <4>1. row'.desired = row.desired
                <5>1. row \in Rows /\ "error" \in States
                    BY DEF Typed, RowTyped, States
                <5> QED BY <3>3, <5>1, InStateTyped DEF Fail
            <4> QED BY <3>3, <4>1 DEF NotToBeStopped, Is
        <3>4. Posts => NotToBeStopped
            BY DEF Posts, Settled, NotToBeStopped, Is
        <3> QED BY <2>2, <3>1, <3>2, <3>3, <3>4, RowSteps DEF RowStep, NotToBeStopped, Is
    <2> QED BY <2>1, <2>2
<1>4. ASSUME jobs' # <<>>, jobs'[Last'].type = "stop", Open(Last)', vm' = "running"
      PROVE  FALSE
    <2>1. ASSUME NEW w \in Workers, NEW type, Submits(w, type) PROVE FALSE
        <3>1. type = "stop" /\ row' = row /\ vm' = vm
            BY <1>4, <2>1, SubmitsLast DEF Last, Submits, runner
        <3>2. NotToBeStopped /\ Is(syncs[w].box, "started", "stopped")
            BY <2>1, <3>1 DEF NotToBeStopped, Submits, Wanted, Is
        <3>3. LastDone({"stop"})
            BY <1>1, <2>1, <3>2 DEF StopsOnPurpose, Submits
        <3> QED BY <1>1, <1>4, <3>1, <3>3 DEF StopsTheVm
    <2>2. ASSUME Len(jobs') = Len(jobs), DOMAIN jobs' = DOMAIN jobs PROVE FALSE
        <3>1. Last \in DOMAIN jobs /\ Last' = Last /\ jobs # <<>>
            <4>1. jobs' \in Seq(Jobs) /\ jobs \in Seq(Jobs)
                BY TypedStep DEF Typed, JobsTyped
            <4> QED BY <1>4, <2>2, <4>1 DEF Last
        <3>2. jobs[Last].type = "stop" /\ Open(Last)
            BY <1>4, <3>1, JobsMove DEF MayBecome, Open, Ended
        <3>3. vm # "running"
            BY <1>1, <1>3, <3>1, <3>2 DEF StopsOnPurpose, LastDone, Open
        <3>4. PICK e \in execs : e.pc = "run" /\ e.job \in DOMAIN jobs /\ jobs[e.job].type \in Up
            BY <1>4, <3>3, VmStarts
        <3>5. e.job = Last
            BY <1>1, <3>4 DEF OneByOne, OneJob, NoneGivenUp, OpenIsLast, Open
        <3> QED BY <3>2, <3>4, <3>5 DEF Up
    <2> QED BY <2>1, <2>2, JobsGrow
<1>5. ASSUME NEW w \in Workers, syncs'[w].pc = "act", Is(syncs'[w].box, "started", "stopped")
      PROVE  LastDone({"stop"})'
    <2>1. ~Targets(w) /\ ~Checks(w) /\ ~Leaves(w)
        BY <1>2, <1>5 DEF Targets, Checks, Leaves
    <2>2. ~Reads(w) /\ ~Looks(w)
        BY <1>5 DEF Reads, Looks, Acting, Wanted, NotToBeStopped, Is
    <2>3. UNCHANGED syncs[w]
        BY <2>1, <2>2, PassMoves
    <2>4. LastDone({"stop"})
        BY <1>1, <1>3, <1>5, <2>3 DEF StopsOnPurpose
    <2>5. ASSUME NEW v \in Workers, NEW type, Submits(v, type) PROVE FALSE
        BY <1>1, <1>5, <2>3, <2>5 DEF Submits, Writing
    <2> QED BY <2>4, <2>5, LastStaysDone
<1> QED BY <1>4, <1>5

(* What the proofs of this module have in common.                            *)
Basics ==
    /\ Lawful /\ OneJob /\ LockHeld /\ KnownForGood /\ LeftBehind
    /\ OpenIsLast /\ FaultsOnce /\ WithJobs

LEMMA BasicsInitially == Init => Basics
<1> SUFFICES ASSUME Init PROVE Basics
    OBVIOUS
<1>1. Lawful
    BY LawfulInitially
<1>2. OneJob /\ OpenIsLast
    BY DEF Init, OneJob, IndexUnique, OncePerJob, NoneGivenUp, OpenIsLast
<1>3. LockHeld /\ KnownForGood /\ WithJobs
    BY DEF Init, LockHeld, KnownForGood, WithJobs, At, Writing, NewRow, NoReport
<1>4. LeftBehind /\ FaultsOnce
    BY DEF Init, LeftBehind, MadeOnce, CreatedOnce, Fresh, Removed, DestroyDone, DestroyRan, At, FaultsOnce
<1> QED BY <1>1, <1>2, <1>3, <1>4 DEF Basics

LEMMA BasicsStep == Basics /\ [Next]_vars => Basics'
<1>1. Lawful /\ [Next]_vars => Lawful'
    BY TypedStep, RowSound, TargetsStep, HandlersStep, OthersStep DEF Lawful, Sound
<1> QED BY <1>1, OneJobStep, LockHeldStep, KnownStep, LeftBehindStep, OpenIsLastStep,
           FaultsOnceStep, WithJobsStep DEF Basics, Lawful

(* A box its user wants started is stopped by no job.                        *)
THEOREM StoppedByTheUser == Spec => OnlyTheUserStops
<1> DEFINE IInv == Basics /\ StopsTheVm /\ StopWritten /\ StopsOnPurpose
<1>1. Init => IInv
    <2> SUFFICES ASSUME Init PROVE StopsTheVm /\ StopWritten /\ StopsOnPurpose
        BY BasicsInitially
    <2> QED BY DEF Init, StopsTheVm, StopWritten, StopsOnPurpose, LastDone, Writing, At
<1>2. IInv /\ [Next]_vars => IInv'
    BY BasicsStep, StopsTheVmStep, StopWrittenStep, StopsOnPurposeStep DEF Basics, Lawful
<1>3. IInv /\ [Next]_vars =>
        [Without({"unlock", "expiry", "gave_up", "tardy", "overtaken"}) =>
            ~(vm = "running" /\ vm' = "stopped" /\ row.desired = "started" /\ late' = late)]_vm
    <2> SUFFICES ASSUME IInv, [Next]_vars, Undelayed,
                        vm = "running", vm' = "stopped", row.desired = "started", late' = late
                 PROVE  FALSE
        BY DEF Undelayed
    <2>1. Typed
        BY DEF Basics, Lawful
    <2>2. ASSUME NEW k, Fault(k) PROVE FALSE
        BY <2>2 DEF Fault, Basics, FaultsOnce
    <2>3. PICK e \in execs : Execute(e)
        BY <2>2, RunnerWriters DEF RestartRunner, Exit
    <2>4. e.job \in DOMAIN jobs /\ e.pc = "run" /\ jobs[e.job] \in Jobs
        <3>1. e.job \in DOMAIN jobs
            BY <2>1, ExecsTyped DEF Typed, RunnerTyped
        <3> QED BY <2>1, <2>3, <3>1 DEF Execute, Typed, JobsTyped
    <2>5. jobs[e.job].type = "stop"
        BY <2>3, <2>4 DEF Execute, Success, Failure, Jobs, JobTypes
    <2>6. Open(e.job) /\ e.job = Last
        BY <2>4 DEF Basics, OneJob, NoneGivenUp, OpenIsLast, Open, Undelayed, Without
    <2>7. jobs # <<>>
        BY <2>4
    <2> QED BY <2>5, <2>6, <2>7 DEF StopsOnPurpose, NotToBeStopped
<1> QED BY <1>1, <1>2, <1>3, PTL DEF Spec, OnlyTheUserStops

-----------------------------------------------------------------------------
(* In order, the row, the passes and the VM follow the latest job. A job is  *)
(* submitted when the one before has been completed, unless it destroys the  *)
(* box, so only the latest is still executed; the VM runs when it was a      *)
(* create or a start that went well, and not before.                         *)
RunsOpen == \A e \in execs : e.pc = "run" => jobs[e.job].status \in {"in_progress", "failed"}
Abandoned ==
    \A i \in DOMAIN jobs :
        i # Last => jobs[i].status = "completed" \/ jobs[Last].type = "destroy"
NotBegun == jobs[Last].status = "pending" \/ \E e \in execs : e.job = Last /\ e.pc = "run"
VmAsLast ==
    jobs # <<>> =>
        /\ jobs[Last].type \in Up /\ CarriedOut(Last) => vm = "running"
        /\ jobs[Last].type = "stop" /\ CarriedOut(Last) => vm # "running"
        /\ jobs[Last].type \in Up /\ NotBegun => vm # "running"
        /\ jobs[Last].type = "stop" => vm # "failed"

(* A row at rest shows what the latest job did. So does one that a request   *)
(* has touched since, until a pass that read it submits the next job.        *)
Submitted == \E w \in Workers : Writing(w) /\ syncs[w].box = row
RowAsLast ==
    /\ Is(row, "started", "started") => LastDone(Up)
    /\ Is(row, "stopped", "stopped") => LastDone({"stop"})
    /\ Is(row, "stopped", "started") => LastDone({"stop"}) \/ Submitted
    /\ Is(row, "started", "stopped") => LastDone(Up) \/ Submitted
Turned(box) == Is(box, "stopped", "started") \/ Is(box, "started", "stopped")
PassesAsRow ==
    /\ \A w \in Workers : syncs[w].pc = "act" /\ Turned(syncs[w].box) => row = syncs[w].box
    /\ \A w \in Workers : Writing(w) =>
        /\ syncs[w].to = "started" => LastDone(Up) /\ syncs[w].box.desired = "started"
        /\ syncs[w].to = "stopped" => LastDone({"stop"}) /\ syncs[w].box.desired = "stopped"
Ordered == InOrder => RunsOpen /\ Abandoned /\ VmAsLast /\ RowAsLast /\ PassesAsRow

(* A pass that is to destroy the box is right to.                            *)
DestroyAsked ==
    \A w \in Workers :
        syncs[w].pc = "act" /\ syncs[w].box.desired = "destroyed" => row.desired = "destroyed"

LEMMA DestroyAskedStep == Typed /\ DestroyAsked /\ [Next]_vars => DestroyAsked'
<1> SUFFICES ASSUME Typed, DestroyAsked, [Next]_vars, NEW w \in Workers,
                    syncs'[w].pc = "act", syncs'[w].box.desired = "destroyed"
             PROVE  row'.desired = "destroyed"
    BY DEF DestroyAsked
<1>1. ~Targets(w) /\ ~Checks(w) /\ ~Leaves(w)
    <2>1. syncs[w] \in [pc : Pcs, box : Rows, to : States]
        BY DEF Typed, PassesTyped
    <2> QED BY <2>1 DEF Targets, Checks, Leaves
<1>2. CASE Reads(w)
    BY <1>2 DEF Reads, Acting
<1>3. CASE UNCHANGED syncs[w] \/ Looks(w)
    BY <1>3, DestroyKept DEF DestroyAsked, Looks, Acting
<1> QED BY <1>1, <1>2, <1>3, PassMoves

(* What the steps below may assume, of the state and of the step.            *)
Orderly ==
    /\ Basics /\ DestroyAsked /\ InOrder
    /\ RunsOpen /\ Abandoned /\ VmAsLast /\ RowAsLast /\ PassesAsRow

LEMMA OrderlyFacts ==
    ASSUME Orderly
    PROVE  /\ Lawful /\ Typed /\ row \in Rows /\ Sound(row)
           /\ OneJob /\ OncePerJob /\ OpenIsLast /\ WithJobs /\ KnownForGood
           /\ \A w \in Workers : syncs[w].pc # "idle" => lock = w
           /\ CreatedOnce /\ (vm # "absent" => CreateOver)
           /\ \A w \in Workers : syncs[w] \in [pc : Pcs, box : Rows, to : States]
           /\ \A e \in execs : e.job \in DOMAIN jobs
           /\ Submitted => \A w \in Workers : syncs[w].pc # "act"
<1>1. Lawful /\ Typed /\ OneJob /\ OncePerJob /\ OpenIsLast /\ WithJobs /\ KnownForGood
    BY DEF Orderly, Basics, Lawful, OneJob
<1>2. \A w \in Workers : syncs[w].pc # "idle" => lock = w
    BY DEF Orderly, Basics, LockHeld, InOrder, Without, Locks
<1>3. CreatedOnce /\ (vm # "absent" => CreateOver)
    BY DEF Orderly, Basics, LeftBehind, MadeOnce, Undisturbed, InOrder, Without
<1>4. /\ row \in Rows /\ Sound(row) /\ \A e \in execs : e.job \in DOMAIN jobs
      /\ \A w \in Workers : syncs[w] \in [pc : Pcs, box : Rows, to : States]
    BY <1>1, ExecsTyped DEF Lawful, Typed, RowTyped, PassesTyped, RunnerTyped
<1>5. Submitted => \A w \in Workers : syncs[w].pc # "act"
    BY <1>2 DEF Submitted, Writing
<1> QED BY <1>1, <1>2, <1>3, <1>4, <1>5

(* A row whose states differ is being worked on, unless in error.            *)
LEMMA OpenRow ==
    ASSUME NEW r \in Rows, Sound(r), r.state # r.desired, r.state # "error"
    PROVE  r.pending
<1> DEFINE open == r.state # r.desired /\ (r.state = "error" => r.desired = "destroyed")
<1>1. open = TRUE
    OBVIOUS
<1>2. r = [r EXCEPT !.pending = open]
    BY DEF Sound, Normal
<1> HIDE DEF open
<1> QED BY <1>1, <1>2 DEF Rows

(* A job is submitted as the row asks, when the one before is done.          *)
LEMMA SubmitsOn ==
    ASSUME Orderly, NEW w \in Workers, NEW type, Submits(w, type)
    PROVE  /\ type = "create" => jobs = <<>> /\ Is(row, "unknown", "started")
           /\ type = "start" => LastDone({"stop"}) /\ row = syncs[w].box /\ Is(row, "stopped", "started")
           /\ type = "stop" => LastDone(Up) /\ row = syncs[w].box /\ Is(row, "started", "stopped")
           /\ type = "destroy" => row.desired = "destroyed"
           /\ row.desired = Reached(type)
<1>1. syncs[w].pc = "act" /\ type \in Wanted(syncs[w].box)
    BY DEF Submits
<1>2. ~Submitted /\ CreatedOnce
    BY <1>1, OrderlyFacts
<1>3. type = "create" => jobs = <<>> /\ Is(row, "unknown", "started")
    BY <1>1, <1>2 DEF Wanted, CreatedOnce, NewRow, Is
<1>4. type = "start" => LastDone({"stop"}) /\ row = syncs[w].box /\ Is(row, "stopped", "started")
    BY <1>1, <1>2 DEF Wanted, Orderly, PassesAsRow, RowAsLast, Turned, Is
<1>5. type = "stop" => LastDone(Up) /\ row = syncs[w].box /\ Is(row, "started", "stopped")
    BY <1>1, <1>2 DEF Wanted, Orderly, PassesAsRow, RowAsLast, Turned, Is
<1>6. type = "destroy" => row.desired = "destroyed"
    BY <1>1 DEF Wanted, Orderly, DestroyAsked
<1>7. type \in {"create", "start", "stop", "destroy"}
    BY <1>1 DEF Wanted
<1> QED BY <1>3, <1>4, <1>5, <1>6, <1>7 DEF Reached, Is

(* In order, a step is none of those that act behind a job's back.           *)
LEMMA Calmly ==
    ASSUME Orderly, [Next]_vars, InOrder'
    PROVE  /\ ~RestartRunner /\ ~Exit /\ ~CrashApi
           /\ CompletedByReport => Post /\ vm = "running"
           /\ "tardy" \notin late' /\ "overtaken" \notin late' /\ "api" \notin late'
BY DEF InOrder, Without, RestartRunner, Exit, CrashApi, Fault, CompletedByReport

(* An operation the runner carries out is the latest job's, or the latest    *)
(* destroys the box.                                                         *)
LEMMA RunsLast ==
    ASSUME Orderly, NEW e \in execs, e.pc = "run", jobs[Last].type # "destroy"
    PROVE  e.job = Last /\ ~CarriedOut(Last) /\ jobs # <<>>
<1>1. e.job \in DOMAIN jobs /\ OncePerJob
    BY OrderlyFacts
<1>2. e.job = Last
    BY <1>1 DEF Orderly, RunsOpen, Abandoned
<1> QED BY <1>1, <1>2 DEF Orderly, RunsOpen, OncePerJob, CarriedOut

(* The report brings no news of a row at rest.                               *)
LEMMA NoNews ==
    ASSUME Orderly, [Next]_vars, InOrder'
    PROVE  ~Posts
<1> SUFFICES ASSUME Posts PROVE FALSE
    OBVIOUS
<1>1. report.local = LocalState /\ Settled /\ report.pc = "post" /\ row.state \in {"started", "stopped"}
    BY Calmly DEF Posts
<1>2. report.local # "unknown"
    BY <1>1, OrderlyFacts DEF KnownForGood
<1>3. vm \in {"absent", "made", "running", "stopped", "failed"}
    BY OrderlyFacts DEF Typed, RunnerTyped
<1>4. CASE row.state = "started"
    <2>1. LastDone(Up)
        BY <1>1, <1>4 DEF Settled, Orderly, RowAsLast, Is
    <2>2. vm = "running"
        BY <2>1 DEF LastDone, CarriedOut, Orderly, VmAsLast
    <2> QED BY <1>1, <1>4, <2>2 DEF LocalState, Posts
<1>5. CASE row.state = "stopped"
    <2>1. LastDone({"stop"})
        BY <1>1, <1>5 DEF Settled, Orderly, RowAsLast, Is
    <2>2. vm # "running" /\ vm # "failed"
        BY <2>1 DEF LastDone, CarriedOut, Orderly, VmAsLast
    <2>3. report.local = "creating"
        BY <1>1, <1>2, <1>3, <1>5, <2>2 DEF LocalState, Posts
    <2>4. Followed = "stopped"
        BY <1>1, <1>5, <2>3 DEF Followed, DesiredStates, Settled
    <2> QED BY <2>3, <2>4 DEF Posts, ValidStates
<1> QED BY <1>1, <1>4, <1>5

LEMMA SubmitsAnew ==
    ASSUME Typed, NEW w \in Workers, NEW type, Submits(w, type)
    PROVE  ~CarriedOut(Last)' /\ \A e \in execs' : e.job # Last'
<1>1. execs' = execs
    BY DEF Submits, runner
<1>2. \A e \in execs : e.job \in DOMAIN jobs
    BY ExecsTyped DEF Typed, RunnerTyped
<1> QED BY <1>1, <1>2, SubmitsLast DEF CarriedOut, Last

LEMMA LastStays ==
    ASSUME Typed, [Next]_vars, Len(jobs') = Len(jobs), jobs' # <<>>
    PROVE  Last \in DOMAIN jobs /\ Last' = Last /\ jobs # <<>>
<1>1. jobs' \in Seq(Jobs) /\ jobs \in Seq(Jobs)
    BY TypedStep DEF Typed, JobsTyped
<1> QED BY <1>1 DEF Last
LEMMA RunsOpenStep ==
    ASSUME Orderly, [Next]_vars, InOrder'
    PROVE  RunsOpen'
<1> SUFFICES ASSUME NEW e \in execs', e.pc = "run"
             PROVE  jobs'[e.job].status \in {"in_progress", "failed"}
    BY DEF RunsOpen
<1>1. Typed /\ OncePerJob' /\ OncePerJob
    BY OrderlyFacts, OneJobStep DEF OneJob
<1>2. CASE e \notin execs
    <2>1. e.job \in DOMAIN jobs /\ jobs[e.job].status = "pending"
        BY <1>1, <1>2, ExecsMove, Calmly
    <2> QED BY <1>1, <2>1, JobsMove DEF MayBecome, OncePerJob
<1>3. CASE e \in execs
    <2>1. e.job \in DOMAIN jobs /\ jobs[e.job].status \in {"in_progress", "failed"}
        BY <1>3, OrderlyFacts DEF Orderly, RunsOpen
    <2>2. CASE jobs'[e.job].status = "completed"
        <3>1. ~\E f \in execs : f.job = e.job /\ f.pc = "report"
            BY <1>1, <1>3 DEF OncePerJob
        <3>2. jobs[e.job].type \in Up /\ CompletedByReport
            BY <1>1, <2>1, <2>2, <3>1, JobsMove DEF Up
        <3>3. jobs[e.job].status = "in_progress"
            BY <1>1, <2>1, <2>2, JobsMove DEF MayBecome
        <3>4. e.job = Last
            BY <2>1, <3>3, OrderlyFacts DEF OpenIsLast, Open
        <3>5. vm # "running"
            BY <1>3, <2>1, <3>2, <3>4 DEF Orderly, VmAsLast, NotBegun
        <3> QED BY <3>2, <3>5, Calmly
    <2>3. CASE jobs'[e.job].status # "completed"
        BY <1>1, <2>1, <2>3, JobsMove DEF MayBecome, Ended
    <2> QED BY <2>2, <2>3
<1> QED BY <1>2, <1>3

LEMMA AbandonedStep ==
    ASSUME Orderly, [Next]_vars, InOrder'
    PROVE  Abandoned'
<1> SUFFICES ASSUME NEW i \in DOMAIN jobs', i # Last'
             PROVE  jobs'[i].status = "completed" \/ jobs'[Last'].type = "destroy"
    BY DEF Abandoned
<1>1. Typed /\ jobs \in Seq(Jobs)
    BY OrderlyFacts DEF Typed, JobsTyped
<1>2. ASSUME NEW w \in Workers, NEW type, Submits(w, type)
      PROVE  jobs'[i].status = "completed" \/ jobs'[Last'].type = "destroy"
    <2>1. i \in DOMAIN jobs /\ jobs'[i] = jobs[i] /\ jobs'[Last'].type = type
        BY <1>1, <1>2, SubmitsLast DEF Last
    <2>2. CASE type \in {"start", "stop"}
        BY <1>2, <2>1, <2>2, SubmitsOn DEF LastDone, Orderly, Abandoned, Up
    <2>3. CASE type = "create"
        BY <1>1, <1>2, <2>1, <2>3, SubmitsOn
    <2> QED BY <1>1, <1>2, <2>1, <2>2, <2>3, SubmitsLast DEF JobTypes
<1>3. ASSUME Len(jobs') = Len(jobs), DOMAIN jobs' = DOMAIN jobs
      PROVE  jobs'[i].status = "completed" \/ jobs'[Last'].type = "destroy"
    <2>1. Last \in DOMAIN jobs /\ Last' = Last
        BY <1>1, <1>3, LastStays
    <2>2. jobs[i].status = "completed" \/ jobs[Last].type = "destroy"
        BY <1>3, <2>1 DEF Orderly, Abandoned
    <2> QED BY <1>1, <1>3, <2>1, <2>2, JobsMove DEF MayBecome, Ended
<1> QED BY <1>1, <1>2, <1>3, JobsGrow

(* While the latest job stands, the VM changes by that job only.             *)
LEMMA VmByLast ==
    ASSUME Orderly, [Next]_vars, InOrder', vm' # vm, jobs[Last].type # "destroy"
    PROVE  \E e \in execs : Execute(e) /\ e.job = Last /\ e.pc = "run" /\ ~CarriedOut(Last)
<1>1. PICK e \in execs : Execute(e)
    BY Calmly, RunnerWriters
<1> QED BY <1>1, RunsLast DEF Execute

LEMMA VmAsLastStep ==
    ASSUME Orderly, [Next]_vars, InOrder'
    PROVE  VmAsLast'
<1>1. Typed /\ OncePerJob /\ jobs \in Seq(Jobs)
    BY OrderlyFacts DEF Typed, JobsTyped
<1>2. ASSUME NEW w \in Workers, NEW type, Submits(w, type) PROVE VmAsLast'
    <2>1. ~CarriedOut(Last)' /\ jobs'[Last'].type = type /\ vm' = vm
        BY <1>1, <1>2, SubmitsAnew, SubmitsLast DEF Last, Submits, runner
    <2>2. CASE type = "start"
        <3>1. LastDone({"stop"})
            BY <1>2, <2>2, SubmitsOn
        <3>2. vm # "running"
            BY <3>1 DEF LastDone, CarriedOut, Orderly, VmAsLast
        <3> QED BY <2>1, <2>2, <3>2 DEF VmAsLast, Up
    <2>3. CASE type = "create"
        <3>1. jobs = <<>>
            BY <1>2, <2>3, SubmitsOn
        <3>2. vm = "absent"
            BY <3>1, OrderlyFacts DEF CreateOver, Fresh
        <3> QED BY <2>1, <3>2 DEF VmAsLast
    <2>4. ASSUME type = "stop" PROVE vm # "failed"
        <3>1. LastDone(Up)
            BY <1>2, <2>4, SubmitsOn
        <3> QED BY <3>1 DEF LastDone, CarriedOut, Orderly, VmAsLast
    <2> QED BY <2>1, <2>2, <2>3, <2>4 DEF VmAsLast, Up
<1>3. ASSUME Len(jobs') = Len(jobs), DOMAIN jobs' = DOMAIN jobs, jobs' # <<>>
      PROVE  VmAsLast'
    <2>1. /\ Last \in DOMAIN jobs /\ Last' = Last /\ jobs # <<>>
          /\ jobs'[Last].type = jobs[Last].type
        BY <1>1, <1>3, LastStays, JobsMove
    <2>2. ASSUME CarriedOut(Last)', jobs[Last].type \in Up
          PROVE  vm' = "running"
        <3>1. CASE CarriedOut(Last)
            <4>1. vm = "running"
                BY <2>1, <2>2, <3>1 DEF Orderly, VmAsLast
            <4>2. vm' = vm
                BY <2>2, <3>1, VmByLast DEF Up
            <4> QED BY <4>1, <4>2
        <3>2. ASSUME vm' \in Success(jobs[Last].type) PROVE vm' = "running"
            BY <2>2, <3>2 DEF Success, Up
        <3>3. ASSUME CompletedByReport PROVE vm' = "running"
            BY <3>3, Calmly DEF Post
        <3> QED BY <1>1, <2>1, <2>2, <3>1, <3>2, <3>3, CarriedOutMoves
    <2>3. ASSUME CarriedOut(Last)', jobs[Last].type = "stop"
          PROVE  vm' # "running"
        <3>1. CASE CarriedOut(Last)
            <4>1. vm # "running"
                BY <2>1, <2>3, <3>1 DEF Orderly, VmAsLast
            <4>2. vm' = vm
                BY <2>3, <3>1, VmByLast
            <4> QED BY <4>1, <4>2
        <3>2. ASSUME vm' \in Success(jobs[Last].type) PROVE vm' # "running"
            BY <2>3, <3>2 DEF Success
        <3> QED BY <1>1, <2>1, <2>3, <3>1, <3>2, CarriedOutMoves DEF Up
    <2>4. ASSUME NotBegun', jobs[Last].type \in Up, vm' = "running"
          PROVE  FALSE
        <3>1. NotBegun
            <4>1. CASE jobs'[Last].status = "pending"
                BY <1>1, <2>1, <4>1, JobsMove DEF MayBecome, Ended, NotBegun
            <4>2. ASSUME NEW e \in execs', e.job = Last, e.pc = "run" PROVE NotBegun
                BY <1>1, <2>1, <4>2, ExecsMove, Calmly DEF NotBegun
            <4> QED BY <2>1, <2>4, <4>1, <4>2 DEF NotBegun
        <3>2. vm # "running"
            BY <2>1, <2>4, <3>1 DEF Orderly, VmAsLast
        <3>3. PICK e \in execs : Execute(e) /\ e.job = Last /\ e.pc = "run"
            BY <2>4, <3>2, VmByLast DEF Up
        <3>4. jobs'[Last].status # "pending"
            BY <1>1, <2>1, <3>3, JobsMove DEF OncePerJob, MayBecome, Ended
        <3>5. PICK f \in execs' : f.job = Last /\ f.pc = "run"
            BY <2>1, <2>4, <3>4 DEF NotBegun
        <3>6. f \in execs
            BY <1>1, <3>3, <3>5, ExecsMove, Calmly DEF OncePerJob
        <3>7. f = e
            BY <1>1, <3>3, <3>5, <3>6 DEF OncePerJob
        <3>8. e \notin execs'
            <4>1. e \in [job : DOMAIN jobs, pc : {"run", "report"}, ok : BOOLEAN]
                BY <1>1 DEF Typed, RunnerTyped, ExecsOf
            <4> QED BY <3>3, <4>1 DEF Execute
        <3> QED BY <3>5, <3>7, <3>8
    <2>5. ASSUME jobs[Last].type = "stop" PROVE vm' # "failed"
        <3>1. vm # "failed"
            BY <2>1, <2>5 DEF Orderly, VmAsLast
        <3>2. ASSUME vm' # vm PROVE vm' # "failed"
            <4>1. PICK e \in execs : Execute(e) /\ e.job = Last
                BY <2>5, <3>2, VmByLast
            <4> QED BY <2>5, <3>1, <4>1 DEF Execute, Success, Failure
        <3> QED BY <3>1, <3>2
    <2> QED BY <2>1, <2>2, <2>3, <2>4, <2>5 DEF VmAsLast
<1> QED BY <1>1, <1>2, <1>3, JobsGrow DEF VmAsLast
LEMMA RowAsLastStep ==
    ASSUME Orderly, [Next]_vars, InOrder'
    PROVE  RowAsLast'
<1>1. Typed /\ row \in Rows /\ Sound(row) /\ \A w \in Workers : syncs[w].pc # "idle" => lock = w
    BY OrderlyFacts
<1>2. CASE row' = row
    <2>1. ASSUME NEW types, LastDone(types), types = {"stop"} \/ types = Up,
                 Is(row, "stopped", "started") => types = {"stop"},
                 Is(row, "started", "stopped") => types = Up,
                 row.desired # "destroyed", row.state # "unknown"
          PROVE  \/ LastDone(types)'
                 \/ Submitted' /\ Turned(row)
        <3>1. ASSUME NEW w \in Workers, NEW type, Submits(w, type)
              PROVE  Submitted' /\ Turned(row)
            <4>1. type \in {"start", "stop"}
                BY <1>1, <2>1, <3>1, SubmitsOn, SubmitsLast DEF JobTypes, Is
            <4>2. row = syncs[w].box /\ Turned(row)
                BY <3>1, <4>1, SubmitsOn DEF Turned
            <4> QED BY <1>2, <3>1, <4>2 DEF Submits, Submitted
        <3> QED BY <1>1, <2>1, <3>1, LastStaysDone
    <2>2. ASSUME Submitted, Turned(row) PROVE Submitted'
        <3>1. PICK w \in Workers : Writing(w) /\ syncs[w].box = row
            BY <2>2 DEF Submitted
        <3>2. row.pending /\ row.state # "error"
            BY <1>1, <2>2, OpenRow DEF Turned, Is
        <3>3. syncs[w].to # row.state /\ lock = w
            BY <1>1, <2>2, <3>1 DEF Orderly, PassesAsRow, Turned, Is, Writing
        <3>4. ~CrashApi
            BY Calmly
        <3>5. Writing(w)' /\ syncs'[w].box = row'
            BY <1>1, <1>2, <3>1, <3>2, <3>3, <3>4, WriterStays
        <3> QED BY <3>5 DEF Submitted
    <2>3. CASE Is(row, "started", "started")
        BY <1>2, <2>1, <2>3 DEF Orderly, RowAsLast, Turned, Is
    <2>4. CASE Is(row, "stopped", "stopped")
        BY <1>2, <2>1, <2>4 DEF Orderly, RowAsLast, Turned, Is
    <2>5. CASE Is(row, "stopped", "started")
        BY <1>2, <2>1, <2>2, <2>5 DEF Orderly, RowAsLast, Turned, Is
    <2>6. CASE Is(row, "started", "stopped")
        BY <1>2, <2>1, <2>2, <2>6 DEF Orderly, RowAsLast, Turned, Is
    <2> QED BY <1>2, <2>3, <2>4, <2>5, <2>6 DEF RowAsLast, Is
<1>3. CASE row' # row
    <2>1. RowStep /\ jobs' = jobs
        BY <1>1, <1>3, RowSteps
    <2>2. \A types : LastDone(types) <=> LastDone(types)'
        BY <2>1 DEF LastDone, Last
    <2>3. ASSUME Is(row, "stopped", "stopped"), Is(row', "stopped", "started") PROVE RowAsLast'
        BY <2>2, <2>3 DEF Orderly, RowAsLast, Is
    <2>4. ASSUME Is(row, "started", "started"), Is(row', "started", "stopped") PROVE RowAsLast'
        BY <2>2, <2>4 DEF Orderly, RowAsLast, Is
    <2>5. ASSUME row'.desired = "destroyed" \/ row'.state = "error" PROVE RowAsLast'
        BY <2>5 DEF RowAsLast, Is
    <2>6. ASSUME NEW w \in Workers, Saves(w) PROVE RowAsLast'
        BY <2>2, <2>6 DEF Saves, Save, Writing, Orderly, PassesAsRow, RowAsLast, Is
    <2>7. ASSUME NEW h \in handlers, Handles(h) PROVE RowAsLast'
        <3>1. h.job = Last /\ h.job \in DOMAIN jobs /\ jobs[h.job] \in Jobs /\ jobs # <<>>
            BY <1>1, <2>7, Calmly DEF Handles, Typed, JobsTyped
        <3>2. row.desired = Reached(jobs[Last].type)
            BY <2>7, <3>1, OrderlyFacts DEF Handles, HandleSave, Lawful, HandlersSound
        <3>3. row'.state = Outcome(jobs[Last]) /\ row'.desired = row.desired
            BY <2>7, <3>1 DEF Handles
        <3>4. CASE jobs[Last].status = "completed"
            BY <2>2, <3>1, <3>2, <3>3, <3>4
               DEF Outcome, Reached, Jobs, JobTypes, RowAsLast, LastDone, Up, Is
        <3>5. CASE jobs[Last].status # "completed"
            BY <2>5, <3>3, <3>5 DEF Outcome
        <3> QED BY <3>4, <3>5
    <2> QED BY <2>1, <2>3, <2>4, <2>5, <2>6, <2>7, NoNews DEF RowStep
<1> QED BY <1>2, <1>3

LEMMA PassesAsRowStep ==
    ASSUME Orderly, [Next]_vars, InOrder'
    PROVE  PassesAsRow'
<1>1. /\ Typed /\ WithJobs /\ row \in Rows /\ Sound(row)
      /\ \A w \in Workers : syncs[w].pc # "idle" => lock = w
      /\ \A w \in Workers : syncs[w] \in [pc : Pcs, box : Rows, to : States]
    BY OrderlyFacts
<1>2. ASSUME NEW w \in Workers, syncs'[w].pc = "act", Turned(syncs'[w].box)
      PROVE  row' = syncs'[w].box
    <2>1. ~Targets(w) /\ ~Checks(w) /\ ~Leaves(w) /\ ~Looks(w)
        BY <1>1, <1>2 DEF Targets, Checks, Leaves, Looks, Acting, Wanted, Turned, Is
    <2>2. CASE Reads(w)
        BY <2>2 DEF Reads, Acting
    <2>3. CASE UNCHANGED syncs[w]
        <3>1. row = syncs[w].box /\ Turned(row) /\ lock = w
            BY <1>1, <1>2, <2>3 DEF Orderly, PassesAsRow
        <3>2. row.pending
            BY <1>1, <3>1, OpenRow DEF Turned, Is
        <3>3. ~Submitted
            BY <1>2, <2>3, OrderlyFacts
        <3>4. ASSUME NEW v \in Workers, Save(v) \/ Fail(v) PROVE FALSE
            <4>1. v = w
                BY <1>1, <3>1, <3>4 DEF Save, Fail
            <4>2. syncs'[w].pc = "unlock"
                <5>1. syncs' = [syncs EXCEPT ![w] = At("unlock")]
                    BY <3>4, <4>1 DEF Save, Fail
                <5> QED BY <1>1, <5>1 DEF At, Orderly, Basics, Lawful, Typed, PassesTyped
            <4> QED BY <1>2, <4>2
        <3>5. ASSUME NEW h \in handlers, Handles(h) PROVE FALSE
            <4>1. h.job = Last
                BY <3>5, Calmly DEF Handles
            <4>2. row.desired = Reached(jobs[Last].type)
                BY <3>5, <4>1, OrderlyFacts DEF Handles, HandleSave, Lawful, HandlersSound
            <4> QED BY <3>1, <3>3, <4>2 DEF Orderly, RowAsLast, Turned, Is, LastDone, Up, Reached
        <3>6. ~Settled
            BY <3>2 DEF Settled
        <3>7. row' = row
            BY <1>1, <3>2, <3>4, <3>5, <3>6, RowSteps, NoNews DEF RowStep, Start, Stop, Saves
        <3> QED BY <2>3, <3>1, <3>7
    <2> QED BY <1>1, <2>1, <2>2, <2>3, PassMoves
<1>3. ASSUME NEW w \in Workers, Writing(w)'
      PROVE  /\ syncs'[w].to = "started" => LastDone(Up)' /\ syncs'[w].box.desired = "started"
             /\ syncs'[w].to = "stopped" => LastDone({"stop"})' /\ syncs'[w].box.desired = "stopped"
    <2>1. CASE UNCHANGED syncs[w] \/ Checks(w)
        <3>1. Writing(w) /\ syncs'[w].to = syncs[w].to /\ syncs'[w].box = syncs[w].box
            BY <1>1, <1>3, <2>1 DEF Checks, Writing
        <3>2. ASSUME NEW v \in Workers, NEW type, Submits(v, type) PROVE FALSE
            BY <1>1, <3>1, <3>2 DEF Submits, Writing
        <3>3. /\ syncs[w].to = "started" => LastDone(Up) /\ syncs[w].box.desired = "started"
              /\ syncs[w].to = "stopped" => LastDone({"stop"}) /\ syncs[w].box.desired = "stopped"
            BY <3>1 DEF Orderly, PassesAsRow
        <3> QED BY <1>1, <3>1, <3>2, <3>3, LastStaysDone
    <2>2. CASE Targets(w)
        <3>1. ASSUME NEW type \in Wanted(syncs[w].box)
              PROVE  Underway(type) \notin {"started", "stopped"}
            BY <3>1 DEF Wanted, Underway
        <3>2. ASSUME syncs'[w].to \in {"started", "stopped"}
              PROVE  /\ syncs'[w].to = Inferred /\ UNCHANGED jobs
                     /\ syncs'[w].box.desired = Inferred
            BY <2>2, <3>1, <3>2 DEF Targets, Learned, ComingUp
        <3> QED BY <1>1, <3>2, InferredDone DEF LastDone, Last
    <2>3. ~Reads(w) /\ ~Looks(w) /\ ~Leaves(w)
        BY <1>3 DEF Reads, Looks, Leaves, Writing, Acting
    <2> QED BY <1>1, <2>1, <2>2, <2>3, PassMoves
<1> QED BY <1>2, <1>3 DEF PassesAsRow

LEMMA OrderedStep == Basics /\ DestroyAsked /\ Ordered /\ [Next]_vars => Ordered'
<1> SUFFICES ASSUME Basics, DestroyAsked, Ordered, [Next]_vars, InOrder' PROVE Ordered'
    BY DEF Ordered
<1>1. Orderly
    <2>1. InOrder
        BY LateStays DEF Basics, Lawful, InOrder
    <2> QED BY <2>1 DEF Orderly, Ordered
<1> QED BY <1>1, RunsOpenStep, AbandonedStep, VmAsLastStep, RowAsLastStep, PassesAsRowStep
        DEF Ordered

OrderInv == Basics /\ DestroyAsked /\ Ordered

LEMMA OrderKept == Spec => []OrderInv
<1>1. Init => OrderInv
    <2> SUFFICES ASSUME Init PROVE DestroyAsked /\ Ordered
        BY BasicsInitially DEF OrderInv
    <2> QED BY DEF Init, DestroyAsked, Ordered, RunsOpen, Abandoned, VmAsLast, RowAsLast,
                   PassesAsRow, Is, NewRow, At, Writing
<1>2. OrderInv /\ [Next]_vars => OrderInv'
    <2>1. Basics => Typed
        BY DEF Basics, Lawful
    <2> QED BY <2>1, BasicsStep, DestroyAskedStep, OrderedStep DEF OrderInv
<1> QED BY <1>1, <1>2, PTL DEF Spec

(* A row that looks final is true: a box shown destroyed has left nothing on *)
(* the runner, and one shown at rest and stopped hides no running VM.        *)
THEOREM FinalRowIsTrue == Spec => []RowIsTrue
<1>1. OrderInv => StoppedIsStopped
    <2> SUFFICES ASSUME OrderInv, InOrder, Settled, row.state = "stopped" PROVE vm # "running"
        BY DEF StoppedIsStopped
    <2>1. LastDone({"stop"})
        BY DEF OrderInv, Ordered, RowAsLast, Settled, Is
    <2> QED BY <2>1 DEF OrderInv, Ordered, VmAsLast, LastDone, CarriedOut
<1>2. Spec => []StoppedIsStopped
    BY <1>1, OrderKept, PTL
<1>3. NothingLeftBehind /\ StoppedIsStopped => RowIsTrue
    BY DEF RowIsTrue
<1> QED BY <1>2, <1>3, DestroyedIsGone, PTL

(* A job is submitted as the row asks at that moment: the pass that submits  *)
(* it holds the lock, and whoever else may write the row meanwhile writes    *)
(* what the latest job did.                                                  *)
THEOREM JobsFollowTheRow == Spec => JobsAsTheRowAsks
<1>1. OrderInv /\ [Next]_vars =>
        [InOrder => \A i \in (DOMAIN jobs') \ DOMAIN jobs :
            row.desired = Reached(jobs'[i].type)]_jobs
    <2> SUFFICES ASSUME OrderInv, [Next]_vars, InOrder,
                        NEW i \in DOMAIN jobs', i \notin DOMAIN jobs
                 PROVE  row.desired = Reached(jobs'[i].type)
        OBVIOUS
    <2>1. Orderly /\ Typed
        BY DEF OrderInv, Ordered, Orderly, Basics, Lawful
    <2>2. PICK w, type : w \in Workers /\ Submits(w, type)
        BY <2>1, JobsGrow
    <2>3. i = Len(jobs') /\ jobs'[i].type = type
        BY <2>1, <2>2, SubmitsLast DEF Typed, JobsTyped
    <2> QED BY <2>1, <2>2, <2>3, SubmitsOn
<1> QED BY <1>1, OrderKept, PTL DEF Spec, JobsAsTheRowAsks

(* So jobs are submitted, and stop the VM, as the row asks.                  *)
THEOREM AsAsked == Spec => OnlyAsAsked
BY StoppedByTheUser, JobsFollowTheRow DEF OnlyAsAsked

-----------------------------------------------------------------------------
(* A box in error: something has failed.                                     *)

(* Who else writes what. *)
LEMMA HandlersWriters ==
    [Next]_vars => \/ UNCHANGED handlers \/ handlers' = {}
                   \/ \E h \in handlers : HandleRead(h) \/ HandleSave(h) \/ HandleUnlock(h)
                   \/ \E i \in DOMAIN jobs : Stale(i)
                   \/ \E e \in execs : Report(e)
                   \/ Post
<1>1. CASE Requests
    BY <1>1 DEF Requests, Start, Stop, Destroy, Request, EventCall, CronCall, Expire, CrashApi
<1>2. ASSUME NEW w \in Workers, Pass(w) \/ TimeOut(w) \/ Fail(w) PROVE UNCHANGED handlers
    BY <1>2 DEF Pass, Look, Submit, Leave, Learn, Check, Save, Unlock, TimeOut, Fail
<1>3. CASE RestartRunner \/ Exit \/ Observe \/ Compare \/ (\E e \in execs : Execute(e))
           \/ (\E i \in DOMAIN jobs : Claim(i)) \/ UNCHANGED vars
    BY <1>3 DEF RestartRunner, Exit, Observe, Compare, Execute, Claim, api, vars
<1> QED BY <1>1, <1>2, <1>3 DEF Next, Requests, Handle

(* A job that is handled has ended.                                          *)
HandlersEnded == \A h \in handlers : jobs[h.job].status \in Ended

LEMMA HandlersEndedStep == Typed /\ HandlersEnded /\ [Next]_vars => HandlersEnded'
<1> SUFFICES ASSUME Typed, HandlersEnded, [Next]_vars, NEW h \in handlers'
             PROVE  jobs'[h.job].status \in Ended
    BY DEF HandlersEnded
<1>1. /\ jobs \in Seq(Jobs)
      /\ \A g \in handlers : g \in [job : DOMAIN jobs, pc : {"read", "save", "unlock"}, box : Rows]
    BY DEF Typed, JobsTyped, HandlersTyped
<1>2. ASSUME NEW g \in handlers, h.job = g.job PROVE jobs'[h.job].status \in Ended
    <2>1. g.job \in DOMAIN jobs /\ jobs[g.job].status \in Ended
        BY <1>1 DEF HandlersEnded
    <2> QED BY <1>2, <2>1, JobsMove DEF MayBecome, Ended
<1>3. ASSUME NEW i \in DOMAIN jobs, NEW status \in Ended, UpdateJob(i, status)
      PROVE  jobs'[h.job].status \in Ended
    <2>1. CASE h \in handlers
        BY <1>2, <2>1
    <2>2. CASE h = [job |-> i, pc |-> "read", box |-> NewRow]
        <3>1. jobs[i] \in Jobs /\ h.job = i
            BY <1>1, <2>2
        <3> QED BY <1>1, <1>3, <3>1 DEF UpdateJob, Jobs
    <2> QED BY <1>3, <2>1, <2>2 DEF UpdateJob
<1>4. "completed" \in Ended /\ "failed" \in Ended
    BY DEF Ended
<1>5. CASE UNCHANGED handlers \/ handlers' = {}
    BY <1>2, <1>5
<1>6. ASSUME NEW g \in handlers, HandleRead(g) \/ HandleSave(g) \/ HandleUnlock(g)
      PROVE  \E f \in handlers : h.job = f.job
    <2>1. g \in [job : DOMAIN jobs, pc : {"read", "save", "unlock"}, box : Rows]
        BY <1>1
    <2>2. \/ h \in handlers
          \/ h = [g EXCEPT !.pc = "save", !.box = row]
          \/ h = [g EXCEPT !.pc = "unlock"]
          \/ h = [g EXCEPT !.pc = "unlock", !.box = NewRow]
        BY <1>6 DEF HandleRead, HandleSave, HandleUnlock
    <2>3. /\ [g EXCEPT !.pc = "save", !.box = row].job = g.job
          /\ [g EXCEPT !.pc = "unlock"].job = g.job
          /\ [g EXCEPT !.pc = "unlock", !.box = NewRow].job = g.job
        BY <2>1
    <2> QED BY <2>2, <2>3
<1>7. ASSUME NEW i \in DOMAIN jobs, Stale(i) PROVE jobs'[h.job].status \in Ended
    BY <1>3, <1>4, <1>7 DEF Stale
<1>8. ASSUME NEW e \in execs, Report(e) PROVE jobs'[h.job].status \in Ended
    <2>1. e.job \in DOMAIN jobs
        BY ExecsTyped DEF Typed, RunnerTyped
    <2>2. CASE UpdateJob(e.job, IF e.ok THEN "completed" ELSE "failed")
        BY <1>3, <1>4, <2>1, <2>2
    <2> QED BY <1>2, <1>8, <2>2 DEF Report
<1>9. CASE Post
    <2>1. ASSUME NEW i \in DOMAIN jobs, UpdateJob(i, "completed")
          PROVE  jobs'[h.job].status \in Ended
        BY <1>3, <1>4, <2>1
    <2> QED BY <1>2, <1>9, <2>1 DEF Post
<1> QED BY <1>2, <1>5, <1>6, <1>7, <1>8, <1>9, HandlersWriters

(* A job fails as a stale one, or by the report of an operation that did.    *)
LEMMA JobFails ==
    ASSUME Typed, [Next]_vars, NEW i \in DOMAIN jobs, jobs'[i].status = "failed"
    PROVE  \/ jobs[i].status = "failed"
           \/ Stale(i)
           \/ \E e \in execs : e.job = i /\ e.pc = "report" /\ ~e.ok
<1>1. jobs \in Seq(Jobs) /\ jobs[i] \in Jobs
    BY DEF Typed, JobsTyped
<1>2. ASSUME NEW w \in Workers, Submit(w) PROVE jobs[i].status = "failed"
    BY <1>1, <1>2 DEF Submit, CreateJob
<1>3. ASSUME NEW k \in DOMAIN jobs, NEW status, jobs' = [jobs EXCEPT ![k].status = status]
      PROVE  jobs[i].status = "failed" \/ (i = k /\ status = "failed")
    <2>1. CASE i = k
        BY <1>1, <1>3, <2>1 DEF Jobs
    <2>2. CASE i # k
        BY <1>1, <1>3, <2>2
    <2> QED BY <2>1, <2>2
<1>4. ASSUME NEW k \in DOMAIN jobs, Stale(k) \/ Claim(k) PROVE jobs[i].status = "failed" \/ Stale(i)
    BY <1>3, <1>4 DEF Stale, Claim, UpdateJob
<1>5. ASSUME NEW e \in execs, Report(e)
      PROVE  jobs[i].status = "failed" \/ (e.job = i /\ e.pc = "report" /\ ~e.ok)
    <2>1. e.job \in DOMAIN jobs
        BY ExecsTyped DEF Typed, RunnerTyped
    <2> QED BY <1>3, <1>5, <2>1 DEF Report, UpdateJob
<1>6. ASSUME Post PROVE jobs[i].status = "failed"
    BY <1>3, <1>6 DEF Post, UpdateJob
<1> QED BY <1>2, <1>4, <1>5, <1>6, JobsWriters

(* What the box is spared of here: everything but these.                     *)
Blameless == late \subseteq {"api", "exit", "again", "tardy", "overtaken"}

(* After the API died a box that is gone may be destroyed a second time. No  *)
(* job is left then that would make it again, so that one is in vain.        *)
NoCreate ==
    /\ \A i \in DOMAIN jobs : IsOf("create", i) => jobs[i].status # "pending"
    /\ \A e \in execs : IsOf("create", e.job) => e.pc # "run"
Twice == \E i, j \in DOMAIN jobs : IsOf("destroy", i) /\ IsOf("destroy", j) /\ i # j
Gone == "api" \in late /\ vm = "absent" /\ NoCreate /\ Twice
Vain(i) == IsOf("destroy", i) /\ Gone

(* No other job fails: a job in progress is carried out, and goes well.      *)
GoesWell(i) ==
    /\ jobs[i].status = "failed" => Vain(i)
    /\ jobs[i].status = "in_progress" => \E e \in execs : e.job = i /\ (e.ok \/ Vain(i))
NoneFails == \A i \in DOMAIN jobs : GoesWell(i)

(* Once there is a job that destroys the box nobody wants another kind.      *)
DestroyStarted ==
    \A i \in DOMAIN jobs : IsOf("destroy", i) =>
        /\ row.desired = "destroyed"
        /\ \A w \in Workers : syncs[w].pc = "act" => syncs[w].box.desired = "destroyed"
        /\ \A e \in execs : e.job = i /\ e.pc = "run" => jobs[i].status = "in_progress"

(* Before there is a box there is nothing but the job that creates it ...    *)
NotYet(r) == r.state \in {"unknown", "creating"} /\ r.desired = "started"
NoDestroy == \A i \in DOMAIN jobs : ~IsOf("destroy", i)
Before == vm = "absent" /\ NoDestroy
OnlyCreates ==
    Before =>
        /\ NotYet(row) /\ report.pc = "idle" /\ \A e \in execs : e.pc = "run"
        /\ \A w \in Workers : /\ syncs[w].pc = "act" => NotYet(syncs[w].box)
                              /\ Writing(w) => syncs[w].to = "creating"
        /\ \A i \in DOMAIN jobs : jobs[i].type = "create" /\ jobs[i].status # "completed"

(* ... and where none is, no other job is left to do, but in vain.           *)
NothingToDo ==
    vm = "absent" => \A i \in DOMAIN jobs : jobs[i].type # "create" =>
        \/ Vain(i)
        \/ /\ jobs[i].status # "pending"
           /\ jobs[i].status = "in_progress" => \A e \in execs : e.job = i => e.pc # "run"

NeverMade == vm \notin {"made", "failed"} /\ report.local \notin {"creating", "error"}

(* A box is coming up while a create or a start job is the latest.           *)
LastUp == jobs # <<>> /\ jobs[Last].type \in Up
ComesUpByJob ==
    /\ ComingUp(row) => LastUp
    /\ \A w \in Workers :
        /\ syncs[w].pc = "act" =>
            (ComingUp(row) => ComingUp(syncs[w].box)) /\ (ComingUp(syncs[w].box) => LastUp)
        /\ Writing(w) =>
            syncs[w].to # "error" /\ (syncs[w].to \in {"creating", "starting"} => LastUp)

(* One job destroys the box: a pass that may submit it has read the row as   *)
(* it is, and once it is there the pass that submitted it is about to write  *)
(* "destroying", or the row has got that far.                                *)
DestroyedOnce ==
    /\ ~Twice
    /\ \A w \in Workers : syncs[w].pc = "act" /\ syncs[w].box.desired = "destroyed" =>
        \/ syncs[w].box.state = "destroying"
        \/ row = syncs[w].box /\ row.state # "destroyed" /\ NoDestroy
    /\ \A w \in Workers : Writing(w) /\ syncs[w].box.desired = "destroyed" =>
        syncs[w].to \in {"destroying", "destroyed"}
    /\ \/ NoDestroy
       \/ row.state \in {"destroying", "destroyed"}
       \/ \E w \in Workers : Writing(w) /\ syncs[w].to = "destroying" /\ syncs[w].box = row

(* The API dies once: where the row waits for the box to be created, or when *)
(* a job may destroy it, but not both.                                       *)
OnceEach ==
    /\ MadeOnce \/ DestroyedOnce
    /\ "api" \notin late => MadeOnce /\ DestroyedOnce

Spared ==
    /\ NoneFails /\ DestroyStarted /\ OnlyCreates /\ NothingToDo /\ NeverMade /\ ComesUpByJob
    /\ OnceEach /\ (row.state = "error" => Gone)
Spares == Blameless => Spared
Unharmed == Basics /\ DestroyAsked /\ HandlersEnded /\ Blameless /\ Spared

LEMMA UnharmedFacts ==
    ASSUME Unharmed
    PROVE  /\ Lawful /\ Typed /\ row \in Rows /\ Sound(row)
           /\ OneJob /\ OncePerJob /\ OpenIsLast /\ KnownForGood
           /\ \A w \in Workers : syncs[w].pc # "idle" => lock = w
           /\ \A w \in Workers : syncs[w] \in [pc : Pcs, box : Rows, to : States]
           /\ \A e \in execs : e.job \in DOMAIN jobs
           /\ jobs \in Seq(Jobs) /\ \A i \in DOMAIN jobs : jobs[i] \in Jobs
<1>1. Lawful /\ Typed /\ OneJob /\ OncePerJob /\ OpenIsLast /\ KnownForGood
    BY DEF Unharmed, Basics, Lawful, OneJob
<1>2. \A w \in Workers : syncs[w].pc # "idle" => lock = w
    BY DEF Unharmed, Basics, LockHeld, Blameless, Without, Locks
<1>3. /\ row \in Rows /\ Sound(row) /\ \A e \in execs : e.job \in DOMAIN jobs
      /\ \A w \in Workers : syncs[w] \in [pc : Pcs, box : Rows, to : States]
    BY <1>1, ExecsTyped DEF Lawful, Typed, RowTyped, PassesTyped, RunnerTyped
<1>4. jobs \in Seq(Jobs)
    BY <1>1 DEF Typed, JobsTyped
<1>5. \A i \in DOMAIN jobs : jobs[i] \in Jobs
    BY <1>4
<1> QED BY <1>1, <1>2, <1>3, <1>4, <1>5

LEMMA Harmless ==
    ASSUME Unharmed, [Next]_vars, Blameless'
    PROVE  /\ ~RestartRunner
           /\ \A w \in Workers : ~Fail(w)
           /\ \A k \in {"op", "poll", "report", "timeout", "gave_up"} : ~Fault(k) /\ k \notin late'
BY DEF Blameless, RestartRunner, Fail, Fault

(* With a destroy among the jobs, a pass submits nothing but another.        *)
LEMMA DestroysOnly ==
    ASSUME Unharmed, ~NoDestroy, NEW w \in Workers, syncs[w].pc = "act",
           NEW type \in Wanted(syncs[w].box)
    PROVE  type = "destroy"
BY DEF Unharmed, Spared, DestroyStarted, NoDestroy, Wanted

LEMMA GoneStays ==
    ASSUME Unharmed, [Next]_vars, Blameless', Gone
    PROVE  Gone'
<1>1. /\ Typed /\ ~NoDestroy
      /\ \A i \in DOMAIN jobs : jobs[i] \in Jobs
      /\ \A e \in execs : e.job \in DOMAIN jobs
    BY UnharmedFacts DEF Gone, Twice, NoDestroy
<1>2. "api" \in late'
    BY <1>1, FaultsStay DEF Gone
<1>3. Twice'
    <2>1. PICK i, j \in DOMAIN jobs : IsOf("destroy", i) /\ IsOf("destroy", j) /\ i # j
        BY DEF Gone, Twice
    <2>2. IsOf("destroy", i)' /\ IsOf("destroy", j)'
        BY <1>1, <2>1, TypesStay DEF IsOf
    <2> QED BY <2>1, <2>2 DEF Twice, IsOf
<1>4. ASSUME NEW i \in DOMAIN jobs', IsOf("create", i)' PROVE jobs'[i].status # "pending"
    <2>1. CASE i \in DOMAIN jobs
        BY <1>1, <1>4, <2>1, JobsMove DEF Gone, NoCreate, IsOf, MayBecome, Ended
    <2>2. CASE i \notin DOMAIN jobs
        <3>1. PICK w \in Workers : \E type \in Wanted(syncs[w].box) :
                syncs[w].pc = "act" /\ jobs'[i] = [type |-> type, status |-> "pending"]
            BY <1>1, <2>2, NewJobs
        <3>2. jobs'[i].type = "destroy"
            BY <1>1, <3>1, DestroysOnly
        <3> QED BY <1>4, <3>2 DEF IsOf
    <2> QED BY <2>1, <2>2
<1>5. ASSUME NEW e \in execs', IsOf("create", e.job)' PROVE e.pc # "run"
    <2>1. CASE e \in execs
        <3>1. IsOf("create", e.job)
            BY <1>1, <1>5, <2>1, TypesStay DEF IsOf
        <3> QED BY <2>1, <3>1 DEF Gone, NoCreate
    <2>2. CASE e \notin execs
        <3>1. ASSUME e.job \in DOMAIN jobs, jobs[e.job].status = "pending" PROVE FALSE
            <4>1. IsOf("create", e.job)
                BY <1>1, <1>5, <3>1, TypesStay DEF IsOf
            <4> QED BY <3>1, <4>1 DEF Gone, NoCreate
        <3> QED BY <1>1, <2>2, <3>1, ExecsMove, Harmless
    <2> QED BY <2>1, <2>2
<1>6. vm' = "absent"
    <2>1. ASSUME NEW e \in execs, Execute(e) PROVE vm' = "absent"
        <3>1. e.pc = "run" /\ jobs[e.job] \in Jobs /\ e.job \in DOMAIN jobs
            BY <1>1, <2>1 DEF Execute
        <3>2. jobs[e.job].type # "create"
            BY <3>1 DEF Gone, NoCreate, IsOf
        <3> QED BY <2>1, <3>1, <3>2 DEF Execute, Success, Failure, Gone, Jobs, JobTypes
    <2> QED BY <2>1, RunnerWriters, Harmless DEF Gone, Exit
<1> QED BY <1>2, <1>3, <1>4, <1>5, <1>6 DEF Gone, NoCreate

LEMMA VainStays ==
    ASSUME Unharmed, [Next]_vars, Blameless', NEW i \in DOMAIN jobs, Vain(i)
    PROVE  Vain(i)'
BY UnharmedFacts, GoneStays, TypesStay DEF Vain, IsOf

(* While the box is to be destroyed once, no job destroys it yet when one is *)
(* submitted, and nothing fails.                                             *)
LEMMA FirstDestroy ==
    ASSUME Unharmed, DestroyedOnce, NEW w \in Workers, NEW type, Submits(w, type)
    PROVE  NoDestroy /\ (type = "destroy" => row = syncs[w].box)
<1>1. syncs[w].pc = "act" /\ type \in Wanted(syncs[w].box)
    BY DEF Submits
<1>2. ASSUME ~NoDestroy PROVE FALSE
    <2>1. syncs[w].box.desired = "destroyed"
        BY <1>1, <1>2 DEF Unharmed, Spared, DestroyStarted, NoDestroy
    <2>2. syncs[w].box.state = "destroying"
        BY <1>1, <1>2, <2>1 DEF DestroyedOnce
    <2> QED BY <1>1, <2>1, <2>2 DEF Wanted
<1>3. ASSUME type = "destroy" PROVE row = syncs[w].box
    <2>1. syncs[w].box.desired = "destroyed" /\ syncs[w].box.state # "destroying"
        BY <1>1, <1>3 DEF Wanted
    <2> QED BY <1>1, <2>1 DEF DestroyedOnce
<1> QED BY <1>2, <1>3
-----------------------------------------------------------------------------
(* An operation that is under way for a job in progress goes well: only a    *)
(* box that is not there, or a failure, could end it otherwise.              *)
LEMMA GoesWellOn ==
    ASSUME Unharmed, [Next]_vars, Blameless',
           NEW e \in execs, e.ok \/ Vain(e.job), jobs[e.job].status = "in_progress"
    PROVE  GoesWell(e.job)'
<1>1. /\ Typed /\ OncePerJob /\ e.job \in DOMAIN jobs /\ jobs[e.job] \in Jobs
      /\ e \in [job : DOMAIN jobs, pc : {"run", "report"}, ok : BOOLEAN]
    BY UnharmedFacts DEF Typed, RunnerTyped, ExecsOf
<1>2. e.ok \/ Vain(e.job)'
    BY <1>1, VainStays
<1>3. ASSUME jobs'[e.job].status = "failed" PROVE Vain(e.job)'
    <2>1. ASSUME e.ok PROVE FALSE
        <3>1. ~Stale(e.job)
            BY Harmless DEF Stale
        <3>2. \A f \in execs : f.job = e.job => f.ok
            BY <1>1, <2>1 DEF OncePerJob
        <3> QED BY <1>1, <1>3, <3>1, <3>2, JobFails
    <2> QED BY <1>2, <2>1
<1>4. ASSUME jobs'[e.job].status = "in_progress"
      PROVE  \E f \in execs' : f.job = e.job /\ (f.ok \/ Vain(e.job)')
    <2>1. CASE e \in execs'
        BY <1>2, <2>1
    <2>2. ASSUME NEW g \in execs, Execute(g), g # e PROVE e \in execs'
        BY <2>2 DEF Execute
    <2>3. ASSUME Execute(e) PROVE \E f \in execs' : f.job = e.job /\ (f.ok \/ Vain(e.job)')
        <3>1. CASE Vain(e.job)
            <4>1. \/ [e EXCEPT !.pc = "report"] \in execs'
                  \/ [e EXCEPT !.pc = "report", !.ok = FALSE] \in execs'
                BY <2>3 DEF Execute
            <4>2. /\ [e EXCEPT !.pc = "report"].job = e.job
                  /\ [e EXCEPT !.pc = "report", !.ok = FALSE].job = e.job
                BY <1>1
            <4> QED BY <1>1, <3>1, <4>1, <4>2, VainStays
        <3>2. CASE ~Vain(e.job)
            <4>1. jobs[e.job].type = "create" \/ vm # "absent"
                BY <1>1, <2>3, <3>2 DEF Unharmed, Spared, NothingToDo, Execute
            <4>2. Success(jobs[e.job].type) # {}
                BY <1>1, <4>1 DEF Success, Jobs, JobTypes
            <4>3. [e EXCEPT !.pc = "report"] \in execs'
                BY <2>3, <4>2, Harmless DEF Execute
            <4>4. [e EXCEPT !.pc = "report"].job = e.job /\ [e EXCEPT !.pc = "report"].ok
                BY <1>1, <3>2
            <4> QED BY <4>3, <4>4
        <3> QED BY <3>1, <3>2
    <2>4. ASSUME NEW g \in execs, Report(g), g # e PROVE e \in execs'
        BY <2>4 DEF Report
    <2>5. ASSUME Report(e) PROVE FALSE
        <3> DEFINE status == IF e.ok THEN "completed" ELSE "failed"
        <3>1. MayBecome(jobs[e.job].status, status) /\ status # "in_progress"
            BY <1>1 DEF MayBecome, Ended
        <3>2. UpdateJob(e.job, status)
            BY <2>5, <3>1, Harmless DEF Report
        <3>3. jobs'[e.job].status = status
            BY <1>1, <3>2, UnharmedFacts DEF UpdateJob, Jobs
        <3> QED BY <1>4, <3>1, <3>3
    <2>6. ASSUME NEW i \in DOMAIN jobs, Claim(i) PROVE e \in execs'
        BY <2>6 DEF Claim
    <2> QED BY <2>1, <2>2, <2>3, <2>4, <2>5, <2>6, Harmless, RunnerWriters
<1> QED BY <1>3, <1>4 DEF GoesWell

LEMMA NoneFailsStep ==
    ASSUME Unharmed, [Next]_vars, Blameless'
    PROVE  NoneFails'
<1> SUFFICES ASSUME NEW i \in DOMAIN jobs' PROVE GoesWell(i)'
    BY DEF NoneFails
<1>1. Typed /\ OncePerJob /\ \A k \in DOMAIN jobs : jobs[k] \in Jobs /\ GoesWell(k)
    BY UnharmedFacts DEF Unharmed, Spared, NoneFails
<1>2. CASE i \notin DOMAIN jobs
    <2>1. PICK type : jobs'[i] = [type |-> type, status |-> "pending"]
        BY <1>1, <1>2, NewJobs
    <2> QED BY <2>1 DEF GoesWell
<1>3. CASE i \in DOMAIN jobs /\ jobs[i].status = "in_progress"
    <2>1. PICK e \in execs : e.job = i /\ (e.ok \/ Vain(i))
        BY <1>1, <1>3 DEF GoesWell
    <2> QED BY <1>3, <2>1, GoesWellOn
<1>4. CASE i \in DOMAIN jobs /\ jobs[i].status = "pending"
    <2>1. jobs'[i].status # "failed"
        BY <1>1, <1>4, JobFails DEF Stale, OncePerJob
    <2>2. ASSUME jobs'[i].status = "in_progress" PROVE \E e \in execs' : e.job = i /\ e.ok
        <3>1. ASSUME NEW k \in DOMAIN jobs, NEW status, jobs' = [jobs EXCEPT ![k].status = status]
              PROVE  i = k /\ status = "in_progress"
            <4>1. jobs[k] \in Jobs
                BY <1>1
            <4> QED BY <1>1, <1>4, <2>2, <3>1, <4>1 DEF Jobs
        <3>2. PICK k \in DOMAIN jobs : Claim(k)
            <4>1. ASSUME NEW w \in Workers, Submit(w) PROVE FALSE
                <5>1. jobs'[i] = jobs[i]
                    BY <1>4, <4>1, UnharmedFacts DEF Submit, CreateJob
                <5> QED BY <1>4, <2>2, <5>1
            <4> DEFINE Ends(status) == \E k \in DOMAIN jobs : UpdateJob(k, status)
            <4>2. ~Ends("failed") /\ ~Ends("completed")
                BY <3>1 DEF UpdateJob
            <4>3. ASSUME NEW k \in DOMAIN jobs, Stale(k) PROVE FALSE
                BY <4>3, <4>2 DEF Stale
            <4>4. ASSUME NEW e \in execs, Report(e) PROVE FALSE
                <5>1. e.job \in DOMAIN jobs
                    BY UnharmedFacts
                <5>2. CASE UNCHANGED jobs
                    BY <1>4, <2>2, <5>2
                <5> QED BY <4>4, <4>2, <5>1, <5>2 DEF Report
            <4>5. ASSUME Post PROVE FALSE
                <5>1. CASE UNCHANGED jobs
                    BY <1>4, <2>2, <5>1
                <5> QED BY <4>5, <4>2, <5>1 DEF Post
            <4>6. ~UNCHANGED jobs
                BY <1>4, <2>2
            <4> QED BY <4>1, <4>3, <4>4, <4>5, <4>6, JobsWriters
        <3>3. k = i
            BY <3>1, <3>2 DEF Claim
        <3>4. [job |-> i, pc |-> "run", ok |-> TRUE] \in execs'
            BY <3>2, <3>3, Harmless DEF Claim
        <3> QED BY <3>4
    <2> QED BY <2>1, <2>2 DEF GoesWell
<1>5. CASE i \in DOMAIN jobs /\ jobs[i].status = "completed"
    BY <1>1, <1>5, JobsMove DEF MayBecome, Ended, GoesWell
<1>6. CASE i \in DOMAIN jobs /\ jobs[i].status = "failed"
    <2>1. Vain(i)'
        BY <1>1, <1>6, VainStays DEF GoesWell
    <2> QED BY <1>1, <1>6, <2>1, JobsMove DEF MayBecome, Ended, GoesWell
<1> QED BY <1>1, <1>2, <1>3, <1>4, <1>5, <1>6 DEF GoesWell, Jobs, Statuses

LEMMA DestroyStartedStep ==
    ASSUME Unharmed, [Next]_vars, Blameless'
    PROVE  DestroyStarted'
<1> SUFFICES ASSUME NEW i \in DOMAIN jobs', IsOf("destroy", i)'
             PROVE  /\ row'.desired = "destroyed"
                    /\ \A w \in Workers : syncs'[w].pc = "act" => syncs'[w].box.desired = "destroyed"
                    /\ \A e \in execs' : e.job = i /\ e.pc = "run" => jobs'[i].status = "in_progress"
    BY DEF DestroyStarted
<1>1. Typed /\ OncePerJob /\ \A k \in DOMAIN jobs : jobs[k] \in Jobs
    BY UnharmedFacts
<1>2. i \in DOMAIN jobs => IsOf("destroy", i)
    BY <1>1, TypesStay DEF IsOf
<1>3. ASSUME NEW w \in Workers, NEW type, Submits(w, type)
      PROVE  /\ row'.desired = "destroyed"
             /\ \A v \in Workers : syncs'[v].pc # "act"
             /\ \A e \in execs' : e.job = i /\ e.pc = "run" => jobs'[i].status = "in_progress"
    <2>1. execs' = execs /\ row' = row
        BY <1>3 DEF Submits, runner
    <2>2. \A v \in Workers : syncs'[v].pc # "act"
        BY <1>3, UnharmedFacts DEF Submits, Writing
    <2>3. CASE i \in DOMAIN jobs
        BY <1>1, <1>2, <1>3, <2>1, <2>2, <2>3, SubmitsLast DEF Unharmed, Spared, DestroyStarted
    <2>4. CASE i \notin DOMAIN jobs
        <3>1. type = "destroy" /\ i = Last'
            BY <1>1, <1>3, <2>4, SubmitsLast DEF IsOf, Last
        <3>2. row.desired = "destroyed"
            BY <1>3, <3>1 DEF Submits, Wanted, Unharmed, DestroyAsked
        <3>3. \A e \in execs' : e.job # i
            BY <1>1, <1>3, <3>1, SubmitsAnew
        <3> QED BY <2>1, <2>2, <3>2, <3>3
    <2> QED BY <2>3, <2>4
<1>4. ASSUME Len(jobs') = Len(jobs), DOMAIN jobs' = DOMAIN jobs
      PROVE  /\ row'.desired = "destroyed"
             /\ \A w \in Workers : syncs'[w].pc = "act" => syncs'[w].box.desired = "destroyed"
             /\ \A e \in execs' : e.job = i /\ e.pc = "run" => jobs'[i].status = "in_progress"
    <2>1. /\ i \in DOMAIN jobs /\ jobs[i].type = "destroy" /\ row.desired = "destroyed"
          /\ \A w \in Workers : syncs[w].pc = "act" => syncs[w].box.desired = "destroyed"
          /\ \A e \in execs : e.job = i /\ e.pc = "run" => jobs[i].status = "in_progress"
        BY <1>2, <1>4 DEF Unharmed, Spared, DestroyStarted, IsOf
    <2>2. row'.desired = "destroyed"
        BY <1>1, <2>1, DestroyKept
    <2>3. ASSUME NEW w \in Workers, syncs'[w].pc = "act" PROVE syncs'[w].box.desired = "destroyed"
        <3>1. ~Targets(w) /\ ~Checks(w) /\ ~Leaves(w)
            BY <2>3, UnharmedFacts DEF Targets, Checks, Leaves
        <3>2. CASE Reads(w)
            BY <2>1, <3>2 DEF Reads, Acting
        <3>3. CASE UNCHANGED syncs[w] \/ Looks(w)
            BY <2>1, <2>3, <3>3 DEF Looks, Acting
        <3> QED BY <1>1, <3>1, <3>2, <3>3, PassMoves
    <2>4. ASSUME NEW e \in execs', e.job = i, e.pc = "run" PROVE jobs'[i].status = "in_progress"
        <3>1. ASSUME NEW f \in execs, f.job = i, f.pc = "report" PROVE e \notin execs
            BY <1>1, <2>4, <3>1 DEF OncePerJob
        <3>2. CASE e \in execs
            <4>1. jobs[i].status = "in_progress" /\ ~Stale(i)
                BY <2>1, <2>4, <3>2, Harmless DEF Stale
            <4>2. jobs'[i].status # "failed"
                BY <1>1, <2>1, <3>1, <3>2, <4>1, JobFails
            <4>3. jobs'[i].status # "completed"
                BY <1>1, <2>1, <3>1, <3>2, <4>1, JobsMove
            <4> QED BY <1>1, <2>1, <4>1, <4>2, <4>3, JobsMove DEF MayBecome, Ended
        <3>3. CASE e \notin execs
            <4>1. jobs[i].status = "pending"
                BY <1>1, <2>4, <3>3, ExecsMove, Harmless
            <4>2. OncePerJob'
                BY <1>1, UnharmedFacts, OneJobStep DEF OneJob
            <4>3. jobs'[i].status # "pending"
                BY <2>4, <4>2 DEF OncePerJob
            <4>4. jobs'[i].status # "failed"
                BY <1>1, <2>1, <4>1, JobFails DEF Stale, OncePerJob
            <4> QED BY <1>1, <2>1, <4>1, <4>3, <4>4, JobsMove DEF MayBecome, Ended
        <3> QED BY <3>2, <3>3
    <2> QED BY <2>2, <2>3, <2>4
<1> QED BY <1>1, <1>3, <1>4, JobsGrow

(* What the steps that write the row make of it.                             *)
LEMMA HandledWell ==
    ASSUME Unharmed, NEW h \in handlers, Handles(h)
    PROVE  \/ Gone /\ row'.desired = "destroyed"
           \/ /\ jobs[h.job].status = "completed"
              /\ row'.state = Reached(jobs[h.job].type) /\ row.desired = row'.state
<1>1. h.job \in DOMAIN jobs /\ (jobs[h.job].status = "completed" \/ Vain(h.job))
    BY DEF Handles, Unharmed, HandlersEnded, Ended, Spared, NoneFails, GoesWell
<1>2. row.desired = Reached(jobs[h.job].type) /\ row'.desired = row.desired
    BY UnharmedFacts DEF Handles, HandleSave, Lawful, HandlersSound
<1> QED BY <1>1, <1>2 DEF Handles, Outcome, Vain, IsOf, Reached

LEMMA OnlyCreatesStep ==
    ASSUME Unharmed, [Next]_vars, Blameless'
    PROVE  OnlyCreates'
<1> SUFFICES ASSUME Before'
             PROVE  /\ NotYet(row') /\ report'.pc = "idle" /\ \A e \in execs' : e.pc = "run"
                    /\ \A w \in Workers : /\ syncs'[w].pc = "act" => NotYet(syncs'[w].box)
                                          /\ Writing(w)' => syncs'[w].to = "creating"
                    /\ \A i \in DOMAIN jobs' : jobs'[i].type = "create" /\ jobs'[i].status # "completed"
    BY DEF OnlyCreates
<1>1. /\ Typed /\ row \in Rows /\ Sound(row)
      /\ \A i \in DOMAIN jobs : jobs[i] \in Jobs
      /\ \A e \in execs : e.job \in DOMAIN jobs
      /\ \A w \in Workers : syncs[w] \in [pc : Pcs, box : Rows, to : States]
    BY UnharmedFacts
<1>2. NoDestroy
    <2>1. \A i \in DOMAIN jobs : i \in DOMAIN jobs' /\ jobs'[i].type = jobs[i].type
        BY <1>1, JobsMove
    <2> QED BY <2>1 DEF Before, NoDestroy, IsOf
<1>3. vm = "absent"
    <2>1. ASSUME vm # "absent" PROVE FALSE
        <3>1. PICK e \in execs : Execute(e)
            BY <2>1, Harmless, RunnerWriters DEF Before, Exit
        <3>2. e.job \in DOMAIN jobs /\ jobs[e.job] \in Jobs /\ jobs[e.job].type # "destroy"
            BY <1>1, <1>2 DEF NoDestroy, IsOf
        <3> QED BY <2>1, <3>1, <3>2 DEF Before, Execute, Success, Failure, Jobs, JobTypes
    <2> QED BY <2>1
<1>4. /\ NotYet(row) /\ report.pc = "idle" /\ \A e \in execs : e.pc = "run"
      /\ \A w \in Workers : /\ syncs[w].pc = "act" => NotYet(syncs[w].box)
                            /\ Writing(w) => syncs[w].to = "creating"
      /\ \A i \in DOMAIN jobs : jobs[i].type = "create" /\ jobs[i].status # "completed"
    BY <1>2, <1>3 DEF Unharmed, Spared, OnlyCreates, Before
<1>5. row.pending
    BY <1>1, <1>4, OpenRow DEF NotYet
<1>6. NotYet(row')
    <2>1. ASSUME NEW w \in Workers, Saves(w) PROVE NotYet(row')
        BY <1>4, <2>1 DEF Saves, Save, Writing, NotYet
    <2>2. ASSUME NEW h \in handlers, Handles(h) PROVE FALSE
        BY <1>2, <1>4, <2>2, HandledWell DEF Handles, Gone, Twice, NoDestroy
    <2>3. ~Posts
        BY <1>5 DEF Posts, Settled
    <2> QED BY <1>1, <1>4, <1>5, <2>1, <2>2, <2>3, Harmless, RowSteps
            DEF RowStep, Start, Stop, Settled
<1>7. report'.pc = "idle"
    BY <1>3, <1>4, RunnerWriters DEF Observe, Compare, Post, RestartRunner, NoReport
<1>8. ASSUME NEW e \in execs' PROVE e.pc = "run"
    <2>1. ASSUME NEW f \in execs, Execute(f) PROVE FALSE
        <3>1. f.job \in DOMAIN jobs /\ jobs[f.job].type = "create"
            BY <1>1, <1>4
        <3> QED BY <1>3, <2>1, <3>1, Harmless DEF Before, Execute, Success
    <2> QED BY <1>1, <1>4, <1>8, <2>1, ExecsMove, Harmless
<1>9. ASSUME NEW i \in DOMAIN jobs' PROVE jobs'[i].type = "create" /\ jobs'[i].status # "completed"
    <2>1. CASE i \in DOMAIN jobs
        BY <1>1, <1>4, <2>1, JobsMove DEF CompletedByReport, Post
    <2>2. CASE i \notin DOMAIN jobs
        <3>1. PICK w, type : /\ w \in Workers /\ syncs[w].pc = "act" /\ type \in Wanted(syncs[w].box)
                              /\ jobs'[i] = [type |-> type, status |-> "pending"]
            BY <1>1, <2>2, NewJobs
        <3>2. type = "create"
            BY <1>4, <3>1 DEF Wanted, NotYet
        <3> QED BY <3>1, <3>2
    <2> QED BY <2>1, <2>2
<1>10. ASSUME NEW w \in Workers
       PROVE  /\ syncs'[w].pc = "act" => NotYet(syncs'[w].box)
              /\ Writing(w)' => syncs'[w].to = "creating"
    <2>1. CASE UNCHANGED syncs[w]
        BY <1>4, <2>1 DEF Writing
    <2>2. CASE Reads(w)
        BY <1>4, <2>2 DEF Reads, Acting, Writing
    <2>3. CASE Checks(w)
        BY <1>1, <1>4, <2>3 DEF Checks, Writing
    <2>4. CASE Leaves(w)
        BY <2>4 DEF Leaves, Writing
    <2>6. ~Looks(w)
        BY <1>4 DEF Looks, Wanted, NotYet
    <2>5. CASE Targets(w)
        <3>1. NotYet(syncs[w].box) /\ (ComingUp(syncs[w].box) => LastUp)
            BY <1>4, <2>5 DEF Targets, Unharmed, Spared, ComesUpByJob
        <3>2. ASSUME NEW type \in Wanted(syncs[w].box) PROVE Underway(type) = "creating"
            BY <3>1, <3>2 DEF Wanted, NotYet, Underway
        <3>3. ASSUME LastUp PROVE Inferred = "creating"
            <4>1. Last \in DOMAIN jobs
                BY <3>3, UnharmedFacts DEF LastUp, Last
            <4> QED BY <1>4, <3>3, <4>1 DEF LastUp, Last, Inferred, Underway
        <3>4. Learned(syncs[w].box) = {}
            BY <3>1, <3>3 DEF Learned, NotYet, ComingUp
        <3>5. ASSUME ComingUp(syncs[w].box), ~Incomplete, Inferred \in {"creating", "starting", "destroyed"}
              PROVE  FALSE
            <4>1. Last \in DOMAIN jobs
                BY <3>1, <3>5, UnharmedFacts DEF LastUp, Last
            <4>2. jobs[Last].status \in {"pending", "in_progress"}
                BY <1>1, <1>4, <4>1
                   DEF Unharmed, Spared, NoneFails, GoesWell, Vain, IsOf, Jobs, Statuses
            <4> QED BY <3>5, <4>1, <4>2 DEF Incomplete
        <3> QED BY <2>5, <3>2, <3>4, <3>5, Harmless DEF Targets
    <2> QED BY <1>1, <2>1, <2>2, <2>3, <2>4, <2>5, <2>6, PassMoves
<1> QED BY <1>6, <1>7, <1>8, <1>9, <1>10

(* A job that is submitted for a box that is gone is its second destroy.     *)
LEMMA SubmittedInVain ==
    ASSUME Unharmed, [Next]_vars, Blameless', vm = "absent",
           NEW w \in Workers, NEW type, Submits(w, type), type # "create"
    PROVE  Vain(Len(jobs))'
<1> DEFINE new == Len(jobs')
<1>1. /\ Typed /\ syncs[w].pc = "act" /\ type \in Wanted(syncs[w].box)
      /\ jobs \in Seq(Jobs) /\ \A k \in DOMAIN jobs : jobs[k] \in Jobs
    BY UnharmedFacts DEF Submits
<1>2. PICK d \in DOMAIN jobs : IsOf("destroy", d)
    <2>1. ASSUME NoDestroy PROVE FALSE
        <3>1. NotYet(syncs[w].box)
            BY <1>1, <2>1 DEF Unharmed, Spared, OnlyCreates, Before
        <3> QED BY <1>1, <3>1 DEF Wanted, NotYet
    <2> QED BY <2>1 DEF NoDestroy
<1>3. type = "destroy"
    BY <1>1, <1>2, DestroysOnly DEF NoDestroy
<1>4. "api" \in late /\ MadeOnce
    <2>1. ~DestroyedOnce
        BY <1>2, FirstDestroy DEF NoDestroy
    <2> QED BY <2>1 DEF Unharmed, Spared, OnceEach
<1>5. NoCreate
    <2>1. jobs[d] \in Jobs /\ jobs[d].status \notin {"pending", "in_progress"}
        BY <1>1, <1>2 DEF Submits, Incomplete
    <2>2. CASE jobs[d].status = "completed"
        BY <1>2, <1>4, <2>2 DEF MadeOnce, Removed, DestroyDone, CreateOver, NoCreate
    <2>3. CASE jobs[d].status = "failed"
        BY <2>3 DEF Unharmed, Spared, NoneFails, GoesWell, Vain, Gone
    <2> QED BY <2>1, <2>2, <2>3 DEF Jobs, Statuses
<1>6. /\ new \in DOMAIN jobs' /\ jobs'[new].type = "destroy" /\ new \notin DOMAIN jobs
      /\ DOMAIN jobs' = DOMAIN jobs \union {new} /\ \A i \in DOMAIN jobs : jobs'[i] = jobs[i]
      /\ execs' = execs /\ vm' = vm /\ \A e \in execs : e.job \in DOMAIN jobs
    BY <1>1, <1>3, SubmitsLast, UnharmedFacts DEF Submits, runner
<1>7. Twice'
    BY <1>2, <1>6 DEF Twice, IsOf
<1>8. NoCreate'
    BY <1>5, <1>6 DEF NoCreate, IsOf
<1>9. "api" \in late'
    BY <1>1, <1>4, FaultsStay
<1> QED BY <1>6, <1>7, <1>8, <1>9 DEF Vain, Gone, IsOf

LEMMA NothingToDoStep ==
    ASSUME Unharmed, [Next]_vars, Blameless'
    PROVE  NothingToDo'
<1> DEFINE Nothing(i) ==
        /\ jobs[i].status # "pending"
        /\ jobs[i].status = "in_progress" => \A e \in execs : e.job = i => e.pc # "run"
<1> SUFFICES ASSUME vm' = "absent", NEW i \in DOMAIN jobs', jobs'[i].type # "create"
             PROVE  Vain(i)' \/ Nothing(i)'
    BY DEF NothingToDo
<1>1. /\ Typed /\ OncePerJob /\ OpenIsLast
      /\ \A k \in DOMAIN jobs : jobs[k] \in Jobs
      /\ \A e \in execs : e.job \in DOMAIN jobs
    BY UnharmedFacts
<1>2. CASE i \notin DOMAIN jobs
    <2>1. PICK w, type : w \in Workers /\ Submits(w, type)
        BY <1>1, <1>2, JobsGrow
    <2>2. i = Len(jobs') /\ type # "create" /\ vm = "absent"
        BY <1>1, <1>2, <2>1, SubmitsLast DEF Submits, runner
    <2> QED BY <2>1, <2>2, SubmittedInVain DEF Vain, IsOf
<1>3. CASE i \in DOMAIN jobs /\ Vain(i)
    BY <1>3, VainStays
<1>4. CASE i \in DOMAIN jobs /\ ~Vain(i)
    <2>1. /\ jobs[i].type # "create"
          /\ jobs'[i].status = "pending" => jobs[i].status = "pending"
          /\ jobs'[i].status = "in_progress" => jobs[i].status \in {"pending", "in_progress"}
        BY <1>1, <1>4, JobsMove DEF MayBecome, Ended
    <2>2. CASE vm = "absent"
        <3>1. Nothing(i)
            BY <1>4, <2>1, <2>2 DEF Unharmed, Spared, NothingToDo
        <3>2. ASSUME NEW e \in execs', e.job = i, e.pc = "run" PROVE e \in execs
            BY <1>1, <3>1, <3>2, ExecsMove, Harmless
        <3> QED BY <2>1, <3>1, <3>2
    <2>3. CASE vm # "absent"
        <3>1. PICK e \in execs : Execute(e)
            BY <2>3, Harmless, RunnerWriters DEF Exit
        <3>2. jobs[e.job].type = "destroy" /\ e.job \in DOMAIN jobs
            BY <1>1, <2>3, <3>1 DEF Execute, Success, Failure, Jobs, JobTypes
        <3>3. e.job = Last /\ jobs[e.job].status # "pending"
            BY <1>1, <3>1, <3>2 DEF Unharmed, Spared, DestroyStarted, IsOf, Execute, OpenIsLast, Open
        <3>4. jobs[i].status \in {"pending", "in_progress"} => i = e.job
            BY <1>1, <1>4, <3>3 DEF OpenIsLast, Open
        <3>5. ASSUME NEW f \in execs', f.job = e.job, f.pc = "run" PROVE FALSE
            <4>1. f \in execs
                BY <1>1, <3>3, <3>5, ExecsMove, Harmless
            <4>2. f = e
                BY <1>1, <3>5, <4>1 DEF OncePerJob
            <4>3. e \in [job : DOMAIN jobs, pc : {"run", "report"}, ok : BOOLEAN]
                BY <1>1 DEF Typed, RunnerTyped, ExecsOf
            <4> QED BY <3>1, <3>5, <4>2, <4>3 DEF Execute
        <3> QED BY <2>1, <3>3, <3>4, <3>5
    <2> QED BY <2>2, <2>3
<1> QED BY <1>2, <1>3, <1>4

LEMMA NeverMadeStep ==
    ASSUME Unharmed, [Next]_vars, Blameless'
    PROVE  NeverMade'
<1>1. vm \notin {"made", "failed"} /\ report.local \notin {"creating", "error"}
    BY DEF Unharmed, Spared, NeverMade
<1>2. vm' \notin {"made", "failed"}
    <2>1. ASSUME NEW e \in execs, Execute(e) PROVE vm' \notin {"made", "failed"}
        <3>1. e.job \in DOMAIN jobs /\ jobs[e.job] \in Jobs
            BY UnharmedFacts
        <3>2. CASE vm' \in Success(jobs[e.job].type)
            BY <1>1, <3>1, <3>2 DEF Success, Jobs, JobTypes
        <3>3. CASE vm' \in Failure(jobs[e.job].type) /\ Success(jobs[e.job].type) = {}
            BY <1>1, <3>1, <3>3 DEF Success, Failure, Jobs, JobTypes
        <3> QED BY <2>1, <3>2, <3>3, Harmless DEF Execute
    <2> QED BY <1>1, <2>1, Harmless, RunnerWriters DEF Exit
<1>3. report'.local \notin {"creating", "error"}
    <2>1. vm \in {"absent", "made", "running", "stopped", "failed"}
        BY UnharmedFacts DEF Typed, RunnerTyped
    <2>2. CASE Observe
        BY <1>1, <2>1, <2>2 DEF Observe, LocalState
    <2>3. CASE Compare
        BY <1>1, <2>3, UnharmedFacts DEF Compare, NoReport, Typed, RunnerTyped
    <2>4. CASE Post
        BY <2>4 DEF Post, NoReport
    <2> QED BY <1>1, <2>2, <2>3, <2>4, Harmless, RunnerWriters
<1> QED BY <1>2, <1>3 DEF NeverMade
LEMMA ComesUpByJobStep ==
    ASSUME Unharmed, [Next]_vars, Blameless'
    PROVE  ComesUpByJob' /\ (row'.state = "error" => Gone')
<1>1. /\ Typed /\ OpenIsLast /\ row \in Rows /\ Sound(row) /\ Lawful
      /\ \A w \in Workers : syncs[w].pc # "idle" => lock = w
      /\ \A w \in Workers : syncs[w] \in [pc : Pcs, box : Rows, to : States]
      /\ \A i \in DOMAIN jobs : jobs[i] \in Jobs /\ GoesWell(i)
    BY UnharmedFacts DEF Unharmed, Spared, NoneFails
<1>2. /\ row.state = "error" => Gone
      /\ ComingUp(row) => LastUp
      /\ \A w \in Workers :
          /\ syncs[w].pc = "act" =>
              (ComingUp(row) => ComingUp(syncs[w].box)) /\ (ComingUp(syncs[w].box) => LastUp)
          /\ Writing(w) =>
              syncs[w].to # "error" /\ (syncs[w].to \in {"creating", "starting"} => LastUp)
    BY DEF Unharmed, Spared, ComesUpByJob
<1>3. ASSUME LastUp, Len(jobs') = Len(jobs), DOMAIN jobs' = DOMAIN jobs PROVE LastUp'
    <2>1. Last \in DOMAIN jobs
        BY <1>3, UnharmedFacts DEF LastUp, Last
    <2>2. jobs' # <<>>
        BY <1>3 DEF LastUp
    <2> QED BY <1>1, <1>3, <2>1, <2>2, JobsMove, LastStays DEF LastUp
<1>4. ASSUME NEW w \in Workers, NEW type, Submits(w, type), type \in Up PROVE LastUp'
    BY <1>1, <1>4, SubmitsLast DEF LastUp, Last
<1>5. ASSUME NEW w \in Workers, syncs[w].pc = "act", ComingUp(syncs[w].box) PROVE LastUp'
    <2>1. ASSUME NEW v \in Workers, NEW type, Submits(v, type) PROVE FALSE
        <3>1. v = w
            BY <1>1, <1>5, <2>1 DEF Submits
        <3> QED BY <1>5, <2>1, <3>1 DEF Submits, Wanted, ComingUp
    <2> QED BY <1>1, <1>2, <1>3, <1>5, <2>1, JobsGrow
<1>6. ASSUME NEW w \in Workers, Writing(w), LastUp PROVE LastUp'
    <2>1. ASSUME NEW v \in Workers, NEW type, Submits(v, type) PROVE FALSE
        BY <1>1, <1>6, <2>1 DEF Submits, Writing
    <2> QED BY <1>1, <1>3, <1>6, <2>1, JobsGrow
<1>7. /\ row'.state = "error" => Gone'
      /\ ComingUp(row') => ComingUp(row) \/ \E w \in Workers : Saves(w)
    <2>1. ASSUME NEW w \in Workers, Saves(w) PROVE row'.state # "error"
        BY <1>2, <2>1 DEF Saves, Save, Writing
    <2>2. ASSUME NEW h \in handlers, Handles(h)
          PROVE  \/ Gone' /\ ~ComingUp(row')
                 \/ row'.state \in {"started", "stopped", "destroyed"}
        <3>1. jobs[h.job] \in Jobs
            BY <1>1, <2>2 DEF Handles
        <3> QED BY <2>2, <3>1, HandledWell, GoneStays DEF Reached, Jobs, JobTypes, ComingUp
    <2>3. ASSUME Posts PROVE row'.state \in {"started", "stopped"}
        <3>1. report \in [pc : {"idle", "local", "post"},
                          local : {"started", "stopped", "creating", "error", "unknown"}]
            BY <1>1 DEF Typed, RunnerTyped
        <3>2. report.local \notin {"unknown", "creating", "error"}
            BY <2>3, UnharmedFacts DEF Posts, KnownForGood, Unharmed, Spared, NeverMade
        <3> QED BY <2>3, <3>1, <3>2 DEF Posts
    <2>4. CASE row' = row
        BY <1>2, <2>4, GoneStays
    <2>5. CASE Destroy /\ row'.desired = "destroyed"
        <3>1. row'.state = row.state
            BY <1>1, <2>5 DEF Destroy, Request, Rows
        <3> QED BY <1>2, <2>5, <3>1, GoneStays DEF ComingUp
    <2> QED BY <1>1, <1>2, <2>1, <2>2, <2>3, <2>4, <2>5, Harmless, RowSteps
            DEF RowStep, Is, ComingUp
<1>8. ComingUp(row') => LastUp'
    <2>1. ASSUME NEW w \in Workers, Saves(w), ComingUp(row') PROVE LastUp'
        BY <1>2, <1>6, <2>1 DEF Saves, Save, Writing, ComingUp
    <2>2. ASSUME ComingUp(row), ComingUp(row') PROVE LastUp'
        <3>1. ASSUME NEW w \in Workers, NEW type, Submits(w, type) PROVE FALSE
            <4>1. ComingUp(syncs[w].box)
                BY <1>2, <2>2, <3>1 DEF Submits
            <4> QED BY <3>1, <4>1 DEF Submits, Wanted, ComingUp
        <3> QED BY <1>1, <1>2, <1>3, <2>2, <3>1, JobsGrow
    <2> QED BY <1>7, <2>1, <2>2
<1>9. ASSUME NEW w \in Workers, syncs'[w].pc = "act"
      PROVE  /\ ComingUp(row') => ComingUp(syncs'[w].box)
             /\ ComingUp(syncs'[w].box) => LastUp'
    <2>1. ~Targets(w) /\ ~Checks(w) /\ ~Leaves(w)
        BY <1>1, <1>9 DEF Targets, Checks, Leaves
    <2>2. CASE Reads(w)
        BY <1>8, <2>2 DEF Reads, Acting
    <2>3. CASE UNCHANGED syncs[w]
        <3>1. ASSUME NEW v \in Workers, Saves(v) PROVE FALSE
            <4>1. v = w
                BY <1>1, <1>9, <2>3, <3>1 DEF Saves, Save
            <4> QED BY <1>9, <2>3, <3>1, <4>1 DEF Saves, Save
        <3> QED BY <1>2, <1>5, <1>7, <1>9, <2>3, <3>1
    <2>4. CASE Looks(w)
        <3>1. syncs'[w].box.desired = "destroyed" /\ row.desired = "destroyed"
            BY <2>4 DEF Looks, Acting, Wanted, Unharmed, DestroyAsked
        <3>2. row'.desired = "destroyed"
            BY <1>1, <3>1, DestroyKept
        <3> QED BY <3>1, <3>2 DEF ComingUp
    <2> QED BY <1>1, <2>1, <2>2, <2>3, <2>4, PassMoves
<1>10. ASSUME NEW w \in Workers, Writing(w)'
       PROVE  /\ syncs'[w].to # "error"
              /\ syncs'[w].to \in {"creating", "starting"} => LastUp'
    <2>1. CASE UNCHANGED syncs[w] \/ Checks(w)
        <3>1. Writing(w) /\ syncs'[w].to = syncs[w].to
            BY <1>1, <1>10, <2>1 DEF Checks, Writing
        <3> QED BY <1>2, <1>6, <3>1
    <2>2. CASE Targets(w)
        <3>1. syncs[w].pc = "act" /\ (ComingUp(syncs[w].box) => LastUp)
            BY <1>2, <2>2 DEF Targets
        <3>2. ASSUME NEW type \in Wanted(syncs[w].box)
              PROVE  /\ Underway(type) # "error"
                     /\ Underway(type) \in {"creating", "starting"} => type \in Up
            BY <3>2 DEF Wanted, Underway, Up
        <3>3. ASSUME LastUp
              PROVE  /\ Inferred \in {"started", "creating", "starting"}
                     /\ Inferred # "started" => Incomplete
            <4>1. Last \in DOMAIN jobs /\ jobs[Last] \in Jobs /\ GoesWell(Last)
                <5>1. Last \in DOMAIN jobs
                    BY <3>3, UnharmedFacts DEF LastUp, Last
                <5> QED BY <1>1, <5>1
            <4>2. CASE jobs[Last].status = "completed"
                BY <3>3, <4>1, <4>2 DEF LastUp, Last, Inferred, Reached, Up
            <4>3. CASE jobs[Last].status # "completed"
                <5>1. Incomplete
                    BY <3>3, <4>1, <4>3 DEF Incomplete, GoesWell, Vain, IsOf, LastUp, Up, Last, Jobs, Statuses
                <5> QED BY <3>3, <4>1, <4>3, <5>1 DEF LastUp, Last, Inferred, Underway, Up
            <4> QED BY <4>2, <4>3
        <3>4. Learned(syncs[w].box) \intersect {"error", "creating", "starting"} = {}
            BY <3>1, <3>3 DEF Learned
        <3>5. CASE \E type \in Wanted(syncs[w].box) :
                    /\ ~Incomplete /\ syncs'[w].to = Underway(type)
                    /\ jobs' = Append(jobs, [type |-> type, status |-> "pending"])
            <4>1. PICK type \in Wanted(syncs[w].box) :
                    /\ ~Incomplete /\ syncs'[w].to = Underway(type)
                    /\ jobs' = Append(jobs, [type |-> type, status |-> "pending"])
                BY <3>5
            <4>2. type \in Up => LastUp'
                BY <4>1, UnharmedFacts DEF LastUp, Last
            <4> QED BY <3>2, <4>1, <4>2
        <3> QED BY <2>2, <3>1, <3>3, <3>4, <3>5, Harmless DEF Targets
    <2>3. ~Reads(w) /\ ~Looks(w) /\ ~Leaves(w)
        BY <1>10 DEF Reads, Looks, Leaves, Writing, Acting
    <2> QED BY <1>1, <2>1, <2>2, <2>3, PassMoves
<1> QED BY <1>7, <1>8, <1>9, <1>10 DEF ComesUpByJob

(* A box that is destroyed once stays so, unless the API dies.               *)
LEMMA DestroyedOnceStep ==
    ASSUME Unharmed, DestroyedOnce, [Next]_vars, Blameless', ~CrashApi
    PROVE  DestroyedOnce'
<1>1. /\ Typed /\ row \in Rows /\ Sound(row) /\ Lawful
      /\ \A w \in Workers : syncs[w].pc # "idle" => lock = w
      /\ \A w \in Workers : syncs[w] \in [pc : Pcs, box : Rows, to : States]
      /\ \A i \in DOMAIN jobs : jobs[i] \in Jobs
    BY UnharmedFacts
<1>2. ~Gone /\ row.state # "error"
    BY DEF Unharmed, Spared, DestroyedOnce, Gone
<1>3. ASSUME DOMAIN jobs' = DOMAIN jobs PROVE NoDestroy' <=> NoDestroy
    BY <1>1, <1>3, TypesStay DEF NoDestroy, IsOf
<1>4. ~Twice'
    <2>1. ASSUME NEW w \in Workers, NEW type, Submits(w, type) PROVE ~Twice'
        <3>1. \A i \in DOMAIN jobs : ~IsOf("destroy", i)'
            BY <1>1, <2>1, FirstDestroy, TypesStay DEF NoDestroy, IsOf
        <3> QED BY <1>1, <2>1, <3>1, SubmitsLast DEF Twice
    <2>2. ASSUME DOMAIN jobs' = DOMAIN jobs PROVE ~Twice'
        BY <1>1, <2>2, TypesStay DEF DestroyedOnce, Twice, IsOf
    <2> QED BY <1>1, <2>1, <2>2, JobsGrow
<1>5. ASSUME NEW h \in handlers, Handles(h)
      PROVE  row'.state = row.desired /\ (row.desired = "destroyed" => ~NoDestroy)
    <2>1. /\ jobs[h.job].status = "completed" /\ row'.state = Reached(jobs[h.job].type)
          /\ row.desired = row'.state
        BY <1>2, <1>5, HandledWell
    <2>2. h.job \in DOMAIN jobs /\ jobs[h.job] \in Jobs
        BY <1>1, <1>5 DEF Handles
    <2> QED BY <2>1, <2>2 DEF Reached, Jobs, JobTypes, NoDestroy, IsOf
<1>6. ASSUME row.desired = "destroyed", row.state # "destroyed", row' # row
      PROVE  (\E w \in Workers : Saves(w)) \/ (\E h \in handlers : Handles(h))
    <2>1. row.pending
        BY <1>1, <1>2, <1>6, OpenRow
    <2> QED BY <1>1, <1>6, <2>1, RowSteps, Harmless DEF RowStep, Is, Posts, Settled
<1>7. ASSUME NEW w \in Workers, syncs'[w].pc = "act", syncs'[w].box.desired = "destroyed"
      PROVE  \/ syncs'[w].box.state = "destroying"
             \/ row' = syncs'[w].box /\ row'.state # "destroyed" /\ NoDestroy'
    <2>1. ~Targets(w) /\ ~Checks(w) /\ ~Leaves(w)
        BY <1>1, <1>7 DEF Targets, Checks, Leaves
    <2>2. CASE Reads(w)
        <3>1. row' = row /\ jobs' = jobs /\ syncs'[w].box = row /\ row.state # row.desired
            BY <2>2 DEF Reads, Acting
        <3>2. \A v \in Workers : syncs[v].pc = "idle"
            BY <1>1, <2>2, NoOneAssumption DEF Reads
        <3>3. NoDestroy \/ row.state \in {"destroying", "destroyed"}
            BY <3>2 DEF DestroyedOnce, Writing
        <3> QED BY <1>3, <1>7, <3>1, <3>3
    <2>3. CASE UNCHANGED syncs[w] \/ Looks(w)
        <3>1. syncs[w].pc = "act" /\ syncs'[w].box = syncs[w].box
            BY <1>7, <2>3 DEF Looks, Acting
        <3>2. CASE row = syncs[w].box /\ row.state # "destroyed" /\ NoDestroy
            <4>1. row' = row
                <5>1. ASSUME NEW v \in Workers, Saves(v) PROVE FALSE
                    <6>1. v = w
                        BY <1>1, <3>1, <5>1 DEF Saves, Save
                    <6> QED BY <3>1, <5>1, <6>1 DEF Saves, Save
                <5> QED BY <1>5, <1>6, <1>7, <3>1, <3>2, <5>1
            <4>2. ASSUME NEW v \in Workers, NEW type, Submits(v, type) PROVE FALSE
                BY <1>1, <1>7, <3>1, <4>2 DEF Submits, Writing
            <4>3. NoDestroy'
                BY <1>1, <1>3, <3>2, <4>2, JobsGrow
            <4> QED BY <3>1, <3>2, <4>1, <4>3
        <3> QED BY <1>7, <3>1, <3>2 DEF DestroyedOnce
    <2> QED BY <1>1, <2>1, <2>2, <2>3, PassMoves
<1>8. ASSUME NEW w \in Workers, Writing(w)', syncs'[w].box.desired = "destroyed"
      PROVE  syncs'[w].to \in {"destroying", "destroyed"}
    <2>1. CASE UNCHANGED syncs[w] \/ Checks(w)
        BY <1>1, <1>8, <2>1 DEF Checks, Writing, DestroyedOnce
    <2>2. CASE Targets(w)
        BY <1>8, <2>2 DEF Targets, Wanted, Learned, ComingUp, Underway
    <2>3. ~Reads(w) /\ ~Looks(w) /\ ~Leaves(w)
        BY <1>8 DEF Reads, Looks, Leaves, Writing, Acting
    <2> QED BY <1>1, <2>1, <2>2, <2>3, PassMoves
<1>9. \/ NoDestroy'
      \/ row'.state \in {"destroying", "destroyed"}
      \/ \E w \in Workers : Writing(w)' /\ syncs'[w].to = "destroying" /\ syncs'[w].box = row'
    <2>1. ASSUME NEW w \in Workers, NEW type, Submits(w, type)
          PROVE  \/ NoDestroy'
                 \/ Writing(w)' /\ syncs'[w].to = "destroying" /\ syncs'[w].box = row'
        <3>1. CASE type = "destroy"
            BY <2>1, <3>1, FirstDestroy DEF Submits, Underway
        <3>2. CASE type # "destroy"
            <4>1. \A i \in DOMAIN jobs : ~IsOf("destroy", i)'
                BY <1>1, <2>1, FirstDestroy, TypesStay DEF NoDestroy, IsOf
            <4> QED BY <1>1, <2>1, <3>2, <4>1, SubmitsLast DEF NoDestroy, IsOf
        <3> QED BY <3>1, <3>2
    <2>2. ASSUME DOMAIN jobs' = DOMAIN jobs, ~NoDestroy
          PROVE  \/ row'.state \in {"destroying", "destroyed"}
                 \/ \E w \in Workers :
                        Writing(w)' /\ syncs'[w].to = "destroying" /\ syncs'[w].box = row'
        <3>1. row.desired = "destroyed"
            BY <2>2 DEF Unharmed, Spared, DestroyStarted, NoDestroy
        <3>2. ASSUME row' # row PROVE row'.state \in {"destroying", "destroyed"}
            <4>1. ASSUME NEW w \in Workers, Saves(w) PROVE row'.state \in {"destroying", "destroyed"}
                BY <3>1, <4>1 DEF Saves, Save, Writing, DestroyedOnce
            <4>2. CASE row.state # "destroyed"
                BY <1>5, <1>6, <3>1, <3>2, <4>1, <4>2
            <4>3. CASE row.state = "destroyed"
                <5>1. ASSUME NEW h \in handlers, Handles(h) PROVE row'.state = "destroyed"
                    BY <1>5, <3>1, <5>1
                <5> QED BY <1>1, <3>1, <3>2, <4>1, <4>3, <5>1, RowSteps, Harmless
                        DEF RowStep, Is, Posts, Destroy
            <4> QED BY <4>2, <4>3
        <3>3. CASE row' = row /\ row.state \notin {"destroying", "destroyed"}
            <4>1. PICK w \in Workers : Writing(w) /\ syncs[w].to = "destroying" /\ syncs[w].box = row
                BY <2>2, <3>3 DEF DestroyedOnce
            <4>2. row.pending /\ lock = w
                BY <1>1, <1>2, <3>1, <3>3, <4>1, OpenRow DEF Writing
            <4> QED BY <1>1, <1>2, <3>3, <4>1, <4>2, WriterStays
        <3> QED BY <3>2, <3>3
    <2> QED BY <1>1, <1>3, <2>1, <2>2, JobsGrow
<1> QED BY <1>4, <1>7, <1>8, <1>9 DEF DestroyedOnce

LEMMA OnceEachStep ==
    ASSUME Unharmed, [Next]_vars, Blameless'
    PROVE  OnceEach'
<1>1. /\ Typed /\ Lawful /\ OneJob /\ LockHeld /\ KnownForGood /\ FaultsOnce
      /\ MadeOnce \/ DestroyedOnce
      /\ "api" \notin late => MadeOnce /\ DestroyedOnce
    BY UnharmedFacts DEF Unharmed, Basics, Spared, OnceEach
<1>2. Settling' /\ ("api" \in late => "api" \in late')
    BY <1>1, FaultsStay DEF Blameless, Settling, Without
<1>3. CASE ~CrashApi
    <2>1. MadeOnce => MadeOnce'
        BY <1>1, <1>2, <1>3, MadeOnceStep DEF Survived
    <2>2. DestroyedOnce => DestroyedOnce'
        BY <1>3, DestroyedOnceStep
    <2> QED BY <1>1, <1>2, <2>1, <2>2 DEF OnceEach
<1>4. CASE CrashApi
    <2>1. "api" \in late' /\ MadeOnce
        BY <1>1, <1>4 DEF CrashApi, Fault, FaultsOnce
    <2>2. CASE row.state # "unknown"
        BY <1>1, <1>2, <2>1, <2>2, MadeOnceStep DEF Survived, OnceEach
    <2>3. CASE row.state = "unknown"
        <3>1. row.desired # "destroyed"
            BY <2>3 DEF Lawful, Sound, ValidStates, Unharmed, Basics
        <3>2. NoDestroy
            BY <3>1 DEF Unharmed, Spared, DestroyStarted, NoDestroy
        <3>3. NoDestroy' /\ ~Twice'
            BY <1>4, <3>2 DEF CrashApi, NoDestroy, Twice, IsOf
        <3>4. \A w \in Workers : syncs'[w].pc = "idle"
            BY <1>4 DEF CrashApi, At
        <3> QED BY <2>1, <3>3, <3>4 DEF DestroyedOnce, Writing, OnceEach
    <2> QED BY <2>2, <2>3
<1> QED BY <1>3, <1>4

(* A box gets into error only if an operation, a poll, a report of an        *)
(* outcome or a call fails, a job is given up or times out, a lock is lost   *)
(* or the runner restarts: an exit of the VM, or an outcome or a report that *)
(* comes twice or late, is not enough, nor is one death of the API, but of a *)
(* box that is to be destroyed, and is gone already.                         *)
THEOREM ErrorsHaveACause == Spec => []ErrorHasCause
<1> DEFINE IInv == Basics /\ DestroyAsked /\ HandlersEnded /\ Spares
<1>1. Init => IInv
    <2> SUFFICES ASSUME Init PROVE DestroyAsked /\ HandlersEnded /\ Spared
        BY BasicsInitially DEF Spares
    <2>1. DestroyAsked /\ HandlersEnded
        BY DEF Init, DestroyAsked, HandlersEnded, At
    <2>2. NoneFails /\ DestroyStarted /\ OnlyCreates /\ NothingToDo /\ NeverMade
        BY DEF Init, NoneFails, DestroyStarted, OnlyCreates, NothingToDo, NeverMade, NotYet,
               NewRow, NoReport, At, Writing
    <2>3. ComesUpByJob /\ row.state # "error"
        BY DEF Init, ComesUpByJob, ComingUp, NewRow, At, Writing
    <2>4. MadeOnce
        BY BasicsInitially DEF Basics, LeftBehind, Undisturbed, Without, Init
    <2>5. DestroyedOnce
        BY DEF Init, DestroyedOnce, Twice, NoDestroy, At, Writing
    <2> QED BY <2>1, <2>2, <2>3, <2>4, <2>5 DEF Spared, OnceEach
<1>2. IInv /\ [Next]_vars => IInv'
    <2> SUFFICES ASSUME IInv, [Next]_vars PROVE IInv'
        OBVIOUS
    <2>1. Typed
        BY DEF Basics, Lawful
    <2>2. ASSUME Blameless' PROVE Spared'
        <3>1. Blameless
            BY <2>1, <2>2, FaultsStay DEF Blameless
        <3>2. Unharmed
            BY <3>1 DEF Unharmed, Spares
        <3> QED BY <2>2, <3>2, NoneFailsStep, DestroyStartedStep, OnlyCreatesStep,
                   NothingToDoStep, NeverMadeStep, ComesUpByJobStep, OnceEachStep DEF Spared
    <2> QED BY <2>1, <2>2, BasicsStep, DestroyAskedStep, HandlersEndedStep DEF Spares
<1>3. IInv => ErrorHasCause
    <2> SUFFICES ASSUME IInv, row.state = "error", Blameless PROVE GoneThoughApiDied
        BY DEF ErrorHasCause, Blameless
    <2>1. Gone /\ DestroyStarted
        BY DEF Spares, Spared
    <2> QED BY <2>1 DEF Gone, Twice, DestroyStarted, GoneThoughApiDied
<1> QED BY <1>1, <1>2, <1>3, PTL DEF Spec
=============================================================================
