------------------------ MODULE BoxReconcilerProofs ------------------------
(* Theorems of BoxReconciler, for every set of passes and every load.        *)
EXTENDS BoxReconcilerProperties, SequenceTheorems, TLAPS

Statuses == {"pending", "in_progress", "completed", "failed"}
Jobs == [type : JobTypes, status : Statuses]

(* What may be written to the row: the copies and targets passes carry, the  *)
(* job a handler speaks of, and the state a report observed of the VM.       *)
RowTyped == row \in Rows
PassesTyped == syncs \in [Workers -> [pc : Pcs, box : Rows, to : States]]
JobsTyped == jobs \in Seq(Jobs)
HandlersTyped ==
    \A h \in handlers : h \in [job : DOMAIN jobs, pc : {"read", "save", "unlock"}, box : Rows]
ExecsOf(js) == [job : DOMAIN js, pc : {"run", "report"}, ok : BOOLEAN]
RunnerTyped ==
    /\ \A e \in execs : e \in ExecsOf(jobs)
    /\ vm \in {"absent", "made", "running", "stopped", "failed"}
    /\ report \in [pc : {"idle", "local", "post"},
                   local : {"started", "stopped", "creating", "error", "unknown"}]

Typed == RowTyped /\ PassesTyped /\ JobsTyped /\ HandlersTyped /\ RunnerTyped

-----------------------------------------------------------------------------
(* The operators a row is written with. *)

(* enforceInvariants decides nothing but whether the row is pending ...      *)
LEMMA NormalTyped ==
    ASSUME NEW r \in Rows
    PROVE  Normal(r) \in Rows /\ Normal(r).desired = r.desired
<1> DEFINE open == r.state # r.desired /\ (r.state = "error" => r.desired = "destroyed")
<1>1. open \in BOOLEAN
    OBVIOUS
<1>2. Normal(r) = [r EXCEPT !.pending = open]
    BY DEF Normal
<1> HIDE DEF open
<1> QED BY <1>1, <1>2 DEF Rows

(* ... and InState changes the state and what follows from it.               *)
LEMMA InStateTyped ==
    ASSUME NEW r \in Rows, NEW s \in States
    PROVE  InState(r, s) \in Rows /\ InState(r, s).desired = r.desired
<1>1. [r EXCEPT !.state = s] \in Rows /\ [r EXCEPT !.state = s].desired = r.desired
    BY DEF Rows
<1> QED BY <1>1, NormalTyped DEF InState

LEMMA NewRowTyped == NewRow \in Rows
BY DEF NewRow, Rows, States, DesiredStates

LEMMA TargetsTyped ==
    ASSUME NEW type \in JobTypes
    PROVE  Underway(type) \in States /\ Reached(type) \in States
BY DEF JobTypes, Underway, Reached, States

LEMMA AtTyped ==
    ASSUME NEW pc \in Pcs
    PROVE  At(pc) \in [pc : Pcs, box : Rows, to : States]
BY NewRowTyped DEF At, States

LEMMA ActingTyped ==
    ASSUME NEW pc \in Pcs, NEW box \in Rows, NEW to \in States
    PROVE  Acting(box, pc, to) \in [pc : Pcs, box : Rows, to : States]
BY DEF Acting

(* A job's status is all that changes of it, and the jobs there are stay.    *)
LEMMA JobsStay ==
    ASSUME Typed, NEW i \in DOMAIN jobs, NEW status \in Statuses,
           jobs' = [jobs EXCEPT ![i].status = status]
    PROVE  JobsTyped' /\ DOMAIN jobs' = DOMAIN jobs
<1>1. [jobs[i] EXCEPT !.status = status] \in Jobs
    <2>1. jobs[i] \in Jobs
        BY DEF Typed, JobsTyped
    <2> QED BY <2>1 DEF Jobs
<1>2. jobs' = [jobs EXCEPT ![i] = [jobs[i] EXCEPT !.status = status]]
    OBVIOUS
<1> QED BY <1>1, <1>2, ExceptSeq DEF Typed, JobsTyped

LEMMA UpdateJobTyped ==
    ASSUME Typed, NEW i \in DOMAIN jobs, NEW status \in Statuses, UpdateJob(i, status)
    PROVE  JobsTyped' /\ HandlersTyped' /\ DOMAIN jobs' = DOMAIN jobs
<1>1. JobsTyped' /\ DOMAIN jobs' = DOMAIN jobs
    BY JobsStay DEF UpdateJob
<1>2. handlers' = handlers \union {[job |-> i, pc |-> "read", box |-> NewRow]}
    BY DEF UpdateJob
<1> QED BY <1>1, <1>2, NewRowTyped DEF Typed, HandlersTyped

(* An execution starts with a job's number, and ends well or not.            *)
LEMMA ExecsTyped ==
    /\ \A i \in DOMAIN jobs : [job |-> i, pc |-> "run", ok |-> TRUE] \in ExecsOf(jobs)
    /\ \A e \in ExecsOf(jobs) :
        /\ e.job \in DOMAIN jobs
        /\ [e EXCEPT !.pc = "report"] \in ExecsOf(jobs)
        /\ [e EXCEPT !.pc = "report", !.ok = FALSE] \in ExecsOf(jobs)
<1>1. ASSUME NEW i \in DOMAIN jobs, NEW ok \in BOOLEAN
      PROVE  [job |-> i, pc |-> "run", ok |-> ok] \in ExecsOf(jobs)
    BY DEF ExecsOf
<1>2. ASSUME NEW e \in ExecsOf(jobs), NEW ok \in BOOLEAN
      PROVE  /\ e.job \in DOMAIN jobs
             /\ [e EXCEPT !.pc = "report"] \in ExecsOf(jobs)
             /\ [e EXCEPT !.pc = "report", !.ok = ok] \in ExecsOf(jobs)
    BY DEF ExecsOf
<1>3. TRUE \in BOOLEAN /\ FALSE \in BOOLEAN
    OBVIOUS
<1> QED BY <1>1, <1>2, <1>3, Zenon

-----------------------------------------------------------------------------
LEMMA TypedInitially == Init => Typed
<1> SUFFICES ASSUME Init PROVE Typed
    OBVIOUS
<1>1. RowTyped
    BY NewRowTyped DEF Init, RowTyped
<1>2. PassesTyped
    BY AtTyped DEF Init, PassesTyped, Pcs
<1>3. JobsTyped /\ HandlersTyped
    BY DEF Init, JobsTyped, HandlersTyped
<1>4. RunnerTyped
    BY DEF Init, RunnerTyped, NoReport
<1> QED BY <1>1, <1>2, <1>3, <1>4 DEF Typed

Requests == Start \/ Stop \/ Destroy \/ EventCall \/ CronCall \/ Expire \/ CrashApi

LEMMA RequestsTyped == Typed /\ Requests => Typed'
<1> SUFFICES ASSUME Typed, Requests PROVE Typed'
    OBVIOUS
<1> USE DEF Typed, RowTyped, PassesTyped, JobsTyped, HandlersTyped, RunnerTyped, runner
<1>1. ASSUME NEW desired \in DesiredStates, Request(desired) PROVE Typed'
    BY <1>1 DEF Request, Rows
<1>2. CASE Start \/ Stop \/ Destroy
    BY <1>1, <1>2 DEF Start, Stop, Destroy, DesiredStates
<1>3. ASSUME Enter PROVE PassesTyped'
    BY <1>3, AtTyped, ActingTyped DEF Enter, Pcs, States
<1>4. CASE EventCall
    BY <1>3, <1>4 DEF EventCall
<1>5. CASE CronCall
    BY <1>3, <1>5 DEF CronCall
<1>6. CASE Expire
    BY <1>6 DEF Expire
<1>7. CASE CrashApi
    BY <1>7, AtTyped DEF CrashApi, Pcs
<1> QED BY <1>2, <1>4, <1>5, <1>6, <1>7 DEF Requests

LEMMA PassTyped ==
    ASSUME Typed, NEW w \in Workers, Pass(w) \/ TimeOut(w) \/ Fail(w)
    PROVE  Typed'
<1> USE DEF Typed, RowTyped, PassesTyped, JobsTyped, HandlersTyped, RunnerTyped, runner
<1>1. syncs[w].box \in Rows /\ syncs[w].to \in States
    OBVIOUS
<1>2. ASSUME NEW pc \in Pcs, syncs' = [syncs EXCEPT ![w] = At(pc)]
      PROVE  PassesTyped'
    BY <1>2, AtTyped
<1>3. ASSUME NEW pc \in Pcs, NEW to \in States,
             syncs' = [syncs EXCEPT ![w] = Acting(syncs[w].box, pc, to)]
      PROVE  PassesTyped'
    BY <1>1, <1>3, ActingTyped
<1>4. "unlock" \in Pcs /\ "check" \in Pcs /\ "save" \in Pcs /\ "idle" \in Pcs
    BY DEF Pcs
<1>5. CASE Submit(w)
    <2>1. PICK type \in Wanted(syncs[w].box) :
            /\ jobs' = Append(jobs, [type |-> type, status |-> "pending"])
            /\ syncs' = [syncs EXCEPT ![w] = Acting(@.box, "check", Underway(type))]
        BY <1>5 DEF Submit, Ready, CreateJob
    <2>2. type \in JobTypes
        BY <2>1 DEF Wanted, JobTypes
    <2>3. PassesTyped'
        BY <1>3, <1>4, <2>1, <2>2, TargetsTyped
    <2>4. [type |-> type, status |-> "pending"] \in Jobs
        BY <2>2 DEF Jobs, Statuses
    <2>5. jobs' \in Seq(Jobs) /\ DOMAIN jobs \subseteq DOMAIN jobs'
        BY <2>1, <2>4
    <2> QED BY <1>5, <2>3, <2>5 DEF Submit, ExecsOf
<1>6. CASE Leave(w)
    BY <1>2, <1>4, <1>6 DEF Leave
<1>7. CASE Learn(w)
    <2>1. PICK s \in Learned(syncs[w].box) :
            syncs' = [syncs EXCEPT ![w] = Acting(@.box, "check", s)]
        BY <1>7 DEF Learn
    <2>2. s \in States
        BY <2>1 DEF Learned, States
    <2> QED BY <1>3, <1>4, <1>7, <2>1, <2>2 DEF Learn
<1>8. CASE TimeOut(w)
    <2>1. "error" \in States
        BY DEF States
    <2> QED BY <1>3, <1>4, <1>8, <2>1 DEF TimeOut
<1>9. CASE Check(w)
    BY <1>1, <1>2, <1>3, <1>4, <1>9 DEF Check
<1>10. CASE Save(w)
    BY <1>1, <1>2, <1>4, <1>10, InStateTyped DEF Save
<1>11. CASE Fail(w)
    <2>1. "error" \in States
        BY DEF States
    <2> QED BY <1>2, <1>4, <1>11, <2>1, InStateTyped DEF Fail
<1>12. CASE Unlock(w)
    BY <1>2, <1>4, <1>12 DEF Unlock
<1>13. CASE Look(w)
    <2>1. "destroying" \in States /\ "act" \in Pcs
        BY DEF States, Pcs
    <2> QED BY <1>3, <1>13, <2>1 DEF Look
<1> QED BY <1>5, <1>6, <1>7, <1>8, <1>9, <1>10, <1>11, <1>12, <1>13 DEF Pass

LEMMA HandlerTyped ==
    ASSUME Typed, NEW h \in handlers, HandleRead(h) \/ HandleSave(h) \/ HandleUnlock(h)
    PROVE  Typed'
<1> USE DEF Typed, RowTyped, PassesTyped, JobsTyped, HandlersTyped, RunnerTyped, runner
<1>1. h \in [job : DOMAIN jobs, pc : {"read", "save", "unlock"}, box : Rows]
    OBVIOUS
<1>2. CASE HandleRead(h)
    BY <1>1, <1>2 DEF HandleRead
<1>3. CASE HandleSave(h)
    <2>1. jobs[h.job] \in Jobs
        BY <1>1
    <2>2. Outcome(jobs[h.job]) \in States
        BY <2>1, TargetsTyped DEF Outcome, Jobs, States
    <2> QED BY <1>1, <1>3, <2>2, InStateTyped, NewRowTyped DEF HandleSave
<1>4. CASE HandleUnlock(h)
    BY <1>4 DEF HandleUnlock
<1> QED BY <1>2, <1>3, <1>4

Running == \/ \E i \in DOMAIN jobs : Stale(i) \/ Claim(i)
           \/ \E e \in execs : Execute(e) \/ Report(e)
           \/ RestartRunner \/ Exit

LEMMA RunningTyped == Typed /\ Running => Typed'
<1> SUFFICES ASSUME Typed, Running PROVE Typed'
    OBVIOUS
<1> USE DEF Typed, RowTyped, PassesTyped, RunnerTyped, runner, api
<1>1. ASSUME NEW i \in DOMAIN jobs, Stale(i) PROVE Typed'
    BY <1>1, UpdateJobTyped DEF Stale, Statuses, ExecsOf
<1>2. ASSUME NEW i \in DOMAIN jobs, Claim(i) PROVE Typed'
    <2>1. JobsTyped' /\ DOMAIN jobs' = DOMAIN jobs
        BY <1>2, JobsStay DEF Claim, Statuses
    <2>2. execs' = execs \/ execs' = execs \union {[job |-> i, pc |-> "run", ok |-> TRUE]}
        BY <1>2 DEF Claim
    <2>3. \A e \in execs' : e \in ExecsOf(jobs)
        <3>1. [job |-> i, pc |-> "run", ok |-> TRUE] \in ExecsOf(jobs)
            BY ExecsTyped, Zenon
        <3> QED BY <2>2, <3>1, Zenon
    <2>4. UNCHANGED <<row, syncs, handlers, vm, report>>
        BY <1>2 DEF Claim
    <2> QED BY <2>1, <2>3, <2>4 DEF HandlersTyped, ExecsOf
<1>3. ASSUME NEW e \in execs, Execute(e) PROVE Typed'
    <2>1. jobs[e.job] \in Jobs
        <3>1. e.job \in DOMAIN jobs
            BY ExecsTyped
        <3> QED BY <3>1 DEF JobsTyped
    <2>2. vm' \in Success(jobs[e.job].type) \/ vm' \in Failure(jobs[e.job].type)
        BY <1>3 DEF Execute
    <2>3. vm' \in {"absent", "made", "running", "stopped", "failed"}
        BY <2>1, <2>2 DEF Success, Failure, Jobs, JobTypes
    <2>4. e \in ExecsOf(jobs)
        OBVIOUS
    <2>5. \/ execs' = (execs \ {e}) \union {[e EXCEPT !.pc = "report"]}
          \/ execs' = (execs \ {e}) \union {[e EXCEPT !.pc = "report", !.ok = FALSE]}
        BY <1>3 DEF Execute
    <2>6. \A f \in execs' :
            f \in ExecsOf(jobs)
        BY <2>4, <2>5, ExecsTyped
    <2> QED BY <1>3, <2>3, <2>6 DEF Execute, JobsTyped, HandlersTyped
<1>4. ASSUME NEW e \in execs, Report(e) PROVE Typed'
    <2> DEFINE status == IF e.ok THEN "completed" ELSE "failed"
    <2>1. e.job \in DOMAIN jobs /\ status \in Statuses
        BY ExecsTyped DEF Statuses
    <2>2. CASE UpdateJob(e.job, status)
        <3>1. JobsTyped' /\ HandlersTyped' /\ DOMAIN jobs' = DOMAIN jobs
            BY <2>1, <2>2, UpdateJobTyped
        <3> QED BY <1>4, <3>1 DEF Report, ExecsOf
    <2>3. CASE UNCHANGED <<jobs, handlers>>
        BY <1>4, <2>3 DEF Report, JobsTyped, HandlersTyped
    <2> QED BY <1>4, <2>2, <2>3 DEF Report
<1>5. CASE RestartRunner
    <2>1. \A e \in execs' : e \in ExecsOf(jobs)
        BY <1>5, ExecsTyped DEF RestartRunner
    <2>2. vm' \in {"absent", "made", "running", "stopped", "failed"} /\ report' = NoReport
        BY <1>5 DEF RestartRunner
    <2>3. UNCHANGED <<row, syncs, handlers, jobs>>
        BY <1>5 DEF RestartRunner
    <2> QED BY <2>1, <2>2, <2>3 DEF NoReport, JobsTyped, HandlersTyped
<1>6. CASE Exit
    BY <1>6 DEF Exit, JobsTyped, HandlersTyped
<1> QED BY <1>1, <1>2, <1>3, <1>4, <1>5, <1>6 DEF Running

Reporting == Observe \/ Compare \/ Post

LEMMA ReportingTyped == Typed /\ Reporting => Typed'
<1> SUFFICES ASSUME Typed, Reporting PROVE Typed'
    OBVIOUS
<1> USE DEF Typed, RowTyped, PassesTyped, RunnerTyped, api
<1>1. CASE Observe
    <2>1. LocalState \in {"started", "stopped", "creating", "error", "unknown"}
        BY DEF LocalState
    <2> QED BY <1>1, <2>1 DEF Observe, JobsTyped, HandlersTyped
<1>2. CASE Compare
    BY <1>2 DEF Compare, NoReport, JobsTyped, HandlersTyped
<1>3. CASE Post
    <2>1. report' = NoReport /\ UNCHANGED <<lock, called, syncs, execs, vm>>
        BY <1>3 DEF Post
    <2>2. row' \in Rows
        <3>1. Followed \in DesiredStates
            BY DEF Followed, Rows
        <3>2. [row EXCEPT !.desired = Followed] \in Rows /\ report.local \in States
            BY <3>1 DEF Rows, States
        <3>3. row' = row \/ row' = InState([row EXCEPT !.desired = Followed], report.local)
            BY <1>3 DEF Post
        <3> QED BY <3>2, <3>3, InStateTyped
    <2>3. JobsTyped' /\ HandlersTyped' /\ DOMAIN jobs' = DOMAIN jobs
        <3>1. ASSUME NEW i \in DOMAIN jobs, UpdateJob(i, "completed")
              PROVE  JobsTyped' /\ HandlersTyped' /\ DOMAIN jobs' = DOMAIN jobs
            BY <3>1, UpdateJobTyped DEF Statuses
        <3>2. CASE UNCHANGED <<jobs, handlers>>
            BY <3>2 DEF JobsTyped, HandlersTyped
        <3> QED BY <1>3, <3>1, <3>2 DEF Post
    <2> QED BY <2>1, <2>2, <2>3 DEF NoReport, ExecsOf
<1> QED BY <1>1, <1>2, <1>3 DEF Reporting

LEMMA TypedStep == Typed /\ [Next]_vars => Typed'
<1> SUFFICES ASSUME Typed, [Next]_vars PROVE Typed'
    OBVIOUS
<1>1. CASE Requests
    BY <1>1, RequestsTyped
<1>2. ASSUME NEW w \in Workers, Pass(w) \/ TimeOut(w) \/ Fail(w) PROVE Typed'
    BY <1>2, PassTyped
<1>3. CASE Handle
    BY <1>3, HandlerTyped DEF Handle
<1>4. CASE Running
    BY <1>4, RunningTyped
<1>5. CASE Reporting
    BY <1>5, ReportingTyped
<1>6. CASE UNCHANGED vars
    BY <1>6 DEF vars, Typed, RowTyped, PassesTyped, JobsTyped, HandlersTyped, RunnerTyped
<1> QED BY <1>1, <1>2, <1>3, <1>4, <1>5, <1>6
        DEF Next, Requests, Running, Reporting

(* Every variable that reaches the row keeps its domain.                     *)
THEOREM RowsTyped == Spec => []Typed
BY TypedInitially, TypedStep, PTL DEF Spec

-----------------------------------------------------------------------------
(* Once a box is to be destroyed no request, pass, handler or report makes   *)
(* it wanted again: a request to start or stop needs a settled row, and      *)
(* every other writer but the runner's report keeps the desired state, which *)
(* the report changes on a settled row as well.                              *)
LEMMA DestroyKept ==
    Typed /\ [Next]_vars => [row.desired = "destroyed" => row'.desired = "destroyed"]_row
<1> SUFFICES ASSUME Typed, Next, row.desired = "destroyed"
             PROVE  row' = row \/ row'.desired = "destroyed"
    BY DEF vars
<1>1. row \in Rows
    BY DEF Typed, RowTyped
<1>2. CASE Requests
    <2>1. ~Start /\ ~Stop
        BY DEF Start, Stop, Settled
    <2>2. CASE Destroy
        BY <1>1, <2>2 DEF Destroy, Request, Rows
    <2> QED BY <1>2, <2>1, <2>2
            DEF Requests, EventCall, CronCall, Expire, CrashApi
<1>3. ASSUME NEW w \in Workers, Pass(w) \/ TimeOut(w) \/ Fail(w)
      PROVE  row' = row \/ row'.desired = "destroyed"
    <2>1. syncs[w].to \in States /\ "error" \in States
        BY DEF Typed, PassesTyped, States
    <2>2. CASE Save(w)
        BY <1>1, <2>1, <2>2, InStateTyped DEF Save
    <2>3. CASE Fail(w)
        BY <1>1, <2>1, <2>3, InStateTyped DEF Fail
    <2> QED BY <1>3, <2>2, <2>3
            DEF Pass, Look, Submit, Leave, Learn, Check, Unlock, TimeOut
<1>4. ASSUME NEW h \in handlers, HandleRead(h) \/ HandleSave(h) \/ HandleUnlock(h)
      PROVE  row' = row \/ row'.desired = "destroyed"
    <2>1. CASE HandleSave(h)
        <3>1. jobs[h.job] \in Jobs
            BY DEF Typed, HandlersTyped, JobsTyped
        <3>2. Outcome(jobs[h.job]) \in States
            BY <3>1, TargetsTyped DEF Outcome, Jobs, States
        <3> QED BY <1>1, <2>1, <3>2, InStateTyped DEF HandleSave
    <2> QED BY <1>4, <2>1 DEF HandleRead, HandleUnlock
<1>5. CASE Running
    BY <1>5 DEF Running, Stale, Claim, Execute, Report, RestartRunner, Exit, api
<1>6. CASE Reporting
    <2>1. ~(row.state \in {"started", "stopped"} /\ Settled)
        BY DEF Settled
    <2> QED BY <1>6, <2>1 DEF Reporting, Observe, Compare, Post, api
<1> QED BY <1>2, <1>3, <1>4, <1>5, <1>6
        DEF Next, Handle, Requests, Running, Reporting

(* The user's word stands.                                                   *)
THEOREM DestroyIsFinal == Spec => DestroyStands
<1>1. [][Next]_vars /\ []Typed => DestroyStands
    BY DestroyKept, PTL DEF DestroyStands
<1> QED BY <1>1, RowsTyped, PTL DEF Spec

-----------------------------------------------------------------------------
(* What is written to the row is what the entity's assertion admits, and     *)
(* pending whenever it has to be.                                            *)
Sound(r) == r = Normal(r) /\ r.state \in ValidStates(r.desired)

(* A pass about to write has a target its copy of the row admits, a handler  *)
(* about to write reads of a job that does what its copy asks for, and the   *)
(* rest keeps its domain.                                                    *)
TargetsSound ==
    \A w \in Workers : syncs[w].pc \in {"check", "save"} =>
        syncs[w].to \in ValidStates(syncs[w].box.desired)
HandlersSound ==
    \A h \in handlers : h.pc = "save" => h.box.desired = Reached(jobs[h.job].type)
OthersTyped ==
    /\ lock \in Workers \union {NoOne}
    /\ called \in BOOLEAN
    /\ load \in LoadSet /\ late \subseteq FaultNames
Lawful == Typed /\ Sound(row) /\ TargetsSound /\ HandlersSound /\ OthersTyped

LEMMA LawfulSuffices == Lawful => TypeOK
<1> SUFFICES ASSUME Lawful PROVE TypeOK
    OBVIOUS
<1> USE DEF Lawful, Typed
<1>1. row \in Rows /\ row = Normal(row) /\ row.state \in ValidStates(row.desired)
    BY DEF RowTyped, Sound
<1>2. jobs \in Seq([type : JobTypes, status : {"pending", "in_progress"} \union Ended])
    <2>1. Statuses = {"pending", "in_progress"} \union Ended
        BY DEF Statuses, Ended
    <2> QED BY <2>1 DEF JobsTyped, Jobs
<1>3. /\ handlers \subseteq [job : DOMAIN jobs, pc : {"read", "save", "unlock"}, box : Rows]
      /\ execs \subseteq [job : DOMAIN jobs, pc : {"run", "report"}, ok : BOOLEAN]
    BY DEF HandlersTyped, RunnerTyped, ExecsOf
<1>4. report \in [pc : {"idle", "local", "post"}, local : States]
    BY DEF RunnerTyped, States
<1> QED BY <1>1, <1>2, <1>3, <1>4 DEF TypeOK, PassesTyped, RunnerTyped, OthersTyped

(* A state is written with the pending that follows from it, and a failure   *)
(* may be written whatever the user wants.                                   *)
LEMMA InStateSound ==
    ASSUME NEW r \in Rows, NEW s \in ValidStates(r.desired)
    PROVE  Sound(InState(r, s)) /\ InState(r, s) \in Rows
<1> DEFINE open == s # r.desired /\ (s = "error" => r.desired = "destroyed")
<1>1. s \in States
    BY DEF ValidStates, Rows, States, DesiredStates
<1>2. open \in BOOLEAN
    OBVIOUS
<1> DEFINE moved == [r EXCEPT !.state = s]
<1>3. moved.state = s /\ moved.desired = r.desired /\ moved \in Rows
    BY <1>1 DEF Rows
<1>4. InState(r, s) = [moved EXCEPT !.pending = open]
    BY <1>3, Zenon DEF InState, Normal
<1> HIDE DEF open, moved
<1>5. InState(r, s) = [state |-> s, desired |-> r.desired, pending |-> open]
    BY <1>2, <1>3, <1>4 DEF Rows
<1>6. InState(r, s).state = s /\ InState(r, s).desired = r.desired
    BY <1>5
<1>7. Normal(InState(r, s)) = [InState(r, s) EXCEPT !.pending = open]
    BY <1>6 DEF Normal, open
<1>8. Normal(InState(r, s)) = InState(r, s)
    BY <1>5, <1>7
<1> QED BY <1>1, <1>6, <1>8, InStateTyped DEF Sound

LEMMA ErrorAdmitted ==
    ASSUME NEW desired \in DesiredStates
    PROVE  "error" \in ValidStates(desired) /\ desired \in ValidStates(desired)
BY DEF ValidStates, DesiredStates

(* A request leaves a row that is as it should be: it is made of a row at    *)
(* rest, or of one in error that nobody is to start.                         *)
LEMMA RequestSound ==
    ASSUME Lawful, NEW desired \in DesiredStates, Request(desired),
           row.state # desired, ~row.pending,
           row.state \in {"started", "stopped"} \/ desired = "destroyed"
    PROVE  Sound(row')
<1>1. row \in Rows /\ Sound(row)
    BY DEF Lawful, Typed, RowTyped
<1>2. row' = [state |-> row.state, desired |-> desired, pending |-> TRUE]
    BY <1>1 DEF Request, Rows
<1>3. Normal(row') = row'
    <2> DEFINE open == row'.state # row'.desired
                        /\ (row'.state = "error" => row'.desired = "destroyed")
    <2>1. open = TRUE
        BY <1>2
    <2>2. Normal(row') = [row' EXCEPT !.pending = open]
        BY DEF Normal
    <2> HIDE DEF open
    <2> QED BY <1>2, <2>1, <2>2
<1>4. CASE desired # "destroyed"
    BY <1>2, <1>3, <1>4 DEF Sound, ValidStates, DesiredStates
<1>5. CASE desired = "destroyed"
    <2>1. row.state \in {"started", "stopped", "error"}
        <3>1. row = [row EXCEPT !.pending =
                        row.state # row.desired /\ (row.state = "error" => row.desired = "destroyed")]
            BY <1>1 DEF Sound, Normal
        <3>2. row.state = row.desired \/ row.state = "error"
            BY <1>1, <3>1, Zenon DEF Rows
        <3> QED BY <1>1, <1>5, <3>2 DEF Rows, DesiredStates
    <2> QED BY <1>2, <1>3, <1>5, <2>1 DEF Sound, ValidStates
<1> QED BY <1>4, <1>5

LEMMA RowSound == Lawful /\ [Next]_vars => Sound(row')
<1> SUFFICES ASSUME Lawful, [Next]_vars PROVE Sound(row')
    OBVIOUS
<1>1. row \in Rows /\ row.desired \in DesiredStates /\ Sound(row)
    BY DEF Lawful, Typed, RowTyped, Rows
<1>2. ASSUME Start \/ Stop \/ Destroy PROVE Sound(row')
    <2>1. CASE Start
        <3>1. "started" \in DesiredStates /\ row.state # "started" /\ ~row.pending
            BY <2>1 DEF Start, Settled, DesiredStates
        <3> QED BY <2>1, <3>1, RequestSound DEF Start
    <2>2. CASE Stop
        <3>1. "stopped" \in DesiredStates /\ row.state # "stopped" /\ ~row.pending
            BY <2>2 DEF Stop, Settled, DesiredStates
        <3> QED BY <2>2, <3>1, RequestSound DEF Stop
    <2>3. CASE Destroy
        <3>1. "destroyed" \in DesiredStates
            BY DEF DesiredStates
        <3> QED BY <2>3, <3>1, RequestSound DEF Destroy
    <2> QED BY <1>2, <2>1, <2>2, <2>3
<1>3. ASSUME NEW w \in Workers, Save(w) PROVE Sound(row')
    BY <1>1, <1>3, InStateSound DEF Save, Unchanged, Lawful, TargetsSound
<1>4. ASSUME NEW w \in Workers, Fail(w) PROVE Sound(row')
    BY <1>1, <1>4, InStateSound, ErrorAdmitted DEF Fail
<1>5. ASSUME NEW h \in handlers, HandleSave(h) PROVE Sound(row')
    <2>1. CASE Unchanged(h.box)
        <3>1. Outcome(jobs[h.job]) \in ValidStates(row.desired)
            BY <1>1, <1>5, <2>1, ErrorAdmitted
               DEF HandleSave, Unchanged, Lawful, HandlersSound, Outcome
        <3> QED BY <1>1, <1>5, <2>1, <3>1, InStateSound DEF HandleSave
    <2>2. CASE ~Unchanged(h.box)
        BY <1>1, <1>5, <2>2 DEF HandleSave
    <2> QED BY <2>1, <2>2
<1>6. ASSUME Post PROVE Sound(row')
    <2>1. CASE UNCHANGED row
        BY <1>1, <2>1
    <2>2. CASE /\ report.local \in ValidStates(Followed)
               /\ row' = InState([row EXCEPT !.desired = Followed], report.local)
        <3>1. Followed \in DesiredStates
            BY <1>1 DEF Followed
        <3>2. /\ [row EXCEPT !.desired = Followed] \in Rows
              /\ [row EXCEPT !.desired = Followed].desired = Followed
            BY <1>1, <3>1 DEF Rows
        <3> QED BY <2>2, <3>2, InStateSound
    <2> QED BY <1>6, <2>1, <2>2 DEF Post
<1>7. ASSUME UNCHANGED row PROVE Sound(row')
    BY <1>1, <1>7
<1>8. ASSUME Next PROVE Sound(row')
    <2>1. ASSUME NEW w \in Workers, Pass(w) \/ TimeOut(w) PROVE Sound(row')
        BY <1>3, <1>7, <2>1 DEF Pass, Look, Submit, Leave, Learn, Check, Unlock, TimeOut
    <2>2. ASSUME NEW h \in handlers, HandleRead(h) \/ HandleSave(h) \/ HandleUnlock(h)
          PROVE  Sound(row')
        BY <1>5, <1>7, <2>2 DEF HandleRead, HandleUnlock
    <2>3. CASE EventCall \/ CronCall \/ Expire \/ CrashApi
        BY <1>7, <2>3 DEF EventCall, CronCall, Expire, CrashApi
    <2>4. CASE Running \/ Observe \/ Compare
        BY <1>7, <2>4 DEF Running, Stale, Claim, Execute, Report, RestartRunner, Exit,
                          Observe, Compare, api
    <2> QED BY <1>2, <1>4, <1>6, <1>8, <2>1, <2>2, <2>3, <2>4 DEF Next, Handle, Running
<1> QED BY <1>7, <1>8 DEF vars

(* A pass takes on a target only as it submits, learns or times out, and     *)
(* each of the three fits the copy it has of the row.                        *)
LEMMA TargetsStep == Lawful /\ [Next]_vars => TargetsSound'
<1> SUFFICES ASSUME Lawful, [Next]_vars PROVE TargetsSound'
    OBVIOUS
<1>1. syncs \in [Workers -> [pc : Pcs, box : Rows, to : States]] /\ TargetsSound
    BY DEF Lawful, Typed, PassesTyped
<1>2. ASSUME UNCHANGED syncs PROVE TargetsSound'
    BY <1>1, <1>2 DEF TargetsSound
<1>3. ASSUME NEW w \in Workers, NEW to, NEW pc,
             pc \in {"act", "unlock"} \/ to \in ValidStates(syncs[w].box.desired),
             syncs' = [syncs EXCEPT ![w] = Acting(@.box, pc, to)]
      PROVE  TargetsSound'
    BY <1>1, <1>3 DEF TargetsSound, Acting
<1>4. ASSUME NEW w \in Workers, NEW pc \in {"unlock", "idle"}, syncs' = [syncs EXCEPT ![w] = At(pc)]
      PROVE  TargetsSound'
    BY <1>1, <1>4 DEF TargetsSound, At
<1>5. CASE EventCall \/ CronCall
    <2>1. ASSUME Enter PROVE TargetsSound'
        <3> DEFINE free == CHOOSE w \in Workers : syncs[w].pc = "idle"
        <3>1. PICK copy \in {At("unlock"), Acting(row, "act", "unknown")} :
                syncs' = [syncs EXCEPT ![free] = copy]
            BY <2>1 DEF Enter
        <3>2. copy.pc \in {"act", "unlock"}
            BY <3>1 DEF At, Acting
        <3> HIDE DEF free
        <3> QED BY <1>1, <3>1, <3>2 DEF TargetsSound
    <2> QED BY <1>2, <1>5, <2>1 DEF EventCall, CronCall
<1>6. CASE CrashApi
    BY <1>6 DEF CrashApi, TargetsSound, At
<1>7. ASSUME NEW w \in Workers, Pass(w) \/ TimeOut(w) \/ Fail(w) PROVE TargetsSound'
    <2> DEFINE box == syncs[w].box
    <2>1. box \in Rows /\ box.desired \in DesiredStates
        BY <1>1 DEF Rows
    <2>2. CASE Submit(w)
        <3>1. PICK type \in Wanted(box) :
                syncs' = [syncs EXCEPT ![w] = Acting(@.box, "check", Underway(type))]
            BY <2>2 DEF Submit, Ready
        <3>2. Underway(type) \in ValidStates(box.desired)
            BY <3>1 DEF Wanted, Underway, ValidStates
        <3> QED BY <1>3, <3>1, <3>2
    <2>3. CASE Learn(w)
        <3>1. PICK s \in Learned(box) : syncs' = [syncs EXCEPT ![w] = Acting(@.box, "check", s)]
            BY <2>3 DEF Learn
        <3>2. s \in ValidStates(box.desired)
            BY <3>1 DEF Learned, ComingUp, ValidStates
        <3> QED BY <1>3, <3>1, <3>2
    <2>4. CASE TimeOut(w)
        <3>1. "error" \in ValidStates(box.desired)
            BY <2>1, ErrorAdmitted
        <3> QED BY <1>3, <2>4, <3>1 DEF TimeOut
    <2>5. CASE Check(w)
        <3>1. CASE syncs' = [syncs EXCEPT ![w] = Acting(@.box, "save", @.to)]
            <4>1. syncs[w].to \in ValidStates(box.desired)
                BY <1>1, <2>5 DEF Check, TargetsSound
            <4>2. syncs' = [syncs EXCEPT ![w] = Acting(@.box, "save", syncs[w].to)]
                BY <3>1
            <4> QED BY <1>3, <4>1, <4>2
        <3>2. CASE syncs' = [syncs EXCEPT ![w] = At("unlock")]
            BY <1>4, <3>2
        <3> QED BY <2>5, <3>1, <3>2 DEF Check
    <2>6. CASE Leave(w) \/ Save(w) \/ Unlock(w) \/ Fail(w)
        BY <1>4, <2>6 DEF Leave, Save, Unlock, Fail
    <2>7. CASE Look(w)
        BY <1>3, <2>7 DEF Look
    <2> QED BY <1>7, <2>2, <2>3, <2>4, <2>5, <2>6, <2>7 DEF Pass
<1> QED BY <1>2, <1>5, <1>6, <1>7
        DEF Next, Start, Stop, Destroy, Request, Expire, Handle, HandleRead, HandleSave,
            HandleUnlock, Stale, Claim, Execute, Report, RestartRunner, Exit,
            Observe, Compare, Post, api, vars

(* A job keeps its type whatever becomes of it.                              *)
LEMMA TypesStay ==
    ASSUME Typed, [Next]_vars, NEW i \in DOMAIN jobs
    PROVE  i \in DOMAIN jobs' /\ jobs'[i].type = jobs[i].type
<1>1. jobs \in Seq(Jobs)
    BY DEF Typed, JobsTyped
<1>2. ASSUME UNCHANGED jobs PROVE i \in DOMAIN jobs' /\ jobs'[i].type = jobs[i].type
    BY <1>2
<1>3. ASSUME NEW k \in DOMAIN jobs, NEW status, jobs' = [jobs EXCEPT ![k].status = status]
      PROVE  i \in DOMAIN jobs' /\ jobs'[i].type = jobs[i].type
    <2>1. jobs[k] \in Jobs
        BY <1>1
    <2> QED BY <1>3, <2>1 DEF Jobs
<1>4. ASSUME NEW job, jobs' = Append(jobs, job)
      PROVE  i \in DOMAIN jobs' /\ jobs'[i].type = jobs[i].type
    BY <1>1, <1>4
<1>5. ASSUME NEW w \in Workers, Submit(w)
      PROVE  i \in DOMAIN jobs' /\ jobs'[i].type = jobs[i].type
    BY <1>4, <1>5 DEF Submit, CreateJob
<1>6. ASSUME NEW k \in DOMAIN jobs, Stale(k) \/ Claim(k)
      PROVE  i \in DOMAIN jobs' /\ jobs'[i].type = jobs[i].type
    BY <1>3, <1>6 DEF Stale, Claim, UpdateJob
<1>7. ASSUME NEW e \in execs, Report(e)
      PROVE  i \in DOMAIN jobs' /\ jobs'[i].type = jobs[i].type
    <2>1. e.job \in DOMAIN jobs
        BY ExecsTyped DEF Typed, RunnerTyped
    <2> QED BY <1>2, <1>3, <1>7, <2>1 DEF Report, UpdateJob
<1>8. CASE Post
    BY <1>2, <1>3, <1>8 DEF Post, UpdateJob
<1>9. ASSUME NEW w \in Workers, Pass(w) \/ TimeOut(w) \/ Fail(w)
      PROVE  i \in DOMAIN jobs' /\ jobs'[i].type = jobs[i].type
    BY <1>2, <1>5, <1>9 DEF Pass, Look, Leave, Learn, Check, Save, Unlock, TimeOut, Fail
<1> QED BY <1>2, <1>6, <1>7, <1>8, <1>9
        DEF Next, Start, Stop, Destroy, Request, EventCall, CronCall, Expire, CrashApi,
            Handle, HandleRead, HandleSave, HandleUnlock, Execute, RestartRunner, Exit,
            Observe, Compare, api, vars

(* A handler goes on to write only if the row asks for what its job does.    *)
LEMMA HandlersStep == Lawful /\ [Next]_vars => HandlersSound'
<1> SUFFICES ASSUME Lawful, [Next]_vars PROVE HandlersSound'
    OBVIOUS
<1>1. Typed /\ HandlersSound
    BY DEF Lawful
<1>2. ASSUME NEW h \in handlers, h.pc = "save"
      PROVE  h.box.desired = Reached(jobs'[h.job].type)
    <2>1. h.job \in DOMAIN jobs
        BY <1>1 DEF Typed, HandlersTyped
    <2> QED BY <1>1, <1>2, <2>1, TypesStay DEF HandlersSound
<1>3. ASSUME NEW h \in handlers', h \in handlers \/ h.pc # "save"
      PROVE  h.pc = "save" => h.box.desired = Reached(jobs'[h.job].type)
    BY <1>2, <1>3
<1>4. ASSUME NEW i, UpdateJob(i, "failed") \/ UpdateJob(i, "completed") PROVE HandlersSound'
    <2>1. \A h \in handlers' : h \in handlers \/ h.pc # "save"
        BY <1>4 DEF UpdateJob
    <2> QED BY <1>3, <2>1 DEF HandlersSound
<1>5. ASSUME handlers' \subseteq handlers PROVE HandlersSound'
    BY <1>3, <1>5 DEF HandlersSound
<1>6. ASSUME NEW h \in handlers, HandleRead(h) PROVE HandlersSound'
    <2>1. h \in [job : DOMAIN jobs, pc : {"read", "save", "unlock"}, box : Rows]
        BY <1>1 DEF Typed, HandlersTyped
    <2>2. jobs' = jobs
        BY <1>6 DEF HandleRead
    <2>3. CASE row.desired = Reached(jobs[h.job].type)
        <3>1. handlers' = (handlers \ {h}) \union {[h EXCEPT !.pc = "save", !.box = row]}
            BY <1>6, <2>3 DEF HandleRead
        <3> QED BY <1>1, <2>1, <2>2, <2>3, <3>1 DEF HandlersSound
    <2>4. CASE row.desired # Reached(jobs[h.job].type)
        <3>1. handlers' = (handlers \ {h}) \union {[h EXCEPT !.pc = "unlock"]}
            BY <1>6, <2>4 DEF HandleRead
        <3> QED BY <1>1, <2>1, <2>2, <3>1 DEF HandlersSound
    <2> QED BY <2>3, <2>4
<1>7. ASSUME NEW h \in handlers, HandleSave(h) PROVE HandlersSound'
    <2>1. h \in [job : DOMAIN jobs, pc : {"read", "save", "unlock"}, box : Rows]
        BY <1>1 DEF Typed, HandlersTyped
    <2>2. /\ handlers' = (handlers \ {h}) \union {[h EXCEPT !.pc = "unlock", !.box = NewRow]}
          /\ jobs' = jobs
        BY <1>7 DEF HandleSave
    <2> QED BY <1>1, <2>1, <2>2 DEF HandlersSound
<1>8. ASSUME NEW h \in handlers, HandleUnlock(h) PROVE HandlersSound'
    BY <1>5, <1>8 DEF HandleUnlock
<1>9. ASSUME NEW w \in Workers, Pass(w) \/ TimeOut(w) \/ Fail(w) PROVE HandlersSound'
    BY <1>5, <1>9 DEF Pass, Look, Submit, Leave, Learn, Check, Save, Unlock, TimeOut, Fail, runner
<1>10. CASE Running
    <2>1. ASSUME NEW i \in DOMAIN jobs, Stale(i) \/ Claim(i) PROVE HandlersSound'
        BY <1>4, <1>5, <2>1 DEF Stale, Claim, api
    <2>2. ASSUME NEW e \in execs, Execute(e) \/ Report(e) PROVE HandlersSound'
        BY <1>4, <1>5, <2>2 DEF Execute, Report, api
    <2> QED BY <1>5, <1>10, <2>1, <2>2 DEF Running, RestartRunner, Exit, api
<1>11. CASE Reporting
    BY <1>4, <1>5, <1>11 DEF Reporting, Observe, Compare, Post, api
<1> QED BY <1>5, <1>6, <1>7, <1>8, <1>9, <1>10, <1>11
        DEF Next, Running, Reporting, Start, Stop, Destroy, Request, EventCall, CronCall,
            Expire, CrashApi, Handle, vars

(* The lock is nobody's or that of a pass, and what has gone wrong was among *)
(* the faults there are.                                                     *)
LEMMA OthersStep == Lawful /\ [Next]_vars => OthersTyped'
<1> SUFFICES ASSUME Lawful, [Next]_vars PROVE OthersTyped'
    OBVIOUS
<1> DEFINE Calm == load' \in LoadSet /\ late' \subseteq FaultNames
           Api == lock' \in Workers \union {NoOne} /\ called' \in BOOLEAN
<1>1. OthersTyped
    BY DEF Lawful
<1>2. ASSUME UNCHANGED calm \/ \E k \in FaultNames : Fault(k) PROVE Calm
    BY <1>1, <1>2 DEF calm, Fault, OthersTyped, LoadSet
<1>3. ASSUME UNCHANGED <<lock, called>> PROVE Api
    BY <1>1, <1>3 DEF OthersTyped
<1>4. /\ {"op", "exit", "poll", "report", "again", "runner", "timeout", "gave_up"} \subseteq FaultNames
      /\ {"unlock", "expiry", "api", "call", "tardy", "overtaken"} \subseteq FaultNames
    BY DEF FaultNames
<1>5. CASE Start \/ Stop \/ Destroy
    <2>1. load \in LoadSet /\ late \subseteq FaultNames
        BY <1>1 DEF OthersTyped
    <2>2. ASSUME NEW desired, Request(desired) PROVE Calm /\ Api
        <3>1. load' \in LoadSet
            BY <2>1, <2>2 DEF Request, LoadSet
        <3> QED BY <1>1, <2>1, <2>2, <3>1 DEF Request, OthersTyped
    <2> QED BY <1>5, <2>2 DEF Start, Stop, Destroy, OthersTyped
<1>6. CASE EventCall \/ CronCall
    <2>1. ASSUME Enter PROVE lock' \in Workers
        <3>1. \E w \in Workers : syncs[w].pc = "idle"
            BY <2>1 DEF Enter
        <3>2. (CHOOSE w \in Workers : syncs[w].pc = "idle") \in Workers
            BY <3>1
        <3> QED BY <2>1, <3>2, Zenon DEF Enter
    <2> QED BY <1>1, <1>2, <1>6, <2>1 DEF EventCall, CronCall, OthersTyped
<1>7. ASSUME NEW held, Release(held) PROVE Calm /\ lock' \in Workers \union {NoOne}
    BY <1>2, <1>4, <1>7 DEF Release
<1>8. ASSUME NEW w \in Workers, Pass(w) \/ TimeOut(w) \/ Fail(w) PROVE Calm /\ Api
    <2>1. CASE Unlock(w)
        BY <1>1, <1>7, <2>1 DEF Unlock, OthersTyped
    <2>2. CASE TimeOut(w) \/ Fail(w)
        BY <1>2, <1>3, <1>4, <2>2 DEF TimeOut, Fail
    <2> QED BY <1>2, <1>3, <1>8, <2>1, <2>2 DEF Pass, Look, Submit, Leave, Learn, Check, Save
<1>9. ASSUME NEW h \in handlers, HandleRead(h) \/ HandleSave(h) \/ HandleUnlock(h)
      PROVE  Calm /\ Api
    <2>1. CASE HandleUnlock(h)
        BY <1>1, <1>7, <2>1 DEF HandleUnlock, OthersTyped
    <2> QED BY <1>2, <1>3, <1>4, <1>9, <2>1 DEF HandleRead, HandleSave, calm
<1>10. CASE Expire \/ CrashApi
    BY <1>1, <1>2, <1>4, <1>10 DEF Expire, CrashApi, OthersTyped
<1>11. CASE Running
    <2>1. ASSUME NEW i \in DOMAIN jobs, Stale(i) \/ Claim(i) PROVE Calm /\ Api
        BY <1>2, <1>3, <1>4, <2>1 DEF Stale, Claim, api
    <2>2. ASSUME NEW e \in execs, Execute(e) \/ Report(e) PROVE Calm /\ Api
        BY <1>2, <1>3, <1>4, <2>2 DEF Execute, Report, api
    <2>3. CASE RestartRunner \/ Exit
        <3>1. \E k \in FaultNames : Fault(k)
            BY <1>4, <2>3 DEF RestartRunner, Exit
        <3>2. UNCHANGED <<lock, called>>
            BY <2>3 DEF RestartRunner, Exit, api
        <3> QED BY <1>2, <1>3, <3>1, <3>2, Zenon DEF OthersTyped
    <2> QED BY <1>11, <2>1, <2>2, <2>3 DEF Running, OthersTyped
<1>12. CASE Reporting
    <2>1. CASE Observe
        <3>1. load' \in LoadSet
            BY <1>1, <2>1 DEF Observe, OthersTyped, LoadSet
        <3> QED BY <1>1, <1>3, <2>1, <3>1 DEF Observe, api, OthersTyped
    <2>2. CASE Compare
        BY <1>2, <1>3, <2>2 DEF Compare, api, OthersTyped
    <2>3. CASE Post
        <3>1. ASSUME NEW otherwise, OfThePast(otherwise) PROVE otherwise \/ Calm
            BY <1>2, <1>4, <3>1 DEF OfThePast
        <3> QED BY <1>2, <1>3, <1>4, <2>3 DEF Post, OfThePast, OthersTyped, calm
    <2> QED BY <1>12, <2>1, <2>2, <2>3 DEF Reporting
<1>13. CASE UNCHANGED vars
    BY <1>2, <1>3, <1>13 DEF vars, calm, OthersTyped
<1> QED BY <1>5, <1>6, <1>8, <1>9, <1>10, <1>11, <1>12, <1>13
        DEF Next, Running, Reporting, Handle, OthersTyped

LEMMA LawfulInitially == Init => Lawful
<1> SUFFICES ASSUME Init PROVE Lawful
    OBVIOUS
<1>1. Typed
    BY TypedInitially
<1>2. Sound(row)
    <2>1. row = [state |-> "unknown", desired |-> "started", pending |-> TRUE]
        BY DEF Init, NewRow
    <2> DEFINE open == row.state # row.desired /\ (row.state = "error" => row.desired = "destroyed")
    <2>2. open = TRUE
        BY <2>1
    <2>3. Normal(row) = [row EXCEPT !.pending = open]
        BY DEF Normal
    <2> HIDE DEF open
    <2> QED BY <2>1, <2>2, <2>3 DEF Sound, ValidStates
<1>3. TargetsSound /\ HandlersSound
    BY DEF Init, TargetsSound, HandlersSound, At
<1>4. OthersTyped
    BY LoadsAssumption DEF Init, OthersTyped
<1> QED BY <1>1, <1>2, <1>3, <1>4 DEF Lawful

(* No write but the runner's report has to be refused: whatever the passes,  *)
(* handlers and requests write, from whichever copy, is a row the entity     *)
(* admits, and it says of itself whether it is pending.                      *)
THEOREM RowIsLawful == Spec => []TypeOK
<1>1. Lawful /\ [Next]_vars => Lawful'
    BY TypedStep, RowSound, TargetsStep, HandlersStep, OthersStep DEF Lawful, Sound
<1> QED BY <1>1, LawfulInitially, LawfulSuffices, PTL DEF Spec

-----------------------------------------------------------------------------
(* At most one job is incomplete (the unique index). The runner works at     *)
(* most once on each job it has claimed, and, unless the API gives up on a   *)
(* job or takes a report of the past for true, on none that is over.         *)
Open(i) == jobs[i].status \in {"pending", "in_progress"}
IndexUnique == \A i, j \in DOMAIN jobs : Open(i) /\ Open(j) => i = j
OncePerJob ==
    /\ \A e \in execs : jobs[e.job].status # "pending" /\ (e.pc = "run" => e.ok)
    /\ \A e, f \in execs : e.job = f.job => e = f
NoneGivenUp ==
    Without({"gave_up", "overtaken"}) =>
        \A e \in execs : e.pc = "run" => jobs[e.job].status = "in_progress"
OneJob == IndexUnique /\ OncePerJob /\ NoneGivenUp

LEMMA OneJobSuffices == Typed /\ OneJob => OneAtATime
<1> SUFFICES ASSUME Typed, OneJob, Without({"gave_up", "overtaken"}),
                    NEW e \in execs, NEW f \in execs, e.pc = "run", f.pc = "run"
             PROVE  e = f
    BY DEF OneAtATime
<1>1. e.job \in DOMAIN jobs /\ f.job \in DOMAIN jobs
    BY ExecsTyped DEF Typed, RunnerTyped
<1>2. Open(e.job) /\ Open(f.job)
    BY DEF OneJob, NoneGivenUp, Open
<1> QED BY <1>1, <1>2 DEF OneJob, IndexUnique, OncePerJob

LEMMA FaultsStay ==
    ASSUME Typed, [Next]_vars
    PROVE  late \subseteq late'
<1>1. ASSUME NEW k, Fault(k) PROVE late \subseteq late'
    BY <1>1 DEF Fault
<1>2. ASSUME UNCHANGED calm PROVE late \subseteq late'
    BY <1>2 DEF calm
<1>3. ASSUME NEW held, Release(held) PROVE late \subseteq late'
    BY <1>1, <1>2, <1>3 DEF Release
<1>4. CASE Requests
    BY <1>1, <1>2, <1>4 DEF Requests, Start, Stop, Destroy, Request, EventCall, CronCall,
                            Expire, CrashApi
<1>5. ASSUME NEW w \in Workers, Pass(w) \/ TimeOut(w) \/ Fail(w) PROVE late \subseteq late'
    BY <1>1, <1>2, <1>3, <1>5
       DEF Pass, Look, Submit, Leave, Learn, Check, Save, Unlock, TimeOut, Fail
<1>6. ASSUME NEW h \in handlers, HandleRead(h) \/ HandleSave(h) \/ HandleUnlock(h)
      PROVE  late \subseteq late'
    BY <1>1, <1>2, <1>3, <1>6 DEF HandleRead, HandleSave, HandleUnlock
<1>7. CASE Running
    <2>1. ASSUME NEW i \in DOMAIN jobs, Stale(i) \/ Claim(i) PROVE late \subseteq late'
        BY <1>1, <1>2, <2>1 DEF Stale, Claim
    <2>2. ASSUME NEW e \in execs, Execute(e) \/ Report(e) PROVE late \subseteq late'
        BY <1>1, <1>2, <2>2 DEF Execute, Report
    <2>3. ASSUME RestartRunner PROVE late \subseteq late'
        <3>1. Fault("runner")
            BY <2>3 DEF RestartRunner
        <3> QED BY <1>1, <3>1
    <2> QED BY <1>1, <1>7, <2>1, <2>2, <2>3 DEF Running, Exit
<1>8. CASE Reporting
    BY <1>1, <1>2, <1>8 DEF Reporting, Observe, Compare, Post, OfThePast
<1> QED BY <1>4, <1>5, <1>6, <1>7, <1>8
        DEF Next, Requests, Running, Reporting, Handle, vars

LEMMA LateStays ==
    ASSUME Typed, [Next]_vars, NEW faults, Without(faults)'
    PROVE  Without(faults)
BY FaultsStay DEF Without

(* An update takes a job on, and never opens one that is over.               *)
LEMMA UpdateMoves ==
    ASSUME Typed, OneJob, NEW i \in DOMAIN jobs, NEW status \in Statuses,
           MayBecome(jobs[i].status, status), jobs' = [jobs EXCEPT ![i].status = status]
    PROVE  /\ IndexUnique'
           /\ \A k \in DOMAIN jobs : k # i => jobs'[k] = jobs[k]
           /\ jobs'[i].status = status
           /\ \A k \in DOMAIN jobs : jobs[k].status # "pending" => jobs'[k].status # "pending"
<1>1. /\ \A k \in DOMAIN jobs : k # i => jobs'[k] = jobs[k]
      /\ jobs'[i].status = status /\ DOMAIN jobs' = DOMAIN jobs
    <2>1. jobs \in Seq(Jobs) /\ jobs[i] \in Jobs
        BY DEF Typed, JobsTyped
    <2> QED BY <2>1 DEF Jobs
<1>2. \A k \in DOMAIN jobs : Open(k)' => Open(k)
    BY <1>1 DEF MayBecome, Open, Ended
<1>3. IndexUnique'
    BY <1>1, <1>2 DEF OneJob, IndexUnique
<1> QED BY <1>1, <1>3 DEF MayBecome, Ended

LEMMA OneJobStep == Typed /\ OneJob /\ [Next]_vars => OneJob'
<1> SUFFICES ASSUME Typed, OneJob, [Next]_vars PROVE OneJob'
    OBVIOUS
<1> DEFINE Excused == ~Without({"gave_up", "overtaken"})'
<1>1. Excused \/ Without({"gave_up", "overtaken"})
    BY LateStays
<1>2. /\ \A e \in execs :
            /\ e.job \in DOMAIN jobs /\ jobs[e.job].status # "pending"
            /\ e.pc = "run" => e = [job |-> e.job, pc |-> "run", ok |-> TRUE]
      /\ jobs \in Seq(Jobs)
    <2>1. \A e \in execs : e \in [job : DOMAIN jobs, pc : {"run", "report"}, ok : BOOLEAN]
        BY DEF Typed, RunnerTyped, ExecsOf
    <2> QED BY <2>1 DEF OneJob, OncePerJob, Typed, JobsTyped
<1>3. ASSUME UNCHANGED <<jobs, execs>> PROVE OneJob'
    BY <1>1, <1>3 DEF OneJob, IndexUnique, OncePerJob, NoneGivenUp, Open
<1>4. ASSUME NEW i \in DOMAIN jobs, NEW status \in Statuses,
             MayBecome(jobs[i].status, status), jobs' = [jobs EXCEPT ![i].status = status],
             execs' \subseteq execs,
             status # "in_progress" =>
                Excused \/ [job |-> i, pc |-> "run", ok |-> TRUE] \notin execs'
      PROVE  OneJob'
    <2>1. OncePerJob'
        BY <1>2, <1>4, UpdateMoves DEF OneJob, OncePerJob
    <2>2. ASSUME Without({"gave_up", "overtaken"})', NEW e \in execs', e.pc = "run"
          PROVE  jobs'[e.job].status = "in_progress"
        <3>1. jobs[e.job].status = "in_progress" /\ e.job \in DOMAIN jobs
            BY <1>1, <1>2, <1>4, <2>2 DEF OneJob, NoneGivenUp
        <3>2. CASE e.job = i
            BY <1>2, <1>4, <2>2, <3>2, UpdateMoves
        <3>3. CASE e.job # i
            BY <1>4, <3>1, <3>3, UpdateMoves
        <3> QED BY <3>2, <3>3
    <2> QED BY <1>4, <2>1, <2>2, UpdateMoves DEF OneJob, NoneGivenUp
<1>5. {"in_progress", "failed", "completed"} \subseteq Statuses
    BY DEF Statuses
<1>6. ASSUME NEW w \in Workers, Submit(w) PROVE OneJob'
    <2>1. PICK type \in Wanted(syncs[w].box) :
            ~Incomplete /\ jobs' = Append(jobs, [type |-> type, status |-> "pending"])
        BY <1>6 DEF Submit, Ready, CreateJob
    <2>2. \A i \in DOMAIN jobs : i \in DOMAIN jobs' /\ jobs'[i] = jobs[i] /\ ~Open(i)
        BY <1>2, <2>1 DEF Incomplete, Open
    <2>3. DOMAIN jobs' = DOMAIN jobs \union {Len(jobs) + 1}
        BY <1>2, <2>1
    <2>4. IndexUnique'
        BY <2>2, <2>3 DEF IndexUnique, Open
    <2>5. execs' = execs
        BY <1>6 DEF Submit, runner
    <2> QED BY <1>1, <1>2, <2>2, <2>4, <2>5 DEF OneJob, OncePerJob, NoneGivenUp
<1>7. ASSUME NEW i \in DOMAIN jobs, Stale(i) PROVE OneJob'
    <2>1. [job |-> i, pc |-> "run", ok |-> TRUE] \in execs => Excused
        BY <1>7 DEF Stale, Fault, Without
    <2>2. execs' = execs
        BY <1>7 DEF Stale, runner
    <2> QED BY <1>4, <1>5, <1>7, <2>1, <2>2 DEF Stale, UpdateJob
<1>8. ASSUME NEW i \in DOMAIN jobs, Claim(i) PROVE OneJob'
    <2>1. /\ jobs[i].status = "pending" /\ MayBecome(jobs[i].status, "in_progress")
          /\ jobs' = [jobs EXCEPT ![i].status = "in_progress"]
        BY <1>8 DEF Claim, MayBecome
    <2>2. CASE execs' = execs
        BY <1>4, <1>5, <2>1, <2>2
    <2>3. CASE execs' = execs \union {[job |-> i, pc |-> "run", ok |-> TRUE]}
        <3>1. \A e \in execs : e.job # i
            BY <1>2, <2>1
        <3>2. OncePerJob'
            <4> DEFINE new == [job |-> i, pc |-> "run", ok |-> TRUE]
            <4>1. new.job = i /\ new.ok /\ execs' = execs \union {new}
                BY <2>3
            <4> HIDE DEF new
            <4>2. \A e \in execs' :
                    jobs'[e.job].status # "pending" /\ (e.pc = "run" => e.ok)
                BY <1>2, <1>5, <2>1, <4>1, UpdateMoves DEF OneJob, OncePerJob
            <4>3. \A e, f \in execs' : e.job = f.job => e = f
                BY <3>1, <4>1 DEF OneJob, OncePerJob
            <4> QED BY <4>2, <4>3 DEF OncePerJob
        <3>3. NoneGivenUp'
            BY <1>1, <1>2, <1>5, <2>1, <2>3, <3>1, UpdateMoves DEF OneJob, NoneGivenUp
        <3> QED BY <1>5, <2>1, <3>2, <3>3, UpdateMoves DEF OneJob
    <2> QED BY <1>8, <2>2, <2>3 DEF Claim
<1>9. ASSUME NEW e \in execs, Execute(e) PROVE OneJob'
    <2>1. PICK f : /\ execs' = (execs \ {e}) \union {f}
                   /\ f.job = e.job /\ f.pc = "report"
        <3>1. e \in [job : DOMAIN jobs, pc : {"run", "report"}, ok : BOOLEAN]
            BY DEF Typed, RunnerTyped, ExecsOf
        <3>2. PICK f \in {[e EXCEPT !.pc = "report"], [e EXCEPT !.pc = "report", !.ok = FALSE]} :
                execs' = (execs \ {e}) \union {f}
            BY <1>9 DEF Execute
        <3> QED BY <3>1, <3>2
    <2>2. jobs' = jobs
        BY <1>9 DEF Execute
    <2> QED BY <1>1, <1>2, <2>1, <2>2 DEF OneJob, IndexUnique, OncePerJob, NoneGivenUp, Open
<1>10. ASSUME NEW e \in execs, Report(e) PROVE OneJob'
    <2>1. e.job \in DOMAIN jobs /\ e.pc = "report" /\ execs' \subseteq execs
        BY <1>2, <1>10 DEF Report
    <2>2. [job |-> e.job, pc |-> "run", ok |-> TRUE] \notin execs
        BY <2>1 DEF OneJob, OncePerJob
    <2>3. CASE UNCHANGED <<jobs, handlers>>
        BY <1>1, <1>2, <2>1, <2>3 DEF OneJob, IndexUnique, OncePerJob, NoneGivenUp, Open
    <2>4. CASE UpdateJob(e.job, IF e.ok THEN "completed" ELSE "failed")
        BY <1>4, <1>5, <2>1, <2>2, <2>4 DEF UpdateJob
    <2> QED BY <1>10, <2>3, <2>4 DEF Report
<1>11. ASSUME RestartRunner PROVE OneJob'
    <2>1. jobs' = jobs
        BY <1>11 DEF RestartRunner
    <2>2. \A e \in execs' : \E i \in DOMAIN jobs :
            jobs[i].status = "in_progress" /\ e = [job |-> i, pc |-> "run", ok |-> TRUE]
        BY <1>11 DEF RestartRunner
    <2>3. \A e \in execs' : jobs[e.job].status = "in_progress" /\ e.ok
        BY <2>2
    <2>4. \A e, f \in execs' : e.job = f.job => e = f
        <3>1. \A e \in execs' : e = [job |-> e.job, pc |-> "run", ok |-> TRUE]
            BY <2>2
        <3> QED BY <3>1, Zenon
    <2>5. OncePerJob'
        BY <2>1, <2>3, <2>4 DEF OncePerJob
    <2> QED BY <2>1, <2>3, <2>5 DEF OneJob, IndexUnique, NoneGivenUp, Open
<1>12. ASSUME Post PROVE OneJob'
    <2>1. execs' = execs
        BY <1>12 DEF Post
    <2>2. CASE UNCHANGED jobs
        BY <1>3, <2>1, <2>2
    <2>3. ASSUME NEW i \in DOMAIN jobs, UpdateJob(i, "completed"),
                 OfThePast(IF [job |-> i, pc |-> "run", ok |-> TRUE] \in execs
                           THEN Fault("gave_up") ELSE UNCHANGED calm)
          PROVE  OneJob'
        <3>1. [job |-> i, pc |-> "run", ok |-> TRUE] \in execs => Excused
            BY <2>3 DEF OfThePast, Fault, Without
        <3> QED BY <1>4, <1>5, <2>1, <2>3, <3>1 DEF UpdateJob
    <2> QED BY <1>12, <2>2, <2>3 DEF Post
<1>13. ASSUME NEW w \in Workers, Pass(w) \/ TimeOut(w) \/ Fail(w) PROVE OneJob'
    BY <1>3, <1>6, <1>13
       DEF Pass, Look, Leave, Learn, Check, Save, Unlock, TimeOut, Fail, runner
<1>14. CASE Requests \/ Handle \/ Observe \/ Compare \/ Exit \/ UNCHANGED vars
    BY <1>3, <1>14
       DEF Requests, Start, Stop, Destroy, Request, EventCall, CronCall, Expire, CrashApi,
           Handle, HandleRead, HandleSave, HandleUnlock, Observe, Compare, Exit, runner, vars
<1> QED BY <1>7, <1>8, <1>9, <1>10, <1>11, <1>12, <1>13, <1>14
        DEF Next, Requests

(* The runner never works on a box for two jobs at a time, however often it  *)
(* restarts, loses answers or repeats outcomes, as long as the API does not  *)
(* end a job the runner still works on.                                      *)
THEOREM OneJobAtATime == Spec => []OneAtATime
<1>1. Init => OneJob
    BY DEF Init, OneJob, IndexUnique, OncePerJob, NoneGivenUp
<1> QED BY <1>1, TypedInitially, TypedStep, OneJobStep, OneJobSuffices, PTL DEF Spec

-----------------------------------------------------------------------------
(* Who writes what. *)
LEMMA RowWriters ==
    [Next]_vars => \/ UNCHANGED row
                   \/ Start \/ Stop \/ Destroy \/ Post
                   \/ \E w \in Workers : Save(w) \/ Fail(w)
                   \/ \E h \in handlers : HandleSave(h)
<1>1. CASE EventCall \/ CronCall \/ Expire \/ CrashApi \/ Observe \/ Compare \/ UNCHANGED vars
    BY <1>1 DEF EventCall, CronCall, Expire, CrashApi, Observe, Compare, api, vars
<1>2. CASE Running
    BY <1>2 DEF Running, Stale, Claim, Execute, Report, RestartRunner, Exit, api
<1>3. ASSUME NEW w \in Workers, Pass(w) \/ TimeOut(w) PROVE UNCHANGED row \/ Save(w)
    BY <1>3 DEF Pass, Look, Submit, Leave, Learn, Check, Unlock, TimeOut
<1>4. ASSUME NEW h \in handlers, HandleRead(h) \/ HandleUnlock(h) PROVE UNCHANGED row
    BY <1>4 DEF HandleRead, HandleUnlock
<1> QED BY <1>1, <1>2, <1>3, <1>4 DEF Next, Running, Handle

LEMMA SyncsWriters ==
    [Next]_vars => \/ UNCHANGED syncs
                   \/ (EventCall \/ CronCall) /\ Enter
                   \/ CrashApi
                   \/ \E w \in Workers : Pass(w) \/ TimeOut(w) \/ Fail(w)
<1>1. CASE Requests
    BY <1>1 DEF Requests, Start, Stop, Destroy, Request, EventCall, CronCall, Expire
<1>2. CASE Handle
    BY <1>2 DEF Handle, HandleRead, HandleSave, HandleUnlock
<1>3. CASE Running
    BY <1>3 DEF Running, Stale, Claim, Execute, Report, RestartRunner, Exit, api
<1>4. CASE Reporting
    BY <1>4 DEF Reporting, Observe, Compare, Post, api
<1> QED BY <1>1, <1>2, <1>3, <1>4 DEF Next, Requests, Running, Reporting, vars

LEMMA JobsWriters ==
    [Next]_vars => \/ UNCHANGED jobs
                   \/ \E w \in Workers : Submit(w)
                   \/ \E i \in DOMAIN jobs : Stale(i) \/ Claim(i)
                   \/ \E e \in execs : Report(e)
                   \/ Post
<1>1. CASE Requests
    BY <1>1 DEF Requests, Start, Stop, Destroy, Request, EventCall, CronCall, Expire, CrashApi
<1>2. CASE Handle
    BY <1>2 DEF Handle, HandleRead, HandleSave, HandleUnlock
<1>3. ASSUME NEW w \in Workers, Pass(w) \/ TimeOut(w) \/ Fail(w) PROVE UNCHANGED jobs \/ Submit(w)
    BY <1>3 DEF Pass, Look, Leave, Learn, Check, Save, Unlock, TimeOut, Fail
<1>4. CASE RestartRunner \/ Exit \/ Observe \/ Compare \/ \E e \in execs : Execute(e)
    BY <1>4 DEF RestartRunner, Exit, Observe, Compare, Execute
<1> QED BY <1>1, <1>2, <1>3, <1>4 DEF Next, Requests, vars

LEMMA RunnerWriters ==
    [Next]_vars =>
        /\ \/ UNCHANGED execs
           \/ \E i \in DOMAIN jobs : Claim(i)
           \/ \E e \in execs : Execute(e) \/ Report(e)
           \/ RestartRunner
        /\ UNCHANGED vm \/ (\E e \in execs : Execute(e)) \/ RestartRunner \/ Exit
        /\ UNCHANGED report \/ RestartRunner \/ Observe \/ Compare \/ Post
<1>1. CASE Requests
    BY <1>1 DEF Requests, Start, Stop, Destroy, Request, EventCall, CronCall, Expire, CrashApi,
                runner
<1>2. CASE Handle
    BY <1>2 DEF Handle, HandleRead, HandleSave, HandleUnlock, runner
<1>3. ASSUME NEW w \in Workers, Pass(w) \/ TimeOut(w) \/ Fail(w) PROVE UNCHANGED runner
    BY <1>3 DEF Pass, Look, Submit, Leave, Learn, Check, Save, Unlock, TimeOut, Fail
<1>4. ASSUME NEW i \in DOMAIN jobs, Stale(i) PROVE UNCHANGED runner
    BY <1>4 DEF Stale
<1>5. CASE Exit \/ Reporting \/ (\E i \in DOMAIN jobs : Claim(i)) \/ UNCHANGED vars
    BY <1>5 DEF Exit, Reporting, Observe, Compare, Post, Claim, vars
<1>6. ASSUME NEW e \in execs, Execute(e) \/ Report(e)
      PROVE  UNCHANGED report /\ (Execute(e) \/ UNCHANGED vm)
    BY <1>6 DEF Execute, Report
<1> QED BY <1>1, <1>2, <1>3, <1>4, <1>5, <1>6 DEF Next, Requests, Reporting, runner

(* A pass, step by step: it reads the row, looks for a box to be destroyed,  *)
(* submits, learns or times out, and goes on to the write with the copy and  *)
(* the target it has.                                                        *)
Reads(w) ==
    /\ syncs[w].pc = "idle" /\ lock = NoOne /\ lock' = w
    /\ syncs'[w] = Acting(row, "act", "unknown") /\ row.state # row.desired
    /\ UNCHANGED <<row, jobs, handlers, runner, calm>>
Looks(w) ==
    /\ syncs[w].pc = "act" /\ syncs'[w] = Acting(syncs[w].box, "act", "destroying")
    /\ ~Asked(w) /\ "destroy" \in Wanted(syncs[w].box) /\ Inferred # "destroyed"
    /\ UNCHANGED <<row, lock, jobs, handlers, runner, calm>>
Targets(w) ==
    /\ syncs[w].pc = "act" /\ syncs'[w].pc \in {"check", "save"}
    /\ syncs'[w].box = syncs[w].box
    /\ \/ \E type \in Wanted(syncs[w].box) :
            /\ type = "destroy" => Asked(w)
            /\ ~Incomplete /\ syncs'[w].to = Underway(type)
            /\ jobs' = Append(jobs, [type |-> type, status |-> "pending"])
       \/ syncs'[w].to \in Learned(syncs[w].box) /\ UNCHANGED jobs
       \/ /\ syncs'[w].to = "error" /\ UNCHANGED jobs /\ ComingUp(syncs[w].box)
          /\ "timeout" \in late'
             \/ (~Incomplete /\ Inferred \in {"creating", "starting", "destroyed"})
    /\ UNCHANGED <<row, lock, handlers, runner>>
Checks(w) ==
    /\ syncs[w].pc = "check" /\ syncs'[w] = [syncs[w] EXCEPT !.pc = "save"]
    /\ lock = w /\ syncs[w].box.pending
    /\ UNCHANGED <<row, lock, jobs, handlers, runner, calm>>
Leaves(w) == syncs'[w].pc \in {"unlock", "idle"}

LEMMA PassMoves ==
    ASSUME Typed, [Next]_vars, NEW w \in Workers
    PROVE  \/ UNCHANGED syncs[w]
           \/ Reads(w) \/ Looks(w) \/ Targets(w) \/ Checks(w) \/ Leaves(w)
<1> DEFINE Goal == \/ UNCHANGED syncs[w]
                   \/ Reads(w) \/ Looks(w) \/ Targets(w) \/ Checks(w) \/ Leaves(w)
<1>1. syncs \in [Workers -> [pc : Pcs, box : Rows, to : States]]
    BY DEF Typed, PassesTyped
<1>2. ASSUME Enter, lock = NoOne, UNCHANGED <<row, jobs, handlers, runner, calm>> PROVE Goal
    <2> DEFINE free == CHOOSE v \in Workers : syncs[v].pc = "idle"
    <2>1. free \in Workers /\ syncs[free].pc = "idle"
        BY <1>2 DEF Enter
    <2>2. /\ lock' = free
          /\ \/ syncs' = [syncs EXCEPT ![free] = At("unlock")]
             \/ /\ syncs' = [syncs EXCEPT ![free] = Acting(row, "act", "unknown")]
                /\ row.state # row.desired
        BY <1>2 DEF Enter
    <2> HIDE DEF free
    <2> QED BY <1>1, <1>2, <2>1, <2>2 DEF Reads, Leaves, At
<1>3. ASSUME NEW v \in Workers, v # w, Pass(v) \/ TimeOut(v) \/ Fail(v) PROVE UNCHANGED syncs[w]
    BY <1>1, <1>3 DEF Pass, Look, Submit, Leave, Learn, Check, Save, Unlock, TimeOut, Fail
<1>4. ASSUME Submit(w) \/ Learn(w) \/ TimeOut(w) PROVE Targets(w)
    <2>1. ASSUME NEW pc, NEW to, syncs' = [syncs EXCEPT ![w] = Acting(@.box, pc, to)]
          PROVE  syncs'[w] = [pc |-> pc, box |-> syncs[w].box, to |-> to]
        BY <1>1, <2>1 DEF Acting
    <2>2. CASE Submit(w)
        <3>1. PICK type \in Wanted(syncs[w].box) :
                /\ (type = "destroy" => Asked(w)) /\ CreateJob(type)
                /\ syncs' = [syncs EXCEPT ![w] = Acting(@.box, "check", Underway(type))]
            BY <2>2 DEF Submit, Ready
        <3>2. syncs'[w] = [pc |-> "check", box |-> syncs[w].box, to |-> Underway(type)]
            BY <2>1, <3>1
        <3> QED BY <2>2, <3>1, <3>2 DEF Submit, CreateJob, Targets
    <2>3. CASE Learn(w)
        <3>1. PICK s \in Learned(syncs[w].box) :
                syncs' = [syncs EXCEPT ![w] = Acting(@.box, "check", s)]
            BY <2>3 DEF Learn
        <3>2. syncs'[w] = [pc |-> "check", box |-> syncs[w].box, to |-> s]
            BY <2>1, <3>1
        <3> QED BY <2>3, <3>2 DEF Learn, Targets
    <2>4. CASE TimeOut(w)
        <3>1. syncs'[w] = [pc |-> "save", box |-> syncs[w].box, to |-> "error"]
            BY <2>1, <2>4 DEF TimeOut
        <3>2. "timeout" \in late' \/ ~Incomplete
            BY <2>4 DEF TimeOut, Fault
        <3> QED BY <2>4, <3>1, <3>2 DEF TimeOut, Targets
    <2> QED BY <1>4, <2>2, <2>3, <2>4
<1>5. ASSUME Check(w) PROVE Checks(w) \/ Leaves(w)
    <2>1. CASE lock = w /\ syncs[w].box.pending
        <3>1. syncs'[w] = [pc |-> "save", box |-> syncs[w].box, to |-> syncs[w].to]
            BY <1>1, <1>5, <2>1 DEF Check, Acting
        <3> QED BY <1>1, <1>5, <2>1, <3>1 DEF Check, Checks
    <2>2. CASE ~(lock = w /\ syncs[w].box.pending)
        BY <1>1, <1>5, <2>2 DEF Check, Leaves, At
    <2> QED BY <2>1, <2>2
<1>6. ASSUME Leave(w) \/ Save(w) \/ Unlock(w) \/ Fail(w) PROVE Leaves(w)
    BY <1>1, <1>6 DEF Leave, Save, Unlock, Fail, Leaves, At
<1>7. ASSUME CrashApi PROVE Leaves(w)
    BY <1>7 DEF CrashApi, Leaves, At
<1>9. ASSUME Look(w) PROVE Looks(w)
    BY <1>1, <1>9 DEF Look, Looks
<1>8. ASSUME EventCall /\ Enter PROVE Goal
    BY <1>2, <1>8 DEF EventCall, Enter
<1> QED BY <1>2, <1>3, <1>4, <1>5, <1>6, <1>7, <1>8, <1>9, SyncsWriters DEF CronCall, Pass

=============================================================================
