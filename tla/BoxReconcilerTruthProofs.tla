---------------------- MODULE BoxReconcilerTruthProofs ----------------------
(* Theorems of BoxReconciler that relate the row to the runner: a box that   *)
(* is shown destroyed is gone.                                               *)
EXTENDS BoxReconcilerProofs

(* While no lock is lost there is one pass at a time: the holder's.          *)
Locks == {"unlock", "expiry"}
LockHeld == Without(Locks) => \A w \in Workers : syncs[w].pc # "idle" => lock = w

LEMMA LockHeldStep == Lawful /\ LockHeld /\ [Next]_vars => LockHeld'
<1> SUFFICES ASSUME Lawful, LockHeld, [Next]_vars, Without(Locks)' PROVE LockHeld'
    BY DEF LockHeld
<1> DEFINE Held == \A w \in Workers : syncs[w].pc # "idle" => lock = w
<1>1. Held /\ Typed /\ NoOne \notin Workers
    BY LateStays, NoOneAssumption DEF LockHeld, Lawful
<1>2. syncs \in [Workers -> [pc : Pcs, box : Rows, to : States]]
    BY <1>1 DEF Typed, PassesTyped
<1>3. ASSUME Held' PROVE LockHeld'
    BY <1>3 DEF LockHeld
<1>4. ASSUME UNCHANGED <<lock, syncs>> PROVE Held'
    BY <1>1, <1>4
<1>5. ASSUME Enter, lock = NoOne PROVE Held'
    <2> DEFINE free == CHOOSE v \in Workers : syncs[v].pc = "idle"
    <2>1. free \in Workers /\ lock' = free
        BY <1>5 DEF Enter
    <2>2. \A v \in Workers : v # free => syncs'[v] = syncs[v]
        BY <1>2, <1>5 DEF Enter
    <2> HIDE DEF free
    <2>3. \A v \in Workers : syncs[v].pc = "idle"
        BY <1>1, <1>5
    <2> QED BY <2>1, <2>2, <2>3
<1>6. ASSUME NEW held, Release(held) PROVE lock \in held \union {NoOne} \/ syncs[lock].pc = "idle"
    BY <1>6 DEF Release, Fault, Without, Locks
<1>7. ASSUME NEW w \in Workers, Pass(w) \/ TimeOut(w) \/ Fail(w) PROVE Held'
    <2>1. syncs[w].pc # "idle"
        BY <1>7 DEF Pass, Look, Submit, Leave, Learn, Check, Save, Unlock, TimeOut, Fail
    <2>2. lock = w /\ \A v \in Workers : v # w => syncs[v].pc = "idle"
        BY <1>1, <2>1
    <2>3. \A v \in Workers : v # w => syncs'[v] = syncs[v]
        BY <1>2, <1>7 DEF Pass, Look, Submit, Leave, Learn, Check, Save, Unlock, TimeOut, Fail
    <2>4. CASE Unlock(w)
        <3>1. syncs'[w].pc = "idle"
            BY <1>2, <2>4 DEF Unlock, At
        <3> QED BY <2>2, <2>3, <3>1
    <2>5. CASE UNCHANGED lock
        BY <2>2, <2>3, <2>5
    <2> QED BY <1>7, <2>4, <2>5 DEF Pass, Look, Submit, Leave, Learn, Check, Save, TimeOut, Fail
<1>8. ASSUME NEW h \in handlers, HandleRead(h) \/ HandleSave(h) \/ HandleUnlock(h) PROVE Held'
    <2>1. CASE HandleUnlock(h)
        <3>1. lock = NoOne \/ syncs[lock].pc = "idle"
            BY <1>6, <2>1 DEF HandleUnlock
        <3>2. \A v \in Workers : syncs[v].pc = "idle"
            BY <1>1, <3>1
        <3> QED BY <2>1, <3>2 DEF HandleUnlock
    <2> QED BY <1>4, <1>8, <2>1 DEF HandleRead, HandleSave
<1>9. ASSUME Expire PROVE Held'
    <2>1. syncs[lock].pc = "idle"
        BY <1>9 DEF Expire, Fault, Without, Locks
    <2> QED BY <1>1, <1>9, <2>1 DEF Expire
<1>10. ASSUME CrashApi PROVE Held'
    BY <1>10 DEF CrashApi, At
<1>11. CASE Start \/ Stop \/ Destroy \/ EventCall \/ CronCall
    <2>1. ASSUME Start \/ Stop \/ Destroy PROVE Held'
        BY <1>4, <2>1 DEF Start, Stop, Destroy, Request
    <2>2. ASSUME EventCall \/ CronCall PROVE Held'
        BY <1>4, <1>5, <2>2 DEF EventCall, CronCall
    <2> QED BY <1>3, <1>11, <2>1, <2>2
<1>12. ASSUME Running \/ Reporting PROVE Held'
    <2>1. UNCHANGED <<lock, syncs>>
        BY <1>12 DEF Running, Reporting, Stale, Claim, Execute, Report, RestartRunner, Exit,
                     Observe, Compare, Post, api
    <2> QED BY <1>4, <2>1
<1> QED BY <1>3, <1>4, <1>7, <1>8, <1>9, <1>10, <1>11, <1>12
        DEF Next, Handle, Running, Reporting, vars

-----------------------------------------------------------------------------
(* What becomes of the jobs in a step: one is appended by a pass, or one is  *)
(* taken on, and none is taken back. A job is completed by the execution     *)
(* that went well, or as a start that stalled, by a report.                  *)
CompletedByReport == Post /\ (vm = "running" \/ "overtaken" \in late')

LEMMA JobsMove ==
    ASSUME Typed, [Next]_vars
    PROVE  \A i \in DOMAIN jobs :
            /\ i \in DOMAIN jobs' /\ jobs'[i].type = jobs[i].type
            /\ MayBecome(jobs[i].status, jobs'[i].status)
            /\ jobs'[i].status = "completed" =>
                \/ jobs[i].status = "completed"
                \/ \E e \in execs : e.job = i /\ e.pc = "report" /\ e.ok
                \/ jobs[i].type \in {"create", "start"} /\ CompletedByReport
<1> SUFFICES ASSUME NEW i \in DOMAIN jobs
             PROVE  /\ MayBecome(jobs[i].status, jobs'[i].status)
                    /\ jobs'[i].status = "completed" =>
                        \/ jobs[i].status = "completed"
                        \/ \E e \in execs : e.job = i /\ e.pc = "report" /\ e.ok
                        \/ jobs[i].type \in {"create", "start"} /\ CompletedByReport
    BY TypesStay
<1> DEFINE Goal == /\ MayBecome(jobs[i].status, jobs'[i].status)
                   /\ jobs'[i].status = "completed" =>
                        \/ jobs[i].status = "completed"
                        \/ \E e \in execs : e.job = i /\ e.pc = "report" /\ e.ok
                        \/ jobs[i].type \in {"create", "start"} /\ CompletedByReport
<1>1. jobs \in Seq(Jobs) /\ jobs[i] \in Jobs
    BY DEF Typed, JobsTyped
<1>2. ASSUME jobs'[i] = jobs[i] PROVE Goal
    BY <1>2 DEF MayBecome
<1>3. ASSUME NEW k \in DOMAIN jobs, NEW status,
             MayBecome(jobs[k].status, status), jobs' = [jobs EXCEPT ![k].status = status],
             status = "completed" => \/ \E e \in execs : e.job = k /\ e.pc = "report" /\ e.ok
                                     \/ jobs[k].type \in {"create", "start"} /\ CompletedByReport
      PROVE  Goal
    <2>1. jobs[k] \in Jobs
        BY <1>1
    <2>2. CASE i = k
        BY <1>1, <1>3, <2>1, <2>2 DEF Jobs
    <2>3. CASE i # k
        BY <1>1, <1>2, <1>3, <2>3
    <2> QED BY <2>2, <2>3
<1>4. ASSUME NEW w \in Workers, Submit(w) PROVE Goal
    BY <1>1, <1>2, <1>4 DEF Submit, CreateJob
<1>5. ASSUME NEW k \in DOMAIN jobs, Stale(k) \/ Claim(k) PROVE Goal
    <2>1. CASE Stale(k)
        BY <1>3, <2>1 DEF Stale, UpdateJob
    <2>2. CASE Claim(k)
        BY <1>3, <2>2 DEF Claim, MayBecome
    <2> QED BY <1>5, <2>1, <2>2
<1>6. ASSUME NEW e \in execs, Report(e) PROVE Goal
    <2> DEFINE status == IF e.ok THEN "completed" ELSE "failed"
    <2>1. e.job \in DOMAIN jobs /\ e.pc = "report"
        BY <1>6, ExecsTyped DEF Report, Typed, RunnerTyped
    <2>2. CASE UpdateJob(e.job, status)
        BY <1>3, <2>1, <2>2 DEF UpdateJob
    <2>3. CASE UNCHANGED jobs
        BY <1>2, <2>3
    <2> QED BY <1>6, <2>2, <2>3 DEF Report
<1>7. ASSUME Post PROVE Goal
    <2>1. CASE UNCHANGED jobs
        BY <1>2, <2>1
    <2>2. ASSUME NEW k \in DOMAIN jobs, Stalled(k), UpdateJob(k, "completed"), NEW otherwise,
                 OfThePast(otherwise), report.local = "started"
          PROVE  Goal
        <3>1. CompletedByReport
            BY <1>7, <2>2 DEF CompletedByReport, OfThePast, LocalState, Fault, Typed, RunnerTyped
        <3> QED BY <1>3, <2>2, <3>1 DEF UpdateJob, Stalled
    <2> QED BY <1>7, <2>1, <2>2 DEF Post
<1> QED BY <1>2, <1>4, <1>5, <1>6, <1>7, JobsWriters

(* What a destroy job did is not forgotten, and what says destroyed has it   *)
(* from a destroy job that went well.                                        *)
IsOf(type, i) == i \in DOMAIN jobs /\ jobs[i].type = type
DestroyDone == \E i \in DOMAIN jobs : IsOf("destroy", i) /\ jobs[i].status = "completed"
Writing(w) == syncs[w].pc \in {"check", "save"}
DestroyedIsDone ==
    /\ row.state = "destroyed" => DestroyDone
    /\ \A w \in Workers : Writing(w) /\ syncs[w].to = "destroyed" => DestroyDone

LEMMA DestroyStaysDone ==
    ASSUME Typed, [Next]_vars, DestroyDone
    PROVE  DestroyDone'
<1>1. PICK i \in DOMAIN jobs : IsOf("destroy", i) /\ jobs[i].status = "completed"
    BY DEF DestroyDone
<1> QED BY <1>1, JobsMove DEF DestroyDone, IsOf, MayBecome

LEMMA InStateState ==
    ASSUME NEW r \in Rows, NEW s \in States
    PROVE  InState(r, s).state = s
<1> DEFINE moved == [r EXCEPT !.state = s]
<1>1. moved.state = s /\ moved \in Rows
    BY DEF Rows
<1> DEFINE open == moved.state # moved.desired /\ (moved.state = "error" => moved.desired = "destroyed")
<1>2. InState(r, s) = [moved EXCEPT !.pending = open]
    BY DEF InState, Normal
<1> HIDE DEF moved, open
<1> QED BY <1>1, <1>2 DEF Rows

(* The states a step can give the row: the target of the pass that writes,   *)
(* error, the outcome of a job, or what the runner reports.                  *)
LEMMA RowMoves ==
    ASSUME Typed, [Next]_vars
    PROVE  \/ row'.state = row.state
           \/ row'.state = "error"
           \/ \E w \in Workers : Save(w) /\ Unchanged(syncs[w].box) /\ row'.state = syncs[w].to
           \/ \E h \in handlers : /\ HandleSave(h) /\ Unchanged(h.box)
                                  /\ h.job \in DOMAIN jobs /\ jobs[h.job].status = "completed"
                                  /\ row'.state = Reached(jobs[h.job].type)
           \/ Post /\ report.pc = "post" /\ row'.state = report.local
<1> DEFINE Goal == \/ row'.state = row.state
                   \/ row'.state = "error"
                   \/ \E w \in Workers :
                        Save(w) /\ Unchanged(syncs[w].box) /\ row'.state = syncs[w].to
                   \/ \E h \in handlers :
                        /\ HandleSave(h) /\ Unchanged(h.box)
                        /\ h.job \in DOMAIN jobs /\ jobs[h.job].status = "completed"
                        /\ row'.state = Reached(jobs[h.job].type)
                   \/ Post /\ report.pc = "post" /\ row'.state = report.local
<1>1. row \in Rows /\ "error" \in States
    BY DEF Typed, RowTyped, States
<1>2. ASSUME NEW w \in Workers, Save(w) PROVE Goal
    <2>1. syncs[w].to \in States
        BY DEF Typed, PassesTyped
    <2> QED BY <1>1, <1>2, <2>1, InStateState DEF Save
<1>3. ASSUME NEW w \in Workers, Fail(w) PROVE Goal
    BY <1>1, <1>3, InStateState DEF Fail
<1>4. ASSUME NEW h \in handlers, HandleSave(h) PROVE Goal
    <2>1. h.job \in DOMAIN jobs /\ jobs[h.job] \in Jobs
        BY DEF Typed, HandlersTyped, JobsTyped
    <2>2. Outcome(jobs[h.job]) \in States
        BY <1>1, <2>1, TargetsTyped DEF Outcome, Jobs
    <2>3. CASE Unchanged(h.box)
        <3>1. row'.state = Outcome(jobs[h.job])
            BY <1>1, <1>4, <2>2, <2>3, InStateState DEF HandleSave
        <3> QED BY <1>4, <2>1, <2>3, <3>1 DEF Outcome
    <2> QED BY <1>4, <2>3 DEF HandleSave
<1>5. ASSUME Post PROVE Goal
    <2>1. Followed \in DesiredStates /\ report.local \in States
        BY <1>1 DEF Typed, RunnerTyped, Followed, Rows, DesiredStates, States
    <2>2. [row EXCEPT !.desired = Followed] \in Rows
        BY <1>1, <2>1 DEF Rows
    <2> QED BY <1>5, <2>1, <2>2, InStateState DEF Post
<1>6. ASSUME Start \/ Stop \/ Destroy PROVE row'.state = row.state
    BY <1>1, <1>6 DEF Start, Stop, Destroy, Request, Rows
<1> QED BY <1>2, <1>3, <1>4, <1>5, <1>6, RowWriters

LEMMA DestroyedStep == Typed /\ DestroyedIsDone /\ [Next]_vars => DestroyedIsDone'
<1> SUFFICES ASSUME Typed, DestroyedIsDone, [Next]_vars PROVE DestroyedIsDone'
    OBVIOUS
<1>1. ASSUME row'.state = "destroyed" PROVE DestroyDone'
    <2>1. CASE DestroyDone
        BY <2>1, DestroyStaysDone
    <2>2. ASSUME NEW h \in handlers, h.job \in DOMAIN jobs, jobs[h.job].status = "completed",
                 Reached(jobs[h.job].type) = "destroyed"
          PROVE  DestroyDone
        <3>1. jobs[h.job] \in Jobs
            BY <2>2 DEF Typed, JobsTyped
        <3>2. jobs[h.job].type = "destroy"
            BY <2>2, <3>1 DEF Reached, Jobs, JobTypes
        <3> QED BY <2>2, <3>2 DEF DestroyDone, IsOf
    <2>3. ASSUME NEW w \in Workers, Save(w), syncs[w].to = "destroyed" PROVE DestroyDone
        BY <2>3 DEF Save, DestroyedIsDone, Writing
    <2>4. report.local # "destroyed"
        BY DEF Typed, RunnerTyped
    <2> QED BY <1>1, <2>1, <2>2, <2>3, <2>4, RowMoves DEF DestroyedIsDone
<1>2. ASSUME NEW w \in Workers, Writing(w)', syncs'[w].to = "destroyed" PROVE DestroyDone'
    <2>1. syncs[w] \in [pc : Pcs, box : Rows, to : States]
        BY DEF Typed, PassesTyped
    <2>2. CASE UNCHANGED syncs[w] \/ Checks(w)
        <3>1. DestroyDone
            BY <1>2, <2>1, <2>2 DEF Checks, DestroyedIsDone, Writing
        <3> QED BY <3>1, DestroyStaysDone
    <2>3. CASE Targets(w)
        <3>1. ASSUME NEW type \in Wanted(syncs[w].box) PROVE Underway(type) # "destroyed"
            BY <3>1 DEF Wanted, Underway
        <3>2. Inferred = "destroyed"
            BY <1>2, <2>3, <3>1 DEF Targets, Learned
        <3>3. CASE jobs = <<>>
            <4>1. row.state = "destroyed"
                BY <3>2, <3>3 DEF Inferred
            <4> QED BY <4>1, DestroyStaysDone DEF DestroyedIsDone
        <3>4. CASE jobs # <<>>
            <4> DEFINE last == Len(jobs)
            <4>1. last \in DOMAIN jobs /\ jobs[last] \in Jobs
                BY <3>4 DEF Typed, JobsTyped
            <4>2. jobs[last].status = "completed" /\ jobs[last].type = "destroy"
                BY <3>2, <3>4, <4>1 DEF Inferred, Underway, Reached, Jobs, JobTypes
            <4>3. DestroyDone
                BY <4>1, <4>2 DEF DestroyDone, IsOf
            <4> QED BY <4>3, DestroyStaysDone
        <3> QED BY <3>3, <3>4
    <2>4. ~Reads(w) /\ ~Looks(w) /\ ~Leaves(w)
        BY <1>2 DEF Reads, Looks, Leaves, Writing, Acting
    <2> QED BY <2>2, <2>3, <2>4, PassMoves
<1> QED BY <1>1, <1>2 DEF DestroyedIsDone
-----------------------------------------------------------------------------
(* A box that was given to a runner is never again one nobody knows of.      *)
KnownForGood ==
    /\ row.state = "unknown" =>
        \A w \in Workers : syncs[w].pc = "act" => syncs[w].box.state = "unknown"
    /\ \A w \in Workers : Writing(w) => syncs[w].to # "unknown"
    /\ report.pc # "idle" => report.local # "unknown"

LEMMA KnownStep == Typed /\ KnownForGood /\ [Next]_vars => KnownForGood'
<1> SUFFICES ASSUME Typed, KnownForGood, [Next]_vars PROVE KnownForGood'
    OBVIOUS
<1>1. \A w \in Workers : syncs[w] \in [pc : Pcs, box : Rows, to : States]
    BY DEF Typed, PassesTyped
<1>2. ASSUME row'.state = "unknown" PROVE row.state = "unknown"
    <2>1. ASSUME NEW w \in Workers, Save(w) PROVE syncs[w].to # "unknown"
        BY <2>1 DEF Save, KnownForGood, Writing
    <2>2. ASSUME NEW type \in JobTypes PROVE Reached(type) # "unknown"
        BY <2>2 DEF Reached, JobTypes
    <2>3. ASSUME NEW i \in DOMAIN jobs PROVE jobs[i].type \in JobTypes
        <3>1. jobs[i] \in Jobs
            BY DEF Typed, JobsTyped
        <3> QED BY <3>1 DEF Jobs
    <2> QED BY <1>2, <2>1, <2>2, <2>3, RowMoves DEF KnownForGood
<1>3. ASSUME row'.state = "unknown", NEW w \in Workers, syncs'[w].pc = "act"
      PROVE  syncs'[w].box.state = "unknown"
    <2>1. ~Targets(w) /\ ~Checks(w) /\ ~Leaves(w)
        BY <1>1, <1>3 DEF Targets, Checks, Leaves
    <2>2. CASE Looks(w)
        <3>1. syncs[w].pc = "act" /\ syncs'[w].box = syncs[w].box
            BY <2>2 DEF Looks, Acting
        <3> QED BY <1>2, <1>3, <3>1 DEF KnownForGood
    <2> QED BY <1>2, <1>3, <2>1, <2>2, PassMoves DEF Reads, Acting, KnownForGood
<1>4. ASSUME NEW w \in Workers, Writing(w)' PROVE syncs'[w].to # "unknown"
    <2>1. CASE UNCHANGED syncs[w] \/ Checks(w)
        BY <1>1, <1>4, <2>1 DEF Checks, KnownForGood, Writing
    <2>2. CASE Targets(w)
        <3>1. ASSUME NEW type \in Wanted(syncs[w].box) PROVE Underway(type) # "unknown"
            BY <3>1 DEF Wanted, Underway
        <3>2. ASSUME "unknown" \in Learned(syncs[w].box) PROVE FALSE
            <4>1. Inferred = "unknown" /\ syncs[w].box.state \in {"creating", "starting"}
                BY <3>2 DEF Learned, ComingUp
            <4>2. jobs # <<>>
                BY <2>2, <4>1 DEF Inferred, KnownForGood, Targets
            <4>3. jobs[Len(jobs)] \in Jobs
                BY <4>2 DEF Typed, JobsTyped
            <4> QED BY <4>1, <4>2, <4>3 DEF Inferred, Reached, Underway, Jobs, JobTypes
        <3> QED BY <2>2, <3>1, <3>2 DEF Targets
    <2>3. ~Reads(w) /\ ~Looks(w) /\ ~Leaves(w)
        BY <1>4 DEF Reads, Looks, Leaves, Writing, Acting
    <2> QED BY <2>1, <2>2, <2>3, PassMoves
<1>5. report'.pc # "idle" => report'.local # "unknown"
    <2>1. CASE UNCHANGED report
        BY <2>1 DEF KnownForGood
    <2>2. CASE Observe
        BY <2>2 DEF Observe, LocalState, Typed, RunnerTyped
    <2>3. CASE Compare
        BY <2>3 DEF Compare, NoReport, KnownForGood, Typed, RunnerTyped
    <2>4. CASE RestartRunner \/ Post
        BY <2>4 DEF RestartRunner, Post, NoReport
    <2> QED BY <2>1, <2>2, <2>3, <2>4, RunnerWriters
<1> QED BY <1>3, <1>4, <1>5 DEF KnownForGood

-----------------------------------------------------------------------------
(* There is one create job: whoever may submit it knows of no job, and a row *)
(* without a state is about to get one from the pass that submitted it.      *)
Fresh == \A i \in DOMAIN jobs : ~IsOf("create", i)
CreatedOnce ==
    /\ \A i, j \in DOMAIN jobs : IsOf("create", i) /\ IsOf("create", j) => i = j
    /\ \A w \in Workers : syncs[w].pc = "act" /\ syncs[w].box.state = "unknown" =>
        jobs = <<>> /\ row = NewRow /\ syncs[w].box = NewRow
    /\ row.state = "unknown" =>
        jobs = <<>> \/ \E w \in Workers : Writing(w) /\ syncs[w].box = row

(* The API may die, but not between the job that creates the box and the row.*)
Settling == Without({"runner", "unlock", "expiry"})
Survived == CrashApi => row.state # "unknown"

(* A row without a state waits for the box to be created.                    *)
LEMMA UnknownIsNew ==
    ASSUME NEW r \in Rows, Sound(r), r.state = "unknown"
    PROVE  r = NewRow
<1>1. r.desired = "started"
    BY DEF ValidStates, Rows, DesiredStates, Sound
<1> DEFINE open == r.state # r.desired /\ (r.state = "error" => r.desired = "destroyed")
<1>2. open = TRUE
    BY <1>1
<1>3. r = [r EXCEPT !.pending = open]
    BY DEF Sound, Normal
<1> HIDE DEF open
<1>4. r.pending
    BY <1>2, <1>3 DEF Rows
<1> QED BY <1>1, <1>4 DEF Rows, NewRow

(* Where there is a new job, a pass submitted it.                            *)
LEMMA NewJobs ==
    ASSUME Typed, [Next]_vars, NEW i \in DOMAIN jobs', i \notin DOMAIN jobs
    PROVE  \E w \in Workers : \E type \in Wanted(syncs[w].box) :
            /\ syncs[w].pc = "act" /\ ~Incomplete
            /\ jobs' = Append(jobs, [type |-> type, status |-> "pending"])
            /\ i = Len(jobs) + 1 /\ jobs'[i] = [type |-> type, status |-> "pending"]
            /\ syncs' = [syncs EXCEPT ![w] = Acting(@.box, "check", Underway(type))]
<1>1. jobs \in Seq(Jobs)
    BY DEF Typed, JobsTyped
<1>2. ASSUME NEW k \in DOMAIN jobs, NEW status, jobs' = [jobs EXCEPT ![k].status = status]
      PROVE  FALSE
    BY <1>1, <1>2
<1>3. ~UNCHANGED jobs
    OBVIOUS
<1>4. PICK w \in Workers : Submit(w)
    <2>1. ASSUME NEW k \in DOMAIN jobs, Stale(k) \/ Claim(k) PROVE FALSE
        BY <1>2, <2>1 DEF Stale, Claim, UpdateJob
    <2>2. ASSUME NEW e \in execs, Report(e) PROVE FALSE
        <3>1. e.job \in DOMAIN jobs
            BY ExecsTyped DEF Typed, RunnerTyped
        <3> QED BY <1>2, <1>3, <2>2, <3>1 DEF Report, UpdateJob
    <2>3. ~Post
        BY <1>2, <1>3 DEF Post, UpdateJob
    <2> QED BY <1>3, <2>1, <2>2, <2>3, JobsWriters
<1>5. PICK type \in Wanted(syncs[w].box) :
        /\ ~Incomplete
        /\ jobs' = Append(jobs, [type |-> type, status |-> "pending"])
        /\ syncs' = [syncs EXCEPT ![w] = Acting(@.box, "check", Underway(type))]
    BY <1>4 DEF Submit, Ready, CreateJob
<1>6. i = Len(jobs) + 1 /\ jobs'[i] = [type |-> type, status |-> "pending"]
    BY <1>1, <1>5
<1> QED BY <1>4, <1>5, <1>6 DEF Submit

(* A pass that has submitted a job for the row as it is, and holds the lock, *)
(* goes on to write it unless the row changes or the API dies.               *)
LEMMA WriterStays ==
    ASSUME Typed, [Next]_vars, NEW w \in Workers, Writing(w), syncs[w].box = row,
           row.pending, row.state # "error", row' = row, ~CrashApi,
           syncs[w].to # row.state,
           lock = w, \A v \in Workers : syncs[v].pc # "idle" => lock = v
    PROVE  Writing(w)' /\ syncs'[w].box = row' /\ syncs'[w].to = syncs[w].to
<1>1. /\ \A v \in Workers : syncs[v] \in [pc : Pcs, box : Rows, to : States]
      /\ syncs \in [Workers -> [pc : Pcs, box : Rows, to : States]]
      /\ row \in Rows
    BY DEF Typed, PassesTyped, RowTyped
<1>2. CASE UNCHANGED syncs[w] \/ Checks(w)
    BY <1>1, <1>2 DEF Checks, Writing
<1>3. ~Reads(w) /\ ~Looks(w) /\ ~Targets(w)
    BY DEF Reads, Looks, Targets, Writing
<1>4. ASSUME Leaves(w) PROVE FALSE
    <2>1. ~CrashApi
        OBVIOUS
    <2>2. (~EventCall /\ ~CronCall) \/ UNCHANGED syncs
        BY NoOneAssumption DEF EventCall, CronCall
    <2>3. ~UNCHANGED syncs
        BY <1>4 DEF Leaves, Writing
    <2>4. PICK v \in Workers : Pass(v) \/ TimeOut(v) \/ Fail(v)
        BY <2>1, <2>2, <2>3, SyncsWriters
    <2>5. v = w
        BY <1>1, <2>4 DEF Pass, Look, Submit, Leave, Learn, Check, Save, Unlock, TimeOut, Fail
    <2>6. ~Check(w)
        BY <1>1, <1>4 DEF Check, Acting, Leaves
    <2>7. ~Save(w)
        BY <1>1, InStateState DEF Save, Unchanged
    <2>8. ~Fail(w)
        BY <1>1, InStateState DEF Fail, States
    <2> QED BY <2>4, <2>5, <2>6, <2>7, <2>8
            DEF Pass, Look, Submit, Leave, Learn, Unlock, TimeOut, Writing
<1> QED BY <1>2, <1>3, <1>4, PassMoves

LEMMA CreatedOnceStep ==
    ASSUME Lawful, LockHeld, KnownForGood, CreatedOnce, [Next]_vars, Settling', Survived
    PROVE  CreatedOnce'
<1>0. row \in Rows /\ Sound(row)
    BY DEF Lawful, Typed, RowTyped
<1>1. Typed /\ Settling /\ jobs \in Seq(Jobs)
    BY LateStays DEF Lawful, Settling, Typed, JobsTyped
<1>2. /\ \A w \in Workers : syncs[w].pc # "idle" => lock = w
      /\ \A w \in Workers : syncs[w] \in [pc : Pcs, box : Rows, to : States]
      /\ syncs \in [Workers -> [pc : Pcs, box : Rows, to : States]]
    BY <1>1 DEF LockHeld, Settling, Without, Locks, Typed, PassesTyped
<1>3. \A i \in DOMAIN jobs : i \in DOMAIN jobs' /\ (IsOf("create", i) <=> IsOf("create", i)')
    BY <1>1, TypesStay DEF IsOf
<1>4. ASSUME NEW i \in DOMAIN jobs', i \notin DOMAIN jobs
      PROVE  \E w \in Workers :
                /\ syncs[w].pc = "act" /\ Writing(w)' /\ syncs'[w].box = syncs[w].box
                /\ \A v \in Workers : v # w => syncs'[v].pc = "idle"
                /\ IsOf("create", i)' => syncs[w].box.state = "unknown"
                /\ \A j \in DOMAIN jobs' : j \notin DOMAIN jobs => j = i
    <2>1. PICK w \in Workers : \E type \in Wanted(syncs[w].box) :
            /\ syncs[w].pc = "act"
            /\ jobs' = Append(jobs, [type |-> type, status |-> "pending"])
            /\ i = Len(jobs) + 1 /\ jobs'[i] = [type |-> type, status |-> "pending"]
            /\ syncs' = [syncs EXCEPT ![w] = Acting(@.box, "check", Underway(type))]
        BY <1>1, <1>4, NewJobs
    <2>2. IsOf("create", i)' => syncs[w].box.state = "unknown"
        BY <1>4, <2>1 DEF IsOf, Wanted
    <2>3. DOMAIN jobs' = DOMAIN jobs \union {i}
        BY <1>1, <2>1
    <2>4. syncs'[w] = [pc |-> "check", box |-> syncs[w].box, to |-> syncs'[w].to]
        BY <1>2, <2>1 DEF Acting
    <2>5. \A v \in Workers : v # w => syncs'[v].pc = "idle"
        BY <1>2, <2>1
    <2> QED BY <2>1, <2>2, <2>3, <2>4, <2>5 DEF Writing
<1>5. ASSUME NEW i \in DOMAIN jobs', i \notin DOMAIN jobs, IsOf("create", i)'
      PROVE  jobs = <<>> /\ \A j \in DOMAIN jobs' : j = i
    <2>1. jobs = <<>>
        BY <1>4, <1>5 DEF CreatedOnce
    <2> QED BY <1>4, <1>5, <2>1
<1>6. \A i, j \in DOMAIN jobs' : IsOf("create", i)' /\ IsOf("create", j)' => i = j
    BY <1>3, <1>5 DEF CreatedOnce
<1>7. ASSUME jobs = <<>>, jobs' # <<>> PROVE \E i \in DOMAIN jobs' : i \notin DOMAIN jobs
    <2>1. jobs' \in Seq(Jobs)
        BY <1>1, TypedStep DEF Typed, JobsTyped
    <2> QED BY <1>7, <2>1
<1>8. ASSUME NEW w \in Workers, syncs'[w].pc = "act", syncs'[w].box.state = "unknown"
      PROVE  jobs' = <<>> /\ row' = NewRow /\ syncs'[w].box = NewRow
    <2>1. ~Targets(w) /\ ~Checks(w) /\ ~Leaves(w)
        BY <1>2, <1>8 DEF Targets, Checks, Leaves
    <2>2. CASE Reads(w)
        <3>1. row = NewRow /\ syncs'[w].box = row /\ row' = row /\ jobs' = jobs
            BY <1>0, <1>8, <2>2, UnknownIsNew DEF Reads, Acting
        <3>2. \A v \in Workers : syncs[v].pc = "idle"
            BY <1>2, <2>2, NoOneAssumption DEF Reads
        <3>3. jobs = <<>>
            BY <3>1, <3>2 DEF CreatedOnce, NewRow, Writing
        <3> QED BY <3>1, <3>3
    <2>3. CASE UNCHANGED syncs[w]
        <3>1. jobs = <<>> /\ row = NewRow /\ syncs[w].box = NewRow
            BY <1>8, <2>3 DEF CreatedOnce
        <3>2. jobs' = <<>>
            BY <1>2, <1>4, <1>7, <1>8, <2>3, <3>1 DEF Writing
        <3>3. ~Start /\ ~Stop /\ ~Destroy
            BY <3>1 DEF Start, Stop, Destroy, Settled, NewRow
        <3>4. Post => UNCHANGED row
            BY <3>1 DEF Post, NewRow
        <3>5. ASSUME NEW v \in Workers, Save(v) \/ Fail(v) PROVE FALSE
            <4>1. v = w
                BY <1>2, <1>8, <2>3, <3>5 DEF Save, Fail
            <4> QED BY <1>2, <1>8, <2>3, <3>5, <4>1 DEF Save, Fail, At
        <3>6. handlers = {}
            <4>1. \A h \in handlers : h.job \in DOMAIN jobs
                BY <1>1 DEF Typed, HandlersTyped
            <4> QED BY <3>1, <4>1
        <3> QED BY <2>3, <3>1, <3>2, <3>3, <3>4, <3>5, <3>6, RowWriters
    <2>4. ~Looks(w)
        BY <1>8 DEF Looks, Acting, Wanted, CreatedOnce, NewRow
    <2> QED BY <1>1, <2>1, <2>2, <2>3, <2>4, PassMoves
<1>9. ASSUME row'.state = "unknown"
      PROVE  jobs' = <<>> \/ \E w \in Workers : Writing(w)' /\ syncs'[w].box = row'
    <2>1. row.state = "unknown" /\ row' = row
        <3>1. row.state = "unknown"
            <4>1. ASSUME NEW w \in Workers, Save(w) PROVE syncs[w].to # "unknown"
                BY <4>1 DEF Save, KnownForGood, Writing
            <4>2. ASSUME NEW i \in DOMAIN jobs PROVE Reached(jobs[i].type) # "unknown"
                <5>1. jobs[i] \in Jobs
                    BY <1>1
                <5> QED BY <5>1 DEF Jobs, JobTypes, Reached
            <4> QED BY <1>1, <1>9, <4>1, <4>2, RowMoves DEF KnownForGood
        <3>2. Sound(row') /\ row' \in Rows
            BY TypedStep, RowSound DEF Lawful, Typed, RowTyped
        <3>3. row = NewRow
            BY <1>0, <3>1, UnknownIsNew
        <3>4. row' = NewRow
            BY <1>9, <3>2, UnknownIsNew
        <3> QED BY <3>1, <3>3, <3>4
    <2>2. CASE jobs = <<>>
        <3>1. ASSUME NEW i \in DOMAIN jobs', i \notin DOMAIN jobs
              PROVE  \E w \in Workers : Writing(w)' /\ syncs'[w].box = row'
            BY <1>4, <2>1, <3>1 DEF KnownForGood, CreatedOnce
        <3> QED BY <1>7, <2>2, <3>1
    <2>3. ASSUME NEW w \in Workers, Writing(w), syncs[w].box = row
          PROVE  Writing(w)' /\ syncs'[w].box = row'
        <3>1. lock = w /\ syncs[w].box.pending
            BY <1>0, <1>2, <2>1, <2>3, UnknownIsNew DEF Writing, NewRow
        <3>2. syncs[w].to # "unknown" /\ syncs[w].to # row.state
            BY <2>1, <2>3 DEF KnownForGood
        <3>3. ~CrashApi
            BY <2>1 DEF Survived
        <3> QED BY <1>1, <1>2, <2>1, <2>3, <3>1, <3>2, <3>3, WriterStays
    <2> QED BY <2>1, <2>2, <2>3 DEF CreatedOnce
<1> QED BY <1>6, <1>8, <1>9 DEF CreatedOnce

-----------------------------------------------------------------------------
(* Only creating makes a box, so where one is, and where one has been        *)
(* destroyed, creating is over and none will be.                             *)
CreateOver ==
    /\ ~Fresh
    /\ \A i \in DOMAIN jobs : IsOf("create", i) => jobs[i].status # "pending"
    /\ \A e \in execs : IsOf("create", e.job) => e.pc # "run"
DestroyRan == \E e \in execs : IsOf("destroy", e.job) /\ e.pc = "report" /\ e.ok
Removed == DestroyDone \/ DestroyRan
MadeOnce ==
    /\ CreatedOnce
    /\ vm # "absent" => CreateOver
    /\ Removed => vm = "absent" /\ CreateOver
Undisturbed == Without({"runner", "api", "unlock", "expiry"})
LeftBehind == Undisturbed => MadeOnce

(* What becomes of the executions: one starts for a job that was pending,    *)
(* one goes on to report, or a restart repeats what is under way.            *)
LEMMA ExecsMove ==
    ASSUME Typed, [Next]_vars, NEW e \in execs', e \notin execs
    PROVE  \/ RestartRunner
           \/ e.pc = "run" /\ e.job \in DOMAIN jobs /\ jobs[e.job].status = "pending"
           \/ /\ e.pc = "report"
              /\ \E f \in execs :
                    /\ Execute(f) /\ e.job = f.job
                    /\ e.ok => vm' \in Success(jobs[f.job].type)
<1>1. ASSUME NEW i \in DOMAIN jobs, Claim(i)
      PROVE  e.pc = "run" /\ e.job \in DOMAIN jobs /\ jobs[e.job].status = "pending"
    <2>1. e = [job |-> i, pc |-> "run", ok |-> TRUE]
        BY <1>1 DEF Claim
    <2> QED BY <1>1, <2>1 DEF Claim
<1>2. ASSUME NEW f \in execs, Execute(f)
      PROVE  e.pc = "report" /\ e.job = f.job /\ (e.ok => vm' \in Success(jobs[f.job].type))
    <2>1. f \in [job : DOMAIN jobs, pc : {"run", "report"}, ok : BOOLEAN]
        BY DEF Typed, RunnerTyped, ExecsOf
    <2>2. \/ e = [f EXCEPT !.pc = "report"] /\ vm' \in Success(jobs[f.job].type)
          \/ e = [f EXCEPT !.pc = "report", !.ok = FALSE]
        BY <1>2 DEF Execute
    <2> QED BY <2>1, <2>2
<1>3. ASSUME NEW f \in execs, Report(f) PROVE FALSE
    BY <1>3 DEF Report
<1> QED BY <1>1, <1>2, <1>3, RunnerWriters

LEMMA MadeOnceStep ==
    ASSUME Lawful, OneJob, LockHeld, KnownForGood, MadeOnce, [Next]_vars, Settling', Survived
    PROVE  MadeOnce'
<1>1. /\ Typed /\ CreatedOnce
      /\ vm # "absent" => CreateOver
      /\ Removed => vm = "absent" /\ CreateOver
    BY DEF Lawful, MadeOnce
<1>2. CreatedOnce' /\ ~RestartRunner
    BY <1>1, CreatedOnceStep DEF RestartRunner, Fault, Settling, Without
<1>3. \A i \in DOMAIN jobs, type \in JobTypes :
        i \in DOMAIN jobs' /\ (IsOf(type, i) <=> IsOf(type, i)')
    BY <1>1, TypesStay DEF IsOf
<1>4. /\ \A e \in execs : e.job \in DOMAIN jobs
      /\ "create" \in JobTypes /\ "destroy" \in JobTypes
    BY <1>1, ExecsTyped DEF Typed, RunnerTyped, JobTypes
<1>5. ASSUME CreateOver PROVE CreateOver'
    <2>1. PICK j \in DOMAIN jobs : IsOf("create", j)
        BY <1>5 DEF CreateOver, Fresh
    <2>2. ~Fresh'
        BY <1>3, <1>4, <2>1 DEF Fresh
    <2>3. ASSUME NEW i \in DOMAIN jobs', IsOf("create", i)' PROVE jobs'[i].status # "pending"
        <3>1. i = j
            BY <1>2, <1>3, <1>4, <2>1, <2>3 DEF CreatedOnce
        <3> QED BY <1>1, <1>5, <2>1, <3>1, JobsMove DEF CreateOver, MayBecome, Ended
    <2>4. ASSUME NEW e \in execs', IsOf("create", e.job)' PROVE e.pc # "run"
        <3>1. CASE e \in execs
            BY <1>3, <1>4, <1>5, <2>4, <3>1 DEF CreateOver
        <3>2. CASE e \notin execs
            BY <1>1, <1>2, <1>3, <1>4, <1>5, <2>4, <3>2, ExecsMove DEF CreateOver
        <3> QED BY <3>1, <3>2
    <2> QED BY <2>2, <2>3, <2>4 DEF CreateOver
<1>6. ASSUME vm = "absent", vm' # "absent" PROVE CreateOver' /\ ~Removed
    <2>1. PICK e \in execs : Execute(e)
        BY <1>2, <1>6, RunnerWriters DEF Exit
    <2>2. e.pc = "run" /\ jobs' = jobs /\ jobs[e.job] \in Jobs /\ jobs[e.job].status # "pending"
        BY <1>1, <1>4, <2>1 DEF Execute, OneJob, OncePerJob, Typed, JobsTyped
    <2>3. IsOf("create", e.job)
        BY <1>4, <1>6, <2>1, <2>2 DEF Execute, Success, Failure, Jobs, JobTypes, IsOf
    <2>4. ASSUME NEW f \in execs', IsOf("create", f.job)', f.pc = "run" PROVE FALSE
        <3>1. f \in execs
            BY <1>1, <1>2, <2>4, ExecsMove, <2>1, <2>2, <2>3 DEF Execute, CreatedOnce, IsOf
        <3>2. f = e
            BY <1>1, <1>4, <2>2, <2>3, <2>4, <3>1 DEF CreatedOnce, IsOf, OneJob, OncePerJob
        <3>3. e \in [job : DOMAIN jobs, pc : {"run", "report"}, ok : BOOLEAN]
            BY <1>1 DEF Typed, RunnerTyped, ExecsOf
        <3> QED BY <2>1, <2>2, <3>2, <3>3 DEF Execute
    <2>5. CreateOver'
        BY <1>1, <1>4, <2>2, <2>3, <2>4 DEF CreateOver, Fresh, CreatedOnce, IsOf
    <2> QED BY <1>1, <2>2, <2>3, <2>5 DEF CreateOver
<1>7. ASSUME Removed' PROVE vm' = "absent" /\ CreateOver'
    <2>1. CASE Removed
        BY <1>1, <1>5, <1>6, <2>1
    <2>2. ASSUME ~Removed, DestroyDone' PROVE FALSE
        <3>1. PICK i \in DOMAIN jobs' : IsOf("destroy", i)' /\ jobs'[i].status = "completed"
            BY <2>2 DEF DestroyDone
        <3>2. i \in DOMAIN jobs
            <4>1. ASSUME i \notin DOMAIN jobs PROVE jobs'[i].status = "pending"
                <5>1. PICK type : jobs'[i] = [type |-> type, status |-> "pending"]
                    BY <1>1, <3>1, <4>1, NewJobs
                <5> QED BY <5>1
            <4> QED BY <3>1, <4>1
        <3>3. IsOf("destroy", i) /\ jobs[i].status # "completed"
            BY <1>3, <1>4, <2>2, <3>1, <3>2 DEF Removed, DestroyDone
        <3> QED BY <1>1, <2>2, <3>1, <3>2, <3>3, JobsMove DEF Removed, DestroyRan, IsOf
    <2>3. ASSUME ~Removed, DestroyRan' PROVE vm # "absent" /\ vm' = "absent"
        <3>1. PICK e \in execs' : IsOf("destroy", e.job)' /\ e.pc = "report" /\ e.ok
            BY <2>3 DEF DestroyRan
        <3>2. e \notin execs
            BY <1>3, <1>4, <2>3, <3>1 DEF Removed, DestroyRan
        <3>3. PICK f \in execs : /\ Execute(f) /\ e.job = f.job
                                 /\ vm' \in Success(jobs[f.job].type)
            BY <1>1, <1>2, <3>1, <3>2, ExecsMove
        <3>4. jobs[f.job].type = "destroy"
            BY <1>3, <1>4, <3>1, <3>3 DEF IsOf
        <3> QED BY <3>3, <3>4 DEF Success
    <2> QED BY <1>1, <1>5, <1>7, <2>1, <2>2, <2>3 DEF Removed
<1> QED BY <1>1, <1>2, <1>5, <1>6, <1>7 DEF MadeOnce

LEMMA LeftBehindStep ==
    Lawful /\ OneJob /\ LockHeld /\ KnownForGood /\ LeftBehind /\ [Next]_vars => LeftBehind'
<1> SUFFICES ASSUME Lawful, OneJob, LockHeld, KnownForGood, LeftBehind, [Next]_vars,
                    Undisturbed'
             PROVE  MadeOnce'
    BY DEF LeftBehind
<1>1. Settling' /\ ~CrashApi
    BY DEF Undisturbed, Settling, Without, CrashApi, Fault
<1>2. Undisturbed
    BY LateStays DEF Lawful, Undisturbed
<1> QED BY <1>1, <1>2, MadeOnceStep DEF LeftBehind, Survived

(* A box that is shown destroyed is gone from the runner, whatever goes      *)
(* wrong but a restart of the runner or the API and a lost lock: there is    *)
(* one create job, it is over before there is anything to destroy, and the   *)
(* row says destroyed only for a destroy job that went well.                 *)
THEOREM DestroyedIsGone == Spec => []NothingLeftBehind
<1> DEFINE IInv == Lawful /\ OneJob /\ LockHeld /\ KnownForGood /\ DestroyedIsDone /\ LeftBehind
<1>1. Init => IInv
    <2> SUFFICES ASSUME Init PROVE IInv
        OBVIOUS
    <2>1. Lawful
        BY LawfulInitially
    <2>2. OneJob
        BY DEF Init, OneJob, IndexUnique, OncePerJob, NoneGivenUp
    <2>3. LockHeld /\ KnownForGood /\ DestroyedIsDone
        BY DEF Init, LockHeld, KnownForGood, DestroyedIsDone, At, Writing, NewRow, NoReport
    <2>4. LeftBehind
        BY DEF Init, LeftBehind, MadeOnce, CreatedOnce, Fresh, Removed, DestroyDone, DestroyRan, At
    <2> QED BY <2>1, <2>2, <2>3, <2>4
<1>2. IInv /\ [Next]_vars => IInv'
    <2>1. Lawful /\ [Next]_vars => Lawful'
        BY TypedStep, RowSound, TargetsStep, HandlersStep, OthersStep DEF Lawful, Sound
    <2> QED BY <2>1, OneJobStep, LockHeldStep, KnownStep, DestroyedStep, LeftBehindStep
            DEF Lawful
<1>3. IInv => NothingLeftBehind
    BY DEF LeftBehind, MadeOnce, Undisturbed, DestroyedIsDone, Removed, NothingLeftBehind
<1> QED BY <1>1, <1>2, <1>3, PTL DEF Spec
=============================================================================
