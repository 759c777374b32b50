---------------------------- MODULE JobRunsProofs ----------------------------
(***************************************************************************)
(* Proofs about JobRuns, for every set of jobs and requests, every set of  *)
(* routes and faults, and every bound.                                     *)
(***************************************************************************)
EXTENDS JobRuns, SequenceTheorems, TLAPS

(* A task that works on a job or a run holds one that exists.              *)
OnJob == {"claim", "update", "enable", "insert"}
OnRun == {"cancel", "stop", "start", "detail", "turns", "submit", "link",
          "turn", "succeed", "runtime", "fail", "time_out", "pause"}
TaskOK(t, ids) ==
    /\ t \in Task
    /\ t.todo \subseteq ids
    /\ t.at \in OnJob => t.of \in Jobs
    /\ t.at \in OnRun => t.run \in ids
TaskInv == \A d \in Tasks : TaskOK(task[d], DOMAIN runs)

(* What a step may do to one run: a run that ended stays ended, nothing    *)
(* becomes active again, and only the claim of a queued run starts it.     *)
Legal(r, q) ==
    /\ q \in Run
    /\ q.job = r.job
    /\ q.state # r.state => r.state \in Active
    /\ \/ /\ q.starts = r.starts
          /\ q.runtime = "none" <=> r.runtime = "none"
          /\ q.state = "queued" => r.state = "queued" \/ r.runtime = "none"
       \/ /\ r.state = "queued" /\ q.state # "queued"
          /\ q.starts = r.starts + 1 /\ q.runtime # "none"

(* What a step may do to the table: nothing illegal to any row, or a new   *)
(* row whose state respects the overlap policy.                            *)
Keeps == /\ DOMAIN runs' = DOMAIN runs
         /\ \A i \in DOMAIN runs : Legal(runs[i], runs'[i])
Grows == \E j \in Jobs, o \in Nat, c \in BOOLEAN :
             runs' = Append(runs, NewRun(j, o, FirstState(j), c))

(* StartRuntime was recorded for a run exactly when it has a runtime.      *)
StartInv ==
    \A i \in DOMAIN runs :
        /\ runs[i].runtime = "none" => runs[i].starts = 0
        /\ runs[i].runtime # "none" => runs[i].starts = 1
        /\ runs[i].state = "queued" => runs[i].runtime = "none"

-----------------------------------------------------------------------------
(* A step of one task keeps the other tasks well-formed, because runs are  *)
(* never deleted.                                                          *)
LEMMA TaskStep ==
    ASSUME TypeOK, TaskInv, NEW d \in Tasks, NEW t, Become(d, t),
           TaskOK(t, DOMAIN runs'), DOMAIN runs \subseteq DOMAIN runs'
    PROVE  TaskInv' /\ task' \in [Tasks -> Task]
<1>1. task' = [task EXCEPT ![d] = t]
  BY DEF Become
<1>2. ASSUME NEW e \in Tasks PROVE TaskOK(task'[e], DOMAIN runs')
  <2>1. CASE e = d
    BY <1>1, <2>1 DEF TypeOK
  <2>2. CASE e # d
    <3>1. task'[e] = task[e] /\ TaskOK(task[e], DOMAIN runs)
      BY <1>1, <2>2 DEF TypeOK, TaskInv
    <3> QED BY <3>1 DEF TaskOK
  <2> QED BY <2>1, <2>2
<1>3. task' \in [Tasks -> Task]
  BY <1>1 DEF TypeOK, TaskOK
<1> QED BY <1>2, <1>3 DEF TaskInv

(* Every row may be written by a legal value.                              *)
LEMMA PutLegal ==
    ASSUME runs \in Seq(Run), NEW i \in DOMAIN runs, NEW q, Legal(runs[i], q),
           runs' = [runs EXCEPT ![i] = q]
    PROVE  Keeps /\ runs' \in Seq(Run)
<1>1. q \in Run /\ \A k \in DOMAIN runs : runs[k] \in Run
  BY DEF Legal
<1>2. runs' \in Seq(Run)
  BY <1>1
<1>3. DOMAIN runs' = DOMAIN runs
  OBVIOUS
<1>4. ASSUME NEW k \in DOMAIN runs PROVE Legal(runs[k], runs'[k])
  <2>1. CASE k = i BY <2>1
  <2>2. CASE k # i
    <3>1. runs'[k] = runs[k] /\ runs[k] \in Run BY <2>2, <1>1
    <3> QED BY <3>1 DEF Legal
  <2> QED BY <2>1, <2>2
<1> QED BY <1>2, <1>3, <1>4 DEF Keeps

(* Leaving the table alone is legal.                                       *)
LEMMA SameLegal == ASSUME runs \in Seq(Run), runs' = runs PROVE Keeps
<1>1. \A k \in DOMAIN runs : runs[k] \in Run
  OBVIOUS
<1> QED BY <1>1 DEF Keeps, Legal

(* A row of the table has its type.                                        *)
LEMMA RowType == ASSUME TypeOK, NEW i \in DOMAIN runs PROVE runs[i] \in Run
  BY DEF TypeOK

JobInv == TypeOK /\ TaskInv
Good == JobInv' /\ (Keeps \/ Grows)

(* A task that gives up holds nothing.                                     *)
LEMMA IdleOK == ASSUME NEW ids PROVE TaskOK(Idle, ids)
  BY DEF TaskOK, Idle, Task, Steps, OnJob, OnRun, NoRow, JobRow

(* Going on to the next run keeps a task well-formed.                      *)
LEMMA NextRunOK == ASSUME NEW ids, NEW t, TaskOK(t, ids) PROVE TaskOK(NextRun(t), ids)
  BY DEF TaskOK, NextRun, Idle, Task, Steps, OnJob, OnRun, NoRow, JobRow

(* So does moving to a step that works on the same job or run.             *)
LEMMA GotoOK ==
    ASSUME NEW ids, NEW t, TaskOK(t, ids), NEW s \in Steps,
           s \in OnJob => t.of \in Jobs, s \in OnRun => t.run \in ids
    PROVE  TaskOK([t EXCEPT !.at = s], ids)
  BY DEF TaskOK, Task, OnJob, OnRun

(* An error is counted.                                                    *)
LEMMA ErrorType ==
    ASSUME TypeOK, Error \/ UNCHANGED count
    PROVE  count' \in [manual : Nat, errors : Nat, restarts : Nat]
  BY DEF TypeOK, Error

(* A step that only moves one task.                                        *)
LEMMA OnlyTask ==
    ASSUME JobInv, NEW d \in Tasks, NEW t, Become(d, t), TaskOK(t, DOMAIN runs),
           UNCHANGED <<now, job, runs, owed>>, Error \/ UNCHANGED count
    PROVE  Good
<1>1. TypeOK /\ TaskInv /\ runs' = runs
  BY DEF JobInv
<1>2. TaskInv' /\ task' \in [Tasks -> Task]
  BY <1>1, TaskStep
<1>3. Keeps
  BY <1>1, SameLegal DEF TypeOK
<1>4. TypeOK'
  BY <1>1, <1>2, ErrorType DEF TypeOK
<1> QED BY <1>2, <1>3, <1>4 DEF Good, JobInv

(* A step that writes one run and moves one task.                          *)
LEMMA TaskAndRun ==
    ASSUME JobInv, NEW d \in Tasks, NEW t, Become(d, t), TaskOK(t, DOMAIN runs),
           NEW i \in DOMAIN runs, NEW q, Legal(runs[i], q), runs' = [runs EXCEPT ![i] = q],
           UNCHANGED <<now, job>>, Error \/ UNCHANGED count,
           owed' \in [Jobs -> BOOLEAN]
    PROVE  Good
<1>1. TypeOK /\ TaskInv
  BY DEF JobInv
<1>2. Keeps /\ runs' \in Seq(Run)
  BY <1>1, PutLegal DEF TypeOK
<1>3. DOMAIN runs' = DOMAIN runs
  BY <1>2 DEF Keeps
<1>4. TaskInv' /\ task' \in [Tasks -> Task]
  BY <1>1, <1>3, TaskStep
<1>5. TypeOK'
  BY <1>1, <1>2, <1>4, ErrorType DEF TypeOK
<1> QED BY <1>2, <1>4, <1>5 DEF Good, JobInv

(* A step of the Node or the provider writes one run.                      *)
LEMMA OnlyRun ==
    ASSUME JobInv, NEW i \in DOMAIN runs, NEW q, Legal(runs[i], q),
           runs' = [runs EXCEPT ![i] = q], UNCHANGED <<now, job, task, owed, count>>
    PROVE  Good
<1>1. TypeOK /\ TaskInv
  BY DEF JobInv
<1>2. Keeps /\ runs' \in Seq(Run)
  BY <1>1, PutLegal DEF TypeOK
<1>3. DOMAIN runs' = DOMAIN runs
  BY <1>2 DEF Keeps
<1>4. TypeOK' /\ TaskInv'
  BY <1>1, <1>2, <1>3 DEF TypeOK, TaskInv
<1> QED BY <1>2, <1>4 DEF Good, JobInv

(* A step that inserts a run.                                              *)
LEMMA Insert ==
    ASSUME JobInv, NEW d \in Tasks, NEW t, Become(d, t), TaskOK(t, DOMAIN runs),
           NEW j \in Jobs, NEW o \in Nat, NEW c \in BOOLEAN,
           runs' = Append(runs, NewRun(j, o, FirstState(j), c)),
           UNCHANGED <<now, owed, count>>, job' \in [Jobs -> JobRow]
    PROVE  Good
<1>1. TypeOK /\ TaskInv
  BY DEF JobInv
<1>2. FirstState(j) \in RunStates
  BY DEF FirstState, RunStates, Active
<1>3. NewRun(j, o, FirstState(j), c) \in Run
  BY <1>2 DEF NewRun, Run, RuntimeStates
<1>4. runs' \in Seq(Run) /\ DOMAIN runs \subseteq DOMAIN runs'
  BY <1>1, <1>3, AppendProperties DEF TypeOK
<1>5. TaskOK(t, DOMAIN runs')
  BY <1>4 DEF TaskOK
<1>6. TaskInv' /\ task' \in [Tasks -> Task]
  BY <1>1, <1>4, <1>5, TaskStep
<1>7. TypeOK'
  BY <1>1, <1>4, <1>6 DEF TypeOK
<1>8. Grows
  BY DEF Grows
<1> QED BY <1>6, <1>7, <1>8 DEF Good, JobInv

(* What a task holds at each step.                                         *)
LEMMA Holds ==
    ASSUME JobInv, NEW d \in Tasks
    PROVE  /\ TaskOK(task[d], DOMAIN runs) /\ task[d] \in Task
           /\ task[d].at \in OnJob => task[d].of \in Jobs
           /\ task[d].at \in OnRun => task[d].run \in DOMAIN runs
                                      /\ runs[task[d].run] \in Run
<1>1. TaskOK(task[d], DOMAIN runs)
  BY DEF JobInv, TaskInv
<1>2. task[d].at \in OnRun => task[d].run \in DOMAIN runs
  BY <1>1 DEF TaskOK
<1>3. task[d].at \in OnRun => runs[task[d].run] \in Run
  BY <1>2, RowType DEF JobInv
<1> QED BY <1>1, <1>2, <1>3 DEF TaskOK

-----------------------------------------------------------------------------
(* The routes on jobs and the scheduler's claims.                          *)
LEMMA RouteSteps ==
    ASSUME JobInv
    PROVE  /\ \A j \in Jobs : CreateJob(j) \/ DisableJob(j) => Good
           /\ \A c \in Clients : UpdateJob(c) \/ EnableJob(c) \/ insert_job_run(c) => Good
           /\ \A c \in Clients, j \in Jobs : LoadForRun(c, j) => Good
           /\ \A c \in Clients, j \in Jobs, r \in {"update", "enable"} :
                 LoadJob(c, j, r) => Good
<1>t. TypeOK /\ TaskInv /\ \A c \in Clients : c \in Tasks
  BY DEF JobInv, Tasks
<1>s. runs \in Seq(Run)
  BY <1>t DEF TypeOK
<1>1. ASSUME NEW j \in Jobs, CreateJob(j) \/ DisableJob(j) PROVE Good
  <2>1. job' \in [Jobs -> JobRow] /\ UNCHANGED <<now, runs, task, owed, count>>
    <3>1. CASE CreateJob(j)
      <4>1. \A s, c \in BOOLEAN : [NoRow EXCEPT !.exists = TRUE, !.schedule = s,
                                                !.continue_after_error = c] \in JobRow
        BY DEF NoRow, JobRow
      <4>2. PICK q \in JobRow : job' = [job EXCEPT ![j] = q]
        BY <3>1, <4>1 DEF CreateJob
      <4> QED BY <3>1, <4>2, <1>t DEF CreateJob, TypeOK
    <3>2. CASE DisableJob(j)
      <4>1. job[j] \in JobRow
        BY <1>t DEF TypeOK
      <4>2. [job[j] EXCEPT !.enabled = FALSE, !.next = 0] \in JobRow
        BY <4>1 DEF JobRow
      <4>3. job' = [job EXCEPT ![j] = [job[j] EXCEPT !.enabled = FALSE, !.next = 0]]
        BY <3>2, <4>1, <1>t DEF DisableJob, TypeOK, JobRow
      <4> QED BY <3>2, <4>2, <4>3, <1>t DEF DisableJob, TypeOK
    <3> QED BY <1>1, <3>1, <3>2
  <2>2. Keeps
    BY <2>1, <1>s, SameLegal
  <2>3. TypeOK' /\ TaskInv'
    BY <2>1, <1>t DEF TypeOK, TaskInv
  <2> QED BY <2>2, <2>3 DEF Good, JobInv
<1>2. ASSUME NEW c \in Clients, UpdateJob(c) \/ EnableJob(c) PROVE Good
  <2>1. /\ task[c].of \in Jobs /\ task[c].old \in JobRow /\ task[c].upcoming \in Nat
    BY <1>2, <1>t, Holds DEF UpdateJob, EnableJob, OnJob, Task
  <2>2. job' \in [Jobs -> JobRow] /\ owed' \in [Jobs -> BOOLEAN]
    <3>1. CASE UpdateJob(c)
      BY <3>1, <1>t, <2>1 DEF UpdateJob, TypeOK, JobRow
    <3>2. CASE EnableJob(c)
      BY <3>2, <1>t, <2>1 DEF EnableJob, TypeOK, JobRow
    <3> QED BY <1>2, <3>1, <3>2
  <2>3. Become(c, Idle) /\ UNCHANGED <<now, runs, count>>
    BY <1>2 DEF UpdateJob, EnableJob
  <2>4. TaskInv' /\ task' \in [Tasks -> Task]
    <3>1. TaskOK(Idle, DOMAIN runs') /\ DOMAIN runs \subseteq DOMAIN runs'
      BY <2>3, IdleOK
    <3> QED BY <2>3, <1>t, <3>1, TaskStep
  <2>5. Keeps
    BY <2>3, <1>s, SameLegal
  <2>6. TypeOK'
    BY <1>t, <2>2, <2>3, <2>4 DEF TypeOK
  <2> QED BY <2>4, <2>5, <2>6 DEF Good, JobInv
<1>3. ASSUME NEW c \in Clients, insert_job_run(c) PROVE Good
  <2> DEFINE t == [Idle EXCEPT !.at = "drive"]
             b == task[c].old.continue_after_error
  <2>1. task[c].of \in Jobs /\ b \in BOOLEAN
    BY <1>3, <1>t, Holds DEF insert_job_run, OnJob, Task, JobRow
  <2>2. TaskOK(t, DOMAIN runs)
    BY DEF TaskOK, Idle, Task, Steps, OnJob, OnRun, NoRow, JobRow
  <2>3. /\ Become(c, t) /\ UNCHANGED <<now, job, owed, count>>
        /\ runs' = Append(runs, NewRun(task[c].of, 0, FirstState(task[c].of), b))
    BY <1>3 DEF insert_job_run
  <2>4. job' \in [Jobs -> JobRow] /\ c \in Tasks /\ 0 \in Nat
    BY <1>t, <2>3 DEF TypeOK
  <2> HIDE DEF t, b
  <2> QED BY <2>1, <2>2, <2>3, <2>4, Insert
<1>4. ASSUME NEW c \in Clients, NEW j \in Jobs, LoadForRun(c, j) PROVE Good
  <2> DEFINE t == [Idle EXCEPT !.at = "insert", !.of = j, !.old = job[j]]
  <2>1. TaskOK(t, DOMAIN runs)
    BY <1>t DEF TypeOK, TaskOK, Idle, Task, Steps, OnJob, OnRun, NoRow, JobRow
  <2>2. Become(c, t) /\ UNCHANGED <<now, job, runs, owed>>
    BY <1>4 DEF LoadForRun
  <2>3. count' \in [manual : Nat, errors : Nat, restarts : Nat]
    BY <1>4, <1>t DEF LoadForRun, TypeOK
  <2>4. TaskInv' /\ task' \in [Tasks -> Task]
    <3> HIDE DEF t
    <3>1. TaskOK(t, DOMAIN runs') /\ DOMAIN runs \subseteq DOMAIN runs'
      BY <2>1, <2>2
    <3> QED BY <2>2, <1>t, <3>1, TaskStep
  <2>5. Keeps
    BY <2>2, <1>s, SameLegal
  <2>6. TypeOK'
    BY <1>t, <2>2, <2>3, <2>4 DEF TypeOK
  <2> QED BY <2>4, <2>5, <2>6 DEF Good, JobInv
<1>5. ASSUME NEW c \in Clients, NEW j \in Jobs, NEW r \in {"update", "enable"},
             LoadJob(c, j, r)
      PROVE  Good
  <2> DEFINE t == [Idle EXCEPT !.at = r, !.of = j, !.old = job[j],
                               !.upcoming = next_job_run_at(now)]
  <2>1. next_job_run_at(now) \in Nat /\ job[j] \in JobRow
    BY <1>t DEF next_job_run_at, TypeOK
  <2>2. TaskOK(t, DOMAIN runs)
    BY <2>1 DEF TaskOK, Idle, Task, Steps, OnJob, OnRun, NoRow
  <2>3. Become(c, t) /\ UNCHANGED <<now, job, runs, owed, count>>
    BY <1>5 DEF LoadJob
  <2> HIDE DEF t
  <2> QED BY <1>t, <2>2, <2>3, OnlyTask
<1> QED BY <1>1, <1>2, <1>3, <1>4, <1>5

(* The scheduler's fetch and claims.                                       *)
LEMMA ClaimSteps ==
    ASSUME JobInv
    PROVE  /\ FetchDue \/ ClaimDue \/ EndDue => Good
           /\ \A j \in Jobs : LoadDue(j) => Good
<1>t. TypeOK /\ TaskInv /\ Scheduler \in Tasks
  BY DEF JobInv, Tasks
<1>h. TaskOK(task[Scheduler], DOMAIN runs) /\ task[Scheduler] \in Task
  BY <1>t, Holds
<1>1. ASSUME FetchDue PROVE Good
  <2> DEFINE t == [Idle EXCEPT !.at = "due", !.due = {j \in Jobs : IsDue(job[j])}]
  <2>1. TaskOK(t, DOMAIN runs)
    BY DEF TaskOK, Idle, Task, Steps, OnJob, OnRun, NoRow, JobRow
  <2>2. Become(Scheduler, t) /\ UNCHANGED <<now, job, runs, owed, count>>
    BY <1>1 DEF FetchDue
  <2> HIDE DEF t
  <2> QED BY <1>t, <2>1, <2>2, OnlyTask
<1>2. ASSUME EndDue PROVE Good
  <2>1. TaskOK([task[Scheduler] EXCEPT !.at = "drive"], DOMAIN runs)
    BY <1>h, GotoOK DEF Steps, OnJob, OnRun
  <2>2. /\ Become(Scheduler, [task[Scheduler] EXCEPT !.at = "drive"])
        /\ UNCHANGED <<now, job, runs, owed, count>>
    BY <1>2 DEF EndDue, Goto
  <2> QED BY <1>t, <2>1, <2>2, OnlyTask
<1>3. ASSUME NEW j \in Jobs, LoadDue(j) PROVE Good
  <2> DEFINE rest == [task[Scheduler] EXCEPT !.due = @ \ {j}]
             took == [rest EXCEPT !.at = "claim", !.of = j, !.old = job[j],
                                  !.upcoming = next_job_run_at(now)]
  <2>1. next_job_run_at(now) \in Nat /\ job[j] \in JobRow
    BY <1>t DEF next_job_run_at, TypeOK
  <2>2. TaskOK(rest, DOMAIN runs)
    BY <1>h DEF TaskOK, Task
  <2>3. TaskOK(took, DOMAIN runs)
    <3> HIDE DEF rest
    <3> QED BY <2>1, <2>2 DEF TaskOK, Task, Steps, OnJob, OnRun
  <2>4. Become(Scheduler, rest) \/ Become(Scheduler, took)
    BY <1>3 DEF LoadDue
  <2>5. UNCHANGED <<now, job, runs, owed, count>>
    BY <1>3 DEF LoadDue
  <2> HIDE DEF rest, took
  <2> QED BY <1>t, <2>2, <2>3, <2>4, <2>5, OnlyTask
<1>4. ASSUME ClaimDue PROVE Good
  <2> DEFINE t == task[Scheduler]
             back == [Idle EXCEPT !.at = "due", !.due = t.due]
             drive == [Idle EXCEPT !.at = "drive"]
  <2>1. /\ t.of \in Jobs /\ t.old \in JobRow /\ t.upcoming \in Nat /\ t.due \in SUBSET Jobs
    BY <1>4, <1>t, <1>h, Holds DEF ClaimDue, OnJob, Task
  <2>2. TaskOK(back, DOMAIN runs) /\ TaskOK(drive, DOMAIN runs)
    BY <2>1 DEF TaskOK, Idle, Task, Steps, OnJob, OnRun, NoRow, JobRow
  <2>3. CASE UNCHANGED <<job, runs>>
    <3>1. Become(Scheduler, back) \/ Become(Scheduler, drive)
      BY <1>4, <2>3 DEF ClaimDue
    <3>2. UNCHANGED <<now, job, runs, owed, count>>
      BY <1>4, <2>3 DEF ClaimDue
    <3> HIDE DEF back, drive, t
    <3> QED BY <1>t, <2>2, <3>1, <3>2, OnlyTask
  <2>4. CASE ~UNCHANGED <<job, runs>>
    <3>1. /\ job' = [job EXCEPT ![t.of].next = t.upcoming]
          /\ runs' = Append(runs, NewRun(t.of, t.old.next, FirstState(t.of),
                                         t.old.continue_after_error))
          /\ Become(Scheduler, back) /\ UNCHANGED <<now, owed, count>>
      BY <1>4, <2>4 DEF ClaimDue
    <3>2. job' \in [Jobs -> JobRow] /\ t.old.next \in Nat
          /\ t.old.continue_after_error \in BOOLEAN
      BY <1>t, <2>1, <3>1 DEF TypeOK, JobRow
    <3> HIDE DEF back, drive, t
    <3> QED BY <1>t, <2>1, <2>2, <3>1, <3>2, Insert
  <2> QED BY <2>3, <2>4
<1> QED BY <1>1, <1>2, <1>3, <1>4

(* The Node and the provider.                                              *)
LEMMA ProviderSteps ==
    ASSUME JobInv, NEW i \in DOMAIN runs
    PROVE  /\ RuntimeReady(i) \/ RuntimeStops(i) => Good
           /\ \A how \in RuntimeFaults : RuntimeEnds(i, how) => Good
           /\ \A k \in DOMAIN runs[i].turns : TurnStarts(i, k) \/ TurnEnds(i, k) => Good
<1>t. runs \in Seq(Run) /\ runs[i] \in Run
  BY RowType DEF JobInv, TypeOK
<1>s. DOMAIN runs = 1 .. Len(runs)
  BY <1>t
<1>1. ASSUME NEW s \in RuntimeStates, s # "none", runs[i].runtime # "none",
             runs' = [runs EXCEPT ![i].runtime = s],
             UNCHANGED <<now, job, task, owed, count>>
      PROVE  Good
  <2> DEFINE q == [runs[i] EXCEPT !.runtime = s]
  <2>1. Legal(runs[i], q)
    BY <1>1, <1>t DEF Legal, Run
  <2>2. runs' = [runs EXCEPT ![i] = q]
    BY <1>1, <1>t
  <2> HIDE DEF q
  <2> QED BY <1>1, <2>1, <2>2, OnlyRun
<1>2. ASSUME RuntimeReady(i) \/ RuntimeStops(i) PROVE Good
  BY <1>1, <1>2 DEF RuntimeReady, RuntimeStops, RuntimeStates
<1>3. ASSUME NEW how \in RuntimeFaults, RuntimeEnds(i, how) PROVE Good
  <2>1. how \in RuntimeStates /\ how # "none"
    BY JobAssumption DEF RuntimeStates
  <2>2. runs[i].runtime # "none"
    BY <1>3 DEF RuntimeEnds
  <2> QED BY <1>1, <1>3, <2>1, <2>2 DEF RuntimeEnds
<1>4. ASSUME NEW k \in DOMAIN runs[i].turns, TurnStarts(i, k) \/ TurnEnds(i, k) PROVE Good
  <2>1. PICK s \in TurnStates, r \in {"running", "ready"} :
           runs' = [runs EXCEPT ![i].turns[k] = s, ![i].runtime = r]
    BY <1>4 DEF TurnStarts, TurnEnds, TurnStates
  <2> DEFINE ts == [runs[i].turns EXCEPT ![k] = s]
             q == [runs[i] EXCEPT !.turns = ts, !.runtime = r]
  <2>2. ts \in Seq(TurnStates)
    BY <1>t DEF Run
  <2>3. runs[i].runtime # "none" /\ UNCHANGED <<now, job, task, owed, count>>
    BY <1>4 DEF TurnStarts, TurnEnds
  <2>4. runs' = [runs EXCEPT ![i] = q]
    BY <2>1, <1>t DEF Run
  <2>5. Legal(runs[i], q)
    <3> HIDE DEF ts
    <3> QED BY <2>2, <2>3, <1>t DEF Legal, Run, RuntimeStates
  <2> HIDE DEF q
  <2> QED BY <2>3, <2>4, <2>5, OnlyRun
<1> QED BY <1>2, <1>3, <1>4

(* The steps of a driver that only read.                                   *)
LEMMA ReadSteps ==
    ASSUME JobInv, NEW d \in Tasks,
           \/ FetchRuns(d) \/ LoadRun(d) \/ EndDrive(d) \/ LoadDetail(d)
           \/ LookTurn(d) \/ ReadTurn(d) \/ ReadRuntime(d)
    PROVE  Good
<1>t. TypeOK /\ TaskInv
  BY DEF JobInv
<1>s. runs \in Seq(Run)
  BY <1>t DEF TypeOK
<1>h. TaskOK(task[d], DOMAIN runs) /\ task[d] \in Task
  BY Holds
<1>r. task[d].at \in OnRun => task[d].run \in DOMAIN runs
  BY Holds
<1>n. TaskOK(NextRun(task[d]), DOMAIN runs)
  BY <1>h, NextRunOK
<1>g. ASSUME task[d].at \in OnRun, NEW s \in OnRun
      PROVE  TaskOK([task[d] EXCEPT !.at = s], DOMAIN runs)
  BY <1>g, <1>h, <1>r, GotoOK DEF Steps, OnJob, OnRun
<1>u. UNCHANGED <<now, job, runs, owed, count>>
  BY DEF FetchRuns, LoadRun, EndDrive, LoadDetail, LookTurn, ReadTurn, ReadRuntime
<1>o. ASSUME NEW t, TaskOK(t, DOMAIN runs), Become(d, t) PROVE Good
  BY <1>o, <1>u, OnlyTask
<1>1. CASE FetchRuns(d)
  <2> DEFINE a == {i \in DOMAIN runs : runs[i].state \in Active}
             t == [Idle EXCEPT !.at = "next", !.todo = a]
  <2>1. a \subseteq DOMAIN runs /\ a \in SUBSET Nat
    BY <1>s
  <2>2. TaskOK(t, DOMAIN runs)
    <3> HIDE DEF a
    <3> QED BY <2>1 DEF TaskOK, Idle, Task, Steps, OnJob, OnRun, NoRow, JobRow
  <2>3. Become(d, t)
    BY <1>1 DEF FetchRuns
  <2> HIDE DEF t
  <2> QED BY <2>2, <2>3, <1>o
<1>2. CASE LoadRun(d)
  <2>1. PICK i \in task[d].todo :
           Become(d, [Idle EXCEPT !.at = StepFor(i), !.todo = task[d].todo \ {i},
                                  !.run = IF StepFor(i) = "next" THEN 0 ELSE i,
                                  !.cont = StepFor(i) # "next" /\ runs[i].cont])
    BY <1>2 DEF LoadRun
  <2> DEFINE s == StepFor(i)
             r == IF s = "next" THEN 0 ELSE i
             b == s # "next" /\ runs[i].cont
             t == [Idle EXCEPT !.at = s, !.todo = task[d].todo \ {i}, !.run = r, !.cont = b]
  <2>2. i \in DOMAIN runs /\ i \in Nat
    BY <1>h, <1>s DEF TaskOK
  <2>3. s \in {"start", "detail", "turn", "next"}
    BY DEF StepFor
  <2>4. r \in Nat /\ (s # "next" => r \in DOMAIN runs)
    BY <2>2
  <2>5. runs[i].cont \in BOOLEAN
    BY <2>2, <1>t, RowType DEF Run
  <2>6. b \in BOOLEAN
    BY <2>5
  <2>7. task[d].todo \ {i} \in SUBSET Nat /\ task[d].todo \ {i} \subseteq DOMAIN runs
    BY <1>h DEF TaskOK, Task
  <2>8. TaskOK(t, DOMAIN runs)
    <3> HIDE DEF s, r, b
    <3> QED BY <2>3, <2>4, <2>6, <2>7
         DEF TaskOK, Idle, Task, Steps, OnJob, OnRun, NoRow, JobRow
  <2>9. Become(d, t)
    BY <2>1
  <2> HIDE DEF t
  <2> QED BY <2>8, <2>9, <1>o
<1>3. CASE EndDrive(d)
  BY <1>3, <1>o, IdleOK DEF EndDrive
<1>4. CASE LoadDetail(d)
  <2> DEFINE t == [task[d] EXCEPT !.at = "turns",
                                  !.ready = (runs[task[d].run].runtime = "ready")]
  <2>1. task[d].at \in OnRun
    BY <1>4 DEF LoadDetail, OnRun
  <2>2. TaskOK(t, DOMAIN runs)
    BY <1>h, <1>r, <2>1 DEF TaskOK, Task, Steps, OnJob, OnRun
  <2>3. TaskOK([task[d] EXCEPT !.at = "fail"], DOMAIN runs)
    BY <1>g, <2>1 DEF OnRun
  <2>4. Become(d, t) \/ Become(d, [task[d] EXCEPT !.at = "fail"])
    BY <1>4 DEF LoadDetail, Goto
  <2> HIDE DEF t
  <2> QED BY <2>2, <2>3, <2>4, <1>o
<1>5. CASE LookTurn(d)
  <2> DEFINE t == [task[d] EXCEPT !.at = "link", !.turn = 1]
  <2>1. task[d].at \in OnRun
    BY <1>5 DEF LookTurn, OnRun
  <2>2. TaskOK(t, DOMAIN runs)
    BY <1>h, <1>r, <2>1 DEF TaskOK, Task, Steps, OnJob, OnRun
  <2>3. TaskOK([task[d] EXCEPT !.at = "submit"], DOMAIN runs)
    BY <1>g, <2>1 DEF OnRun
  <2>4. Become(d, t) \/ Become(d, [task[d] EXCEPT !.at = "submit"])
          \/ Become(d, NextRun(task[d]))
    BY <1>5 DEF LookTurn, Goto
  <2> HIDE DEF t
  <2> QED BY <2>2, <2>3, <2>4, <1>n, <1>o
<1>6. CASE ReadTurn(d)
  <2>1. task[d].at \in OnRun
    BY <1>6 DEF ReadTurn, OnRun
  <2>2. PICK s \in OnRun : Become(d, [task[d] EXCEPT !.at = s])
    BY <1>6 DEF ReadTurn, Goto, OnRun
  <2> QED BY <2>1, <2>2, <1>g, <1>o
<1>7. CASE ReadRuntime(d)
  <2>1. task[d].at \in OnRun
    BY <1>7 DEF ReadRuntime, OnRun
  <2>2. \/ Become(d, NextRun(task[d])) \/ Become(d, [task[d] EXCEPT !.at = "fail"])
        \/ Become(d, [task[d] EXCEPT !.at = "time_out"])
    BY <1>7 DEF ReadRuntime, Goto
  <2>3. /\ TaskOK([task[d] EXCEPT !.at = "fail"], DOMAIN runs)
        /\ TaskOK([task[d] EXCEPT !.at = "time_out"], DOMAIN runs)
    BY <2>1, <1>g DEF OnRun
  <2> QED BY <2>2, <2>3, <1>n, <1>o
<1> QED BY <1>1, <1>2, <1>3, <1>4, <1>5, <1>6, <1>7

(* A legal change of state alone, of an active run.                        *)
LEMMA StateLegal ==
    ASSUME NEW r \in Run, r.state \in Active, NEW s \in RunStates, s # "queued"
    PROVE  Legal(r, [r EXCEPT !.state = s])
  BY DEF Legal, Run

(* The steps of a driver that write the run it works on.                   *)
LEMMA WriteSteps ==
    ASSUME JobInv, NEW d \in Tasks,
           \/ start_job_run(d) \/ SubmitTurn(d) \/ LinkTurn(d) \/ Succeed(d)
           \/ FailRun(d) \/ PauseJob(d)
    PROVE  Good
<1> DEFINE i == task[d].run
<1>a. task[d].at \in OnRun
  BY DEF start_job_run, SubmitTurn, LinkTurn, Succeed, FailRun, PauseJob, OnRun
<1>t. TypeOK /\ TaskInv /\ runs \in Seq(Run)
  BY DEF JobInv, TypeOK
<1>h. TaskOK(task[d], DOMAIN runs) /\ task[d] \in Task
  BY Holds
<1>r. i \in DOMAIN runs /\ runs[i] \in Run
  BY <1>a, Holds
<1>n. TaskOK(NextRun(task[d]), DOMAIN runs)
  BY <1>h, NextRunOK
<1>g. ASSUME NEW s \in OnRun PROVE TaskOK([task[d] EXCEPT !.at = s], DOMAIN runs)
  BY <1>a, <1>h, <1>r, GotoOK DEF Steps, OnJob, OnRun
<1>w. ASSUME NEW t, TaskOK(t, DOMAIN runs), Become(d, t), NEW q, Legal(runs[i], q),
             runs' = runs \/ runs' = [runs EXCEPT ![i] = q],
             UNCHANGED <<now, job>>, Error \/ UNCHANGED count, owed' \in [Jobs -> BOOLEAN]
      PROVE  Good
  <2>1. Legal(runs[i], runs[i])
    BY <1>r DEF Legal
  <2>2. CASE runs' = [runs EXCEPT ![i] = q]
    BY <1>w, <1>r, <2>2, TaskAndRun
  <2>3. CASE runs' = runs
    <3>1. runs' = [runs EXCEPT ![i] = runs[i]]
      BY <2>3, <1>t
    <3> QED BY <1>w, <1>r, <2>1, <3>1, TaskAndRun
  <2> QED BY <1>w, <2>2, <2>3
<1>1. CASE start_job_run(d)
  <2> DEFINE q == [runs[i] EXCEPT !.state = "starting", !.runtime = "starting",
                                  !.starts = @ + 1]
  <2>1. UNCHANGED <<now, job, owed>> /\ (Error \/ UNCHANGED count)
    BY <1>1 DEF start_job_run
  <2>2. Become(d, [task[d] EXCEPT !.at = "fail"]) \/ Become(d, NextRun(task[d]))
    BY <1>1 DEF start_job_run, Goto
  <2>3. runs' = runs \/ (runs[i].state = "queued" /\ runs' = [runs EXCEPT ![i] = q])
    BY <1>1, <1>t, <1>r DEF start_job_run
  <2>4. runs[i].state = "queued" => Legal(runs[i], q)
    <3>1. /\ q \in Run /\ q.job = runs[i].job /\ q.state = "starting"
          /\ q.runtime = "starting" /\ q.starts = runs[i].starts + 1
      <4> DEFINE n == runs[i].starts + 1
      <4>1. n \in Nat
        BY <1>r DEF Run
      <4>2. q = [runs[i] EXCEPT !.state = "starting", !.runtime = "starting", !.starts = n]
        BY <1>r DEF Run
      <4>3. "starting" \in RunStates /\ "starting" \in RuntimeStates
        BY DEF RunStates, RuntimeStates, Active
      <4> HIDE DEF q
      <4>4. q.starts = n
        BY <1>r, <4>2 DEF Run
      <4>5. q.job = runs[i].job /\ q.state = "starting" /\ q.runtime = "starting"
        BY <1>r, <4>2 DEF Run
      <4>6. q \in Run
        <5> HIDE DEF n
        <5> QED BY <1>r, <4>1, <4>2, <4>3 DEF Run
      <4> QED BY <4>4, <4>5, <4>6
    <3> HIDE DEF q
    <3> QED BY <3>1 DEF Legal, Active
  <2>5. PICK p : Legal(runs[i], p) /\ (runs' = runs \/ runs' = [runs EXCEPT ![i] = p])
    <3> HIDE DEF q
    <3>1. Legal(runs[i], runs[i])
      BY <1>r DEF Legal
    <3> QED BY <2>3, <2>4, <3>1
  <2>6. TaskOK([task[d] EXCEPT !.at = "fail"], DOMAIN runs)
    BY <1>g DEF OnRun
  <2>7. owed' \in [Jobs -> BOOLEAN]
    BY <2>1, <1>t DEF TypeOK
  <2> HIDE DEF q, i
  <2> QED BY <2>1, <2>2, <2>5, <2>6, <2>7, <1>n, <1>w
<1>2. CASE SubmitTurn(d)
  <2> DEFINE ts == Append(runs[i].turns, "created")
             q == [runs[i] EXCEPT !.turns = ts]
             t == [task[d] EXCEPT !.at = "link", !.turn = Len(runs'[i].turns)]
  <2>1. UNCHANGED <<now, job, owed>> /\ (Error \/ UNCHANGED count)
    BY <1>2 DEF SubmitTurn
  <2>2. ts \in Seq(TurnStates)
    BY <1>r, AppendProperties DEF Run, TurnStates
  <2>3. Legal(runs[i], q) /\ q \in Run
    <3> HIDE DEF ts
    <3> QED BY <1>r, <2>2 DEF Legal, Run
  <2>4. runs' = runs \/ runs' = [runs EXCEPT ![i] = q]
    BY <1>2, <1>t, <1>r DEF SubmitTurn, Run
  <2>5. runs'[i] \in Run
    <3> HIDE DEF q
    <3> QED BY <2>3, <2>4, <1>r, <1>t
  <2>6. Len(runs'[i].turns) \in Nat
    BY <2>5 DEF Run
  <2>7. TaskOK(t, DOMAIN runs)
    BY <1>h, <1>r, <2>6 DEF TaskOK, Task, Steps, OnJob, OnRun
  <2>8. Become(d, t) \/ Become(d, Idle)
    BY <1>2 DEF SubmitTurn
  <2>9. owed' \in [Jobs -> BOOLEAN]
    BY <2>1, <1>t DEF TypeOK
  <2> HIDE DEF q, t, i
  <2> QED BY <2>1, <2>3, <2>4, <2>7, <2>8, <2>9, IdleOK, <1>w
<1>3. CASE LinkTurn(d)
  <2> DEFINE q == [runs[i] EXCEPT !.state = "running", !.turn = task[d].turn]
  <2>1. UNCHANGED <<now, job, owed, count>> /\ Become(d, NextRun(task[d]))
    BY <1>3 DEF LinkTurn
  <2>2. task[d].turn \in Nat
    BY <1>h DEF Task
  <2>3. runs' = runs \/ (runs[i].state = "starting" /\ runs' = [runs EXCEPT ![i] = q])
    BY <1>3, <1>t, <1>r DEF LinkTurn
  <2>4. runs[i].state = "starting" => Legal(runs[i], q)
    BY <1>r, <2>2 DEF Legal, Run, RunStates, Active
  <2>5. PICK p : Legal(runs[i], p) /\ (runs' = runs \/ runs' = [runs EXCEPT ![i] = p])
    <3> HIDE DEF q
    <3>1. Legal(runs[i], runs[i])
      BY <1>r DEF Legal
    <3> QED BY <2>3, <2>4, <3>1
  <2>6. owed' \in [Jobs -> BOOLEAN]
    BY <2>1, <1>t DEF TypeOK
  <2> HIDE DEF q, i
  <2> QED BY <2>1, <2>5, <2>6, <1>n, <1>w
<1>4. CASE Succeed(d)
  <2> DEFINE q == [runs[i] EXCEPT !.state = "succeeded"]
  <2>1. UNCHANGED <<now, job, owed, count>> /\ Become(d, NextRun(task[d]))
    BY <1>4 DEF Succeed
  <2>2. runs' = runs \/ (runs[i].state = "running" /\ runs' = [runs EXCEPT ![i] = q])
    BY <1>4, <1>t, <1>r DEF Succeed
  <2>3. runs[i].state = "running" => Legal(runs[i], q)
    BY <1>r, StateLegal DEF RunStates, Active
  <2>4. PICK p : Legal(runs[i], p) /\ (runs' = runs \/ runs' = [runs EXCEPT ![i] = p])
    <3> HIDE DEF q
    <3>1. Legal(runs[i], runs[i])
      BY <1>r DEF Legal
    <3> QED BY <2>2, <2>3, <3>1
  <2>5. owed' \in [Jobs -> BOOLEAN]
    BY <2>1, <1>t DEF TypeOK
  <2> HIDE DEF q, i
  <2> QED BY <2>1, <2>4, <2>5, <1>n, <1>w
<1>5. CASE FailRun(d)
  <2> DEFINE end == IF task[d].at = "time_out" THEN "timed_out" ELSE "failed"
             q == [runs[i] EXCEPT !.state = end]
  <2>1. UNCHANGED <<now, job, count>>
    BY <1>5 DEF FailRun
  <2>2. Become(d, [task[d] EXCEPT !.at = "pause"]) \/ Become(d, NextRun(task[d]))
    BY <1>5 DEF FailRun, Goto
  <2>3. runs' = runs \/ (runs[i].state \in Active /\ runs' = [runs EXCEPT ![i] = q])
    BY <1>5, <1>t, <1>r DEF FailRun
  <2>4. runs[i].state \in Active => Legal(runs[i], q)
    <3>1. end \in RunStates /\ end # "queued"
      BY DEF RunStates
    <3> HIDE DEF end
    <3> QED BY <1>r, <3>1, StateLegal
  <2>5. PICK p : Legal(runs[i], p) /\ (runs' = runs \/ runs' = [runs EXCEPT ![i] = p])
    <3> HIDE DEF q
    <3>1. Legal(runs[i], runs[i])
      BY <1>r DEF Legal
    <3> QED BY <2>3, <2>4, <3>1
  <2>6. TaskOK([task[d] EXCEPT !.at = "pause"], DOMAIN runs)
    BY <1>g DEF OnRun
  <2>7. owed' \in [Jobs -> BOOLEAN]
    <3>1. owed' = owed \/ owed' = [owed EXCEPT ![runs[i].job] = TRUE]
      BY <1>5 DEF FailRun
    <3> QED BY <3>1, <1>t, <1>r DEF TypeOK
  <2> HIDE DEF q, end, i
  <2> QED BY <2>1, <2>2, <2>5, <2>6, <2>7, <1>n, <1>w
<1>6. CASE PauseJob(d)
  <2> DEFINE j == runs[i].job
  <2>1. Become(d, NextRun(task[d])) /\ UNCHANGED <<now, runs, owed, count>>
    BY <1>6 DEF PauseJob
  <2>2. j \in Jobs /\ job[j] \in JobRow
    BY <1>r, <1>t DEF Run, TypeOK
  <2>3. [job[j] EXCEPT !.enabled = FALSE, !.next = 0] \in JobRow
    BY <2>2 DEF JobRow
  <2>4. job' = [job EXCEPT ![j] = [job[j] EXCEPT !.enabled = FALSE, !.next = 0]]
    BY <1>6, <2>2, <1>t DEF PauseJob, TypeOK, JobRow
  <2>5. job' \in [Jobs -> JobRow]
    BY <2>2, <2>3, <2>4, <1>t DEF TypeOK
  <2>6. TaskOK(NextRun(task[d]), DOMAIN runs') /\ DOMAIN runs \subseteq DOMAIN runs'
    BY <2>1, <1>n
  <2>7. TaskInv' /\ task' \in [Tasks -> Task]
    BY <2>1, <2>6, <1>t, TaskStep
  <2>8. TypeOK' /\ Keeps
    BY <2>1, <2>5, <2>7, <1>t, SameLegal DEF TypeOK
  <2> QED BY <2>7, <2>8 DEF Good, JobInv
<1> QED BY <1>1, <1>2, <1>3, <1>4, <1>5, <1>6

(* cancel_job_run_route.                                                   *)
LEMMA CancelSteps ==
    ASSUME JobInv, NEW c \in Clients
    PROVE  /\ CancelRun(c) \/ StopRuntime(c) => Good
           /\ \A i \in DOMAIN runs : LoadForCancel(c, i) => Good
<1>t. TypeOK /\ TaskInv /\ runs \in Seq(Run) /\ c \in Tasks
  BY DEF JobInv, TypeOK, Tasks
<1>h. TaskOK(task[c], DOMAIN runs) /\ task[c] \in Task
  BY <1>t, Holds
<1>r. task[c].at \in OnRun => task[c].run \in DOMAIN runs /\ runs[task[c].run] \in Run
  BY <1>t, Holds
<1>o. owed \in [Jobs -> BOOLEAN]
  BY <1>t DEF TypeOK
<1>1. ASSUME CancelRun(c) PROVE Good
  <2> DEFINE i == task[c].run
             q == [runs[i] EXCEPT !.state = "cancelled"]
  <2>1. i \in DOMAIN runs /\ runs[i] \in Run
    BY <1>1, <1>r DEF CancelRun, OnRun
  <2>2. TaskOK([task[c] EXCEPT !.at = "stop"], DOMAIN runs)
    BY <2>1, <1>h, GotoOK DEF Steps, OnJob, OnRun
  <2>3. UNCHANGED <<now, job, owed, count>>
    BY <1>1 DEF CancelRun
  <2>4. Become(c, Idle) \/ Become(c, [task[c] EXCEPT !.at = "stop"])
    BY <1>1 DEF CancelRun, Goto
  <2>5. runs' = runs \/ (runs[i].state \in Active /\ runs' = [runs EXCEPT ![i] = q])
    BY <1>1, <1>t, <2>1 DEF CancelRun
  <2>6. CASE runs' = runs
    BY <2>2, <2>3, <2>4, <2>6, <1>t, IdleOK, OnlyTask
  <2>7. CASE runs[i].state \in Active /\ runs' = [runs EXCEPT ![i] = q]
    <3>1. Legal(runs[i], q)
      BY <2>1, <2>7, StateLegal DEF RunStates
    <3> HIDE DEF q
    <3> QED BY <2>1, <2>2, <2>3, <2>4, <2>7, <3>1, <1>t, <1>o, IdleOK, TaskAndRun
  <2> QED BY <2>5, <2>6, <2>7
<1>2. ASSUME StopRuntime(c) PROVE Good
  <2> DEFINE i == task[c].run
             q == [runs[i] EXCEPT !.stop = TRUE]
  <2>1. i \in DOMAIN runs /\ runs[i] \in Run
    BY <1>2, <1>r DEF StopRuntime, OnRun
  <2>2. Become(c, Idle) /\ UNCHANGED <<now, job, owed>> /\ (Error \/ UNCHANGED count)
    BY <1>2 DEF StopRuntime
  <2>3. runs' = runs \/ runs' = [runs EXCEPT ![i] = q]
    BY <1>2, <1>t, <2>1 DEF StopRuntime
  <2>4. CASE runs' = runs
    BY <2>2, <2>4, <1>t, IdleOK, OnlyTask
  <2>5. CASE runs' = [runs EXCEPT ![i] = q]
    <3>1. Legal(runs[i], q)
      BY <2>1 DEF Legal, Run
    <3> HIDE DEF q
    <3> QED BY <2>1, <2>2, <2>5, <3>1, <1>t, <1>o, IdleOK, TaskAndRun
  <2> QED BY <2>3, <2>4, <2>5
<1>3. ASSUME NEW i \in DOMAIN runs, LoadForCancel(c, i) PROVE Good
  <2> DEFINE b == HasSession(i)
             t == [Idle EXCEPT !.at = "cancel", !.run = i, !.had_session = b]
  <2>1. b \in BOOLEAN
    BY DEF HasSession
  <2>2. i \in Nat
    BY <1>t
  <2>3. TaskOK(t, DOMAIN runs)
    <3> HIDE DEF b
    <3> QED BY <2>1, <2>2 DEF TaskOK, Idle, Task, Steps, OnJob, OnRun, NoRow, JobRow
  <2>4. Become(c, t) /\ UNCHANGED <<now, job, runs, owed, count>>
    BY <1>3 DEF LoadForCancel
  <2> HIDE DEF t
  <2> QED BY <2>3, <2>4, <1>t, OnlyTask
<1> QED BY <1>1, <1>2, <1>3

(* Recovery queues a run again only if it has no session.                  *)
LEMMA RestartStep == ASSUME JobInv, CoreRestart PROVE Good
<1>t. TypeOK /\ TaskInv /\ runs \in Seq(Run)
  BY DEF JobInv, TypeOK
<1>1. runs' = [i \in DOMAIN runs |->
                 IF runs[i].state = "starting" /\ ~HasSession(i)
                   THEN [runs[i] EXCEPT !.state = "queued"] ELSE runs[i]]
  BY DEF CoreRestart
<1>2. ASSUME NEW i \in DOMAIN runs PROVE Legal(runs[i], runs'[i])
  <2>1. runs[i] \in Run
    BY <1>t
  <2>2. CASE runs'[i] = runs[i]
    BY <2>1, <2>2 DEF Legal
  <2>3. CASE /\ runs[i].state = "starting" /\ runs[i].runtime = "none"
             /\ runs'[i] = [runs[i] EXCEPT !.state = "queued"]
    BY <2>1, <2>3 DEF Legal, Run, RunStates, Active
  <2> QED BY <1>1, <2>2, <2>3 DEF HasSession
<1>3. DOMAIN runs' = DOMAIN runs
  BY <1>1
<1>4. runs' \in Seq(Run)
  <2>1. \A i \in 1 .. Len(runs) : runs'[i] \in Run
    BY <1>2, <1>t DEF Legal
  <2>2. runs' = [i \in 1 .. Len(runs) |-> runs'[i]]
    BY <1>1, <1>t
  <2> QED BY <2>1, <2>2, <1>t
<1>5. task' = [d \in Tasks |-> Idle] /\ TaskOK(Idle, DOMAIN runs')
  BY IdleOK DEF CoreRestart
<1>6. TaskInv' /\ task' \in [Tasks -> Task]
  <2>1. Idle \in Task
    BY <1>5 DEF TaskOK
  <2> HIDE DEF Idle
  <2> QED BY <1>5, <2>1 DEF TaskInv
<1>7. count' \in [manual : Nat, errors : Nat, restarts : Nat]
  <2>1. count' = [count EXCEPT !.restarts = @ + 1]
    BY DEF CoreRestart
  <2> QED BY <1>t, <2>1 DEF TypeOK
<1>8. TypeOK'
  BY <1>t, <1>4, <1>6, <1>7 DEF CoreRestart, TypeOK
<1> QED BY <1>2, <1>3, <1>6, <1>8 DEF Good, JobInv, Keeps

(* Every step is well-typed and either changes runs legally or inserts one *)
(* that respects the overlap policy.                                       *)
LEMMA EveryStep == ASSUME JobInv, [Next]_vars PROVE Good
<1>t. TypeOK /\ TaskInv /\ runs \in Seq(Run) /\ Scheduler \in Tasks
      /\ \A c \in Clients : c \in Tasks
  BY DEF JobInv, TypeOK, Tasks
<1>1. ASSUME NEW d \in Tasks, DriveStep(d) PROVE Good
  BY <1>1, ReadSteps, WriteSteps DEF DriveStep
<1>2. CASE SchedulerStep
  BY <1>2, <1>1, <1>t, ClaimSteps DEF SchedulerStep
<1>3. ASSUME NEW c \in Clients, ClientStep(c) PROVE Good
  <2>1. CASE UpdateJob(c) \/ EnableJob(c) \/ insert_job_run(c)
    BY <2>1, RouteSteps
  <2>2. CASE CancelRun(c) \/ StopRuntime(c)
    BY <2>2, CancelSteps
  <2>3. CASE DriveStep(c)
    BY <2>3, <1>1, <1>t
  <2> QED BY <1>3, <2>1, <2>2, <2>3 DEF ClientStep
<1>4. ASSUME NEW c \in Clients,
             \/ \E j \in Jobs : LoadForRun(c, j) \/ \E r \in {"update", "enable"} : LoadJob(c, j, r)
             \/ \E i \in DOMAIN runs : LoadForCancel(c, i)
      PROVE  Good
  BY <1>4, RouteSteps, CancelSteps
<1>5. ASSUME NEW j \in Jobs, CreateJob(j) \/ DisableJob(j) PROVE Good
  BY <1>5, RouteSteps
<1>6. ASSUME NEW i \in DOMAIN runs,
             ProviderStep(i) \/ \E how \in RuntimeFaults : RuntimeEnds(i, how)
      PROVE  Good
  BY <1>6, ProviderSteps DEF ProviderStep
<1>7. ASSUME NEW d \in Tasks, TaskLost(d) PROVE Good
  <2> DEFINE t == [Idle EXCEPT !.at = "drive"]
  <2>1. Error /\ UNCHANGED <<now, job, runs, owed>> /\ (Become(d, Idle) \/ Become(d, t))
    BY <1>7 DEF TaskLost
  <2>2. TaskOK(t, DOMAIN runs)
    BY DEF TaskOK, Idle, Task, Steps, OnJob, OnRun, NoRow, JobRow
  <2> HIDE DEF t
  <2> QED BY <2>1, <2>2, IdleOK, OnlyTask
<1>8. CASE TimePasses \/ UNCHANGED vars
  <2>1. UNCHANGED <<job, runs, task, owed, count>> /\ now' \in Nat
    BY <1>8, <1>t DEF TimePasses, vars, TypeOK
  <2>2. TypeOK' /\ TaskInv' /\ Keeps
    BY <2>1, <1>t, SameLegal DEF TypeOK, TaskInv
  <2> QED BY <2>2 DEF Good, JobInv
<1> QED BY <1>2, <1>3, <1>4, <1>5, <1>6, <1>7, <1>8, RestartStep DEF Next

-----------------------------------------------------------------------------
(* Nothing exists initially.                                               *)
LEMMA JobInit == Init => JobInv /\ StartInv /\ OneActive
<1> SUFFICES ASSUME Init PROVE JobInv /\ StartInv /\ OneActive
  OBVIOUS
<1>1. NoRow \in JobRow /\ Idle \in Task
  BY IdleOK DEF NoRow, JobRow, TaskOK
<1>2. runs = << >> /\ task = [d \in Tasks |-> Idle]
  BY DEF Init
<1>3. TaskInv
  BY <1>2, IdleOK DEF TaskInv
<1>4. job \in [Jobs -> JobRow] /\ task \in [Tasks -> Task] /\ owed \in [Jobs -> BOOLEAN]
  BY <1>1, <1>2 DEF Init
<1>5. now \in Nat /\ count \in [manual : Nat, errors : Nat, restarts : Nat]
  BY DEF Init
<1>6. TypeOK
  BY <1>2, <1>4, <1>5 DEF TypeOK
<1> QED BY <1>2, <1>3, <1>6 DEF JobInv, StartInv, OneActive

(* The record that Grows appends, and the rows it leaves alone.            *)
LEMMA GrowsRow ==
    ASSUME runs \in Seq(Run), NEW q, runs' = Append(runs, q)
    PROVE  /\ DOMAIN runs' = DOMAIN runs \cup {Len(runs) + 1}
           /\ runs'[Len(runs) + 1] = q /\ Len(runs) + 1 \notin DOMAIN runs
           /\ \A i \in DOMAIN runs : runs'[i] = runs[i]
  BY AppendProperties

(* A legal change keeps StartInv: a run is started when it leaves "queued",*)
(* and no run that has a runtime is queued again.                          *)
LEMMA StartNext == ASSUME JobInv, StartInv, Keeps \/ Grows PROVE StartInv'
<1>t. runs \in Seq(Run) /\ \A i \in DOMAIN runs : runs[i] \in Run
  BY RowType DEF JobInv, TypeOK
<1>1. CASE Keeps
  <2>1. ASSUME NEW i \in DOMAIN runs
        PROVE  /\ runs'[i].runtime = "none" => runs'[i].starts = 0
               /\ runs'[i].runtime # "none" => runs'[i].starts = 1
               /\ runs'[i].state = "queued" => runs'[i].runtime = "none"
    <3>1. Legal(runs[i], runs'[i]) /\ runs[i] \in Run
      BY <1>1, <1>t DEF Keeps
    <3>2. /\ runs[i].runtime = "none" => runs[i].starts = 0
          /\ runs[i].runtime # "none" => runs[i].starts = 1
          /\ runs[i].state = "queued" => runs[i].runtime = "none"
      BY DEF StartInv
    <3> QED BY <3>1, <3>2 DEF Legal
  <2> QED BY <1>1, <2>1 DEF Keeps, StartInv
<1>2. CASE Grows
  <2>1. PICK j \in Jobs, o \in Nat, c \in BOOLEAN :
           runs' = Append(runs, NewRun(j, o, FirstState(j), c))
    BY <1>2 DEF Grows
  <2> DEFINE q == NewRun(j, o, FirstState(j), c)
  <2>2. q.runtime = "none" /\ q.starts = 0
    BY DEF NewRun
  <2> HIDE DEF q
  <2>3. /\ DOMAIN runs' = DOMAIN runs \cup {Len(runs) + 1}
        /\ runs'[Len(runs) + 1] = q
        /\ \A i \in DOMAIN runs : runs'[i] = runs[i]
    BY <2>1, <1>t, GrowsRow DEF q
  <2> QED BY <2>2, <2>3 DEF StartInv
<1> QED BY <1>1, <1>2

(* A legal change keeps at most one active run of a job: nothing becomes   *)
(* active again, and a new run is active only if no other is.              *)
LEMMA ActiveNext == ASSUME JobInv, OneActive, Keeps \/ Grows PROVE OneActive'
<1>t. runs \in Seq(Run)
  BY DEF JobInv, TypeOK
<1>1. CASE Keeps
  <2>1. ASSUME NEW i \in DOMAIN runs, runs'[i].state \in Active
        PROVE  runs[i].state \in Active
    BY <1>1, <2>1 DEF Keeps, Legal
  <2>2. \A i \in DOMAIN runs : runs'[i].job = runs[i].job
    BY <1>1 DEF Keeps, Legal
  <2> QED BY <1>1, <2>1, <2>2 DEF Keeps, OneActive
<1>2. CASE Grows
  <2>1. PICK j \in Jobs, o \in Nat, c \in BOOLEAN :
           runs' = Append(runs, NewRun(j, o, FirstState(j), c))
    BY <1>2 DEF Grows
  <2> DEFINE q == NewRun(j, o, FirstState(j), c)
             n == Len(runs) + 1
  <2>2. q.job = j /\ q.state = FirstState(j)
    BY DEF NewRun
  <2>3. q.state \in Active => \A i \in DOMAIN runs : runs[i].job = j => runs[i].state \notin Active
    BY <2>2 DEF FirstState, Overlap, Active
  <2> HIDE DEF q
  <2>4. /\ DOMAIN runs' = DOMAIN runs \cup {n} /\ runs'[n] = q /\ n \notin DOMAIN runs
        /\ \A i \in DOMAIN runs : runs'[i] = runs[i]
    BY <2>1, <1>t, GrowsRow DEF q
  <2> HIDE DEF n
  <2> SUFFICES ASSUME NEW i \in DOMAIN runs', NEW k \in DOMAIN runs',
                      runs'[i].job = runs'[k].job,
                      runs'[i].state \in Active, runs'[k].state \in Active
               PROVE  i = k
    BY DEF OneActive
  <2>5. CASE i \in DOMAIN runs /\ k \in DOMAIN runs
    BY <2>4, <2>5 DEF OneActive
  <2>6. CASE i = n \/ k = n
    BY <2>2, <2>3, <2>4, <2>6
  <2> QED BY <2>4, <2>5, <2>6
<1> QED BY <1>1, <1>2

(* The jobs, runs and tasks keep their types in every behaviour.           *)
THEOREM TypeCorrect == Spec => []TypeOK
<1>1. Init => JobInv
  BY JobInit
<1>2. JobInv /\ [Next]_vars => JobInv'
  BY EveryStep DEF Good
<1>3. JobInv => TypeOK
  BY DEF JobInv
<1> QED BY <1>1, <1>2, <1>3, PTL DEF Spec

(* StartRuntime is recorded at most once for a run, however many drivers,  *)
(* restarts and lost requests there are: the claim of start_job_run and    *)
(* recover_job_runs never start a run twice.                               *)
THEOREM RunsStartOnce == Spec => []StartsOnce
<1>1. Init => JobInv /\ StartInv
  BY JobInit
<1>2. JobInv /\ StartInv /\ [Next]_vars => (JobInv /\ StartInv)'
  BY EveryStep, StartNext DEF Good
<1>3. StartInv => StartsOnce
  <2> SUFFICES ASSUME StartInv, NEW i \in DOMAIN runs PROVE runs[i].starts <= 1
    BY DEF StartsOnce
  <2>1. runs[i].starts = 0 \/ runs[i].starts = 1
    BY DEF StartInv
  <2> QED BY <2>1
<1> QED BY <1>1, <1>2, <1>3, PTL DEF Spec

(* A job has at most one active run, whoever inserts: the overlap check of *)
(* insert_job_run suffices without job_runs_one_active_idx.                *)
THEOREM OneRunIsActive == Spec => []OneActive
<1>1. Init => JobInv /\ OneActive
  BY JobInit
<1>2. JobInv /\ OneActive /\ [Next]_vars => (JobInv /\ OneActive)'
  BY EveryStep, ActiveNext DEF Good
<1> QED BY <1>1, <1>2, PTL DEF Spec

(* A run that ended never changes its state, although cancel, failure,     *)
(* success and link race: every conditional update names the states it     *)
(* leaves.                                                                 *)
THEOREM EndedRunsStay == Spec => TerminalStays
<1>1. Init => JobInv
  BY JobInit
<1>2. JobInv /\ [Next]_vars => JobInv'
  BY EveryStep DEF Good
<1>3. JobInv /\ [Next]_vars
        => [\A i \in DOMAIN runs : runs[i].state \notin Active
              => runs'[i].state = runs[i].state]_vars
  <2> SUFFICES ASSUME JobInv, [Next]_vars, NEW i \in DOMAIN runs,
                      runs[i].state \notin Active
               PROVE  runs'[i].state = runs[i].state
    OBVIOUS
  <2>1. CASE Keeps
    BY <2>1 DEF Keeps, Legal
  <2>2. CASE Grows
    <3>1. runs \in Seq(Run)
      BY DEF JobInv, TypeOK
    <3>2. runs'[i] = runs[i]
      BY <2>2, <3>1, GrowsRow DEF Grows
    <3> QED BY <3>2
  <2> QED BY <2>1, <2>2, EveryStep DEF Good
<1> QED BY <1>1, <1>2, <1>3, PTL DEF Spec, TerminalStays

-----------------------------------------------------------------------------
(* Turns.  The link of a run is written once, by LinkTurn while the run is *)
(* starting; from then on the run keeps it, its session keeps the turn and *)
(* a completed turn stays completed.  What ReadTurn saw is therefore still *)
(* so when Succeed is written, whatever happened between the two.          *)
Unstarted == {"queued", "starting"}
Linked(r) == r.turn \in DOMAIN r.turns
Done(r) == Linked(r) /\ r.turns[r.turn] = "completed"

RowTurns(r) ==
    /\ r.state \in {"running", "succeeded"} => Linked(r)
    /\ r.state = "succeeded" => Done(r)

(* What a task at one of these steps knows of the run it works on.         *)
TaskTurns(t, rs) ==
    /\ t.at = "link" => t.turn \in DOMAIN rs[t.run].turns
    /\ t.at \in {"turn", "succeed"} => /\ rs[t.run].state \notin Unstarted
                                       /\ Linked(rs[t.run])
    /\ t.at = "succeed" => Done(rs[t.run])

TurnInv ==
    /\ \A i \in DOMAIN runs : RowTurns(runs[i])
    /\ \A d \in Tasks : TaskTurns(task[d], runs)

(* Without the route that starts a run by hand only the scheduler drives,  *)
(* and it submits for a run that had no turn when it looked.               *)
NotDriving == {"idle", "update", "enable", "cancel", "stop"}
LoneInv ==
    /\ \A c \in Clients : task[c].at \in NotDriving
    /\ task[Scheduler].at = "submit" => runs[task[Scheduler].run].turns = << >>
    /\ OneTurn

(* A step may add turns to a run and end them, but it undoes no completed  *)
(* turn and moves no link.                                                 *)
Onward(r, q) ==
    /\ DOMAIN r.turns \subseteq DOMAIN q.turns
    /\ \A k \in DOMAIN r.turns : r.turns[k] = "completed" => q.turns[k] = "completed"
    /\ r.state \notin Unstarted => q.state \notin Unstarted /\ q.turn = r.turn

(* Only a task that submits adds a turn, one at a time.                    *)
Submits(d, i) ==
    /\ task[d].at = "submit" /\ task[d].run = i /\ task'[d].at # "submit"
    /\ Len(runs'[i].turns) = Len(runs[i].turns) + 1

Turning == {"submit", "link", "turn", "succeed"}

(* What a task knows when it has just come to a step.                      *)
Fresh(t, rs) ==
    /\ TaskTurns(t, rs)
    /\ t.at = "submit" => rs[t.run].turns = << >>

RowsMove ==
    /\ DOMAIN runs \subseteq DOMAIN runs'
    /\ \A i \in DOMAIN runs :
          /\ Onward(runs[i], runs'[i])
          /\ \/ Len(runs'[i].turns) = Len(runs[i].turns)
             \/ \E d \in Tasks : Submits(d, i)
    /\ \A i \in DOMAIN runs' : RowTurns(runs'[i])
    /\ \A i \in DOMAIN runs' \ DOMAIN runs : runs'[i].turns = << >>
TasksMove == \A d \in Tasks : task'[d] = task[d] \/ Fresh(task'[d], runs')
TurnsMove == RowsMove /\ TasksMove

(* What a task knew of its run stays so.                                   *)
LEMMA StillKnown ==
    ASSUME NEW t, NEW rs, NEW qs, Onward(rs[t.run], qs[t.run]), TaskTurns(t, rs)
    PROVE  TaskTurns(t, qs)
  BY DEF TaskTurns, Onward, Linked, Done

(* A table that stays, or grows by a run without turns, moves onward.      *)
LEMMA RowsStay == ASSUME JobInv, TurnInv, runs' = runs PROVE RowsMove
<1>1. \A i \in DOMAIN runs : Onward(runs[i], runs'[i])
  BY DEF Onward
<1> QED BY <1>1 DEF RowsMove, TurnInv

(* A new run has no turn and is not finished with one.                     *)
LEMMA RowsGrow ==
    ASSUME JobInv, TurnInv, NEW j \in Jobs, NEW o \in Nat, NEW c \in BOOLEAN,
           runs' = Append(runs, NewRun(j, o, FirstState(j), c))
    PROVE  RowsMove
<1> DEFINE q == NewRun(j, o, FirstState(j), c)
<1>1. q.turns = << >> /\ q.state \in {"skipped", "queued"}
  BY DEF NewRun, FirstState
<1>2. RowTurns(q)
  <2> HIDE DEF q
  <2> QED BY <1>1 DEF RowTurns
<1>3. runs \in Seq(Run)
  BY DEF JobInv, TypeOK
<1> HIDE DEF q
<1>4. /\ DOMAIN runs' = DOMAIN runs \cup {Len(runs) + 1} /\ runs'[Len(runs) + 1] = q
      /\ Len(runs) + 1 \notin DOMAIN runs
      /\ \A i \in DOMAIN runs : runs'[i] = runs[i]
  BY <1>3, GrowsRow DEF q
<1>5. \A i \in DOMAIN runs : Onward(runs[i], runs'[i])
  BY <1>4 DEF Onward
<1>6. \A i \in DOMAIN runs' : RowTurns(runs'[i])
  BY <1>1, <1>2, <1>4 DEF TurnInv
<1>7. \A i \in DOMAIN runs' \ DOMAIN runs : runs'[i].turns = << >>
  BY <1>1, <1>4
<1> QED BY <1>4, <1>5, <1>6, <1>7 DEF RowsMove

(* So does a table in which one run moves onward.                          *)
LEMMA RowsPut ==
    ASSUME JobInv, TurnInv, NEW i \in DOMAIN runs, NEW q,
           runs' = [runs EXCEPT ![i] = q],
           Onward(runs[i], q), RowTurns(q),
           \/ Len(q.turns) = Len(runs[i].turns)
           \/ \E d \in Tasks : Submits(d, i)
    PROVE  RowsMove
<1>1. runs \in Seq(Run)
  BY DEF JobInv, TypeOK
<1>2. DOMAIN runs' = DOMAIN runs /\ runs'[i] = q
      /\ \A k \in DOMAIN runs : k # i => runs'[k] = runs[k]
  BY <1>1
<1>3. ASSUME NEW k \in DOMAIN runs
      PROVE  /\ Onward(runs[k], runs'[k]) /\ RowTurns(runs'[k])
             /\ \/ Len(runs'[k].turns) = Len(runs[k].turns)
                \/ \E d \in Tasks : Submits(d, k)
  <2>1. CASE k = i BY <1>2, <2>1
  <2>2. CASE k # i
    <3>1. runs'[k] = runs[k] /\ RowTurns(runs[k])
      BY <1>2, <2>2 DEF TurnInv
    <3> QED BY <3>1 DEF Onward
  <2> QED BY <2>1, <2>2
<1> QED BY <1>2, <1>3 DEF RowsMove

(* A step of one task leaves the others where they are.                    *)
LEMMA OneTask ==
    ASSUME JobInv, NEW d \in Tasks, NEW t, Become(d, t), Fresh(t, runs')
    PROVE  TasksMove
<1>1. task' = [task EXCEPT ![d] = t] /\ task \in [Tasks -> Task]
  BY DEF Become, JobInv, TypeOK
<1> QED BY <1>1 DEF TasksMove

(* A task that is not about to use a turn needs to know nothing.           *)
LEMMA QuietFresh == ASSUME NEW t, NEW rs, t.at \notin Turning PROVE Fresh(t, rs)
  BY DEF Fresh, TaskTurns, Turning

(* One task goes to a step at which it uses no turn.                       *)
LEMMA Quiet ==
    ASSUME JobInv, NEW d \in Tasks, NEW t, Become(d, t), t.at \notin Turning
    PROVE  TasksMove
  BY OneTask, QuietFresh

(* The steps that use no turn.                                             *)
LEMMA QuietMoves ==
    ASSUME NEW d \in Tasks, task[d] \in Task
    PROVE  /\ Idle.at \notin Turning /\ NextRun(task[d]).at \notin Turning
           /\ [Idle EXCEPT !.at = "drive"].at \notin Turning
           /\ \A s : s \notin Turning => [task[d] EXCEPT !.at = s].at \notin Turning
  BY DEF Idle, NextRun, Turning, Task

(* The routes, the claims and what ends a task: no run that is there moves.*)
LEMMA IdleTurns ==
    ASSUME JobInv, TurnInv,
           \/ \E j \in Jobs : CreateJob(j) \/ DisableJob(j)
           \/ \E c \in Clients :
                 \/ UpdateJob(c) \/ EnableJob(c) \/ insert_job_run(c)
                 \/ \E j \in Jobs : LoadForRun(c, j)
                                  \/ \E r \in {"update", "enable"} : LoadJob(c, j, r)
                 \/ \E i \in DOMAIN runs : LoadForCancel(c, i)
           \/ FetchDue \/ ClaimDue \/ EndDue \/ (\E j \in Jobs : LoadDue(j))
           \/ (\E d \in Tasks : TaskLost(d))
           \/ TimePasses \/ UNCHANGED vars
    PROVE  TurnsMove
<1>t. Scheduler \in Tasks /\ \A c \in Clients : c \in Tasks
  BY DEF Tasks
<1>k. \A d \in Tasks : task[d] \in Task
  BY Holds
<1>m. \A d \in Tasks :
         /\ Idle.at \notin Turning
         /\ [Idle EXCEPT !.at = "drive"].at \notin Turning
         /\ \A s : s \notin Turning => [task[d] EXCEPT !.at = s].at \notin Turning
  BY <1>k, QuietMoves
<1>1. CASE \/ \E j \in Jobs : CreateJob(j) \/ DisableJob(j)
           \/ TimePasses \/ UNCHANGED vars
  <2>1. UNCHANGED <<runs, task>>
    BY <1>1 DEF CreateJob, DisableJob, TimePasses, vars
  <2> QED BY <2>1, RowsStay DEF TurnsMove, TasksMove
<1>2. ASSUME NEW c \in Clients, UpdateJob(c) \/ EnableJob(c) PROVE TurnsMove
  <2>1. runs' = runs /\ Become(c, Idle)
    BY <1>2 DEF UpdateJob, EnableJob
  <2> QED BY <2>1, <1>t, <1>m, RowsStay, Quiet DEF TurnsMove
<1>3. ASSUME NEW c \in Clients, insert_job_run(c) PROVE TurnsMove
  <2>1. Become(c, [Idle EXCEPT !.at = "drive"])
    BY <1>3 DEF insert_job_run
  <2>2. task[c].of \in Jobs /\ task[c].old.continue_after_error \in BOOLEAN
    BY <1>3, <1>t, Holds DEF insert_job_run, OnJob, Task, JobRow
  <2>3. runs' = Append(runs, NewRun(task[c].of, 0, FirstState(task[c].of),
                                    task[c].old.continue_after_error))
    BY <1>3 DEF insert_job_run
  <2>4. RowsMove
    BY <2>2, <2>3, RowsGrow
  <2> QED BY <2>1, <2>4, <1>t, <1>m, Quiet DEF TurnsMove
<1>4. ASSUME NEW c \in Clients,
             \/ \E j \in Jobs : LoadForRun(c, j)
                               \/ \E r \in {"update", "enable"} : LoadJob(c, j, r)
             \/ \E i \in DOMAIN runs : LoadForCancel(c, i)
      PROVE  TurnsMove
  <2>1. runs' = runs
    BY <1>4 DEF LoadForRun, LoadJob, LoadForCancel
  <2>2. PICK t : Become(c, t) /\ t.at \notin Turning
    <3>1. ASSUME NEW j \in Jobs, LoadForRun(c, j)
          PROVE  \E t : Become(c, t) /\ t.at \notin Turning
      <4> DEFINE t == [Idle EXCEPT !.at = "insert", !.of = j, !.old = job[j]]
      <4>1. t.at = "insert"
        BY DEF Idle
      <4>2. Become(c, t)
        BY <3>1 DEF LoadForRun
      <4> HIDE DEF t
      <4> QED BY <4>1, <4>2 DEF Turning
    <3>2. ASSUME NEW j \in Jobs, NEW r \in {"update", "enable"}, LoadJob(c, j, r)
          PROVE  \E t : Become(c, t) /\ t.at \notin Turning
      <4> DEFINE t == [Idle EXCEPT !.at = r, !.of = j, !.old = job[j],
                               !.upcoming = next_job_run_at(now)]
      <4>1. t.at = r
        BY DEF Idle
      <4>2. Become(c, t)
        BY <3>2 DEF LoadJob
      <4> HIDE DEF t
      <4> QED BY <4>1, <4>2 DEF Turning
    <3>3. ASSUME NEW i \in DOMAIN runs, LoadForCancel(c, i)
          PROVE  \E t : Become(c, t) /\ t.at \notin Turning
      <4> DEFINE t == [Idle EXCEPT !.at = "cancel", !.run = i, !.had_session = HasSession(i)]
      <4>1. t.at = "cancel"
        BY DEF Idle
      <4>2. Become(c, t)
        BY <3>3 DEF LoadForCancel
      <4> HIDE DEF t
      <4> QED BY <4>1, <4>2 DEF Turning
    <3> QED BY <1>4, <3>1, <3>2, <3>3
  <2> QED BY <2>1, <2>2, <1>t, RowsStay, Quiet DEF TurnsMove
<1>5. CASE FetchDue \/ EndDue \/ (\E j \in Jobs : LoadDue(j))
  <2>1. runs' = runs
    BY <1>5 DEF FetchDue, EndDue, LoadDue
  <2>2. PICK t : Become(Scheduler, t) /\ t.at \notin Turning
    <3>1. CASE FetchDue
      <4> DEFINE t == [Idle EXCEPT !.at = "due", !.due = {j \in Jobs : IsDue(job[j])}]
      <4>1. t.at = "due"
        BY DEF Idle
      <4>2. Become(Scheduler, t)
        BY <3>1 DEF FetchDue
      <4> HIDE DEF t
      <4> QED BY <4>1, <4>2 DEF Turning
    <3>2. CASE EndDue
      BY <3>2, <1>t, <1>m DEF EndDue, Goto, Turning
    <3>3. ASSUME NEW j \in Jobs, LoadDue(j)
          PROVE  \E t : Become(Scheduler, t) /\ t.at \notin Turning
      <4> DEFINE rest == [task[Scheduler] EXCEPT !.due = @ \ {j}]
                 took == [rest EXCEPT !.at = "claim", !.of = j, !.old = job[j],
                                      !.upcoming = next_job_run_at(now)]
      <4>1. task[Scheduler].at = "due" /\ task[Scheduler] \in Task
        BY <3>3, <1>t, <1>k DEF LoadDue
      <4>2. rest.at = "due" /\ took.at = "claim"
        BY <4>1 DEF Task
      <4>3. Become(Scheduler, rest) \/ Become(Scheduler, took)
        BY <3>3 DEF LoadDue
      <4> HIDE DEF rest, took
      <4> QED BY <4>2, <4>3 DEF Turning
    <3> QED BY <1>5, <3>1, <3>2, <3>3
  <2> QED BY <2>1, <2>2, <1>t, RowsStay, Quiet DEF TurnsMove
<1>6. CASE ClaimDue
  <2>1. PICK t : Become(Scheduler, t) /\ t.at \notin Turning
    <3> DEFINE back == [Idle EXCEPT !.at = "due", !.due = task[Scheduler].due]
               drive == [Idle EXCEPT !.at = "drive"]
    <3>1. back.at = "due" /\ drive.at = "drive"
      BY DEF Idle
    <3>2. Become(Scheduler, back) \/ Become(Scheduler, drive)
      BY <1>6 DEF ClaimDue
    <3> HIDE DEF back, drive
    <3> QED BY <3>1, <3>2 DEF Turning
  <2>2. /\ task[Scheduler].of \in Jobs /\ task[Scheduler].old.next \in Nat
        /\ task[Scheduler].old.continue_after_error \in BOOLEAN
    BY <1>6, <1>t, <1>k, Holds DEF ClaimDue, OnJob, Task, JobRow
  <2>3. \/ runs' = runs
        \/ runs' = Append(runs, NewRun(task[Scheduler].of, task[Scheduler].old.next,
                                       FirstState(task[Scheduler].of),
                                       task[Scheduler].old.continue_after_error))
    BY <1>6 DEF ClaimDue
  <2>4. RowsMove
    BY <2>2, <2>3, RowsStay, RowsGrow
  <2> QED BY <2>1, <2>4, <1>t, Quiet DEF TurnsMove
<1>7. ASSUME NEW d \in Tasks, TaskLost(d) PROVE TurnsMove
  <2>1. runs' = runs
        /\ (Become(d, Idle) \/ Become(d, [Idle EXCEPT !.at = "drive"]))
    BY <1>7 DEF TaskLost
  <2> QED BY <2>1, <1>m, RowsStay, Quiet DEF TurnsMove
<1> QED BY <1>1, <1>2, <1>3, <1>4, <1>5, <1>6, <1>7

(* A row that keeps its turns and its link, and does not come to an end    *)
(* that needs one.                                                         *)
LEMMA RowSame ==
    ASSUME NEW r, NEW q, RowTurns(r), q.turns = r.turns, q.turn = r.turn,
           q.state = r.state \/ q.state \in {"failed", "timed_out", "cancelled"}
                            \/ (r.state \in Unstarted /\ q.state \in Unstarted)
    PROVE  Onward(r, q) /\ RowTurns(q) /\ Len(q.turns) = Len(r.turns)
  BY DEF Onward, RowTurns, Linked, Done, Unstarted

(* Cancellation, the Node and the provider.                                *)
LEMMA OutsideTurns ==
    ASSUME JobInv, TurnInv,
           \/ \E c \in Clients : CancelRun(c) \/ StopRuntime(c)
           \/ \E i \in DOMAIN runs :
                 ProviderStep(i) \/ \E how \in RuntimeFaults : RuntimeEnds(i, how)
    PROVE  TurnsMove
<1>t. \A i \in DOMAIN runs : runs[i] \in Run
  BY RowType DEF JobInv
<1>1. ASSUME NEW c \in Clients, CancelRun(c) PROVE TurnsMove
  <2> DEFINE i == task[c].run
             q == [runs[i] EXCEPT !.state = "cancelled"]
  <2>1. c \in Tasks /\ task[c] \in Task /\ i \in DOMAIN runs /\ runs[i] \in Run
    BY <1>1, Holds DEF CancelRun, OnRun, Tasks
  <2>2. Become(c, Idle) \/ Become(c, [task[c] EXCEPT !.at = "stop"])
    BY <1>1 DEF CancelRun, Goto
  <2>3. TasksMove
    BY <2>1, <2>2, QuietMoves, Quiet DEF Turning
  <2>4. runs' = runs \/ runs' = [runs EXCEPT ![i] = q]
    BY <1>1, <2>1 DEF CancelRun
  <2>5. q.turns = runs[i].turns /\ q.turn = runs[i].turn /\ q.state = "cancelled"
    BY <2>1 DEF Run
  <2>6. RowTurns(runs[i])
    BY <2>1 DEF TurnInv
  <2> HIDE DEF q
  <2>7. Onward(runs[i], q) /\ RowTurns(q) /\ Len(q.turns) = Len(runs[i].turns)
    BY <2>5, <2>6, RowSame
  <2> HIDE DEF i
  <2> QED BY <2>1, <2>3, <2>4, <2>7, RowsStay, RowsPut DEF TurnsMove
<1>2. ASSUME NEW c \in Clients, StopRuntime(c) PROVE TurnsMove
  <2> DEFINE i == task[c].run
             q == [runs[i] EXCEPT !.stop = TRUE]
  <2>1. c \in Tasks /\ task[c] \in Task /\ i \in DOMAIN runs /\ runs[i] \in Run
    BY <1>2, Holds DEF StopRuntime, OnRun, Tasks
  <2>2. Become(c, Idle)
    BY <1>2 DEF StopRuntime
  <2>3. TasksMove
    BY <2>1, <2>2, QuietMoves, Quiet
  <2>4. runs' = runs \/ runs' = [runs EXCEPT ![i] = q]
    BY <1>2, <2>1 DEF StopRuntime
  <2>5. q.turns = runs[i].turns /\ q.turn = runs[i].turn /\ q.state = runs[i].state
    BY <2>1 DEF Run
  <2>6. RowTurns(runs[i])
    BY <2>1 DEF TurnInv
  <2> HIDE DEF q
  <2>7. Onward(runs[i], q) /\ RowTurns(q) /\ Len(q.turns) = Len(runs[i].turns)
    BY <2>5, <2>6, RowSame
  <2> HIDE DEF i
  <2> QED BY <2>1, <2>3, <2>4, <2>7, RowsStay, RowsPut DEF TurnsMove
<1>3. ASSUME NEW i \in DOMAIN runs, NEW s, runs' = [runs EXCEPT ![i].runtime = s],
             task' = task
      PROVE  TurnsMove
  <2> DEFINE q == [runs[i] EXCEPT !.runtime = s]
  <2>1. runs' = [runs EXCEPT ![i] = q]
    BY <1>3
  <2>2. q.turns = runs[i].turns /\ q.turn = runs[i].turn /\ q.state = runs[i].state
    BY <1>t DEF Run
  <2> HIDE DEF q
  <2>3. Onward(runs[i], q) /\ RowTurns(q) /\ Len(q.turns) = Len(runs[i].turns)
    BY <2>2, RowSame DEF TurnInv
  <2> QED BY <1>3, <2>1, <2>3, RowsPut DEF TurnsMove, TasksMove
<1>4. ASSUME NEW i \in DOMAIN runs, NEW k \in DOMAIN runs[i].turns,
             TurnStarts(i, k) \/ TurnEnds(i, k)
      PROVE  TurnsMove
  <2>1. PICK s, r : /\ runs' = [runs EXCEPT ![i].turns[k] = s, ![i].runtime = r]
                    /\ runs[i].turns[k] # "completed" /\ task' = task
    BY <1>4 DEF TurnStarts, TurnEnds
  <2> DEFINE ts == [runs[i].turns EXCEPT ![k] = s]
             q == [runs[i] EXCEPT !.turns = ts, !.runtime = r]
  <2>2. runs' = [runs EXCEPT ![i] = q]
    BY <2>1, <1>t DEF Run
  <2>3. runs[i].turns \in Seq(TurnStates) /\ RowTurns(runs[i])
    BY <1>t DEF Run, TurnInv
  <2>4. /\ DOMAIN ts = DOMAIN runs[i].turns /\ Len(ts) = Len(runs[i].turns)
        /\ \A m \in DOMAIN runs[i].turns : runs[i].turns[m] = "completed"
              => ts[m] = "completed"
    BY <2>1, <2>3
  <2> HIDE DEF ts
  <2>5. q.turns = ts /\ q.turn = runs[i].turn /\ q.state = runs[i].state
    BY <1>t DEF Run
  <2> HIDE DEF q
  <2>6. Onward(runs[i], q) /\ RowTurns(q) /\ Len(q.turns) = Len(runs[i].turns)
    BY <2>3, <2>4, <2>5 DEF Onward, RowTurns, Linked, Done
  <2> QED BY <2>1, <2>2, <2>6, RowsPut DEF TurnsMove, TasksMove
<1>5. ASSUME NEW i \in DOMAIN runs,
             \/ RuntimeReady(i) \/ RuntimeStops(i)
             \/ \E how \in RuntimeFaults : RuntimeEnds(i, how)
      PROVE  TurnsMove
  BY <1>3, <1>5 DEF RuntimeReady, RuntimeStops, RuntimeEnds
<1> QED BY <1>1, <1>2, <1>4, <1>5 DEF ProviderStep

(* The steps of a driver that only read: what it reads is what it knows.   *)
LEMMA ReadTurns ==
    ASSUME JobInv, TurnInv, NEW d \in Tasks,
           \/ FetchRuns(d) \/ LoadRun(d) \/ EndDrive(d) \/ LoadDetail(d)
           \/ LookTurn(d) \/ ReadTurn(d) \/ ReadRuntime(d) \/ PauseJob(d)
    PROVE  TurnsMove
<1>t. \A i \in DOMAIN runs : runs[i] \in Run
  BY RowType DEF JobInv
<1>u. runs' = runs
  BY DEF FetchRuns, LoadRun, EndDrive, LoadDetail, LookTurn, ReadTurn, ReadRuntime, PauseJob
<1>w. RowsMove
  BY <1>u, RowsStay
<1>k. task[d] \in Task /\ TaskTurns(task[d], runs)
  BY Holds DEF TurnInv
<1>r. task[d].at \in OnRun => task[d].run \in DOMAIN runs
  BY Holds
<1>m. /\ Idle.at \notin Turning /\ NextRun(task[d]).at \notin Turning
      /\ \A s : s \notin Turning => [task[d] EXCEPT !.at = s].at \notin Turning
  BY <1>k, QuietMoves
<1>q. ASSUME NEW t, Become(d, t), t.at \notin Turning PROVE TurnsMove
  BY <1>q, <1>w, Quiet DEF TurnsMove
<1>f. ASSUME NEW t, Become(d, t), Fresh(t, runs) PROVE TurnsMove
  BY <1>f, <1>u, <1>w, OneTask DEF TurnsMove
<1>1. CASE FetchRuns(d)
  <2> DEFINE t == [Idle EXCEPT !.at = "next",
                               !.todo = {i \in DOMAIN runs : runs[i].state \in Active}]
  <2>1. t.at = "next" /\ Become(d, t)
    BY <1>1 DEF FetchRuns, Idle
  <2> HIDE DEF t
  <2> QED BY <2>1, <1>q DEF Turning
<1>2. CASE LoadRun(d)
  <2>1. PICK i \in task[d].todo :
           Become(d, [Idle EXCEPT !.at = StepFor(i), !.todo = task[d].todo \ {i},
                                  !.run = IF StepFor(i) = "next" THEN 0 ELSE i,
                                  !.cont = StepFor(i) # "next" /\ runs[i].cont])
    BY <1>2 DEF LoadRun
  <2> DEFINE s == StepFor(i)
             r == IF s = "next" THEN 0 ELSE i
             t == [Idle EXCEPT !.at = s, !.todo = task[d].todo \ {i}, !.run = r,
                               !.cont = s # "next" /\ runs[i].cont]
  <2>2. i \in DOMAIN runs
    BY Holds DEF TaskOK
  <2>3. s \in {"start", "detail", "next"} \/ (s = "turn" /\ runs[i].state = "running")
    BY DEF StepFor
  <2>4. t.at = s /\ t.run = r /\ Become(d, t)
    BY <2>1 DEF Idle
  <2>5. runs[i].state = "running" => runs[i].state \notin Unstarted /\ Linked(runs[i])
    BY <2>2 DEF TurnInv, RowTurns, Unstarted
  <2>6. s = "turn" => r = i
    OBVIOUS
  <2> HIDE DEF t, r, s
  <2>7. CASE s = "turn"
    <3>1. Fresh(t, runs)
      BY <2>3, <2>4, <2>5, <2>6, <2>7 DEF Fresh, TaskTurns
    <3> QED BY <2>4, <3>1, <1>f
  <2>8. CASE s # "turn"
    BY <2>3, <2>4, <2>8, <1>q DEF Turning
  <2> QED BY <2>7, <2>8
<1>3. CASE EndDrive(d)
  BY <1>3, <1>m, <1>q DEF EndDrive
<1>4. CASE LoadDetail(d)
  <2> DEFINE t == [task[d] EXCEPT !.at = "turns",
                                  !.ready = (runs[task[d].run].runtime = "ready")]
  <2>1. Become(d, t) \/ Become(d, [task[d] EXCEPT !.at = "fail"])
    BY <1>4 DEF LoadDetail, Goto
  <2>2. t.at = "turns" /\ [task[d] EXCEPT !.at = "fail"].at \notin Turning
    BY <1>k, <1>m DEF Task, Turning
  <2> HIDE DEF t
  <2> QED BY <2>1, <2>2, <1>q DEF Turning
<1>5. CASE LookTurn(d)
  <2> DEFINE i == task[d].run
             linking == [task[d] EXCEPT !.at = "link", !.turn = 1]
             submitting == [task[d] EXCEPT !.at = "submit"]
  <2>1. \/ runs[i].turns # << >> /\ Become(d, linking)
        \/ runs[i].turns = << >> /\ Become(d, submitting)
        \/ Become(d, NextRun(task[d]))
    BY <1>5 DEF LookTurn, Goto
  <2>2. i \in DOMAIN runs /\ runs[i].turns \in Seq(TurnStates)
    BY <1>5, <1>r, <1>t DEF LookTurn, OnRun, Run
  <2>3. /\ linking.at = "link" /\ linking.turn = 1 /\ linking.run = i
        /\ submitting.at = "submit" /\ submitting.run = i
    BY <1>k DEF Task
  <2> HIDE DEF linking, submitting
  <2>4. runs[i].turns # << >> => Fresh(linking, runs)
    <3>1. runs[i].turns # << >> => 1 \in DOMAIN runs[i].turns
      BY <2>2, EmptySeq
    <3> QED BY <2>3, <3>1 DEF Fresh, TaskTurns
  <2>5. runs[i].turns = << >> => Fresh(submitting, runs)
    BY <2>3 DEF Fresh, TaskTurns
  <2> QED BY <2>1, <2>4, <2>5, <1>m, <1>q, <1>f
<1>6. CASE ReadTurn(d)
  <2> DEFINE i == task[d].run
             r == runs[i]
             won == [task[d] EXCEPT !.at = "succeed"]
  <2>1. \/ r.turns[r.turn] = "completed" /\ Become(d, won)
        \/ Become(d, [task[d] EXCEPT !.at = "fail"])
        \/ Become(d, [task[d] EXCEPT !.at = "runtime"])
    BY <1>6 DEF ReadTurn, Goto
  <2>2. r.state \notin Unstarted /\ Linked(r)
    BY <1>6, <1>k DEF ReadTurn, TaskTurns
  <2>3. won.at = "succeed" /\ won.run = i
    BY <1>k DEF Task
  <2> HIDE DEF won
  <2>4. r.turns[r.turn] = "completed" => Fresh(won, runs)
    BY <2>2, <2>3 DEF Fresh, TaskTurns, Done
  <2> QED BY <2>1, <2>4, <1>m, <1>q, <1>f DEF Turning
<1>7. CASE ReadRuntime(d)
  <2>1. \/ Become(d, NextRun(task[d])) \/ Become(d, [task[d] EXCEPT !.at = "fail"])
        \/ Become(d, [task[d] EXCEPT !.at = "time_out"])
    BY <1>7 DEF ReadRuntime, Goto
  <2> QED BY <2>1, <1>m, <1>q DEF Turning
<1>8. CASE PauseJob(d)
  BY <1>8, <1>m, <1>q DEF PauseJob
<1> QED BY <1>1, <1>2, <1>3, <1>4, <1>5, <1>6, <1>7, <1>8

(* The steps of a driver that write its run.                               *)
LEMMA WriteTurns ==
    ASSUME JobInv, TurnInv, NEW d \in Tasks,
           \/ start_job_run(d) \/ SubmitTurn(d) \/ LinkTurn(d) \/ Succeed(d) \/ FailRun(d)
    PROVE  TurnsMove
<1> DEFINE i == task[d].run
           r == runs[i]
<1>k. task[d] \in Task /\ TaskTurns(task[d], runs)
  BY Holds DEF TurnInv
<1>r. i \in DOMAIN runs /\ r \in Run /\ RowTurns(r)
  BY Holds DEF start_job_run, SubmitTurn, LinkTurn, Succeed, FailRun, OnRun, TurnInv
<1>m. /\ Idle.at \notin Turning /\ NextRun(task[d]).at \notin Turning
      /\ \A s : s \notin Turning => [task[d] EXCEPT !.at = s].at \notin Turning
  BY <1>k, QuietMoves
<1>p. ASSUME NEW q, runs' = runs \/ runs' = [runs EXCEPT ![i] = q],
             Onward(r, q), RowTurns(q), Len(q.turns) = Len(r.turns)
      PROVE  RowsMove
  BY <1>p, <1>r, RowsStay, RowsPut
<1>1. CASE start_job_run(d)
  <2> DEFINE q == [r EXCEPT !.state = "starting", !.runtime = "starting", !.starts = @ + 1]
  <2>1. Become(d, [task[d] EXCEPT !.at = "fail"]) \/ Become(d, NextRun(task[d]))
    BY <1>1 DEF start_job_run, Goto
  <2>2. TasksMove
    BY <2>1, <1>m, Quiet DEF Turning
  <2>3. runs' = runs \/ (r.state = "queued" /\ runs' = [runs EXCEPT ![i] = q])
    BY <1>1, <1>r DEF start_job_run
  <2>4. q.turns = r.turns /\ q.turn = r.turn /\ q.state = "starting"
    BY <1>r DEF Run
  <2> HIDE DEF q
  <2>5. r.state = "queued"
          => Onward(r, q) /\ RowTurns(q) /\ Len(q.turns) = Len(r.turns)
    BY <1>r, <2>4, RowSame DEF Unstarted
  <2> HIDE DEF i, r
  <2>6. RowsMove
    BY <2>3, <2>5, <1>p, RowsStay
  <2> QED BY <2>2, <2>6 DEF TurnsMove
<1>2. CASE SubmitTurn(d)
  <2> DEFINE ts == Append(r.turns, "created")
             q == [r EXCEPT !.turns = ts]
             t == [task[d] EXCEPT !.at = "link", !.turn = Len(runs'[i].turns)]
  <2>1. /\ task[d].at = "submit"
        /\ \/ runs' = [runs EXCEPT ![i] = q] /\ (Become(d, t) \/ Become(d, Idle))
           \/ runs' = runs /\ Become(d, Idle)
    BY <1>2, <1>r DEF SubmitTurn
  <2>2. r.turns \in Seq(TurnStates)
    BY <1>r DEF Run
  <2>3. /\ Len(ts) = Len(r.turns) + 1 /\ Len(ts) \in DOMAIN ts
        /\ DOMAIN r.turns \subseteq DOMAIN ts
        /\ \A k \in DOMAIN r.turns : ts[k] = r.turns[k]
    BY <2>2, AppendProperties DEF TurnStates
  <2> HIDE DEF ts
  <2>4. q.turns = ts /\ q.turn = r.turn /\ q.state = r.state
    BY <1>r DEF Run
  <2> HIDE DEF q
  <2>5. Onward(r, q) /\ RowTurns(q)
    BY <1>r, <2>3, <2>4 DEF Onward, RowTurns, Linked, Done
  <2>6. CASE runs' = runs
    <3>1. Become(d, Idle)
      BY <2>1, <2>3, <2>4, <2>6, <1>r
    <3> QED BY <3>1, <2>6, <1>m, RowsStay, Quiet DEF TurnsMove
  <2>7. CASE runs' = [runs EXCEPT ![i] = q]
    <3>1. runs'[i] = q
      BY <2>7, <1>r
    <3>2. t.at = "link" /\ t.run = i /\ t.turn = Len(ts)
      BY <1>k, <3>1, <2>4 DEF Task
    <3> HIDE DEF t
    <3>3. Fresh(t, runs')
      BY <2>3, <2>4, <3>1, <3>2 DEF Fresh, TaskTurns
    <3>4. Become(d, t) \/ Become(d, Idle)
      BY <2>1
    <3>5. TasksMove
      BY <3>3, <3>4, <1>m, OneTask, Quiet
    <3>6. task'[d].at # "submit"
      <4>1. task' = [task EXCEPT ![d] = t] \/ task' = [task EXCEPT ![d] = Idle]
        BY <3>4 DEF Become
      <4>2. task'[d] = t \/ task'[d] = Idle
        BY <4>1 DEF JobInv, TypeOK
      <4> QED BY <4>2, <3>2, <1>m DEF Turning
    <3>7. Submits(d, i)
      BY <2>1, <2>3, <2>4, <3>1, <3>6 DEF Submits
    <3>8. RowsMove
      BY <1>r, <2>5, <2>7, <3>7, RowsPut
    <3> QED BY <3>5, <3>8 DEF TurnsMove
  <2> QED BY <2>1, <2>6, <2>7
<1>3. CASE LinkTurn(d)
  <2> DEFINE q == [r EXCEPT !.state = "running", !.turn = task[d].turn]
  <2>1. Become(d, NextRun(task[d]))
        /\ (runs' = runs \/ (r.state = "starting" /\ runs' = [runs EXCEPT ![i] = q]))
    BY <1>3, <1>r DEF LinkTurn
  <2>2. task[d].turn \in DOMAIN r.turns
    BY <1>3, <1>k DEF LinkTurn, TaskTurns
  <2>3. q.turns = r.turns /\ q.turn = task[d].turn /\ q.state = "running"
    BY <1>r DEF Run
  <2> HIDE DEF q
  <2>4. r.state = "starting"
          => Onward(r, q) /\ RowTurns(q) /\ Len(q.turns) = Len(r.turns)
    BY <2>2, <2>3 DEF Onward, RowTurns, Linked, Done, Unstarted
  <2> HIDE DEF i, r
  <2>5. RowsMove
    BY <2>1, <2>4, <1>p, RowsStay
  <2> QED BY <2>1, <2>5, <1>m, Quiet DEF TurnsMove
<1>4. CASE Succeed(d)
  <2> DEFINE q == [r EXCEPT !.state = "succeeded"]
  <2>1. Become(d, NextRun(task[d])) /\ (runs' = runs \/ runs' = [runs EXCEPT ![i] = q])
    BY <1>4, <1>r DEF Succeed
  <2>2. r.state \notin Unstarted /\ Done(r)
    BY <1>4, <1>k DEF Succeed, TaskTurns
  <2>3. q.turns = r.turns /\ q.turn = r.turn /\ q.state = "succeeded"
    BY <1>r DEF Run
  <2> HIDE DEF q
  <2>4. Onward(r, q) /\ RowTurns(q) /\ Len(q.turns) = Len(r.turns)
    BY <2>2, <2>3 DEF Onward, RowTurns, Linked, Done, Unstarted
  <2> HIDE DEF i, r
  <2>5. RowsMove
    BY <2>1, <2>4, <1>p
  <2> QED BY <2>1, <2>5, <1>m, Quiet DEF TurnsMove
<1>5. CASE FailRun(d)
  <2> DEFINE end == IF task[d].at = "time_out" THEN "timed_out" ELSE "failed"
             q == [r EXCEPT !.state = end]
  <2>1. Become(d, [task[d] EXCEPT !.at = "pause"]) \/ Become(d, NextRun(task[d]))
    BY <1>5 DEF FailRun, Goto
  <2>2. TasksMove
    BY <2>1, <1>m, Quiet DEF Turning
  <2>3. runs' = runs \/ runs' = [runs EXCEPT ![i] = q]
    BY <1>5, <1>r DEF FailRun
  <2>4. q.turns = r.turns /\ q.turn = r.turn /\ q.state \in {"timed_out", "failed"}
    BY <1>r DEF Run
  <2> HIDE DEF q
  <2>5. Onward(r, q) /\ RowTurns(q) /\ Len(q.turns) = Len(r.turns)
    BY <1>r, <2>4, RowSame
  <2> HIDE DEF i, r
  <2>6. RowsMove
    BY <2>3, <2>5, <1>p
  <2> QED BY <2>2, <2>6 DEF TurnsMove
<1> QED BY <1>1, <1>2, <1>3, <1>4, <1>5

(* A restart drops the tasks; a run that is queued again was not linked.   *)
LEMMA RestartTurns == ASSUME JobInv, TurnInv, CoreRestart PROVE TurnsMove
<1>1. runs' = [i \in DOMAIN runs |->
                 IF runs[i].state = "starting" /\ ~HasSession(i)
                   THEN [runs[i] EXCEPT !.state = "queued"] ELSE runs[i]]
  BY DEF CoreRestart
<1>2. ASSUME NEW i \in DOMAIN runs
      PROVE  /\ Onward(runs[i], runs'[i]) /\ RowTurns(runs'[i])
             /\ Len(runs'[i].turns) = Len(runs[i].turns)
  <2>1. runs[i] \in Run /\ RowTurns(runs[i])
    BY RowType DEF JobInv, TurnInv
  <2>2. CASE runs'[i] = runs[i]
    BY <2>1, <2>2, RowSame
  <2>3. CASE runs[i].state = "starting" /\ runs'[i] = [runs[i] EXCEPT !.state = "queued"]
    <3>1. runs'[i].turns = runs[i].turns /\ runs'[i].turn = runs[i].turn
          /\ runs'[i].state = "queued"
      BY <2>1, <2>3 DEF Run
    <3> QED BY <2>1, <2>3, <3>1, RowSame DEF Unstarted
  <2> QED BY <1>1, <2>2, <2>3
<1>3. DOMAIN runs' = DOMAIN runs
  BY <1>1
<1>4. TasksMove
  <2>1. \A d \in Tasks : task'[d] = Idle
    BY DEF CoreRestart
  <2>2. Idle.at \notin Turning
    BY DEF Idle, Turning
  <2> HIDE DEF Idle
  <2> QED BY <2>1, <2>2, QuietFresh DEF TasksMove
<1> QED BY <1>2, <1>3, <1>4 DEF TurnsMove, RowsMove

(* Every step, and what follows.                                           *)
LEMMA EveryTurnStep == ASSUME JobInv, TurnInv, [Next]_vars PROVE TurnsMove
<1>1. ASSUME NEW d \in Tasks, DriveStep(d) PROVE TurnsMove
  BY <1>1, ReadTurns, WriteTurns DEF DriveStep
<1>2. CASE SchedulerStep
  BY <1>2, <1>1, IdleTurns DEF SchedulerStep, Tasks
<1>3. ASSUME NEW c \in Clients, ClientStep(c) PROVE TurnsMove
  BY <1>3, <1>1, IdleTurns, OutsideTurns DEF ClientStep, Tasks
<1> QED BY <1>2, <1>3, IdleTurns, OutsideTurns, RestartTurns DEF Next

(* Every step keeps what is known of runs and of the turns tasks hold.     *)
LEMMA TurnNext == ASSUME JobInv, TurnInv, [Next]_vars PROVE TurnInv'
<1>1. TurnsMove
  BY EveryTurnStep
<1>2. ASSUME NEW d \in Tasks PROVE TaskTurns(task'[d], runs')
  <2>1. CASE Fresh(task'[d], runs')
    BY <2>1 DEF Fresh
  <2>2. CASE task'[d] = task[d]
    <3>1. TaskTurns(task[d], runs) /\ TaskOK(task[d], DOMAIN runs)
      BY Holds DEF TurnInv
    <3>2. CASE task[d].at \in Turning
      <4>1. task[d].run \in DOMAIN runs
        BY <3>1, <3>2 DEF TaskOK, OnRun, Turning
      <4> QED BY <1>1, <2>2, <3>1, <4>1, StillKnown DEF TurnsMove, RowsMove
    <3>3. CASE task[d].at \notin Turning
      BY <2>2, <3>3 DEF TaskTurns, Turning
    <3> QED BY <3>2, <3>3
  <2> QED BY <1>1, <2>1, <2>2 DEF TurnsMove, TasksMove
<1>3. \A i \in DOMAIN runs' : RowTurns(runs'[i])
  BY <1>1 DEF TurnsMove, RowsMove
<1> QED BY <1>2, <1>3 DEF TurnInv

(* Initially there are no runs and no task is under way.                   *)
LEMMA TurnInit == Init => TurnInv
<1> SUFFICES ASSUME Init PROVE TurnInv
  OBVIOUS
<1>1. runs = << >> /\ \A d \in Tasks : task[d] = Idle
  BY DEF Init
<1>2. \A d \in Tasks : TaskTurns(task[d], runs)
  <2>1. Idle.at = "idle"
    BY DEF Idle
  <2> HIDE DEF Idle
  <2> QED BY <1>1, <2>1 DEF TaskTurns
<1> QED BY <1>1, <1>2 DEF TurnInv

(* A run that is recorded as succeeded has a linked turn that completed,   *)
(* however long ago the driver read it, and whatever other drivers,        *)
(* cancellations and restarts did since.                                   *)
THEOREM SuccessIsEarned == Spec => []SuccessHasTurn
<1>1. Init => JobInv /\ TurnInv
  BY JobInit, TurnInit
<1>2. JobInv /\ TurnInv /\ [Next]_vars => (JobInv /\ TurnInv)'
  BY EveryStep, TurnNext DEF Good
<1>3. JobInv /\ TurnInv => SuccessHasTurn
  BY DEF TurnInv, RowTurns, Done, Linked, SuccessHasTurn
<1> QED BY <1>1, <1>2, <1>3, PTL DEF Spec

-----------------------------------------------------------------------------
(* One driver.  A request that is not driving does not begin to.           *)
LEMMA ClientsRest ==
    ASSUME JobInv, LoneInv, "run" \notin Routes, [Next]_vars, NEW c \in Clients
    PROVE  task'[c].at \in NotDriving
<1>t. /\ task \in [Tasks -> Task] /\ c \in Tasks /\ task[c].at \in NotDriving
      /\ task[c] \in Task /\ Scheduler \notin Clients
  BY JobAssumption DEF JobInv, TypeOK, LoneInv, Tasks
<1>i. Idle.at = "idle"
  BY DEF Idle
<1>b. ASSUME NEW d, NEW t, Become(d, t), d = c => t.at \in NotDriving
      PROVE  task'[c].at \in NotDriving
  <2>1. task' = [task EXCEPT ![d] = t]
    BY <1>b DEF Become
  <2>2. task'[c] = task[c] \/ (d = c /\ task'[c] = t)
    BY <2>1, <1>t
  <2> QED BY <2>2, <1>b, <1>t
<1>d. ASSUME NEW e \in Clients PROVE ~DriveStep(e) /\ ~insert_job_run(e)
  <2>1. task[e].at \in NotDriving
    BY DEF LoneInv
  <2>2. ~FetchRuns(e) /\ ~LoadRun(e) /\ ~EndDrive(e) /\ ~start_job_run(e)
    BY <2>1 DEF NotDriving, FetchRuns, LoadRun, EndDrive, start_job_run
  <2>3. ~LoadDetail(e) /\ ~LookTurn(e) /\ ~SubmitTurn(e) /\ ~LinkTurn(e) /\ ~ReadTurn(e)
    BY <2>1 DEF NotDriving, LoadDetail, LookTurn, SubmitTurn, LinkTurn, ReadTurn
  <2>4. ~Succeed(e) /\ ~ReadRuntime(e) /\ ~FailRun(e) /\ ~PauseJob(e) /\ ~insert_job_run(e)
    BY <2>1 DEF NotDriving, Succeed, ReadRuntime, FailRun, PauseJob, insert_job_run
  <2> QED BY <2>2, <2>3, <2>4 DEF DriveStep
<1>1. CASE SchedulerStep
  <2>1. \E t : Become(Scheduler, t)
    BY <1>1 DEF SchedulerStep, FetchDue, LoadDue, ClaimDue, EndDue, DriveStep, FetchRuns,
         LoadRun, EndDrive, start_job_run, LoadDetail, LookTurn, SubmitTurn, LinkTurn,
         ReadTurn, Succeed, ReadRuntime, FailRun, PauseJob, Goto
  <2> QED BY <2>1, <1>b, <1>t
<1>2. ASSUME NEW e \in Clients, UpdateJob(e) \/ EnableJob(e) \/ StopRuntime(e)
      PROVE  task'[c].at \in NotDriving
  <2>1. Become(e, Idle)
    BY <1>2 DEF UpdateJob, EnableJob, StopRuntime
  <2> QED BY <2>1, <1>b, <1>i DEF NotDriving
<1>3. ASSUME NEW e \in Clients, CancelRun(e) PROVE task'[c].at \in NotDriving
  <2>1. Become(e, Idle) \/ Become(e, [task[e] EXCEPT !.at = "stop"])
    BY <1>3 DEF CancelRun, Goto
  <2>2. [task[c] EXCEPT !.at = "stop"].at = "stop"
    BY <1>t DEF Task
  <2> QED BY <2>1, <2>2, <1>b, <1>i DEF NotDriving
<1>4. ASSUME NEW e \in Clients,
             \/ \E j \in Jobs : \E r \in {"update", "enable"} : LoadJob(e, j, r)
             \/ \E i \in DOMAIN runs : LoadForCancel(e, i)
      PROVE  task'[c].at \in NotDriving
  <2>1. ASSUME NEW j \in Jobs, NEW r \in {"update", "enable"}, LoadJob(e, j, r)
        PROVE  task'[c].at \in NotDriving
    <3> DEFINE t == [Idle EXCEPT !.at = r, !.of = j, !.old = job[j],
                                 !.upcoming = next_job_run_at(now)]
    <3>1. t.at = r /\ Become(e, t)
      BY <2>1 DEF LoadJob, Idle
    <3> HIDE DEF t
    <3> QED BY <3>1, <1>b DEF NotDriving
  <2>2. ASSUME NEW i \in DOMAIN runs, LoadForCancel(e, i)
        PROVE  task'[c].at \in NotDriving
    <3> DEFINE t == [Idle EXCEPT !.at = "cancel", !.run = i, !.had_session = HasSession(i)]
    <3>1. t.at = "cancel" /\ Become(e, t)
      BY <2>2 DEF LoadForCancel, Idle
    <3> HIDE DEF t
    <3> QED BY <3>1, <1>b DEF NotDriving
  <2> QED BY <1>4, <2>1, <2>2
<1>5. ASSUME NEW d \in Tasks, TaskLost(d) PROVE task'[c].at \in NotDriving
  <2>1. Become(d, IF task[d].at \in {"due", "claim"} THEN [Idle EXCEPT !.at = "drive"]
                  ELSE Idle)
    BY <1>5 DEF TaskLost
  <2>2. d = c => Become(d, Idle)
    BY <2>1, <1>t DEF NotDriving
  <2> QED BY <2>1, <2>2, <1>b, <1>i DEF NotDriving
<1>6. CASE CoreRestart
  <2>1. task'[c] = Idle
    BY <1>6, <1>t DEF CoreRestart
  <2> QED BY <2>1, <1>i DEF NotDriving
<1>7. CASE UNCHANGED task
  BY <1>7, <1>t
<1>8. ASSUME NEW j \in Jobs, CreateJob(j) \/ DisableJob(j) PROVE UNCHANGED task
  BY <1>8 DEF CreateJob, DisableJob
<1>9. ASSUME NEW i \in DOMAIN runs,
             ProviderStep(i) \/ \E how \in RuntimeFaults : RuntimeEnds(i, how)
      PROVE  UNCHANGED task
  BY <1>9 DEF ProviderStep, RuntimeReady, RuntimeStops, TurnStarts, TurnEnds, RuntimeEnds
<1>10. TimePasses \/ UNCHANGED vars => UNCHANGED task
  BY DEF TimePasses, vars
<1>11. \A e \in Clients, j \in Jobs : ~LoadForRun(e, j)
  BY DEF LoadForRun
<1> QED BY <1>d, <1>1, <1>2, <1>3, <1>4, <1>5, <1>6, <1>7, <1>8, <1>9, <1>10, <1>11
        DEF Next, ClientStep

(* So a turn is added only by the scheduler, to a run that has none.       *)
LEMMA LoneNext ==
    ASSUME JobInv, TurnInv, LoneInv, "run" \notin Routes, [Next]_vars
    PROVE  LoneInv'
<1> DEFINE S == Scheduler
<1>1. RowsMove /\ TasksMove /\ S \in Tasks
  BY EveryTurnStep DEF TurnsMove, Tasks
<1>t. \A i \in DOMAIN runs : runs[i] \in Run /\ Len(runs[i].turns) \in Nat
  BY RowType DEF JobInv, Run
<1>2. ASSUME NEW d \in Tasks, NEW i \in DOMAIN runs, Submits(d, i)
      PROVE  d = S /\ runs[i].turns = << >>
  <2>1. task[d].at = "submit" /\ task[d].run = i
    BY <1>2 DEF Submits
  <2>2. d \notin Clients
    BY <2>1 DEF LoneInv, NotDriving
  <2> QED BY <2>1, <2>2 DEF LoneInv, Tasks
<1>3. OneTurn'
  <2> SUFFICES ASSUME NEW i \in DOMAIN runs' PROVE Len(runs'[i].turns) <= 1
    BY DEF OneTurn
  <2>1. CASE i \in DOMAIN runs
    <3>1. CASE Len(runs'[i].turns) = Len(runs[i].turns)
      BY <2>1, <3>1 DEF LoneInv, OneTurn
    <3>2. CASE \E d \in Tasks : Submits(d, i)
      <4>1. Len(runs'[i].turns) = Len(runs[i].turns) + 1 /\ runs[i].turns = << >>
        BY <2>1, <3>2, <1>2 DEF Submits
      <4> QED BY <4>1
    <3> QED BY <1>1, <2>1, <3>1, <3>2 DEF RowsMove
  <2>2. CASE i \notin DOMAIN runs
    <3>1. runs'[i].turns = << >>
      BY <1>1, <2>2 DEF RowsMove
    <3> QED BY <3>1
  <2> QED BY <2>1, <2>2
<1>4. ASSUME task'[S].at = "submit" PROVE runs'[task'[S].run].turns = << >>
  <2>1. CASE Fresh(task'[S], runs')
    BY <1>4, <2>1 DEF Fresh
  <2>2. CASE task'[S] = task[S]
    <3> DEFINE i == task[S].run
    <3>1. task[S].at = "submit" /\ runs[i].turns = << >>
      BY <1>4, <2>2 DEF LoneInv
    <3>2. i \in DOMAIN runs
      BY <3>1, <1>1, Holds DEF OnRun
    <3>3. Len(runs'[i].turns) = Len(runs[i].turns)
      <4>1. \A d \in Tasks : ~Submits(d, i)
        BY <1>2, <1>4, <3>2 DEF Submits
      <4> QED BY <4>1, <3>2, <1>1 DEF RowsMove
    <3>4. runs'[i].turns \in Seq(TurnStates)
      <4>1. JobInv'
        BY EveryStep DEF Good
      <4>2. runs' \in Seq(Run) /\ i \in DOMAIN runs'
        BY <4>1, <3>2, <1>1 DEF JobInv, TypeOK, RowsMove
      <4>3. runs'[i] \in Run
        BY <4>2
      <4> QED BY <4>3 DEF Run
    <3>5. runs'[i].turns = << >>
      BY <3>1, <3>3, <3>4, EmptySeq
    <3> QED BY <2>2, <3>5
  <2> QED BY <1>1, <2>1, <2>2 DEF TasksMove
<1>5. \A c \in Clients : task'[c].at \in NotDriving
  BY ClientsRest
<1> QED BY <1>3, <1>4, <1>5 DEF LoneInv

(* Nobody drives a run initially.                                          *)
LEMMA LoneInit == Init => LoneInv
<1> SUFFICES ASSUME Init PROVE LoneInv
  OBVIOUS
<1>1. runs = << >> /\ \A d \in Tasks : task[d] = Idle
  BY DEF Init
<1>2. Idle.at = "idle"
  BY DEF Idle
<1> HIDE DEF Idle
<1> QED BY <1>1, <1>2 DEF LoneInv, NotDriving, OneTurn, Tasks

(* As long as only the scheduler drives (no request runs a job by hand), a *)
(* run gives its prompt to the provider once, through every lost link,     *)
(* error and restart: the look for an earlier turn before the submit.  Two *)
(* drivers that look before either submits both do, so the route is        *)
(* excluded here.                                                          *)
THEOREM PromptGivenOnce == ASSUME "run" \notin Routes PROVE Spec => []OneTurn
<1>1. Init => JobInv /\ TurnInv /\ LoneInv
  BY JobInit, TurnInit, LoneInit
<1>2. JobInv /\ TurnInv /\ LoneInv /\ [Next]_vars => (JobInv /\ TurnInv /\ LoneInv)'
  BY EveryStep, TurnNext, LoneNext DEF Good
<1>3. LoneInv => OneTurn
  BY DEF LoneInv
<1> QED BY <1>1, <1>2, <1>3, PTL DEF Spec

=============================================================================
