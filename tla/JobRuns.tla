------------------------------- MODULE JobRuns -------------------------------
(***************************************************************************)
(* Background jobs: schedules, the runs they cause and the driver that     *)
(* takes a run through its session, its runtime and its one turn.          *)
(*                                                                         *)
(* The scheduler task ticks: it claims the occurrences that are due, then  *)
(* drives every active run one step.  An HTTP request "run now" inserts a  *)
(* run and drives all active runs too, so two drivers may work on one run. *)
(* Both act on rows they loaded some awaits ago; every write that moves a  *)
(* run repeats the state it expects.                                       *)
(*                                                                         *)
(* Time is a counter and a schedule has an occurrence at every instant.    *)
(* The session of a run, its runtime and its turns are part of the run's   *)
(* record; what the Node and the provider do to them is the environment.   *)
(***************************************************************************)
EXTENDS Naturals, Sequences, FiniteSets

CONSTANTS
    Jobs,           \* rows of jobs
    NoJob,
    Clients,        \* HTTP requests that may be under way at once
    Scheduler,      \* the task of spawn_job_scheduler
    Routes,         \* the routes the clients use
    RuntimeFaults,  \* ways a runtime may end: "error", "expired", "stopped"
    MaxTime,        \* bound: instants
    MaxManual,      \* bound: runs started by hand
    MaxErrors,      \* bound: database errors, refused starts and dispatches
    MaxRestarts     \* bound: restarts of Core

ASSUME JobAssumption ==
    /\ IsFiniteSet(Jobs) /\ NoJob \notin Jobs /\ Scheduler \notin Clients
    /\ Routes \subseteq {"update", "enable", "disable", "run", "cancel"}
    /\ RuntimeFaults \subseteq {"error", "expired", "stopped"}
    /\ MaxTime \in Nat /\ MaxManual \in Nat
    /\ MaxErrors \in Nat /\ MaxRestarts \in Nat

Tasks == Clients \cup {Scheduler}

VARIABLES
    now,     \* the clock
    job,     \* durable: rows of jobs
    runs,    \* durable: rows of job_runs with their sessions, oldest first
    task,    \* the scheduler and the requests: where they are, what they loaded
    owed,    \* history: a run failed and no human has resumed the schedule
    count    \* history: manual runs, errors and restarts so far

vars == <<now, job, runs, task, owed, count>>

Active == {"queued", "starting", "running"}
RunStates == Active \cup {"succeeded", "failed", "cancelled", "timed_out", "skipped"}
RuntimeStates == {"none", "starting", "ready", "running", "error", "expired", "stopped"}
TurnStates == {"created", "running", "completed", "failed"}

(* next is 0 when next_run_at is null.                                     *)
JobRow == [exists : BOOLEAN, enabled : BOOLEAN, schedule : BOOLEAN,
           continue_after_error : BOOLEAN, next : Nat]
NoRow == [exists |-> FALSE, enabled |-> FALSE, schedule |-> FALSE,
          continue_after_error |-> FALSE, next |-> 0]

(* occ is scheduled_for (0: a manual run), cont the configuration snapshot,*)
(* turn the linked turn (0: none), starts the StartRuntime commands that   *)
(* were recorded, stop whether StopRuntime was.                            *)
Run == [job : Jobs, occ : Nat, state : RunStates, cont : BOOLEAN,
        runtime : RuntimeStates, turns : Seq(TurnStates), turn : Nat,
        starts : Nat, stop : BOOLEAN]

Steps == {"idle", "due", "claim", "update", "enable", "insert", "cancel", "stop",
          "drive", "next", "start", "detail", "turns", "submit", "link",
          "turn", "succeed", "runtime", "fail", "time_out", "pause"}

(* due: ids still to claim; todo: runs still to drive; of, old, upcoming:  *)
(* the job that was loaded and the next_run_at computed from it; run,      *)
(* had_session, cont: the run and what was loaded of its row; ready: was   *)
(* its runtime ready; turn: the turn to link.                              *)
Task == [at : Steps, due : SUBSET Jobs, todo : SUBSET Nat, of : Jobs \cup {NoJob},
         old : JobRow, upcoming : Nat, run : Nat, had_session : BOOLEAN,
         cont : BOOLEAN, ready : BOOLEAN, turn : Nat]
Idle == [at |-> "idle", due |-> {}, todo |-> {}, of |-> NoJob, old |-> NoRow,
         upcoming |-> 0, run |-> 0, had_session |-> FALSE, cont |-> FALSE,
         ready |-> FALSE, turn |-> 0]

Init ==
    /\ now = 0
    /\ job = [j \in Jobs |-> NoRow]
    /\ runs = <<>>
    /\ task = [d \in Tasks |-> Idle]
    /\ owed = [j \in Jobs |-> FALSE]
    /\ count = [manual |-> 0, errors |-> 0, restarts |-> 0]

-----------------------------------------------------------------------------
(* A task goes on to the next run of its list and forgets the last one.    *)
NextRun(t) == [Idle EXCEPT !.at = "next", !.todo = t.todo]
Become(d, t) == task' = [task EXCEPT ![d] = t]
Goto(d, s) == Become(d, [task[d] EXCEPT !.at = s])
Error == count' = [count EXCEPT !.errors = @ + 1] /\ count.errors < MaxErrors

HasSession(i) == runs[i].runtime # "none"

(* next_job_run_at: the first occurrence after the given instant.          *)
next_job_run_at(after) == after + 1

NewRun(j, o, s, c) ==
    [job |-> j, occ |-> o, state |-> s, cont |-> c, runtime |-> "none",
     turns |-> <<>>, turn |-> 0, starts |-> 0, stop |-> FALSE]

(* Wrong variant: a run that has its turn no longer counts.                *)
OverlapStarting(j) ==
    \E i \in DOMAIN runs : runs[i].job = j /\ runs[i].state \in {"queued", "starting"}

(* The overlap policy: a job that has an active run skips the new one.     *)
Overlap(j) == \E i \in DOMAIN runs : runs[i].job = j /\ runs[i].state \in Active

(* Wrong variant: a state the table does not have.                         *)
FirstStateOverlap(j) == IF Overlap(j) THEN "overlap" ELSE "queued"

FirstState(j) == IF Overlap(j) THEN "skipped" ELSE "queued"

-----------------------------------------------------------------------------
(* Routes on jobs.                                                         *)

CreateJob(j) ==
    /\ ~job[j].exists
    /\ \E s, c \in BOOLEAN :
          job' = [job EXCEPT ![j] = [NoRow EXCEPT !.exists = TRUE, !.schedule = s,
                                                  !.continue_after_error = c]]
    /\ UNCHANGED <<now, runs, task, owed, count>>

(* update_job_route and enable_job_route load the job and compute the next *)
(* occurrence ...                                                          *)
LoadJob(c, j, route) ==
    /\ route \in Routes
    /\ task[c] = Idle
    /\ job[j].exists
    /\ route = "enable" => job[j].schedule
    /\ Become(c, [Idle EXCEPT !.at = route, !.of = j, !.old = job[j],
                              !.upcoming = next_job_run_at(now)])
    /\ UNCHANGED <<now, job, runs, owed, count>>

(* ... and write it, with the enabled flag that was loaded.                *)
UpdateJob(c) ==
    /\ task[c].at = "update"
    /\ \E s, e \in BOOLEAN :
          LET on == task[c].old.enabled /\ s
          IN  job' = [job EXCEPT ![task[c].of] =
                         [exists |-> TRUE, enabled |-> on, schedule |-> s,
                          continue_after_error |-> e,
                          next |-> IF on THEN task[c].upcoming ELSE 0]]
    /\ Become(c, Idle)
    /\ UNCHANGED <<now, runs, owed, count>>

EnableJob(c) ==
    /\ task[c].at = "enable"
    /\ job' = [job EXCEPT ![task[c].of].enabled = TRUE,
                          ![task[c].of].next = task[c].upcoming]
    /\ owed' = [owed EXCEPT ![task[c].of] = FALSE]
    /\ Become(c, Idle)
    /\ UNCHANGED <<now, runs, count>>

DisableJob(j) ==
    /\ "disable" \in Routes
    /\ job[j].exists
    /\ job' = [job EXCEPT ![j].enabled = FALSE, ![j].next = 0]
    /\ UNCHANGED <<now, runs, task, owed, count>>

(* run_job_route: load the job, insert a run in one transaction, drive.    *)
LoadForRun(c, j) ==
    /\ "run" \in Routes
    /\ task[c] = Idle
    /\ job[j].exists
    /\ count.manual < MaxManual
    /\ count' = [count EXCEPT !.manual = @ + 1]
    /\ Become(c, [Idle EXCEPT !.at = "insert", !.of = j, !.old = job[j]])
    /\ UNCHANGED <<now, job, runs, owed>>

insert_job_run(c) ==
    /\ task[c].at = "insert"
    /\ LET j == task[c].of
       IN  runs' = Append(runs, NewRun(j, 0, FirstState(j),
                                       task[c].old.continue_after_error))
    /\ Become(c, [Idle EXCEPT !.at = "drive"])
    /\ UNCHANGED <<now, job, owed, count>>

(* cancel_job_run_route: load, cancel an active run, stop the runtime that *)
(* the loaded row names.  For a run that has ended the route does nothing. *)
LoadForCancel(c, i) ==
    /\ "cancel" \in Routes
    /\ task[c] = Idle
    /\ runs[i].state \in Active
    /\ Become(c, [Idle EXCEPT !.at = "cancel", !.run = i, !.had_session = HasSession(i)])
    /\ UNCHANGED <<now, job, runs, owed, count>>

CancelRun(c) ==
    /\ task[c].at = "cancel"
    /\ LET i == task[c].run
       IN  IF runs[i].state \in Active
             THEN /\ runs' = [runs EXCEPT ![i].state = "cancelled"]
                  /\ IF task[c].had_session THEN Goto(c, "stop") ELSE Become(c, Idle)
             ELSE Become(c, Idle) /\ UNCHANGED runs
    /\ UNCHANGED <<now, job, owed, count>>

StopRuntime(c) ==
    /\ task[c].at = "stop"
    /\ \/ UNCHANGED <<runs, count>> /\ runs[task[c].run].runtime \in {"stopped", "expired"}
       \/ UNCHANGED runs /\ Error
       \/ /\ runs[task[c].run].runtime \notin {"stopped", "expired"}
          /\ runs' = [runs EXCEPT ![task[c].run].stop = TRUE]
          /\ UNCHANGED count
    /\ Become(c, Idle)
    /\ UNCHANGED <<now, job, owed>>

-----------------------------------------------------------------------------
(* dispatch_due_jobs and claim_due_job.                                    *)

IsDue(r) == r.enabled /\ r.next # 0 /\ r.next <= now

FetchDue ==
    /\ task[Scheduler] = Idle
    /\ Become(Scheduler, [Idle EXCEPT !.at = "due", !.due = {j \in Jobs : IsDue(job[j])}])
    /\ UNCHANGED <<now, job, runs, owed, count>>

LoadDue(j) ==
    /\ task[Scheduler].at = "due"
    /\ j \in task[Scheduler].due
    /\ LET rest == [task[Scheduler] EXCEPT !.due = @ \ {j}]
       IN  Become(Scheduler,
                  IF IsDue(job[j]) /\ job[j].schedule
                    THEN [rest EXCEPT !.at = "claim", !.of = j, !.old = job[j],
                                      !.upcoming = next_job_run_at(now)]
                    ELSE rest)
    /\ UNCHANGED <<now, job, runs, owed, count>>

(* One transaction: the schedule moves on if it is still enabled and still *)
(* at the occurrence that was loaded, and the run is inserted.  A second   *)
(* run of an occurrence violates job_runs_scheduled_occurrence_idx: the    *)
(* transaction is rolled back and the error ends dispatch_due_jobs.        *)
ClaimDue ==
    /\ task[Scheduler].at = "claim"
    /\ LET t == task[Scheduler]
           j == t.of
           back == [Idle EXCEPT !.at = "due", !.due = t.due]
       IN  IF job[j].enabled /\ job[j].next = t.old.next
             THEN IF \E i \in DOMAIN runs : runs[i].job = j /\ runs[i].occ = t.old.next
                    THEN /\ Become(Scheduler, [Idle EXCEPT !.at = "drive"])
                         /\ UNCHANGED <<job, runs>>
                    ELSE /\ job' = [job EXCEPT ![j].next = t.upcoming]
                         /\ runs' = Append(runs, NewRun(j, t.old.next, FirstState(j),
                                                        t.old.continue_after_error))
                         /\ Become(Scheduler, back)
             ELSE Become(Scheduler, back) /\ UNCHANGED <<job, runs>>
    /\ UNCHANGED <<now, owed, count>>

EndDue ==
    /\ task[Scheduler].at = "due"
    /\ task[Scheduler].due = {}
    /\ Goto(Scheduler, "drive")
    /\ UNCHANGED <<now, job, runs, owed, count>>

-----------------------------------------------------------------------------
(* drive_job_runs: every active run, oldest first.                         *)

(* Wrong variant: runs with a linked turn are not visited again.           *)
FetchUnlinked(d) ==
    /\ task[d].at = "drive"
    /\ Become(d, [Idle EXCEPT !.at = "next",
                     !.todo = {i \in DOMAIN runs : runs[i].state \in {"queued", "starting"}}])
    /\ UNCHANGED <<now, job, runs, owed, count>>

FetchRuns(d) ==
    /\ task[d].at = "drive"
    /\ Become(d, [Idle EXCEPT !.at = "next",
                              !.todo = {i \in DOMAIN runs : runs[i].state \in Active}])
    /\ UNCHANGED <<now, job, runs, owed, count>>

(* What the driver does next, by the state of the row it loaded.           *)
StepFor(i) ==
    CASE runs[i].state = "queued"                    -> "start"
      [] runs[i].state = "starting" /\ HasSession(i) -> "detail"
      [] runs[i].state = "running"                   -> "turn"
      [] OTHER                                       -> "next"

LoadRun(d) ==
    /\ task[d].at = "next"
    /\ \E i \in task[d].todo :
          /\ \A k \in task[d].todo : i <= k
          /\ Become(d, [Idle EXCEPT !.at = StepFor(i), !.todo = task[d].todo \ {i},
                                    !.run = IF StepFor(i) = "next" THEN 0 ELSE i,
                                    !.cont = StepFor(i) # "next" /\ runs[i].cont])
    /\ UNCHANGED <<now, job, runs, owed, count>>

EndDrive(d) ==
    /\ task[d].at = "next"
    /\ task[d].todo = {}
    /\ Become(d, Idle)
    /\ UNCHANGED <<now, job, runs, owed, count>>

(* start_job_run: placement, Node, provider and quota are checked; then    *)
(* one transaction claims the run, creates its session and runtime and     *)
(* records StartRuntime; then the command is dispatched.                   *)
start_job_run(d) ==
    /\ task[d].at = "start"
    /\ LET i == task[d].run
           Start == runs' = [runs EXCEPT ![i].state = "starting",
                                         ![i].runtime = "starting", ![i].starts = @ + 1]
       IN  \/ UNCHANGED runs /\ Error /\ Goto(d, "fail")
           \/ runs[i].state = "queued" /\ Start /\ Error /\ Goto(d, "fail")
           \/ runs[i].state = "queued" /\ Start /\ UNCHANGED count
              /\ Become(d, NextRun(task[d]))
           \/ runs[i].state # "queued" /\ UNCHANGED <<runs, count>>
              /\ Become(d, NextRun(task[d]))
    /\ UNCHANGED <<now, job, owed>>

(* drive_starting_job_run: the runtime is read first ...                   *)
LoadDetail(d) ==
    /\ task[d].at = "detail"
    /\ LET r == runs[task[d].run].runtime
       IN  IF r = "error" THEN Goto(d, "fail")
           ELSE Become(d, [task[d] EXCEPT !.at = "turns", !.ready = (r = "ready")])
    /\ UNCHANGED <<now, job, runs, owed, count>>

(* Wrong variant: the driver does not look for a turn of an earlier tick.  *)
LookPastTurn(d) ==
    /\ task[d].at = "turns"
    /\ IF task[d].ready THEN Goto(d, "submit") ELSE Become(d, NextRun(task[d]))
    /\ UNCHANGED <<now, job, runs, owed, count>>

(* ... then a turn that an earlier tick or driver has submitted.           *)
LookTurn(d) ==
    /\ task[d].at = "turns"
    /\ IF runs[task[d].run].turns # <<>>
         THEN Become(d, [task[d] EXCEPT !.at = "link", !.turn = 1])
         ELSE IF task[d].ready THEN Goto(d, "submit") ELSE Become(d, NextRun(task[d]))
    /\ UNCHANGED <<now, job, runs, owed, count>>

(* submit_turn_for_actor: the turn is recorded; the dispatch after it may  *)
(* fail, and a refusal or an error ends the whole of drive_job_runs.       *)
SubmitTurn(d) ==
    /\ task[d].at = "submit"
    /\ LET i == task[d].run
           accepts == runs[i].runtime \in {"ready", "running"}
           Record == runs' = [runs EXCEPT ![i].turns = Append(@, "created")]
       IN  \/ /\ accepts /\ Record /\ UNCHANGED count
              /\ Become(d, [task[d] EXCEPT !.at = "link", !.turn = Len(runs'[i].turns)])
           \/ accepts /\ Record /\ Error /\ Become(d, Idle)
           \/ accepts /\ UNCHANGED runs /\ Error /\ Become(d, Idle)
           \/ ~accepts /\ UNCHANGED <<runs, count>> /\ Become(d, Idle)
    /\ UNCHANGED <<now, job, owed>>

LinkTurn(d) ==
    /\ task[d].at = "link"
    /\ LET i == task[d].run
       IN  runs' = IF runs[i].state = "starting"
                     THEN [runs EXCEPT ![i].state = "running", ![i].turn = task[d].turn]
                     ELSE runs
    /\ Become(d, NextRun(task[d]))
    /\ UNCHANGED <<now, job, owed, count>>

(* Wrong variant: the newest turn of the session decides.                  *)
ReadNewestTurn(d) ==
    /\ task[d].at = "turn"
    /\ LET r == runs[task[d].run]
       IN  Goto(d, CASE r.turns[Len(r.turns)] = "completed" -> "succeed"
                     [] r.turns[Len(r.turns)] = "failed"    -> "fail"
                     [] OTHER                               -> "runtime")
    /\ UNCHANGED <<now, job, runs, owed, count>>

(* drive_running_job_run: the linked turn, and else the runtime, decide.   *)
ReadTurn(d) ==
    /\ task[d].at = "turn"
    /\ LET r == runs[task[d].run]
       IN  Goto(d, CASE r.turns[r.turn] = "completed" -> "succeed"
                     [] r.turns[r.turn] = "failed"    -> "fail"
                     [] OTHER                         -> "runtime")
    /\ UNCHANGED <<now, job, runs, owed, count>>

ReadRuntime(d) ==
    /\ task[d].at = "runtime"
    /\ LET r == runs[task[d].run].runtime
       IN  CASE r = "error"   -> Goto(d, "fail")
             [] r = "expired" -> Goto(d, "time_out")
             [] OTHER         -> Become(d, NextRun(task[d]))
    /\ UNCHANGED <<now, job, runs, owed, count>>

(* Wrong variant: success overwrites whatever state the run has.           *)
SucceedAlways(d) ==
    /\ task[d].at = "succeed"
    /\ runs' = [runs EXCEPT ![task[d].run].state = "succeeded"]
    /\ Become(d, NextRun(task[d]))
    /\ UNCHANGED <<now, job, owed, count>>

Succeed(d) ==
    /\ task[d].at = "succeed"
    /\ LET i == task[d].run
       IN  runs' = IF runs[i].state = "running"
                     THEN [runs EXCEPT ![i].state = "succeeded"] ELSE runs
    /\ Become(d, NextRun(task[d]))
    /\ UNCHANGED <<now, job, owed, count>>

(* fail_job_run: one update ends the run, a second one pauses the job if   *)
(* the run's configuration says so.                                        *)
FailRun(d) ==
    /\ task[d].at \in {"fail", "time_out"}
    /\ LET i == task[d].run
           end == IF task[d].at = "time_out" THEN "timed_out" ELSE "failed"
           hit == runs[i].state \in Active
           pauses == hit /\ ~task[d].cont
       IN  /\ runs' = IF hit THEN [runs EXCEPT ![i].state = end] ELSE runs
           /\ owed' = IF pauses THEN [owed EXCEPT ![runs[i].job] = TRUE] ELSE owed
           /\ IF pauses THEN Goto(d, "pause") ELSE Become(d, NextRun(task[d]))
    /\ UNCHANGED <<now, job, count>>

(* Wrong variant: the reason is written, the schedule goes on.             *)
PauseReasonOnly(d) ==
    /\ task[d].at = "pause"
    /\ Become(d, NextRun(task[d]))
    /\ UNCHANGED <<now, job, runs, owed, count>>

PauseJob(d) ==
    /\ task[d].at = "pause"
    /\ job' = [job EXCEPT ![runs[task[d].run].job].enabled = FALSE,
                          ![runs[task[d].run].job].next = 0]
    /\ Become(d, NextRun(task[d]))
    /\ UNCHANGED <<now, runs, owed, count>>

-----------------------------------------------------------------------------
(* The Node and the provider, as far as their events reach Core's tables.  *)
(* An interrupted turn counts as a failed one, as it does for the driver.  *)

RuntimeReady(i) ==
    /\ runs[i].runtime = "starting"
    /\ runs' = [runs EXCEPT ![i].runtime = "ready"]
    /\ UNCHANGED <<now, job, task, owed, count>>

RuntimeEnds(i, how) ==
    /\ how \in RuntimeFaults
    /\ runs[i].runtime \in IF how = "expired" THEN {"ready", "running"}
                           ELSE {"starting", "ready", "running"}
    /\ runs' = [runs EXCEPT ![i].runtime = how]
    /\ UNCHANGED <<now, job, task, owed, count>>

(* The StopRuntime command of a cancelled run reaches the Node.            *)
RuntimeStops(i) ==
    /\ runs[i].stop
    /\ runs[i].runtime \in {"starting", "ready", "running"}
    /\ runs' = [runs EXCEPT ![i].runtime = "stopped"]
    /\ UNCHANGED <<now, job, task, owed, count>>

TurnStarts(i, k) ==
    /\ runs[i].turns[k] = "created"
    /\ runs[i].runtime = "ready"
    /\ runs' = [runs EXCEPT ![i].turns[k] = "running", ![i].runtime = "running"]
    /\ UNCHANGED <<now, job, task, owed, count>>

TurnEnds(i, k) ==
    /\ runs[i].turns[k] = "running"
    /\ runs[i].runtime = "running"
    /\ \E end \in {"completed", "failed"} :
          runs' = [runs EXCEPT ![i].turns[k] = end, ![i].runtime = "ready"]
    /\ UNCHANGED <<now, job, task, owed, count>>

TimePasses ==
    /\ now < MaxTime
    /\ now' = now + 1
    /\ UNCHANGED <<job, runs, task, owed, count>>

-----------------------------------------------------------------------------
(* A database error, or a dropped request, ends a task where it is; after  *)
(* an error in dispatch_due_jobs the tick still drives the runs.           *)
TaskLost(d) ==
    /\ task[d].at # "idle"
    /\ Error
    /\ Become(d, IF task[d].at \in {"due", "claim"} THEN [Idle EXCEPT !.at = "drive"] ELSE Idle)
    /\ UNCHANGED <<now, job, runs, owed>>

(* Wrong variant: recovery queues every run that was starting.             *)
RestartRequeues ==
    /\ count.restarts < MaxRestarts
    /\ count' = [count EXCEPT !.restarts = @ + 1]
    /\ task' = [d \in Tasks |-> Idle]
    /\ runs' = [i \in DOMAIN runs |->
                  IF runs[i].state = "starting" THEN [runs[i] EXCEPT !.state = "queued"]
                  ELSE runs[i]]
    /\ UNCHANGED <<now, job, owed>>

(* Core stops anywhere; recover_job_runs queues runs without a session.    *)
CoreRestart ==
    /\ count.restarts < MaxRestarts
    /\ count' = [count EXCEPT !.restarts = @ + 1]
    /\ task' = [d \in Tasks |-> Idle]
    /\ runs' = [i \in DOMAIN runs |->
                  IF runs[i].state = "starting" /\ ~HasSession(i)
                    THEN [runs[i] EXCEPT !.state = "queued"] ELSE runs[i]]
    /\ UNCHANGED <<now, job, owed>>

-----------------------------------------------------------------------------
DriveStep(d) ==
    \/ FetchRuns(d) \/ LoadRun(d) \/ EndDrive(d) \/ start_job_run(d)
    \/ LoadDetail(d) \/ LookTurn(d) \/ SubmitTurn(d) \/ LinkTurn(d)
    \/ ReadTurn(d) \/ Succeed(d) \/ ReadRuntime(d) \/ FailRun(d) \/ PauseJob(d)
SchedulerStep ==
    \/ FetchDue \/ (\E j \in Jobs : LoadDue(j)) \/ ClaimDue \/ EndDue
    \/ DriveStep(Scheduler)
ClientStep(c) ==
    \/ UpdateJob(c) \/ EnableJob(c) \/ insert_job_run(c)
    \/ CancelRun(c) \/ StopRuntime(c) \/ DriveStep(c)
ProviderStep(i) ==
    \/ RuntimeReady(i) \/ RuntimeStops(i)
    \/ \E k \in DOMAIN runs[i].turns : TurnStarts(i, k) \/ TurnEnds(i, k)

Next ==
    \/ SchedulerStep \/ TimePasses \/ CoreRestart
    \/ \E j \in Jobs : CreateJob(j) \/ DisableJob(j)
    \/ \E c \in Clients :
          \/ ClientStep(c)
          \/ \E j \in Jobs : LoadForRun(c, j) \/ \E r \in {"update", "enable"} : LoadJob(c, j, r)
          \/ \E i \in DOMAIN runs : LoadForCancel(c, i)
    \/ \E i \in DOMAIN runs :
          ProviderStep(i) \/ \E how \in RuntimeFaults : RuntimeEnds(i, how)
    \/ \E d \in Tasks : TaskLost(d)

Spec == Init /\ [][Next]_vars

(* At most one run per occurrence and job, and the manual ones.            *)
RunIds == 1 .. Cardinality(Jobs) * MaxTime + MaxManual

(* The scheduler ticks for ever, requests are polled, time passes, a Node  *)
(* that is connected starts the runtime and ends the turn.                 *)
FairSpec ==
    /\ Spec
    /\ WF_vars(SchedulerStep) /\ WF_vars(TimePasses)
    /\ \A c \in Clients : WF_vars(ClientStep(c))
    /\ \A i \in RunIds : WF_vars(i \in DOMAIN runs /\ ProviderStep(i))

-----------------------------------------------------------------------------
TypeOK ==
    /\ now \in Nat
    /\ job \in [Jobs -> JobRow]
    /\ runs \in Seq(Run)
    /\ task \in [Tasks -> Task]
    /\ owed \in [Jobs -> BOOLEAN]
    /\ count \in [manual : Nat, errors : Nat, restarts : Nat]

(* "a restart of Core does not duplicate a claimed start"                  *)
(* (docs/systems/areas/011-background-jobs.md:132), nor do two drivers:    *)
(* StartRuntime is recorded at most once for a run.                        *)
StartsOnce == \A i \in DOMAIN runs : runs[i].starts <= 1

(* "no more than one active run of a Job"                                  *)
(* (docs/product/feature-queue.md:320), whoever inserts: the overlap is    *)
(* counted in the transaction that inserts, and no run becomes active      *)
(* again, so job_runs_one_active_idx never has to refuse a row.            *)
OneActive ==
    \A i, k \in DOMAIN runs :
        /\ runs[i].job = runs[k].job
        /\ runs[i].state \in Active /\ runs[k].state \in Active
        => i = k

(* A run that ended never changes again, although cancel, failure, success *)
(* and the link of a turn race (the states in the conditional updates).    *)
TerminalStays ==
    [][\A i \in DOMAIN runs : runs[i].state \notin Active
          => runs'[i].state = runs[i].state]_vars

(* A run that succeeded has a linked turn, and that turn completed.        *)
SuccessHasTurn ==
    \A i \in DOMAIN runs : runs[i].state = "succeeded"
        => /\ runs[i].turn \in DOMAIN runs[i].turns
           /\ runs[i].turns[runs[i].turn] = "completed"

(* "Every actual launch is a separate observable Job Run"                  *)
(* (docs/systems/areas/011-background-jobs.md:17): a run gives its prompt  *)
(* to the provider once, although the link of the turn may be lost after   *)
(* the turn was recorded.                                                  *)
OneTurn == \A i \in DOMAIN runs : Len(runs[i].turns) <= 1

(* "a failed run or start error suspends the following automatic starts"   *)
(* (docs/systems/areas/011-background-jobs.md:84), until the user resumes, *)
(* but for the window between the two updates of fail_job_run: there the   *)
(* tick of the scheduler may start a run beside a request that drives one. *)
Pausing(j) == \E d \in Tasks : task[d].at = "pause" /\ runs[task[d].run].job = j
NoStartAfterFailure ==
    [][Len(runs') > Len(runs)
         => LET r == runs'[Len(runs')]
            IN  r.occ # 0 /\ r.state = "queued" => ~owed[r.job] \/ Pausing(r.job)]_vars

(* Every run ends, "an error of provider start or execution gives failed"  *)
(* (docs/systems/areas/011-background-jobs.md:79).                         *)
RunsFinish ==
    \A i \in RunIds : i \in DOMAIN runs /\ runs[i].state \in Active
                         ~> i \in DOMAIN runs /\ runs[i].state \notin Active

=============================================================================
