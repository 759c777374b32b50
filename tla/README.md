# A TLA+ model of Uprava

Uprava is a control plane for coding agents. **Core** (`crates/uprava-server`, Axum
and SQLite) owns identity, commands and the event history. A **Node daemon**
(`crates/uprava-node`) runs on the machine that holds the workspaces: it executes
commands, drives the provider process and reports events. A web client
(`apps/web`) talks to Core only. Core and each Node share one WebSocket, the
control channel, opened by the Node.

This directory holds TLA+ models of the parts whose correctness depends on
interleavings, failures and reconnects, the TLC configurations that check them,
and TLAPS proofs. `PROJECT.json` maps every definition to the lines it models.

## Inventory

| component | state | operations | why it is hard |
|---|---|---|---|
| Command recording and dispatch (`persistence/event.rs`, `application/coordination.rs`) | `commands`, `command_dispatch_outbox` | record, fetch pending, send, mark dispatched, acknowledge, store result | HTTP handlers and socket tasks run the same loop; each `.await` on the database ends an atomic step; Core may stop between any two |
| Workspace commands (`application/workspace.rs`) | command row, in-memory waiter | dispatch, wait with a timeout, cancel, expire | expiry and cancel race with the result |
| Deductions (`application/session.rs`) | `deductions`, two commands | create, cancel, persist, project the result | cancel fails the request in Core while it is under way |
| Connection registry and node socket (`transport/live.rs`, `transport/node.rs`) | one generation and sender per Node | activate, is_active, remove_if_active, frame handlers | old and new socket tasks overlap |
| Control channel and dispatcher (Node: `transport/control.rs`, `application/dispatch.rs`) | queues, execution locks, cancellation registry, permits | read loop, spawn, lock, run, reply | per connection, may outlive it; `try_send` drops frames |
| State store (Node: `persistence/state.rs`) | command cache, runtime sequences, outbox, mappings | snapshot, merge, acknowledge, save, compact | tasks work on stale snapshots; a save may fail after the merge |
| Event outbox and live delivery (Node: `application/execution.rs`, `provider.rs`) | outbox, runtime sequences | emit, merge, retain, replay, delete acknowledged | events leave before their numbers are saved |
| Event ingest (`coordination.rs`) | `events`, session cursor | deduplicate by id, refuse a sequence conflict, insert, project, publish | a batch is several transactions and one acknowledgement |
| Projections (`persistence/event.rs`, `projection.rs`) | sessions, runtimes, turns, approvals | apply an event, mark a gap, expire idle runtimes | late and replayed events, gap marks |
| Publication and session stream (`event.rs`, `live.rs`, `session.rs`) | `event_publication_outbox`, subscribers | enqueue, drain, subscribe, resume | concurrent drains, lagging subscribers |
| Scheduled messages (`scheduling.rs`) | `scheduled_messages` | create, edit, cancel, send now, retry, tick, recover | tick and requests race for a row; crash between claim, turn and mark |
| Background jobs (`scheduling.rs`) | `jobs`, `job_runs`, the run's session | create, edit, enable, disable, run, cancel, claim due, drive, recover | two drivers of one run; rows loaded before an await are written back; failure and pause are two statements |
| Task runs (`task.rs` on both sides) | task state, sandbox mapping | create, run, cancel, reconcile, clean up | crash while a sandbox exists |
| Enrollment and presence (`persistence/node.rs`, `transport/enrollment.rs`) | enrollment, credential, heartbeat | request, approve, claim, rotate, revoke | a claim is answered once |
| Terminals (`terminal.rs`) | handles, replay buffer, sender route | open, attach, input, rebind, detach, close | route changes with the connection |
| Tool plane (`tooling.rs`, `tool_runtime.rs`, `mcp.rs`) | tool calls, leases, dependencies | execute, cancel, project, issue, revoke | waiter and projection share a call |
| Plugins, artifacts, generated UI | manifests, preferences, versions, builds | enable, resolve, version, build, act | mostly sequential data |
| Workspace inspection, HTTP boundary, migrations, wire types, logging, ToolHive bridge | little or none | I/O, parsing | not protocol state |

What makes the core correct: a recorded command is never lost and gets one
result; its effect is not repeated where the design promises that; Core and Node
agree on the result after any crash; an event that was saved reaches Core once,
in an order the session can show; what was acknowledged does not return; a message or a
run is started once, ends once, and is not repeated behind the user's back.

## Modules

| module | what it models |
|---|---|
| `CommandDelivery` | commands of one Node, from the transaction that records them to the stored result |
| `CommandService` | what that promises: a command is settled once, durably, and Core reports what was settled |
| `EventDelivery` | events of one runtime session, from generation to Core's table |
| `ScheduledMessages` | messages that become a turn at a given time, the tick and the routes that race for them |
| `JobRuns` | jobs, their schedules and runs, the scheduler, the drivers and the routes |
| `TaskRuns` | prompts that run in a sandbox: Core's row, the Node's run, mapping and cleanup |
| `NodeAdmission` | enrollment, claim, heartbeat and what an administrator does meanwhile |
| `Sessions` | runtime, session, turn and approval rows, the commands they allow, and the Node behind them |
| `SessionStream` | from a stored event to the streams that follow a session |
| `Terminals` | a PTY, its replay buffer and the viewers behind Core |
| `Deductions` | the row, the two commands and the verdict of a deduction |
| `ToolCalls` | calls of external tools, the wait for their command, and leases |
| `Integrations` | desired and actual state of the integration that tools go through |
| `Outbox` | `Without`, the removal of acknowledged events that `EventDelivery` and `Sessions` share |
| `CommandDeliveryProofs`, `EventDeliveryProofs`, `ScheduledMessagesProofs`, `JobRunsProofs`, `TaskRunsProofs` (with `NodeAdmission`), `SessionsProofs` (with `SessionStream`, `Terminals`, `Deductions`), `ToolCallsProofs` | theorems about the modules they are named for |
| `OutboxProofs` | what those proofs need to know about sequences |
| `MCCommandDelivery`, `MCEventDelivery`, `MCScheduledMessages`, `MCJobRuns`, `MCTaskRuns`, `MCTooling`, `MCSessions` | instances for TLC |

The modules after `JobRuns` model delivery as far as their rows depend on it and say so
in their first lines. `TaskRuns` and `ToolCalls` have `dispatch_pending_commands` itself: it
runs when a command is recorded, when another command of the Node is, and when the Node
connects, tries each command without a result once, and nothing repeats it on a connection
that holds. `inbox` holds what a dispatcher of the Node has still to take; two copies of one
frame there count as one. A command is given up without room for its acknowledgement, and
an answer is tried once. In all of them duplicates of one key run one after the other in
one dispatcher, a saved outcome answers a repeated command, and events stay in the outbox
until they are acknowledged. The failed save of an outcome is left to the first two modules.

### CommandDelivery

`cmdState`, `outbox` and `resultOf` are the rows of `commands` and
`command_dispatch_outbox`; they survive `CoreRestart`. `active` is the registry's
entry; connection numbers are its generations. `task[p]` is the program counter of a
dispatch loop: an issuer (one HTTP request per command) or the socket task of a
connection. Its steps end where the code awaits the database: `FetchRows`,
`TakeSender`, `SendRow`, `MarkDispatched` for `dispatch_pending_commands`;
`UpdatePending` for the extra update of `record_and_dispatch_command`;
`ValidateFrame` and then `ApplyAck` or `ApplyResult` for a frame. `ExpireCommand` is
`mark_command_terminal_if_nonterminal` (cancel route and expiry), `CancelDeduction`
the transaction of `cancel_deduction`.

On the Node, `nodeEnd[g]` is `open` while the read loop of connection `g` runs, `closed`
when its dispatcher was aborted and `detached` when the loop returned an error and the
dispatcher lives on. `ReceiveDispatch` and `RejectBusy` are the read loop, `SpawnTask`
the dispatcher, `BeginTask` (lock, snapshot, acknowledgement), `StartCommand`,
`PersistOutcome` or `PersistFails`, and `SendResult` one task. `mem` is the state-store
actor's memory, `disk` what it saved. `Sent` and `Refused` are `try_send` on the writer
queue: a full queue refuses, a broken connection may refuse or swallow the frame.

Abstracted: payloads (an outcome is its status, who made it, and the connection whose
dispatcher ran the command), the checks a route makes before it records a command, the
echo check of results, the priority queue and permits of the dispatcher (they only
restrict the order of `BeginTask`), `HelloAck` and the tool-dependency snapshots sent
before the dispatch loop, and the `blocked` state, which no Node reports and Core treats
like `failed`. The projections that follow a stored result are in `TaskRuns`, `Deductions`
and `ToolCalls`.

### EventDelivery

`born` numbers every event ever generated (its index is its id) with its command and its
runtime sequence. `store` is the durable part of the Node's state. A task (`job`) keeps
the snapshot it started from: `Emit` numbers and offers an event live, `Finish` applies
retention to the copy and merges it (`Merge` is `merge_command_state_from`), `SendBatch`
and `SendResult` answer. `Connect` and `Replay` send the outbox before the first frame is
read. Core stores a batch event by event (`AcceptEvent`), stops at a conflict or an
error (`IngestError`), and acknowledges a complete batch (`AckBatch`) to the connection
that is active then.

Abstracted: how commands reach the Node (`Dispatch` may hand over any command without a
result), retention by age and bytes (they cut the same end as the limit on the number),
the cap on provider activity events. Projections are the subject of `Sessions`,
publication that of `SessionStream`.

### ScheduledMessages

`row[m]` is the state column of a message and `due[m]` whether its `due_at` has passed;
`turns[m]` counts the turns recorded for it. A worker is the dispatcher task or an HTTP
request; `work[w]` is where it is. `Claim` is the conditional update of
`claim_scheduled_message`, and the steps of `dispatch_scheduled_message` end at its
awaits: `LoadClaimed`, `SubmitTurn` (the turn is committed, the dispatch after it may
fail) or `SubmitRefused`, `MarkMessage`. `FetchDue` reads the due ids once per tick.
`WorkerLost` is a database error in these statements, or a request that is dropped;
`CoreRestart` includes `recover_interrupted_scheduled_messages`.

Abstracted: content, timezone and the time itself (an instant is only past or not).

### JobRuns

`job[j]` is a row of `jobs`; `runs` are the rows of `job_runs`, oldest first, each with
its runtime state, its turns, the turn it is linked to and the number of `StartRuntime`
commands recorded for it. `task[d]` is the scheduler or a request: where it is, the ids
it still has to visit, and what it loaded before the last await. `FetchDue`, `LoadDue`
and `ClaimDue` are `dispatch_due_jobs` and `claim_due_job`; `FetchRuns` and `LoadRun`
are `drive_job_runs`; `start_job_run`, `LoadDetail` to `LinkTurn`, `ReadTurn` to
`ReadRuntime`, `FailRun` and `PauseJob` are the steps of the driver by the state of the
run. `RuntimeReady`, `RuntimeEnds`, `RuntimeStops`, `TurnStarts` and `TurnEnds` are what
the events of the Node do to Core's tables, in the order a provider works; they are the
environment of this module.

Abstracted: time is a counter and a schedule has an occurrence at every instant; names,
prompts and quota snapshots are left out (a refused start is an `Error` of
`start_job_run`); of the runtime states only those the driver tells apart are kept, and
an interrupted turn counts as failed, as it does for the driver.

### TaskRuns

`row[t]` is the row of `task_runs` with the state of its two commands, `seen[t]` the
states of the task in the table of events. `run[t]` is the execution that holds the
task's lock; its steps end at the awaits of `execute_task`: worktree, first mapping,
`create_sandbox`, second mapping, the runtime in the sandbox, checks, evidence,
`delete_sandbox`, `remove_task_mapping`, saved outcome. `pending` and `asked` are
`ExecutionCancellationRegistry` and the cancel commands that wait for the lock. `mem`
and `disk` are the state store before and after a save. `boxes` is the sandbox service,
which is external. `ConnectionLost` aborts the run, and `NodeRestart` reconciles the saved
mappings first (`reconcile_task_runtime_mappings`). `ReadError` is the other end of a read
loop: `run_control_channel` returns before it aborts the dispatcher, so a task has a run per
dispatcher (`run[t][c]`), and the one left behind goes on beside the run of the next
connection, with the same mapping and the same outcome; what it sends, Core refuses. A Core
that stops between `update_command_result` and the projection leaves the row behind.
`DropOutcome` and `ForgetRun` are the answer and the command that are lost on a connection
that holds, and `dropped` remembers the task until its RunTask is dispatched again.

Abstracted: the five stages of an active run are one state (no guard tells them apart);
evidence, diffs and checks are present or not.

### NodeAdmission

`enroll`, `nodes`, `placed` and `unbound` are four tables of Core, `requests` the
Node's requests inside Core with what each has read, `local` the Node's attempt and
identity, `loop` its one loop. `ReadClaim`/`CommitClaim`, and `VerifyBeat`,
`UpsertNode`, `CheckWorkspace`, `PlaceWorkspace` split the two handlers at their
awaits. `GiveUp` is an answer the Node never gets, while the request goes on in Core.
`Administer` holds the administrator's routes. Credentials are only accepted or not.

### Sessions

`runtime`, `session`, `turns` and `approvals` are the rows, `log` the session's events
by cursor. `Project` is `apply_event_projection_on_connection` with the gap mark after
it, `accept_node_event` the duplicate and conflict checks around it. `SubmitTurn`,
`ResolveApproval`, `LifecycleCommand` and `Attach` are the routes, guarded by
`Commandable` (`ensure_session_commandable`), `Offered` is what the projection offers
the client (`available_commands`). `FindExpired`, `TakeNumber` and `Expire` are
`expire_idle_runtimes` between its awaits: Core takes a number of the runtime's scope
that the Node may take as well. `Control`, `BeginTurn`, `Activity`, `EndTurn` and
`Signal` are the Node's commands with the events each makes; `Deliver` and `DropBatch`
an event that Core stores or refuses. After the last event of a batch the acknowledgement
empties the outbox, or is lost with the connection; then, and after any `Reconnect`, `Replay`
sends the outbox again.

Abstracted: provider output is one kind of activity event; titles, models, usage.

### SessionStream

`clocks` and `rows` are the events and the publication outbox, `task` the ingest, the
acknowledgement of a warning and the openers of streams, `drain` the holder of the
publish lock with the rows it selected, `stream` a client's stream. The outbox is
ordered by the sender's clock, so events may be published in another order than their
cursors; a stream skips what another cursor overtook.

### Terminals

`pty`, `seq`, `replay`, `unsent` and `route` are the Node's handle, its numbering, its
replay buffer, the output that is recorded and not yet sent, and the sender route;
`listed` and `view` are Core's `workspace_terminals` and the streams. Input and resize
change none of these and are left out.

### Deductions

`row`, `said` and `versions` are the deduction, the ends its events announced and the
versions of its narrative; `other` stands for the session's other deductions, which the
partial unique index `deductions_one_active_idx` sees. The create and cancel routes, the
dispatcher and the read loop (`ReceiveFrame`, `StoreFrame`, `ReadRow`, `WriteVerdict`,
`AnnounceVerdict`) each write row and command in several transactions.

### ToolCalls and Integrations

`call` is `tool_calls`, `step` the request that waits, `waiters` `command_waiters`,
`recv` the result the read loop works on, `lease` the newest lease. A call is finished
by its request, or by the read loop when no waiter is left. `Integrations` holds the
connection and the dependency instance (`conn`, `dep`), the Node's desired state
(`local`) and the snapshots, results and heartbeats that cross; nothing forces a command of
it to be run, and its result may be lost. `ToolCalls` sees only whether the integration can
be used, and whoever asks may find it usable or not. `inbox`, `Send` and `unanswered` are
delivery as in `TaskRuns`; `stray` are the executions that a read error left behind, which
replace the saved outcome when they end.

## Runs

Bounds are small because the hazards need few actors: one command meets issuer, two
sockets and two dispatchers; two connections are enough for a reconnect that overlaps
its predecessor; one fault of each kind already meets every interleaving of the others.
The last connection the bounds allow stays up (`MayEnd`), which is the "eventually
stable" assumption of the liveness runs. Runs do not check deadlock where, with all
commands settled and the bounds used up, the system rests.

| run | what it shows |
|---|---|
| `command_clean` | a workspace command or a direct one, two connections, a crash of each side: `TypeOK`, `NodeAgrees`, `NoRerunAfterOutcome`, `ResultNeverReplaced`, the refinement `ImplementsService`, and `EventuallyResolved` under the fairness of `FairSpec` |
| `command_locks` | a deduction, its cancellation and duplicates of both never run together (`NoOverlap`) |
| `command_faults` | all faults once, all queues tiny: `UnresolvedStaysQueued`, `OncePerConnection` |
| `event_faults` | `KeptOrStored`, `StoredOnce`, `AckedStaysGone` with torn runs, ingest errors and detached dispatchers |
| `event_live` | `EventsBeforeResult`, and `EventuallyStored` under `FairSpec`, when no run is torn and no ingest fails |
| `message_faults` | `TypeOK`, `ExclusiveClaim`, `NoHiddenRepeat`, and `EventuallySettled` under `FairSpec`, with two requests beside the dispatcher, an error and a restart |
| `job_drivers` | `StartsOnce`, `SuccessHasTurn`, `TerminalStays` with two requests beside the scheduler, runtime failures, an error and a restart |
| `job_restart` | `OneTurn`, and `RunsFinish` under `FairSpec`, with the scheduler as the only driver, edits and cancels, an error and a restart |
| `job_policy` | `TypeOK`, `OneActive` and `NoStartAfterFailure` with an occurrence and a run by hand, scheduler and request driving, without crashes and edits |
| `task_faults` | tasks: `SandboxesAccounted`, `CancelHonoured`, `RowMoves`, `TaskEnds` with an error, two faults of connection or Node, a read error, a stop of Core and another command; admission: `ClaimedOnce`, `EventuallyEnrolled` with lost answers, late approvals and one administrative act |
| `tooling_faults` | calls: `AnswerStays`, `EveryCallEnds` with a reconnect, a read error, a restart of Core and another command; integration: `SidesAgree` with two connects or disconnects and a reconnect |
| `session_faults` | sessions: `Settled`, `ViewsAgree`; sessions and deductions: `EndedStay`; streams: `StreamComplete`; terminals: `AllOrTold` |

The last three runs check several modules at once. These share no state, so the run
explores each of them while the others are at rest in an initial state: the result is
the sum of their state graphs and not the product, and an interleaving of two of them
would show nothing that either alone does not.

In `command_clean` a behaviour has one command of the two (`EitherSpec`), recorded by a route
that marks it pending and dispatches again, or by one that does not; its runs end completed,
and its queues never fill, so that no frame of a connection that holds is lost there. The
faults of a task and of a call come in the combinations of `Budgets` (`MCTaskRuns`,
`MCTooling`): of a task each pair but a read error with a lost connection, a stop of Core or
another command, and a read error is not explored together with a cancellation of the task
(`CancelHonoured` says nothing after one; the theorems cover all of them).

One job is enough, since jobs only meet in the order of the driver's list; an occurrence
and a run by hand give one run that fails and one occurrence that must not start. One task, call, turn or
deduction is enough, since rows of one kind do not meet: the task's lock is per task, and
the other deductions of a session are visible only through the index (`other`). Three
pieces of output over a buffer of two give a viewer whose history is cut; three events
over a channel of two give a follower that lags.

The properties leave out what really breaks them. These are facts about the code,
visible in the model when constants or histories are changed:

* the issuer's late `dispatched` update may put a non-terminal state over a terminal one
  (`MarkDispatched`); the stored result is kept;
* a command whose issuer does not mark it pending ("direct", deduction, cancel) is dispatched
  while it is `recorded`: a result that arrives between `SendRow` and `MarkDispatched` is
  refused by Core (`validate_command_result`, `node.rs:1022`), the mark follows, and nothing
  asks the Node again while the connection holds and no other command is recorded.
  `EventuallyResolved` excepts these commands by `Unheard`: the Node knows an outcome and
  Core does not;
* a result that finds the writer queue full is gone as well (`send_frame`,
  `dispatch.rs:556`), and so is a command whose acknowledgement finds it full, with the
  cancellation that was remembered for it. `TaskEnds` excepts tasks whose command or answer is
  lost again and again, or for good (`dropped`), and `EveryCallEnds` calls nobody waits for
  any more whose command or answer is lost for good (`LostForGood`);
* after a read error two runs of a task go on side by side (`detached`): the one that ends
  first removes the mapping, which goes by the task, and reports its cleanup as completed
  while the sandbox of the other exists (`SandboxesAccounted`), and two results that differ
  may replace each other in the row (`RowMoves`). So may the two outcomes of a tool call,
  even after its caller was told that it completed (`AnswerStays`);
* after a torn run the rerun's events reuse sequence numbers (`Emit`);
* retention trims the task's copy of the outbox, and `Merge` only adds, so the durable
  outbox may exceed its limit;
* `EventsBeforeResult` needs an ingest without errors: a result frame is accepted even
  when the batch before it failed; the outbox still brings the events later;
* a message whose turn was recorded when Core stopped is failed by recovery, and the
  user's retry sends it again (`NoHiddenRepeat` allows just this); `Claim` does not look
  at the time, so a message rescheduled during a tick is sent at once; an error after the
  claim leaves the row in `sending` until a restart (`EventuallySettled` excuses it);
* `NoStartAfterFailure` fails with a restart between `FailRun` and `PauseJob`, and with
  the update route, whose write brings back the enabled flag it loaded before the pause;
  between the two statements the scheduler may start an occurrence beside a request that
  drives the failed run (`Pausing`, which the property excepts);
* `RunsFinish` fails with `"expired"` in `RuntimeFaults`: a runtime that expires before
  the prompt leaves the run in `starting`;
* `EnableJob` may write an occurrence that was claimed meanwhile; every later `ClaimDue`
  then meets the unique index and ends the tick's claims;
* a sandbox is forgotten when the Node stops between its creation and the second
  mapping, and when a run after a lost connection, or after a failed reconciliation,
  replaces the mapping of an older one (`named`, `lost`);
* a cancellation that was answered before its run began is forgotten by a reconnect
  (`CancelHonoured` asks for `count.faults = 0` and `count.reads = 0`);
* when Core stops between `update_command_result` and a projection, the task, the
  deduction or the tool call keeps its old state (`count.stops`, `dropped`): the command
  is settled, so nothing brings the result again;
* a claim whose answer is lost leaves a node row nobody owns and holds the Node up until
  the enrollment expires; a heartbeat verified before a revocation still updates the row;
* a turn that asked for an approval stays `blocked_on_approval` after the answer; an
  interrupt ends the turn and is then answered with an error of its own, so the runtime
  rests in `error`; a turn that waits still runs after a stop; a cancelled or timed-out
  turn takes numbers it never sends, and the gap makes Core call the runtime stale;
* after an ingest error on a connection that stays up, a replay applies an older state
  over a newer one (`Settled` asks for `~fault`);
* an expiry may be written over a runtime that stopped meanwhile, and events of a
  provider that recovers bring a detached session back by way of `degraded`;
* commands are offered for a placement that was registered again and are then refused
  (`OffersAccepted` leaves out `"pending"`);
* publication is ordered by the sender's clock, so a stream skips events that another
  cursor overtook (`overtaken`);
* a cancellation that crosses the verdict leaves the row `cancelled`, while the events
  still announce `DeductionCompleted`; counting active deductions before the insert is not
  atomic, and only the unique index refuses the second one;
* a stale heartbeat or a late snapshot may undo a disconnect for a while, and a disconnect
  whose command is lost is undone by the next heartbeat until a Hello (`SidesAgree` is
  about the end, and about a dependency that is seen to stay up or down); a cancellation remembered before a tool call began is not noticed; a
  late result overwrites a row that ended otherwise than completed;
* output during a control outage is silently missed by viewers that stay open (`cut`); the
  list shows `Detached` or `Error` over `Exited` after a later attach; a terminal that
  exits before Core lists it stays `running` there, and one that survives a restart of
  Core is not listed.

`ResultNeverReplaced` and `NodeAgrees` are checked without detached dispatchers for the
same reason that `NoRerunAfterOutcome` fails with one (below).

### Disagreements met while modelling

Four configurations reproduce places where the code does something else than a document
of the repository says. They are kept beside the others, and TLC reports a counterexample
for each:

* `CommandDelivery_dedupe.cfg` (`MCCommandDelivery`, `NoRerunAfterOutcome`):
  `docs/systems/areas/003-distributed-runtime-coordination.md:348` says "Node deduplicates
  by command_id". `run_control_channel` (`control.rs:105`) returns with `?` on a read error
  and leaves its dispatcher running; the next connection's dispatcher has locks of its own,
  and one starts the command after the other recorded its outcome.
* `EventDelivery_torn.cfg` (`MCEventDelivery`, `EventuallyStored`):
  `docs/runbooks/v01-local-dev.md:259` has the outbox replay events "until Core acknowledges
  their event ids". After a torn run the rerun's event has a number that is taken,
  `accept_node_event` (`coordination.rs:587`) refuses it at every replay, and it stays in
  the outbox for ever.
* `JobRuns_twice.cfg` (`MCJobRuns`, `OneTurn`): `docs/systems/areas/011-background-jobs.md:17`
  makes every actual launch one observable Job Run. `drive_starting_job_run`
  (`scheduling.rs:1304`) looks for a turn and submits one in separate statements, and the run
  request drives beside the scheduler, so both submit and one turn belongs to no run.
* `Sessions_resume.cfg` (`Sessions`, `ExpiredResumes`): `docs/runbooks/v01-local-dev.md:455`
  says that expired runtimes "remain resumable". Core's own expiry event takes the number
  that the Node gives to the first event of the resume; Core refuses that event
  (`coordination.rs:582`), and the runtime stays expired.

`NodeAdmission!DeletedStaysAway` is another: `tests/node.rs:847` of the server expects a
deleted workspace to stay away from later heartbeats, and a heartbeat that looked at
`deleted_workspace_bindings` before `delete_placement` places it again afterwards.

## Fairness

Tokio schedules every ready task, so the dispatch loops, socket tasks, read loops and
command tasks are weakly fair; `control_channel_loop` reconnects for ever (`Connect`); a
read loop notices that its peer is gone (`~coreEnd[g] /\ CloseChannel(g)`). For messages
and jobs, time passes, both ticks are endless loops (`TickStep`, `SchedulerStep`), requests
under way are polled, and a connected Node starts the runtime and ends the turn it was
given. Of a task every await has a timeout, and of a tool call the deadline ends it, so
`RunStep` and `EndExecute` are weakly fair, and so is a dispatcher that takes what has reached
it (`ReceiveExecute \/ RefuseExecute`). Nothing in these two modules makes Core dispatch
again, the Node connect again or a `try_send` succeed, and no action is strongly fair: what
is lost stays lost unless the model happens to repeat it. Of `Integrations` only snapshots,
reports that are under way and heartbeats are fair.
For the admission the Node's loop and Core's handlers go on, an enrollment nobody waits for
lapses, and somebody approves what waits for an approval: without that a Node under the
`ask` policy rightly waits for ever. Nothing else a client or an administrator does, and no
fault, is forced.

Every property has a mutant: a "Wrong variant" operator before a definition is a
plausible mistake in the code it models, and makes the property fail.

## Proofs

Every theorem holds for every value of the constants that the assumptions allow: any
number of commands, events, messages, jobs, tasks, turns, viewers or calls, any capacity of
a queue and any bound on the faults. Each proof module builds one inductive invariant,
shows it for each action in a lemma of its own, and draws the properties from it. The
invariants that are larger than the property were first checked by TLC.

### Commands

`CommandDeliveryProofs`:

* `TypeCorrect`: `Spec => []TypeOK`.
* `NoCommandLost`: `Spec => []UnresolvedStaysQueued`. The inductive invariant is
  `QueueInv`: besides the property, every row a dispatch loop holds, every command of an
  issuer about to update its state, and the command of a frame about to be applied are
  recorded. Without it a step could give a state to a command that has no outbox row.
* `RunsOncePerConnection`: `Spec => []OncePerConnection`. The inductive invariant is
  `RunInv`: at most one task of a dispatcher holds the lock of a key; a connection that is
  closed or not opened has no tasks; a task at "start" is the first; and an effect that
  was started left a trace, either its running task or an outcome in memory, or its
  dispatcher is gone. The last part is what makes a failed save harmless and is why the
  merge must not be undone.
* `KeysExclude` (`NoOverlap`) and `OutcomeStopsRuns` (`NoRerunAfterOutcome`) under
  `[]NoneDetached`: no read loop ends with an error and leaves its dispatcher behind.
  `LiveInv` says that then only the newest connection has tasks, so its locks are all
  the locks there are, and that a task past the cache look-up has no outcome in memory.
* `CoreAndNodeAgree` (`NodeAgrees`), `ResultsStay` (`ResultNeverReplaced`) and
  `DeliveryImplementsService` (`ImplementsService`) under `[]CleanNode`: besides
  `NoneDetached`, no save failed and no dispatch queue is full. `AgreeInv` says that every
  result on the way, in the writer queue of either side or in the hands of a socket task,
  is the outcome on the Node's disk (`NodeKnows`); the refinement then maps each step to
  `Ask`, `Settle` or `Report` of `CommandService`, or to a stutter.

The hypotheses are histories the system really has, and they are needed: a detached
dispatcher runs a command a second time, a failed save reports an outcome that the disk
does not have, and a full queue answers "busy" with a failure of its own while an earlier
delivery of the same command runs. TLC finds each with `MaxReadErrors`, `MaxSaveErrors` or
`DispatchCap` at 1.

### Events

`EventDeliveryProofs` needs two invariants.

* `EventInv` holds without a hypothesis (`EventSafe`). `KnownInv`: every copy of an event,
  in the saved outbox, a task's snapshot, a queue, a batch or Core's table, was generated.
  `RunInv`: the events of a running command belong to its task alone and were never saved.
  `AckInv`: a batch that is being stored and an acknowledgement on the way name only events
  that Core has, or has still to store. From it follow `NothingSavedIsLost` (`KeptOrStored`),
  `NothingStoredTwice` (`StoredOnce`) and `AckedIsGone` (`AckedStaysGone`): an acknowledged
  event may still be in a task's old snapshot, and the merge does not bring it back because
  it subtracts the snapshot.
* `CleanInv` is `Clean => Calm`, where `Clean` says that no run was torn and that no read
  loop and no ingest failed. `Calm` says that one connection at a time is open and at work
  (`OneChannel`), that ids and numbers count together (`NumberInv`), that only a command whose
  end is saved has saved events or a result (`DoneInv`), and `AheadInv`: on a connection that
  Core listens to, a result is preceded by every saved event of its command that Core does
  not have yet, and a task that is about to send the result has sent those events. From it
  `EventsComeFirst` (`EventsBeforeResult`). Without `Clean` each part fails.

### Messages and jobs

`ScheduledMessagesProofs`:

* `TypeCorrect`: `Spec => []TypeOK`.
* `ClaimsAreExclusive`: `Spec => []ExclusiveClaim`; a worker has a message exactly while
  it dispatches one (`WorkInv`), and only that worker can move a row out of `sending`.
* `NothingRepeatsHidden`: `Spec => []NoHiddenRepeat`. `BudgetInv` adds what the property
  does not say: a row that waits, or a worker that has not submitted yet, still has room
  for one more turn. It needs the exclusive claim, or two workers would share that room.

`JobRunsProofs`:

* `TypeCorrect`: `Spec => []TypeOK`, with `TaskInv`: a task holds a job or a run that
  exists, because runs are never deleted.
* `RunsStartOnce`, `OneRunIsActive` and `EndedRunsStay` for `StartsOnce`, `OneActive`
  and `TerminalStays`. All three follow from one lemma, `EveryStep`: every step either
  changes each run by `Legal` (an ended run stays ended, only the claim of a queued run
  starts it, and a run that has a runtime is never queued again) or appends a run whose
  state obeys the overlap policy. `StartsOnce` needs `StartInv`: a run has a runtime
  exactly when its `StartRuntime` was recorded, and a queued run has none. `OneActive`
  needs no help from `job_runs_one_active_idx`.
* `SuccessIsEarned` (`SuccessHasTurn`) with any drivers. `TurnInv`: a running run is linked
  to a turn, and what a driver read of the link and the end of that turn before its await
  still holds when it marks the run.
* `PromptGivenOnce` (`OneTurn`) for `"run" \notin Routes`. `LoneInv`: no request drives,
  and the run for which the scheduler is about to submit has no turn. With that route the
  scheduler and a request both submit (`JobRuns_twice.cfg`).

### Tasks and admission

`TaskRunsProofs` proves `TypeCorrect`, `Accounted` (`SandboxesAccounted`), `Honoured`
(`CancelHonoured`) and `Moves` (`RowMoves`) from `TaskInv`. `Alone`: a task that no read error
has touched has one run, that of the connection in use. For these tasks, `OutcomeInv`: a
saved outcome is on disk, ends the run, and every frame agrees with it; `RowInv`: what Core's
row says of the end and of the cleanup, the Node's outcome says too; `BoxInv`: a sandbox the
Node has to account for is in its mapping, in memory and on disk, and a cleanup that is
reported as completed leaves none. Of all tasks, `StepInv` says what a run has at each step,
and `NumberInv` that a run and its mapping name sandboxes of the task that were created.
`SignalInv`: without a fault or a read error, a cancellation that was answered is remembered
or has cut the run short. The exception for detached tasks is needed: `BoxInv` fails when two
runs of a task share its mapping.

Its second half is about `NodeAdmission`: `OneRowEach` (`ClaimedOnce`) and `IdentitiesKnown`.
The invariant makes rows and enrollments name each other: a claimed enrollment points to a
row, that row points back, and a request that passed its conditional update is the one
that inserted it. The run `task_faults` checks both modules in one specification, in
which one moves while the other is in an initial state; `AdmissionRuns` shows that its
behaviours are behaviours of `NodeAdmission`.

### Sessions, streams, terminals, deductions

`SessionsProofs` is about the specification `MCSpec` of the run `session_faults`, part by part:

* Streams (`StreamShowsAll` for `StreamComplete`), from `StreamInv`: one task at a time holds
  the publish lock (`LockInv`); a publication row is in the hands of somebody who will drain
  it (`RowsCovered`); and `Good` says of a stream that every event past its cursor has a row
  or is in its queue, and every one up to its cursor was passed on, or overtaken, or waits
  behind an event that will overtake it. Needs a channel with room for one event.
* Terminals (`TerminalShowsAll` for `AllOrTold`), from `TermInv`: the replay buffer is the end of
  the output (`ReplayInv`), nothing is under way without a sender route (`RouteInv`), and for
  a viewer that was not cut or told, what it has seen, the replay it waits for and the
  frames on the way make up all the output (`ViewInv`, `Coming`). Needs a replay buffer that
  holds something.
* Deductions (the second half of `EndsAreFinal`), from `DedInv`: frames and commands come
  after the row (`CreatedInv`), and an end that was announced, or is about to be, is in the
  row (`AnnouncedInv`).
* Sessions (`ClientSeesOneTruth` for `ViewsAgree`, the first half of `EndsAreFinal`), from
  `SessInv`. The events of a turn are spread over the log, the outbox, the batches, the
  work of the Node and the command it has not begun; `TurnInv` says that each of them
  exists once over all these places (`OneEach`), that in each queue the end of a turn
  follows its beginning and an answer the question (`InOrder`), and which events a turn may
  have at each stage (`Stages`, `Grounds`). `RowsFollow` then says that a row is what the log
  makes of it. `NodeFits` and `HasLast` bound the numbers of the Node and of the log.
* `CoreShowsTheNode` for `Settled`, from `SettleInv` beside `SessInv`. It follows the last event
  of the Node. `LastInv`: that event is `Underway`, the last of the saved outbox and of the last
  batch on the wire and nowhere else, or it has `Arrived`, and then the log ends with it or
  with an expiry. `CoverInv`: as long as Core refused nothing, every event in the outbox is in
  the log or in a batch on the way. `MadeInv` bounds the numbers of all events
  on the way by the Node's, and `FollowInv` says what Core shows after the last event of its
  log. A batch may be applied and its acknowledgement lost; the batch then comes again.

### Tool calls

`ToolCallsProofs` proves `AnswersStay` (`AnswerStays`) and `OneOutcome` (the result Core stores is
the one the Node saved, and no "busy" frame follows an outcome), both for calls that no read
error left running. `VerdictInv` says that a verdict of success, told or about to be,
stands: the stored result of its command is a completion or the tool needed no command, and
the call was not cancelled (`Stands`).

### Shared lemmas and assumptions

`OutboxProofs` has what `Append`, `Tail` and `\o` do to the members of a sequence, and that
`Without` returns a sequence of the members that are left, in their order (`WithoutKeeps`).

Assumptions: `MessageAssumption`, `JobAssumption`, `TaskAssumption`, `SessionAssumption`
(disjoint names, natural bounds, known routes and faults), `EventAssumption` (the same, and an
outbox and a batch hold at least one event), `StreamAssumption` and `ReplayAssumption` (a
channel and a replay buffer hold at least one item), `CommandAssumption` (commands are a
finite set disjoint from connection numbers; kinds and keys are functions on it; a run ends
completed or failed) and `BoundAssumption` (bounds are natural numbers). TLC evaluates them
in every run of their module. `NodeAdmission`, `ToolCalls`, `Terminals` and `Deductions`
need none of their own.

### Only model-checked

* Liveness (`EventuallyResolved`, `EventuallyStored`, `EventuallySettled`, `RunsFinish`,
  `TaskEnds`, `EventuallyEnrolled`, `EveryCallEnds`) and `SidesAgree`, which speaks of what
  has come to rest: temporal reasoning under fairness, and `ENABLED`, are out of the
  prover's reach.
* `NoStartAfterFailure`: it is false for some values of the constants (with a restart, or
  with the update route, see "Runs"), and true of the bounded run because its faults and
  routes leave those histories out.

## Plan

1. Delivery of commands and events, messages, jobs (done, checked and proved).
2. Tasks, admission, sessions, streams, terminals, deductions, tools (done, checked and
   proved except for what "Only model-checked" lists).
3. Two jobs with a persistent error in the driver: one run that returns an error ends
   `drive_job_runs`, and the runs queued behind it wait while the error lasts.
4. Versions and builds of artifacts and generated UI; plugins.

## Not modelled

Workspace inspection, HTTP parsing and cookies, migrations, wire types, logging and the
ToolHive bridge are I/O or data without protocol state. The web client shows what Core
reports. Plugins resolve preferences in single statements, and builds of generated UI run
one after the other; both are left for an extension. Of the modelled components, the
dispatcher's priority queue and permits only restrict the order of `BeginTask`, the
compaction of the Node's command cache (thousands of entries) turns a forgotten command
into a first delivery, and the content of an edited message or job is abstracted, so two
edits that merge with an old copy of the row and undo each other's fields are not seen.
`PROJECT.json` lists the status of every component.
