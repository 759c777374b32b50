------------------------------ MODULE TaskRuns ------------------------------
(***************************************************************************)
(* Task Runs: a prompt that runs in a sandbox of its own.                  *)
(*                                                                         *)
(* Core keeps a row of task_runs and two commands (RunTask, CancelTaskRun) *)
(* that it dispatches when they are recorded, when it dispatches another   *)
(* command of the Node and when the Node connects.  The Node runs the task *)
(* in steps that end where the code awaits the sandbox service or the      *)
(* state store, reports its states as live events with stable ids, saves   *)
(* the outcome with these events and tries its answer once.                *)
(*                                                                         *)
(* A lost connection aborts the run.  A read loop that ends with an error  *)
(* leaves the dispatcher and what it runs behind, beside the run of the    *)
(* next connection (a detached run; Core refuses what it still sends).  A  *)
(* restarted Node first reconciles the sandboxes it recorded.              *)
(*                                                                         *)
(* Of delivery, CommandDelivery has what this module leaves out: two       *)
(* copies of a frame that was not taken count as one, and a command the    *)
(* Node has no room for is lost, not answered as busy.                     *)
(***************************************************************************)
EXTENDS Naturals, Sequences, FiniteSets

CONSTANTS
    Tasks,          \* rows of task_runs
    MaxWire,        \* frames of a task the control queue has room for
    MaxSandboxes,   \* bound: sandboxes that are ever created
    MaxErrors,      \* bound: errors of the sandbox service, git and the store
    MaxFaults,      \* bound: lost connections and acks, restarts of the Node
    MaxReadErrors,  \* bound: read loops of the Node that end with an error
    MaxOthers,      \* bound: other commands issued for the Node
    MaxCoreStops    \* bound: stops of Core between result and projection

ASSUME TaskAssumption ==
    /\ MaxWire \in Nat /\ MaxSandboxes \in Nat /\ MaxErrors \in Nat
    /\ MaxFaults \in Nat /\ MaxReadErrors \in Nat /\ MaxOthers \in Nat
    /\ MaxCoreStops \in Nat

VARIABLES
    row,       \* Core, durable: task_runs with the commands of the task
    seen,      \* Core, durable: the task's states in the table of events
    wire,      \* frames of each task on their way to Core
    inbox,     \* dispatched commands a dispatcher of the Node has not taken
    run,       \* Node, per dispatcher: the execution that holds the task's lock
    pending,   \* Node: cancellations remembered for a run that has not begun
    asked,     \* Node: CancelTaskRun commands that wait for the task's lock
    mem, disk, \* Node: mappings, outcomes and outbox in memory, and saved
    boxes,     \* external: the sandboxes that exist, with their task
    named,     \* history: sandboxes persist_task_mapping has saved
    lost,      \* history: sandboxes whose mapping a later run replaced
    detached,  \* history: tasks with a run that a read error left behind
    dropped,   \* history: tasks whose RunTask or its answer was lost, and
               \* which was not dispatched since
    count      \* history: sandboxes created, faults so far

vars == <<row, seen, wire, inbox, run, pending, asked, mem, disk, boxes, named, lost,
          detached, dropped, count>>

Terminal == {"succeeded", "failed", "cancelled", "timed_out"}
(* "active" stands for the stages preparing_workspace, starting_runtime,   *)
(* running, checking and collecting_evidence: no guard tells them apart.   *)
States == {"absent", "queued", "active", "cancelling"} \cup Terminal
Cleanup == {"pending", "completed", "failed"}

(* Commands: none is recorded; open, that is without a result; done.  Core *)
(* may stop between the result of RunTask and its projection: resolved.    *)
Row == [state : States, cleanup : Cleanup, run : {"none", "open", "resolved", "done"},
        cancel : {"none", "open", "done"}]
Command(k, t) == [kind |-> k, task |-> t]

(* Dispatchers of the Node, in the order they were started.  One that ends *)
(* with its connection makes room for the next; one left behind does not.  *)
Conns == 0 .. MaxReadErrors
Current == count.reads

(* A result package has evidence, and then a cleanup state; a command that *)
(* fails before there is a worktree has none.                              *)
Package == [state : Terminal, cleanup : Cleanup \cup {"none"}]
NoPackage == [state |-> "failed", cleanup |-> "none"]
Nothing == [state |-> "absent", cleanup |-> "none"]

Events == [kind : {"event"}, task : Tasks, state : {"active"} \cup Terminal, cleanup : Cleanup]
Frame == Events
    \cup [kind : {"result"}, task : Tasks, state : Terminal, cleanup : Cleanup \cup {"none"}]
    \cup [kind : {"cancelled"}, task : Tasks, state : {"cancelled"}, cleanup : {"none"}]
Event(t, s, c) == [kind |-> "event", task |-> t, state |-> s, cleanup |-> c]
Result(t, p) == [kind |-> "result", task |-> t, state |-> p.state, cleanup |-> p.cleanup]
CancelResult(t) == [kind |-> "cancelled", task |-> t, state |-> "cancelled", cleanup |-> "none"]

(* box is 0 when a mapping has no sandbox_id; events are the outbox.       *)
Box == 0 .. MaxSandboxes
Store == [mapped : BOOLEAN, box : Box, outcome : Package \cup {Nothing},
          events : Seq(Events)]
EmptyStore == [mapped |-> FALSE, box |-> 0, outcome |-> Nothing, events |-> <<>>]

Steps == {"idle", "prepare", "create", "map", "ready", "codex", "checks",
          "delete", "unmap", "finish", "save", "send"}
(* end: the state the run will report; cut: the cancellation receiver;     *)
(* ok: codex succeeded; clean: sandbox and mapping are gone; answer: the   *)
(* outcome to save and to send.                                            *)
Exec == [at : Steps, box : Box, end : Terminal, cut : BOOLEAN, ok : BOOLEAN,
         clean : BOOLEAN, answer : Package \cup {Nothing}]
Idle == [at |-> "idle", box |-> 0, end |-> "failed", cut |-> FALSE, ok |-> FALSE,
         clean |-> FALSE, answer |-> Nothing]
Sending(p) == [Idle EXCEPT !.at = "send", !.answer = p]

Counts == {"boxes", "errors", "faults", "reads", "others", "stops"}

Init ==
    /\ row = [t \in Tasks |-> [state |-> "absent", cleanup |-> "pending",
                               run |-> "none", cancel |-> "none"]]
    /\ seen = [t \in Tasks |-> {}]
    /\ wire = [t \in Tasks |-> <<>>]
    /\ inbox = {}
    /\ run = [t \in Tasks |-> [c \in Conns |-> Idle]]
    /\ pending = {} /\ asked = {}
    /\ mem = [t \in Tasks |-> EmptyStore]
    /\ disk = [t \in Tasks |-> EmptyStore]
    /\ boxes = {} /\ named = {} /\ lost = {}
    /\ detached = {} /\ dropped = {}
    /\ count = [boxes |-> 0, errors |-> 0, faults |-> 0, reads |-> 0, others |-> 0,
                stops |-> 0]

-----------------------------------------------------------------------------
Core == <<row, seen>>
Registry == <<pending, asked>>
Node == <<run, Registry, mem, disk>>
Outside == <<boxes, named, lost>>
Delivery == <<inbox, dropped>>

Tick(n, bound) == count[n] < bound /\ count' = [count EXCEPT ![n] = @ + 1]
Error == Tick("errors", MaxErrors)
NoError == UNCHANGED count

(* dispatch_pending_commands: each command that has no result is tried     *)
(* once on connection c; the Node takes it, or a full queue loses it.      *)
(* Then it is marked dispatched, which changes nothing here: a result that *)
(* comes before the mark, and is refused, is one of the lost ones.         *)
Unresolved(r) == {Command("run", t) : t \in {u \in Tasks : r[u].run = "open"}}
                   \cup {Command("cancel", t) : t \in {u \in Tasks : r[u].cancel = "open"}}
Dispatched(sent, c) == {[kind |-> m.kind, task |-> m.task, conn |-> c] : m \in sent}

(* The RunTask of the tasks in anew is not under way from before.          *)
Undelivered(r, sent, anew) ==
    LET reached == {t \in Tasks : Command("run", t) \in sent}
    IN  (dropped \ reached) \cup {t \in anew \ reached : r[t].run = "open"}

dispatch_pending_commands(r, taken, c, anew) ==
    \E sent \in SUBSET Unresolved(r) :
        /\ row' = r
        /\ inbox' = taken \cup Dispatched(sent, c)
        /\ dropped' = Undelivered(r, sent, anew)

(* A command that was just recorded is dispatched with all the others.     *)
Issue(r, anew) ==
    /\ dispatch_pending_commands(r, inbox, Current, anew)
    /\ UNCHANGED <<seen, wire, Node, Outside, detached>>

(* create_task_run_route: row and command in one transaction.              *)
CreateTask(t) ==
    /\ row[t].state = "absent"
    /\ Issue([row EXCEPT ![t].state = "queued", ![t].run = "open"], {t})
    /\ UNCHANGED count

(* cancel_task_run_route: the update repeats the states it excludes.       *)
CancelTask(t) ==
    /\ row[t].state \notin Terminal \cup {"absent", "cancelling"}
    /\ Issue([row EXCEPT ![t].state = "cancelling", ![t].cancel = "open"], {})
    /\ UNCHANGED count

(* Another command of the Node is recorded and dispatched.                 *)
Redispatch ==
    /\ Unresolved(row) # {}
    /\ Tick("others", MaxOthers)
    /\ Issue(row, {})

(* Wrong variant: an event may follow the end or the cancellation.         *)
ProjectAnyEvent(r, f) == [r EXCEPT !.state = f.state, !.cleanup = f.cleanup]

(* project_task_event_on_connection.                                       *)
project_task_event(r, f) ==
    IF /\ r.state \notin Terminal
       /\ r.state # "cancelling" \/ f.state \in Terminal
      THEN [r EXCEPT !.state = f.state, !.cleanup = f.cleanup]
      ELSE r

(* accept_node_event: an event id, one per state of a task, counts once.   *)
(* EventDelivery models the acknowledgement; here the outbox keeps every   *)
(* event, the most that can be replayed.                                   *)
ReceiveEvent(t) ==
    /\ wire[t] # <<>> /\ Head(wire[t]).kind = "event"
    /\ LET f == Head(wire[t])
       IN  /\ seen' = [seen EXCEPT ![t] = @ \cup {f.state}]
           /\ row' = IF f.state \in seen[t] THEN row
                     ELSE [row EXCEPT ![t] = project_task_event(@, f)]
    /\ wire' = [wire EXCEPT ![t] = Tail(@)]
    /\ UNCHANGED <<Node, Outside, Delivery, detached, count>>

(* project_task_command_result: the result replaces whatever was there.    *)
project_task_command_result(r, f) ==
    [r EXCEPT !.state = f.state,
              !.cleanup = IF f.cleanup = "none" THEN @ ELSE f.cleanup]

(* update_command_result resolves the command; the projection follows in a *)
(* statement of its own and is lost when Core stops in between.  The same  *)
(* result again is projected again; a second one that differs is refused   *)
(* (validate_command_result), unless a late mark has hidden the first one  *)
(* (which CommandDelivery models): here a second one counts or does not.   *)
ReceiveResult(t) ==
    /\ wire[t] # <<>> /\ Head(wire[t]).kind = "result"
    /\ LET done == [row[t] EXCEPT !.run = "done"]
       IN  \/ /\ row' = [row EXCEPT ![t] = project_task_command_result(done, Head(wire[t]))]
              /\ UNCHANGED count
           \/ /\ row[t].run = "open" /\ Tick("stops", MaxCoreStops)
              /\ row' = [row EXCEPT ![t].run = "resolved"]
           \/ /\ row[t].run # "open"
              /\ UNCHANGED <<row, count>>
    /\ wire' = [wire EXCEPT ![t] = Tail(@)]
    /\ UNCHANGED <<seen, Node, Outside, Delivery, detached>>

ReceiveCancelled(t) ==
    /\ wire[t] # <<>> /\ Head(wire[t]).kind = "cancelled"
    /\ row' = [row EXCEPT ![t].cancel = "done"]
    /\ wire' = [wire EXCEPT ![t] = Tail(@)]
    /\ UNCHANGED <<seen, Node, Outside, Delivery, detached, count>>

-----------------------------------------------------------------------------
(* push_task_state: kept for the outbox, and offered live with try_send,   *)
(* which drops the frame when the queue is full.  What a detached run      *)
(* sends is refused by Core (require_active_generation).                   *)
Push(t, c, s, cl) ==
    wire' = IF c = Current /\ Len(wire[t]) < MaxWire
              THEN [wire EXCEPT ![t] = Append(@, Event(t, s, cl))] ELSE wire

To(t, c, r) == run' = [run EXCEPT ![t][c] = r]
PushStage(t, c) == Push(t, c, "active", "pending")

Save(t, s) == mem' = [mem EXCEPT ![t] = s] /\ disk' = [disk EXCEPT ![t] = s]
(* apply_node_state_mutation: memory first, then the file, which may fail. *)
SaveFails(t, s) == mem' = [mem EXCEPT ![t] = s] /\ UNCHANGED disk

(* A dispatcher takes a command.                                           *)
Taken(k, t, c) == [kind |-> k, task |-> t, conn |-> c]
Take(k, t, c) == Taken(k, t, c) \in inbox /\ inbox' = inbox \ {Taken(k, t, c)}

(* What is lost on the connection in use has to be told.                   *)
Drop(t, c) == dropped' = IF c = Current THEN dropped \cup {t} ELSE dropped

(* Wrong variant: a task that was under way is not started a second time.  *)
BeginOnce(t, c) ==
    /\ run[t][c].at = "idle" /\ Len(wire[t]) <= MaxWire
    /\ Take("run", t, c)
    /\ pending' = pending \ {<<t, c>>}
    /\ \/ /\ mem[t].outcome # Nothing
          /\ To(t, c, Sending(mem[t].outcome))
       \/ /\ mem[t].outcome = Nothing /\ ~mem[t].mapped
          /\ To(t, c, [Idle EXCEPT !.at = "prepare", !.cut = <<t, c>> \in pending])
       \/ mem[t].mapped /\ UNCHANGED run
    /\ UNCHANGED <<Core, wire, asked, mem, disk, Outside, detached, dropped, count>>

(* The lock is taken and the registry begins with the remembered           *)
(* cancellation; a cached outcome is answered without running.             *)
BeginRun(t, c) ==
    /\ run[t][c].at = "idle"
    /\ Len(wire[t]) <= MaxWire   \* bound: frames have to move first
    /\ Take("run", t, c)
    /\ pending' = pending \ {<<t, c>>}
    /\ IF mem[t].outcome # Nothing
         THEN To(t, c, Sending(mem[t].outcome)) /\ UNCHANGED wire
         ELSE /\ To(t, c, [Idle EXCEPT !.at = "prepare", !.cut = <<t, c>> \in pending])
              /\ PushStage(t, c)
    /\ UNCHANGED <<Core, asked, mem, disk, Outside, detached, dropped, count>>

(* handle_command_dispatch: no room for the CommandAck, and the command is *)
(* given up, with the cancellation that was remembered for it.             *)
ForgetRun(t, c) ==
    /\ run[t][c].at = "idle"
    /\ Take("run", t, c)
    /\ Tick("faults", MaxFaults)
    /\ pending' = pending \ {<<t, c>>}
    /\ Drop(t, c)
    /\ UNCHANGED <<Core, wire, run, asked, mem, disk, Outside, detached>>

(* Wrong variant: the signal reaches a running task only.                  *)
SignalRunning(t, c) ==
    IF run[t][c].at = "idle" THEN UNCHANGED <<run, pending>>
    ELSE run' = [run EXCEPT ![t][c].cut = TRUE] /\ UNCHANGED pending

(* ExecutionCancellationRegistry::cancel, before the lock is asked for.    *)
Signal(t, c) ==
    IF run[t][c].at = "idle"
      THEN pending' = pending \cup {<<t, c>>} /\ UNCHANGED run
      ELSE run' = [run EXCEPT ![t][c].cut = TRUE] /\ UNCHANGED pending

(* CancelTaskRun signals, then waits for the task's lock and is answered,  *)
(* or its acknowledgement or its answer is lost.                           *)
SignalCancel(t, c) ==
    /\ <<t, c>> \notin asked
    /\ Len(wire[t]) <= MaxWire   \* bound: frames have to move first
    /\ Take("cancel", t, c)
    /\ Signal(t, c)
    /\ asked' = asked \cup {<<t, c>>}
    /\ UNCHANGED <<Core, wire, mem, disk, Outside, detached, dropped, count>>

AnswerCancel(t, c) ==
    /\ <<t, c>> \in asked /\ run[t][c].at = "idle"
    /\ asked' = asked \ {<<t, c>>}
    /\ \/ c = Current /\ wire' = [wire EXCEPT ![t] = Append(@, CancelResult(t))]
       \/ UNCHANGED wire
    /\ UNCHANGED <<Core, run, pending, mem, disk, Outside, Delivery, detached, count>>

-----------------------------------------------------------------------------
(* execute_task, step by step.                                             *)

(* persist_task_mapping and remove_task_mapping.                           *)
Recorded(t, box) == [mem[t] EXCEPT !.mapped = TRUE, !.box = box]
Unrecorded(t) == [mem[t] EXCEPT !.mapped = FALSE, !.box = 0]

(* An error before the sandbox makes the command fail without evidence:    *)
(* its events are dropped, and store s is saved with that outcome.         *)
FailBare(t, c, s) ==
    /\ Error
    /\ Save(t, [s EXCEPT !.outcome = NoPackage])
    /\ To(t, c, Sending(NoPackage))
    /\ UNCHANGED wire

(* The first mapping replaces what was mapped before.                      *)
Replace(t) == lost' = lost \cup {mem[t].box, disk[t].box}

(* prepare_task_worktree: an existing worktree on the task's branch is     *)
(* taken over, anything else that is in the way is an error.               *)
NoWorktree(t, c) == FailBare(t, c, mem[t]) /\ UNCHANGED lost

(* persist_task_mapping fails: memory has the mapping, and the save of the *)
(* outcome, which follows, writes both.                                    *)
NoMapping(t, c) == FailBare(t, c, Recorded(t, 0)) /\ Replace(t)

(* The worktree, a mapping without a sandbox and the first look at the     *)
(* cancellation.                                                           *)
PrepareRun(t, c) ==
    /\ run[t][c].at = "prepare"
    /\ \/ /\ NoError
          /\ Save(t, Recorded(t, 0)) /\ Replace(t)
          /\ IF run[t][c].cut
               THEN /\ To(t, c, [run[t][c] EXCEPT !.at = "unmap", !.end = "cancelled",
                                                  !.clean = TRUE])
                    /\ UNCHANGED wire
               ELSE /\ To(t, c, [run[t][c] EXCEPT !.at = "create"])
                    /\ PushStage(t, c)
       \/ NoWorktree(t, c) \/ NoMapping(t, c)
    /\ UNCHANGED <<Core, Registry, boxes, named, Delivery, detached>>

(* create_sandbox: the request may fail after the sandbox was created.     *)
CreateSandbox(t, c) ==
    /\ run[t][c].at = "create"
    /\ count.boxes < MaxSandboxes
    /\ LET b == count.boxes + 1
           made == [count EXCEPT !.boxes = b]
           failed == [run[t][c] EXCEPT !.at = "unmap", !.end = "failed", !.clean = TRUE]
       IN  \/ /\ boxes' = boxes \cup {[id |-> b, task |-> t]}
              /\ count' = made
              /\ To(t, c, [run[t][c] EXCEPT !.at = "map", !.box = b])
           \/ Error /\ To(t, c, failed) /\ UNCHANGED boxes
           \/ /\ count.errors < MaxErrors
              /\ count' = [made EXCEPT !.errors = @ + 1]
              /\ boxes' = boxes \cup {[id |-> b, task |-> t]}
              /\ To(t, c, failed)
    /\ UNCHANGED <<Core, wire, Registry, mem, disk, named, lost, Delivery, detached>>

MapSandbox(t, c) ==
    /\ run[t][c].at = "map"
    /\ LET s == Recorded(t, run[t][c].box)
       IN  \/ /\ NoError /\ Save(t, s) /\ named' = named \cup {run[t][c].box}
              /\ To(t, c, [run[t][c] EXCEPT !.at = "ready"])
           \/ /\ Error /\ SaveFails(t, s) /\ UNCHANGED named
              /\ To(t, c, [run[t][c] EXCEPT !.at = "delete", !.end = "failed"])
    /\ UNCHANGED <<Core, wire, Registry, boxes, lost, Delivery, detached>>

(* run_task_in_sandbox: readiness and endpoint, codex, then the checks.    *)
(* However it ends, collect_task_evidence follows; a git diff that fails   *)
(* makes the run a failed one (assemble_task_result).                      *)
Collect(t, c, s) ==
    /\ \E end \in {s, "failed"} :
          To(t, c, [run[t][c] EXCEPT !.at = "delete", !.end = end])
    /\ PushStage(t, c)

(* wait_for_task_cancellation and cancel_execd_command.                    *)
CutShort(t, c) == run[t][c].cut /\ Collect(t, c, "cancelled")

(* The deadline of the task covers all of its commands.                    *)
TimedOut(t, c) == Collect(t, c, "timed_out")

(* sandbox_endpoint, or a sandbox that never gets ready.                   *)
NoEndpoint(t, c) == Error /\ Collect(t, c, "failed")

(* The frames of execd say how a command ended.                            *)
ExitOk == BOOLEAN

WaitReady(t, c) ==
    /\ run[t][c].at = "ready"
    /\ \/ CutShort(t, c) /\ NoError
       \/ NoEndpoint(t, c)
       \/ /\ ~run[t][c].cut /\ NoError
          /\ To(t, c, [run[t][c] EXCEPT !.at = "codex"])
          /\ PushStage(t, c)
    /\ UNCHANGED <<Core, Registry, mem, disk, Outside, Delivery, detached>>

(* A command ends, with or without success, is cancelled or times out.     *)
RunCodex(t, c) ==
    /\ run[t][c].at = "codex"
    /\ \/ CutShort(t, c)
       \/ TimedOut(t, c)
       \/ \E ok \in ExitOk :
             /\ To(t, c, [run[t][c] EXCEPT !.at = "checks", !.ok = ok])
             /\ PushStage(t, c)
    /\ UNCHANGED <<Core, Registry, mem, disk, Outside, Delivery, detached, count>>

RunChecks(t, c) ==
    /\ run[t][c].at = "checks"
    /\ \/ CutShort(t, c)
       \/ TimedOut(t, c)
       \/ run[t][c].ok /\ Collect(t, c, "succeeded")
       \/ Collect(t, c, "failed")
    /\ UNCHANGED <<Core, Registry, mem, disk, Outside, Delivery, detached, count>>

(* Wrong variant: a delete that failed counts as one that was done.        *)
DeleteQuietly(t, c) ==
    /\ run[t][c].at = "delete"
    /\ \/ NoError /\ boxes' = {b \in boxes : b.id # run[t][c].box}
       \/ Error /\ UNCHANGED boxes
    /\ To(t, c, [run[t][c] EXCEPT !.at = "unmap", !.clean = TRUE])
    /\ UNCHANGED <<Core, wire, Registry, mem, disk, named, lost, Delivery, detached>>

(* delete_sandbox: a sandbox that is not found is gone.                    *)
DeleteSandbox(t, c) ==
    /\ run[t][c].at = "delete"
    /\ \/ /\ NoError
          /\ boxes' = {b \in boxes : b.id # run[t][c].box}
          /\ To(t, c, [run[t][c] EXCEPT !.at = "unmap", !.clean = TRUE])
       \/ Error /\ UNCHANGED boxes /\ To(t, c, [run[t][c] EXCEPT !.at = "finish"])
    /\ UNCHANGED <<Core, wire, Registry, mem, disk, named, lost, Delivery, detached>>

(* remove_task_mapping, only after the sandbox is gone.                    *)
Unmap(t, c) ==
    /\ run[t][c].at = "unmap"
    /\ LET s == Unrecorded(t)
       IN  \/ NoError /\ Save(t, s) /\ To(t, c, [run[t][c] EXCEPT !.at = "finish"])
           \/ /\ Error /\ SaveFails(t, s)
              /\ To(t, c, [run[t][c] EXCEPT !.at = "finish", !.clean = FALSE])
    /\ UNCHANGED <<Core, wire, Registry, Outside, Delivery, detached>>

(* The terminal event goes out before the outcome is saved.                *)
FinishRun(t, c) ==
    /\ run[t][c].at = "finish"
    /\ LET p == [state |-> run[t][c].end,
                 cleanup |-> IF run[t][c].clean THEN "completed" ELSE "failed"]
       IN  /\ To(t, c, [run[t][c] EXCEPT !.at = "save", !.answer = p])
           /\ Push(t, c, p.state, p.cleanup)
    /\ UNCHANGED <<Core, Registry, mem, disk, Outside, Delivery, detached, count>>

(* merge_command_state_from: the events of the run whose id the outbox     *)
(* does not have yet.                                                      *)
EventsOf(t, p) ==
    IF p.cleanup = "none" THEN <<>>
    ELSE <<Event(t, "active", "pending"), Event(t, p.state, p.cleanup)>>
Outboxed(t, events, p) ==
    IF events = <<>> THEN EventsOf(t, p)
    ELSE IF \E i \in DOMAIN events : events[i].state = p.state THEN events
    ELSE Append(events, Event(t, p.state, p.cleanup))

(* The outcome and the outbox in one save.                                 *)
SaveOutcome(t, c) ==
    /\ run[t][c].at = "save"
    /\ LET p == run[t][c].answer
       IN  /\ Save(t, [mem[t] EXCEPT !.outcome = p, !.events = Outboxed(t, @, p)])
           /\ To(t, c, Sending(p))
    /\ UNCHANGED <<Core, wire, Registry, Outside, Delivery, detached, count>>

(* The batch waits for room; the guard is dropped and the lock released.   *)
SendFrames(t, c, answer) ==
    /\ run[t][c].at = "send"
    /\ wire' = IF c = Current
                 THEN [wire EXCEPT ![t] = @ \o EventsOf(t, run[t][c].answer) \o answer]
                 ELSE wire
    /\ To(t, c, Idle)
    /\ UNCHANGED <<Core, inbox, Registry, mem, disk, Outside, detached, count>>

(* send_command_result: the result is tried once, and Core refuses it when *)
(* it comes before the mark of the dispatch.                               *)
SendOutcome(t, c) ==
    SendFrames(t, c, <<Result(t, run[t][c].answer)>>) /\ UNCHANGED dropped
DropOutcome(t, c) == SendFrames(t, c, <<>>) /\ Drop(t, c)

-----------------------------------------------------------------------------
(* The Node connects again: it replays the outbox of its store s, and Core *)
(* dispatches what has no result.                                          *)
Hello(s, taken, c) ==
    /\ wire' = [t \in Tasks |-> s[t].events]
    /\ dispatch_pending_commands(row, taken, c, Tasks)

(* The connection ends: frames are lost, the dispatcher, its registry and  *)
(* its runs are aborted.                                                   *)
Behind(set) == {p \in set : p[2] # Current}
ConnectionLost ==
    /\ Tick("faults", MaxFaults)
    /\ run' = [t \in Tasks |-> [run[t] EXCEPT ![Current] = Idle]]
    /\ pending' = Behind(pending) /\ asked' = Behind(asked)
    /\ Hello(mem, {m \in inbox : m.conn # Current}, Current)
    /\ UNCHANGED <<seen, mem, disk, Outside, detached>>

(* The read loop ends with an error: run_control_channel returns before it *)
(* aborts the dispatcher, which goes on with its runs and with the RunTask *)
(* commands it has taken; a cancellation it has taken was signalled, and   *)
(* nobody waits for the answer.                                            *)
Left(taken) == {t \in Tasks : run[t][Current].at # "idle" \/ Taken("run", t, Current) \in taken}
ReadError ==
    /\ Tick("reads", MaxReadErrors)
    /\ \E taken \in SUBSET {m \in inbox : m.conn = Current /\ m.kind = "run"} :
          /\ detached' = detached \cup Left(taken)
          /\ Hello(mem, taken \cup {m \in inbox : m.conn # Current}, Current + 1)
    /\ asked' = {}
    /\ UNCHANGED <<seen, run, pending, mem, disk, Outside>>

(* reconcile_task_runtime_mappings: a mapping goes with its sandbox.       *)
Reconciled(gone) ==
    [t \in Tasks |-> IF disk[t].mapped /\ (disk[t].box = 0 \/ disk[t].box \in gone)
                       THEN [disk[t] EXCEPT !.mapped = FALSE, !.box = 0]
                       ELSE disk[t]]

(* The Node restarts: what was saved is left; it deletes the sandboxes of  *)
(* the mappings before it connects, and a delete may fail.                 *)
NodeRestart ==
    /\ count.faults < MaxFaults
    /\ LET mapped == {disk[t].box : t \in Tasks} \ {0}
       IN  \E failed \in SUBSET mapped :
              /\ count.errors + Cardinality(failed) <= MaxErrors
              /\ count' = [count EXCEPT !.faults = @ + 1,
                                        !.errors = @ + Cardinality(failed)]
              /\ boxes' = {b \in boxes : b.id \notin mapped \ failed}
              /\ disk' = Reconciled(mapped \ failed)
    /\ mem' = disk'
    /\ run' = [t \in Tasks |-> [c \in Conns |-> Idle]]
    /\ pending' = {} /\ asked' = {}
    /\ Hello(disk, {}, Current)
    /\ UNCHANGED <<seen, named, lost, detached>>

-----------------------------------------------------------------------------
RunStep(t, c) ==
    \/ BeginRun(t, c) \/ ForgetRun(t, c) \/ PrepareRun(t, c) \/ CreateSandbox(t, c)
    \/ MapSandbox(t, c) \/ WaitReady(t, c) \/ RunCodex(t, c) \/ RunChecks(t, c)
    \/ DeleteSandbox(t, c) \/ Unmap(t, c) \/ FinishRun(t, c) \/ SaveOutcome(t, c)
    \/ SendOutcome(t, c) \/ DropOutcome(t, c)
CoreStep(t) == ReceiveEvent(t) \/ ReceiveResult(t) \/ ReceiveCancelled(t)

Next ==
    \/ \E t \in Tasks :
          \/ CreateTask(t) \/ CancelTask(t)
          \/ CoreStep(t)
          \/ \E c \in Conns : RunStep(t, c) \/ SignalCancel(t, c) \/ AnswerCancel(t, c)
    \/ Redispatch \/ ConnectionLost \/ ReadError \/ NodeRestart

Spec == Init /\ [][Next]_vars

(* Awaits end (every request has a timeout) and both read loops run.       *)
(* Nothing makes Core dispatch again: users and faults are not forced.     *)
Fairness ==
    \A t \in Tasks : /\ \A c \in Conns : WF_vars(RunStep(t, c))
                     /\ WF_vars(CoreStep(t))
FairSpec == Spec /\ Fairness

-----------------------------------------------------------------------------
TypeOK ==
    /\ row \in [Tasks -> Row]
    /\ seen \in [Tasks -> SUBSET ({"active"} \cup Terminal)]
    /\ wire \in [Tasks -> Seq(Frame)]
    /\ inbox \subseteq [kind : {"run", "cancel"}, task : Tasks, conn : Conns]
    /\ run \in [Tasks -> [Conns -> Exec]]
    /\ pending \subseteq Tasks \X Conns /\ asked \subseteq Tasks \X Conns
    /\ mem \in [Tasks -> Store] /\ disk \in [Tasks -> Store]
    /\ boxes \subseteq [id : 1 .. MaxSandboxes, task : Tasks]
    /\ named \subseteq 1 .. MaxSandboxes /\ lost \subseteq Box
    /\ detached \subseteq Tasks /\ dropped \subseteq Tasks
    /\ count \in [Counts -> Nat] /\ Current \in Conns

(* A sandbox that was recorded in the Node's state file stays recorded     *)
(* until it is deleted: a failed delete, a failed save, a crash, an abort  *)
(* or a reconciliation never makes the Node forget it.  Two exceptions: a  *)
(* later run of the task, whose first mapping replaces the record          *)
(* (execute_task, reconcile_task_runtime_mappings); and a task with a run  *)
(* that a read error left behind: the runs share one mapping, and the one  *)
(* that ends first removes the record of the other (remove_task_mapping).  *)
RecordedUntilDeleted ==
    \A b \in boxes :
        b.id \in named \ lost /\ b.task \notin detached =>
            disk[b.task].mapped /\ disk[b.task].box = b.id

(* A result that says the cleanup is completed is true, on the Node and in *)
(* Core: no sandbox the task recorded exists any more, but for the same    *)
(* two exceptions (execute_task's cleanup_state).  A failure without       *)
(* evidence says nothing, and leaves in Core what an event said before.    *)
CleanupIsTrue ==
    \A t \in Tasks \ detached :
        \/ mem[t].outcome.cleanup = "completed"
        \/ /\ row[t].run = "done" /\ row[t].cleanup = "completed"
           /\ mem[t].outcome # NoPackage
        => \A b \in boxes : b.task = t => b.id \notin named \ lost

(* The two together: no sandbox is left behind unknown to the Node, and    *)
(* none behind a cleanup that is reported as completed.                    *)
SandboxesAccounted == RecordedUntilDeleted /\ CleanupIsTrue

(* A cancellation the Node has answered reaches the run, whether it had    *)
(* begun, was queued or had not been delivered, as long as the connection  *)
(* that carried it lives and no acknowledgement of RunTask is lost         *)
(* (ExecutionCancellationRegistry).                                        *)
CancelHonoured ==
    \A t \in Tasks :
        row[t].cancel = "done" /\ mem[t].outcome = Nothing
            /\ count.faults = 0 /\ count.reads = 0
          => <<t, 0>> \in pending \/ run[t][0].cut

(* Once the result was applied no event, late, replayed or of an aborted   *)
(* run, changes the row; and a run that is being cancelled only ends       *)
(* (project_task_event_on_connection, project_task_command_result).  Two   *)
(* runs side by side may have two results: after a read error the second   *)
(* one may replace the first.                                              *)
RowMoves ==
    [][\A t \in Tasks :
          /\ row[t].run = "done" /\ t \notin detached =>
                row'[t].state = row[t].state /\ row'[t].cleanup = row[t].cleanup
          /\ row[t].state = "cancelling" =>
                row'[t].state \in Terminal \cup {"cancelling"}]_vars

(* Every run ends: aborts, restarts, read errors and errors in every step  *)
(* run it again or end it.  Two exceptions: Core stopped between the       *)
(* result and its projection; and RunTask or its answer is lost again and  *)
(* again, or once when nothing dispatches the command any more             *)
(* (dispatch_pending_commands, send_command_result, execute_task).         *)
TaskEnds ==
    \A t \in Tasks :
        \/ []<>(t \in dropped)
        \/ row[t].state = "queued" ~> row[t].state \in Terminal \/ row[t].run = "resolved"
=============================================================================
