-------------------------- MODULE CommandDelivery --------------------------
(***************************************************************************)
(* Delivery of commands from Core to one Node and of their results back.   *)
(*                                                                         *)
(* Core (uprava-server) records a command and its dispatch-outbox row in   *)
(* one SQLite transaction, then sends it over the Node's active control    *)
(* connection.  HTTP handlers ("issuers", one per command) and the socket  *)
(* tasks (one per control connection) run the same dispatch loop           *)
(* concurrently; every `.await` on the database ends an atomic step.       *)
(*                                                                         *)
(* The Node (uprava-node) queues a received command, runs it in a task     *)
(* that holds the lock of its execution key, persists the outcome in its   *)
(* state store and answers.  Each connection has a dispatcher, queues and  *)
(* locks of its own.  Duplicate deliveries are answered from the persisted *)
(* command cache.                                                          *)
(*                                                                         *)
(* Connections are numbered in the order in which they are opened: the     *)
(* number stands for the generation ConnectionRegistry gives the socket.   *)
(***************************************************************************)
EXTENDS Naturals, Sequences, FiniteSets

CONSTANTS
    Commands,           \* command ids
    Keys,               \* execution keys (runtime, placement, task ...)
    KindOf,             \* [Commands -> Kinds]: how Core records the command
    KeyOf,              \* [Commands -> Keys]: command_execution_key
    RunStatuses,        \* how a run of a command may end
    ControlCap,         \* CONTROL_QUEUE_CAPACITY (frames Core -> Node)
    WriterCap,          \* CONTROL_WRITER_QUEUE_CAPACITY (frames Node -> Core)
    DispatchCap,        \* NODE_COMMAND_DISPATCH_QUEUE_CAPACITY
    MaxConns,           \* bound: control connections ever opened
    MaxCoreRestarts,    \* bound: crashes of Core
    MaxNodeRestarts,    \* bound: crashes of the Node daemon
    MaxReadErrors,      \* bound: read loops of the Node that end with an error
    MaxSaveErrors       \* bound: failed writes of the Node's state store

(* "turn": record_turn_submission; "direct": record_command_on_connection  *)
(* inside a larger transaction (sessions, placements, tasks); "workspace": *)
(* record_and_dispatch_command, and may be cancelled or expire in Core;    *)
(* "deduction": direct, and may be cancelled in Core by a "cancel".        *)
Kinds == {"turn", "direct", "workspace", "deduction", "cancel"}

Conns == 1 .. MaxConns

ASSUME CommandAssumption ==
    /\ IsFiniteSet(Commands)
    /\ Commands \cap Conns = {}
    /\ KindOf \in [Commands -> Kinds]
    /\ KeyOf \in [Commands -> Keys]
    /\ RunStatuses \subseteq {"completed", "failed"}

ASSUME BoundAssumption ==
    /\ MaxConns \in Nat /\ ControlCap \in Nat /\ WriterCap \in Nat
    /\ DispatchCap \in Nat /\ MaxCoreRestarts \in Nat
    /\ MaxNodeRestarts \in Nat /\ MaxReadErrors \in Nat /\ MaxSaveErrors \in Nat

VARIABLES
    cmdState,       \* Core, durable: commands.state ("absent": no row)
    outbox,         \* Core, durable: rows of command_dispatch_outbox
    resultOf,       \* Core, durable: commands.result_payload_json with its status
    active,         \* Core: generation in the ConnectionRegistry (0: no entry)
    task,           \* Core: dispatch loop of each issuer and each socket task
    opened,         \* number of connections opened so far
    coreEnd,        \* per connection: is Core's socket task alive?
    nodeEnd,        \* per connection: the Node's read loop and its dispatcher
    c2n,            \* per connection: CommandDispatch frames under way
    n2c,            \* per connection: frames under way to Core
    queue,          \* Node, per connection: dispatch queue
    waiting,        \* Node, per connection: spawned tasks waiting for their lock
    jobs,           \* Node, per connection: tasks that hold their execution lock
    mem,            \* Node: command cache of the state-store actor
    disk,           \* Node, durable: the saved command cache
    execs,          \* history, per connection: starts of each command's effect
    faults          \* history: faults taken so far, by kind

coreVars == <<cmdState, outbox, resultOf>>
linkVars == <<opened, coreEnd, nodeEnd>>
nodeVars == <<queue, waiting, jobs, mem, disk, execs>>
vars == <<cmdState, outbox, resultOf, active, task, opened, coreEnd, nodeEnd,
          c2n, n2c, queue, waiting, jobs, mem, disk, execs, faults>>

Terminal == {"completed", "failed", "expired"}
Pending  == {"recorded", "pending_dispatch", "dispatched", "acknowledged"}
States   == {"absent"} \cup Pending \cup Terminal

(* A terminal result: its status, who produced it and, for a run of the    *)
(* command, the connection whose dispatcher ran it (one run of a command   *)
(* differs from another in what the payload reports).                      *)
Outcome == [status : Terminal, src : {"run", "access", "busy", "core"},
            run : 0 .. MaxConns]
NoOutcome == [status |-> "none", src |-> "none", run |-> 0]
Ran(status, g) == [status |-> status, src |-> "run", run |-> g]
AccessDenied   == [status |-> "failed", src |-> "access", run |-> 0]
Busy           == [status |-> "failed", src |-> "busy", run |-> 0]
CoreMade(status) == [status |-> status, src |-> "core", run |-> 0]

Maybe == Outcome \cup {NoOutcome}

Frame == [kind : {"hello", "ack"}, cmd : SUBSET Commands, out : {NoOutcome}]
           \cup [kind : {"result"}, cmd : SUBSET Commands, out : Outcome]
Hello          == [kind |-> "hello", cmd |-> {}, out |-> NoOutcome]
Ack(c)         == [kind |-> "ack", cmd |-> {c}, out |-> NoOutcome]
Result(c, out) == [kind |-> "result", cmd |-> {c}, out |-> out]

Procs == Commands \cup Conns
Steps == {"idle", "pending", "fetch", "channel", "send", "mark", "apply"}
Task == [pc : Steps, rows : SUBSET Commands, chan : 0 .. MaxConns,
         sent : SUBSET Commands]
At(pc, rows, chan, sent) == [pc |-> pc, rows |-> rows, chan |-> chan, sent |-> sent]
Idle  == At("idle", {}, 0, {})
Fetch == At("fetch", {}, 0, {})
Apply == At("apply", {}, 0, {})

Job == [cmd : Commands, pc : {"start", "running"}, out : {NoOutcome}]
         \cup [cmd : Commands, pc : {"reply"}, out : Outcome]
FaultKinds == {"core", "node", "read", "save"}

Init ==
    /\ cmdState = [c \in Commands |-> "absent"]
    /\ outbox = {}
    /\ resultOf = [c \in Commands |-> NoOutcome]
    /\ active = 0
    /\ task = [p \in Procs |-> Idle]
    /\ opened = 0
    /\ coreEnd = [g \in Conns |-> FALSE]
    /\ nodeEnd = [g \in Conns |-> "closed"]
    /\ c2n = [g \in Conns |-> <<>>]
    /\ n2c = [g \in Conns |-> <<>>]
    /\ queue = [g \in Conns |-> <<>>]
    /\ waiting = [g \in Conns |-> [c \in Commands |-> 0]]
    /\ jobs = [g \in Conns |-> {}]
    /\ mem = [c \in Commands |-> NoOutcome]
    /\ disk = [c \in Commands |-> NoOutcome]
    /\ execs = [g \in Conns |-> [c \in Commands |-> 0]]
    /\ faults = [f \in FaultKinds |-> 0]

-----------------------------------------------------------------------------
(* Core: recording a command and the dispatch loop.                        *)

(* The transaction that inserts the command and its outbox row; the issuer *)
(* then goes on with record_and_dispatch_command or straight to dispatch.  *)
RecordCommand(c) ==
    /\ KindOf[c] # "cancel"
    /\ cmdState[c] = "absent"
    /\ cmdState' = [cmdState EXCEPT ![c] =
                      IF KindOf[c] = "turn" THEN "pending_dispatch" ELSE "recorded"]
    /\ outbox' = outbox \cup {c}
    /\ task' = [task EXCEPT ![c] = IF KindOf[c] = "workspace"
                                      THEN At("pending", {}, 0, {}) ELSE Fetch]
    /\ UNCHANGED <<resultOf, active, linkVars, c2n, n2c, nodeVars, faults>>

(* update_command_state for a state that is not terminal writes the state  *)
(* whatever it was and leaves the outbox alone.                            *)
update_command_state(c, s) == cmdState' = [cmdState EXCEPT ![c] = s]

UpdatePending(c) ==
    /\ task[c].pc = "pending"
    /\ update_command_state(c, "pending_dispatch")
    /\ task' = [task EXCEPT ![c] = Fetch]
    /\ UNCHANGED <<outbox, resultOf, active, linkVars, c2n, n2c, nodeVars, faults>>

(* Wrong variant: only commands never sent before are read.                *)
FetchUnsentRows(p) ==
    /\ task[p].pc = "fetch"
    /\ task' = [task EXCEPT ![p] =
                  At("channel", {c \in outbox :
                                   cmdState[c] \in {"recorded", "pending_dispatch"}}, 0, {})]
    /\ UNCHANGED <<coreVars, active, linkVars, c2n, n2c, nodeVars, faults>>

(* dispatch_pending_commands reads the outbox rows of the Node joined with *)
(* the commands that are not terminal ...                                  *)
FetchRows(p) ==
    /\ task[p].pc = "fetch"
    /\ task' = [task EXCEPT ![p] =
                  At("channel", {c \in outbox : cmdState[c] \in Pending}, 0, {})]
    /\ UNCHANGED <<coreVars, active, linkVars, c2n, n2c, nodeVars, faults>>

(* ... takes the sender of the active connection, or returns ...           *)
TakeSender(p) ==
    /\ task[p].pc = "channel"
    /\ task' = [task EXCEPT ![p] =
                  IF active = 0 \/ task[p].rows = {} THEN Idle
                  ELSE At("send", task[p].rows, active, {})]
    /\ UNCHANGED <<coreVars, active, linkVars, c2n, n2c, nodeVars, faults>>

After(t, c) == IF t.rows = {c} THEN Idle
               ELSE At("send", t.rows \ {c}, t.chan, {})

CanSend(g) == coreEnd[g] /\ Len(c2n[g]) < ControlCap

(* ... and for each row tries to queue the frame.  Rows of concurrent      *)
(* requests have no fixed order: enqueued_at is taken before the insert.   *)
SendRow(p, c) ==
    /\ task[p].pc = "send"
    /\ c \in task[p].rows
    /\ \/ /\ CanSend(task[p].chan)
          /\ c2n' = [c2n EXCEPT ![task[p].chan] = Append(@, c)]
          /\ task' = [task EXCEPT ![p] = At("mark", task[p].rows, task[p].chan, {c})]
       \/ /\ ~CanSend(task[p].chan)
          /\ task' = [task EXCEPT ![p] = After(task[p], c)]
          /\ UNCHANGED c2n
    /\ UNCHANGED <<coreVars, active, linkVars, n2c, nodeVars, faults>>

(* Wrong variant: the outbox row goes when the frame is queued.            *)
MarkDispatchedAndForget(p) ==
    /\ task[p].pc = "mark"
    /\ \E c \in task[p].sent :
          /\ update_command_state(c, "dispatched")
          /\ outbox' = outbox \ {c}
          /\ task' = [task EXCEPT ![p] = After(task[p], c)]
    /\ UNCHANGED <<resultOf, active, linkVars, c2n, n2c, nodeVars, faults>>

(* A queued frame is marked dispatched in a later transaction, whatever    *)
(* happened to the command meanwhile.                                      *)
MarkDispatched(p) ==
    /\ task[p].pc = "mark"
    /\ \E c \in task[p].sent :
          /\ update_command_state(c, "dispatched")
          /\ task' = [task EXCEPT ![p] = After(task[p], c)]
    /\ UNCHANGED <<outbox, resultOf, active, linkVars, c2n, n2c, nodeVars, faults>>

-----------------------------------------------------------------------------
(* Core: commands made terminal without a result of the Node.              *)

(* Wrong variant: expiry stores its payload over a result that is there.   *)
ExpireOverwrites(c) ==
    /\ KindOf[c] = "workspace"
    /\ cmdState[c] \in Pending
    /\ cmdState' = [cmdState EXCEPT ![c] = "expired"]
    /\ resultOf' = [resultOf EXCEPT ![c] = CoreMade("expired")]
    /\ outbox' = outbox \ {c}
    /\ UNCHANGED <<active, task, linkVars, c2n, n2c, nodeVars, faults>>

(* mark_command_terminal_if_nonterminal: cancel route or expiry of a       *)
(* workspace command.                                                      *)
ExpireCommand(c) ==
    /\ KindOf[c] = "workspace"
    /\ cmdState[c] \in Pending
    /\ cmdState' = [cmdState EXCEPT ![c] = "expired"]
    /\ resultOf' = [resultOf EXCEPT ![c] =
                      IF @ = NoOutcome THEN CoreMade("expired") ELSE @]
    /\ outbox' = outbox \ {c}
    /\ UNCHANGED <<active, task, linkVars, c2n, n2c, nodeVars, faults>>

(* cancel_deduction records the command c that tells the Node, and in the  *)
(* same transaction fails the request d if it was not dispatched yet; the  *)
(* outbox row of d stays.  A deduction is active until it has a result.    *)
CancelDeduction(c) ==
    /\ KindOf[c] = "cancel"
    /\ cmdState[c] = "absent"
    /\ \E d \in Commands \ {c} :
          /\ KindOf[d] = "deduction"
          /\ cmdState[d] # "absent" /\ resultOf[d] = NoOutcome
          /\ \/ /\ cmdState[d] \in {"recorded", "pending_dispatch"}
                /\ cmdState' = [cmdState EXCEPT ![c] = "recorded", ![d] = "failed"]
                /\ resultOf' = [resultOf EXCEPT ![d] = CoreMade("failed")]
             \/ /\ cmdState[d] \notin {"recorded", "pending_dispatch"}
                /\ cmdState' = [cmdState EXCEPT ![c] = "recorded"]
                /\ UNCHANGED resultOf
    /\ outbox' = outbox \cup {c}
    /\ task' = [task EXCEPT ![c] = Fetch]
    /\ UNCHANGED <<active, linkVars, c2n, n2c, nodeVars, faults>>

-----------------------------------------------------------------------------
(* Core: the socket task of connection g handles its frames one at a time. *)

Receiving(g, kind) ==
    /\ coreEnd[g]
    /\ n2c[g] # <<>>
    /\ Head(n2c[g]).kind = kind

Consume(g) == n2c' = [n2c EXCEPT ![g] = Tail(@)]

(* activate refuses a generation older than the registered one; otherwise  *)
(* the connection becomes the active one and the outbox is dispatched.     *)
ReceiveHello(g) ==
    /\ Receiving(g, "hello")
    /\ task[g].pc = "idle"
    /\ Consume(g)
    /\ \/ /\ active <= g
          /\ active' = g
          /\ task' = [task EXCEPT ![g] = Fetch]
       \/ /\ active > g
          /\ UNCHANGED <<active, task>>
    /\ UNCHANGED <<coreVars, linkVars, c2n, nodeVars, faults>>

validate_command_ack(g, c) ==
    active = g /\ cmdState[c] \in {"dispatched", "acknowledged"}

(* A terminal command accepts only the result it already has.              *)
validate_command_result(g, c, out) ==
    /\ active = g
    /\ \/ cmdState[c] \in Terminal /\ resultOf[c] = out /\ cmdState[c] = out.status
       \/ cmdState[c] \in {"pending_dispatch", "dispatched", "acknowledged"}

Valid(g, f) == \A c \in f.cmd :
    IF f.kind = "ack" THEN validate_command_ack(g, c)
                      ELSE validate_command_result(g, c, f.out)

(* A valid ack or result is applied by a later transaction, an invalid one *)
(* is dropped with an error.                                               *)
ValidateFrame(g) ==
    /\ task[g].pc = "idle"
    /\ Receiving(g, "ack") \/ Receiving(g, "result")
    /\ \/ /\ Valid(g, Head(n2c[g]))
          /\ task' = [task EXCEPT ![g] = Apply]
          /\ UNCHANGED n2c
       \/ /\ ~Valid(g, Head(n2c[g]))
          /\ Consume(g)
          /\ UNCHANGED task
    /\ UNCHANGED <<coreVars, active, linkVars, c2n, nodeVars, faults>>

ApplyAck(g) ==
    /\ task[g].pc = "apply"
    /\ Receiving(g, "ack")
    /\ \E c \in Head(n2c[g]).cmd : update_command_state(c, "acknowledged")
    /\ Consume(g)
    /\ task' = [task EXCEPT ![g] = Idle]
    /\ UNCHANGED <<outbox, resultOf, active, linkVars, c2n, nodeVars, faults>>

(* update_command_result stores status and payload and deletes the outbox  *)
(* row in one transaction.                                                 *)
update_command_result(c, out) ==
    /\ cmdState' = [cmdState EXCEPT ![c] = out.status]
    /\ resultOf' = [resultOf EXCEPT ![c] = out]
    /\ outbox' = outbox \ {c}

ApplyResult(g) ==
    /\ task[g].pc = "apply"
    /\ Receiving(g, "result")
    /\ \E c \in Head(n2c[g]).cmd : update_command_result(c, Head(n2c[g]).out)
    /\ Consume(g)
    /\ task' = [task EXCEPT ![g] = Idle]
    /\ UNCHANGED <<active, linkVars, c2n, nodeVars, faults>>

(* The last connection the bounds allow stays up.                          *)
MayEnd(g) == g = opened /\ opened < MaxConns

(* The read loop of Core ends: the Node has gone, or the network failed.   *)
(* Frames not read by then are lost; remove_if_active.                     *)
SocketEnd(g) ==
    /\ coreEnd[g]
    /\ task[g].pc = "idle"
    /\ MayEnd(g) \/ nodeEnd[g] # "open"
    /\ coreEnd' = [coreEnd EXCEPT ![g] = FALSE]
    /\ active' = IF active = g THEN 0 ELSE active
    /\ n2c' = [n2c EXCEPT ![g] = <<>>]
    /\ UNCHANGED <<coreVars, task, opened, nodeEnd, c2n, nodeVars, faults>>

CoreRestart ==
    /\ faults["core"] < MaxCoreRestarts
    /\ opened < MaxConns
    /\ faults' = [faults EXCEPT !["core"] = @ + 1]
    /\ active' = 0
    /\ task' = [p \in Procs |-> Idle]
    /\ coreEnd' = [g \in Conns |-> FALSE]
    /\ n2c' = [g \in Conns |-> <<>>]
    /\ UNCHANGED <<coreVars, opened, nodeEnd, c2n, nodeVars>>

-----------------------------------------------------------------------------
(* Node: the control-channel loop.                                         *)

(* run_control_channel: a new socket, a new dispatcher, and Hello.         *)
Connect ==
    /\ opened < MaxConns
    /\ \A g \in Conns : nodeEnd[g] # "open"
    /\ opened' = opened + 1
    /\ coreEnd' = [coreEnd EXCEPT ![opened + 1] = TRUE]
    /\ nodeEnd' = [nodeEnd EXCEPT ![opened + 1] = "open"]
    /\ n2c' = [n2c EXCEPT ![opened + 1] = <<Hello>>]
    /\ UNCHANGED <<coreVars, active, task, c2n, nodeVars, faults>>

Written(g, frames) == n2c' = [n2c EXCEPT ![g] = @ \o frames]

(* try_send on the writer queue of connection g.  A queue whose socket is  *)
(* gone may still take the frame, which is then lost.                      *)
Sent(g, frames) ==
    \/ coreEnd[g] /\ Len(n2c[g]) + Len(frames) <= WriterCap /\ Written(g, frames)
    \/ (~coreEnd[g] \/ nodeEnd[g] = "detached") /\ UNCHANGED n2c

MayRefuse(g, frames) ==
    Len(n2c[g]) + Len(frames) > WriterCap \/ ~coreEnd[g] \/ nodeEnd[g] = "detached"

Refused(g, frames) == MayRefuse(g, frames) /\ UNCHANGED n2c

(* The read loop hands a CommandDispatch to the dispatcher's queue.        *)
ReceiveDispatch(g) ==
    /\ nodeEnd[g] = "open"
    /\ c2n[g] # <<>>
    /\ Len(queue[g]) < DispatchCap
    /\ queue' = [queue EXCEPT ![g] = Append(@, Head(c2n[g]))]
    /\ c2n' = [c2n EXCEPT ![g] = Tail(@)]
    /\ UNCHANGED <<coreVars, active, task, linkVars, n2c, waiting, jobs, mem,
                   disk, execs, faults>>

(* With a full queue it answers node.dispatch_busy itself, with an         *)
(* acknowledgement and a result; if one of them cannot be queued either,   *)
(* the loop ends with an error.                                            *)
RejectBusy(g) ==
    /\ nodeEnd[g] = "open"
    /\ c2n[g] # <<>>
    /\ Len(queue[g]) = DispatchCap
    /\ c2n' = [c2n EXCEPT ![g] = Tail(@)]
    /\ LET c == Head(c2n[g])
           answer == <<Ack(c), Result(c, Busy)>>
       IN  \/ Sent(g, answer) /\ UNCHANGED nodeEnd
           \/ /\ MayRefuse(g, answer)
              /\ Sent(g, <<Ack(c)>>) \/ Refused(g, <<Ack(c)>>)
              /\ nodeEnd' = [nodeEnd EXCEPT ![g] = "detached"]
    /\ UNCHANGED <<coreVars, active, task, opened, coreEnd, nodeVars, faults>>

(* run_command_dispatcher: one task per queued command.                    *)
SpawnTask(g) ==
    /\ queue[g] # <<>>
    /\ waiting' = [waiting EXCEPT ![g][Head(queue[g])] = @ + 1]
    /\ queue' = [queue EXCEPT ![g] = Tail(@)]
    /\ UNCHANGED <<coreVars, active, task, linkVars, c2n, n2c, jobs, mem, disk,
                   execs, faults>>

-----------------------------------------------------------------------------
(* Node: a task of the dispatcher of connection g.                         *)

(* Wrong variant: a lock per command instead of one per execution key.     *)
UnlockedByCommand(g, c) == \A j \in jobs[g] : j.cmd # c

Unlocked(g, c) == \A j \in jobs[g] : KeyOf[j.cmd] # KeyOf[c]

(* Wrong variant: the command cache is not consulted.                      *)
BeginUncached(g, c) ==
    /\ waiting[g][c] > 0
    /\ Unlocked(g, c)
    /\ waiting' = [waiting EXCEPT ![g][c] = @ - 1]
    /\ Sent(g, <<Ack(c)>>)
    /\ jobs' = [jobs EXCEPT ![g] = @ \cup
                   {[cmd |-> c, pc |-> "start", out |-> NoOutcome]}]
    /\ UNCHANGED <<coreVars, active, task, linkVars, c2n, queue, mem, disk,
                   execs, faults>>

(* The task takes the lock of its key, snapshots the store and sends the   *)
(* acknowledgement; without it the command is not run.  A cached command   *)
(* is answered from the snapshot.                                          *)
BeginTask(g, c) ==
    /\ waiting[g][c] > 0
    /\ Unlocked(g, c)
    /\ waiting' = [waiting EXCEPT ![g][c] = @ - 1]
    /\ \/ /\ Sent(g, <<Ack(c)>>)
          /\ jobs' = [jobs EXCEPT ![g] = @ \cup
                {[cmd |-> c, out |-> mem[c],
                  pc |-> IF mem[c] = NoOutcome THEN "start" ELSE "reply"]}]
       \/ /\ Refused(g, <<Ack(c)>>)
          /\ UNCHANGED jobs
    /\ UNCHANGED <<coreVars, active, task, linkVars, c2n, queue, mem, disk,
                   execs, faults>>

Become(g, j, k) == jobs' = [jobs EXCEPT ![g] = (@ \ {j}) \cup {k}]
Drop(g, j) == jobs' = [jobs EXCEPT ![g] = @ \ {j}]

(* The effect of the command starts.                                       *)
StartCommand(g, j) ==
    /\ j.pc = "start"
    /\ execs' = [execs EXCEPT ![g][j.cmd] = @ + 1]
    /\ Become(g, j, [cmd |-> j.cmd, pc |-> "running", out |-> NoOutcome])
    /\ UNCHANGED <<coreVars, active, task, linkVars, c2n, n2c, queue, waiting,
                   mem, disk, faults>>

(* Wrong variant: a run that ends without an outcome is reported, too.     *)
OutcomesOrNone(g, j) ==
    IF j.pc = "running" THEN {Ran(s, g) : s \in RunStatuses} \cup {NoOutcome} ELSE {}

(* What a task may report: the outcome of its run, or for a turn that no   *)
(* MCP access could be issued (request_provider_mcp_access).               *)
Outcomes(g, j) ==
    IF j.pc = "running"
      THEN {Ran(s, g) : s \in RunStatuses}
      ELSE IF j.pc = "start" /\ KindOf[j.cmd] = "turn" THEN {AccessDenied} ELSE {}

(* Wrong variant: the result is sent before the store is saved.            *)
PersistInMemory(g, j) ==
    /\ \E out \in Outcomes(g, j) :
          /\ mem' = [mem EXCEPT ![j.cmd] = out]
          /\ Become(g, j, [cmd |-> j.cmd, pc |-> "reply", out |-> out])
    /\ UNCHANGED <<coreVars, active, task, linkVars, c2n, n2c, queue, waiting,
                   disk, execs, faults>>

(* persist_command_outcome: the state-store actor merges the outcome into  *)
(* its memory and saves; only then is the result sent.                     *)
PersistOutcome(g, j) ==
    /\ \E out \in Outcomes(g, j) :
          /\ mem' = [mem EXCEPT ![j.cmd] = out]
          /\ disk' = mem'
          /\ Become(g, j, [cmd |-> j.cmd, pc |-> "reply", out |-> out])
    /\ UNCHANGED <<coreVars, active, task, linkVars, c2n, n2c, queue, waiting,
                   execs, faults>>

(* Wrong variant: a failed save also undoes the merge in memory.           *)
PersistRollsBack(g, j) ==
    /\ faults["save"] < MaxSaveErrors
    /\ faults' = [faults EXCEPT !["save"] = @ + 1]
    /\ Outcomes(g, j) # {}
    /\ Drop(g, j)
    /\ UNCHANGED <<coreVars, active, task, linkVars, c2n, n2c, queue, waiting,
                   mem, disk, execs>>

(* A failed save leaves the merged memory behind and ends the task.        *)
PersistFails(g, j) ==
    /\ faults["save"] < MaxSaveErrors
    /\ faults' = [faults EXCEPT !["save"] = @ + 1]
    /\ \E out \in Outcomes(g, j) : mem' = [mem EXCEPT ![j.cmd] = out]
    /\ Drop(g, j)
    /\ UNCHANGED <<coreVars, active, task, linkVars, c2n, n2c, queue, waiting,
                   disk, execs>>

(* send_command_result; the lock is released whether or not it was sent.   *)
SendResult(g, j) ==
    /\ j.pc = "reply"
    /\ Sent(g, <<Result(j.cmd, j.out)>>) \/ Refused(g, <<Result(j.cmd, j.out)>>)
    /\ Drop(g, j)
    /\ UNCHANGED <<coreVars, active, task, linkVars, c2n, queue, waiting, mem,
                   disk, execs, faults>>

Forget(G) ==
    /\ queue' = [g \in Conns |-> IF g \in G THEN <<>> ELSE queue[g]]
    /\ waiting' = [g \in Conns |->
                     IF g \in G THEN [c \in Commands |-> 0] ELSE waiting[g]]
    /\ jobs' = [g \in Conns |-> IF g \in G THEN {} ELSE jobs[g]]

(* Wrong variant: the dispatcher survives a clean end of the read loop.    *)
CloseLeavesTasks(g) ==
    /\ nodeEnd[g] = "open"
    /\ MayEnd(g)
    /\ nodeEnd' = [nodeEnd EXCEPT ![g] = "detached"]
    /\ UNCHANGED <<coreVars, active, task, opened, coreEnd, c2n, n2c, nodeVars,
                   faults>>

(* The read loop ends without an error: the dispatcher is aborted and its  *)
(* tasks with it, in the middle of whatever they do.                       *)
CloseChannel(g) ==
    /\ nodeEnd[g] = "open"
    /\ MayEnd(g)
    /\ nodeEnd' = [nodeEnd EXCEPT ![g] = "closed"]
    /\ Forget({g})
    /\ UNCHANGED <<coreVars, active, task, opened, coreEnd, c2n, n2c, mem, disk,
                   execs, faults>>

(* The read loop ends with an error: run_control_channel returns early and *)
(* the dispatcher and its tasks run on, detached.                          *)
ReadError(g) ==
    /\ nodeEnd[g] = "open"
    /\ MayEnd(g)
    /\ faults["read"] < MaxReadErrors
    /\ faults' = [faults EXCEPT !["read"] = @ + 1]
    /\ nodeEnd' = [nodeEnd EXCEPT ![g] = "detached"]
    /\ UNCHANGED <<coreVars, active, task, opened, coreEnd, c2n, n2c, nodeVars>>

NodeRestart ==
    /\ faults["node"] < MaxNodeRestarts
    /\ opened < MaxConns
    /\ faults' = [faults EXCEPT !["node"] = @ + 1]
    /\ nodeEnd' = [g \in Conns |-> "closed"]
    /\ Forget(Conns)
    /\ mem' = disk
    /\ UNCHANGED <<coreVars, active, task, opened, coreEnd, c2n, n2c, disk, execs>>

-----------------------------------------------------------------------------
CoreStep(p) == FetchRows(p) \/ TakeSender(p) \/ MarkDispatched(p)
                 \/ \E c \in Commands : SendRow(p, c)
SocketStep(g) == ReceiveHello(g) \/ ValidateFrame(g) \/ ApplyAck(g) \/ ApplyResult(g)
ChannelStep(g) == ReceiveDispatch(g) \/ RejectBusy(g) \/ SpawnTask(g)
JobStep(g, j) == StartCommand(g, j) \/ PersistOutcome(g, j) \/ SendResult(g, j)

Next ==
    \/ \E c \in Commands : \/ RecordCommand(c) \/ UpdatePending(c)
                           \/ ExpireCommand(c) \/ CancelDeduction(c)
    \/ \E p \in Procs : CoreStep(p)
    \/ \E g \in Conns : \/ SocketStep(g) \/ SocketEnd(g) \/ ChannelStep(g)
                        \/ CloseChannel(g) \/ ReadError(g)
                        \/ \E c \in Commands : BeginTask(g, c)
                        \/ \E j \in jobs[g] : JobStep(g, j) \/ PersistFails(g, j)
    \/ Connect \/ CoreRestart \/ NodeRestart

Spec == Init /\ [][Next]_vars

(* Fairness: Core's and the Node's tasks are scheduled by their runtimes,  *)
(* the Node reconnects for ever (control_channel_loop) and notices that    *)
(* Core's end is gone.  Faults, and what clients do, are never forced.     *)
Fairness ==
    /\ \A p \in Procs : WF_vars(CoreStep(p))
    /\ \A c \in Commands : WF_vars(UpdatePending(c))
    /\ \A g \in Conns :
          /\ WF_vars(SocketStep(g))
          /\ WF_vars(ChannelStep(g))
          /\ \A c \in Commands : WF_vars(BeginTask(g, c))
          /\ WF_vars(\E j \in jobs[g] : JobStep(g, j))
          /\ WF_vars(~coreEnd[g] /\ CloseChannel(g))
    /\ WF_vars(Connect)

FairSpec == Spec /\ Fairness

-----------------------------------------------------------------------------
TypeOK ==
    /\ cmdState \in [Commands -> States]
    /\ outbox \subseteq Commands
    /\ resultOf \in [Commands -> Maybe]
    /\ active \in 0 .. MaxConns
    /\ task \in [Procs -> Task]
    /\ opened \in 0 .. MaxConns
    /\ coreEnd \in [Conns -> BOOLEAN]
    /\ nodeEnd \in [Conns -> {"open", "detached", "closed"}]
    /\ c2n \in [Conns -> Seq(Commands)]
    /\ n2c \in [Conns -> Seq(Frame)]
    /\ queue \in [Conns -> Seq(Commands)]
    /\ waiting \in [Conns -> [Commands -> Nat]]
    /\ jobs \in [Conns -> SUBSET Job]
    /\ mem \in [Commands -> Maybe]
    /\ disk \in [Commands -> Maybe]
    /\ execs \in [Conns -> [Commands -> Nat]]
    /\ faults \in [FaultKinds -> Nat]

(* A command without a stored result still has its dispatch-outbox row, so *)
(* the next Hello sends it again: no race of issuers, sockets and restarts *)
(* loses a command (record_command_on_connection, update_command_result).  *)
UnresolvedStaysQueued ==
    \A c \in Commands :
        cmdState[c] # "absent" /\ resultOf[c] = NoOutcome => c \in outbox

(* However often a command is delivered over one control connection, its   *)
(* effect is started at most once there: the execution lock and the cached *)
(* outcome cover every duplicate, also after a failed save of the store.   *)
OncePerConnection ==
    \A g \in Conns, c \in Commands : execs[g][c] <= 1

(* Commands with one execution key never run at the same time.             *)
NoOverlap ==
    \A g, h \in Conns : \A i \in jobs[g], j \in jobs[h] :
        /\ i.pc = "running" /\ j.pc = "running"
        /\ KeyOf[i.cmd] = KeyOf[j.cmd]
        => g = h /\ i = j

NodeReported(out) == out.src \in {"run", "access"}

(* A result Core stored from the Node is the one the Node's durable cache  *)
(* holds: a restart of either side cannot make the two disagree.           *)
NodeAgrees ==
    \A c \in Commands : NodeReported(resultOf[c]) => disk[c] = resultOf[c]

(* The effect of a command whose outcome the Node has recorded is not      *)
(* started again: "Node deduplicates by command_id"                        *)
(* (docs/systems/areas/003-distributed-runtime-coordination.md:348).       *)
NoRerunAfterOutcome ==
    [][\A c \in Commands :
         (\E g \in Conns : execs'[g][c] > execs[g][c]) => mem[c] = NoOutcome]_vars

(* A result the Node reported is never replaced in Core by another one     *)
(* (validate_command_result: control.command_result_conflict).             *)
ResultNeverReplaced ==
    [][\A c \in Commands :
         NodeReported(resultOf[c]) => resultOf'[c] = resultOf[c]]_vars

(* Every recorded command eventually has a result in Core, but one: a      *)
(* command whose issuer does not mark it pending before it dispatches it.  *)
(* When its result outruns the dispatched mark Core refuses the result,    *)
(* and while the connection holds nothing asks the Node for it again.      *)
Unheard(c) ==
    /\ KindOf[c] \in {"direct", "deduction", "cancel"}
    /\ disk[c] # NoOutcome /\ resultOf[c] = NoOutcome
EventuallyResolved ==
    \A c \in Commands :
        <>[]Unheard(c) \/ (cmdState[c] # "absent" ~> resultOf[c] # NoOutcome)

(* What Core stores of the Node's results, and what the Node's durable     *)
(* cache holds, as an implementation of CommandService.                    *)
Service == INSTANCE CommandService WITH
    asked    <- {c \in Commands : cmdState[c] # "absent"},
    settled  <- disk,
    reported <- [c \in Commands |->
                   IF NodeReported(resultOf[c]) THEN resultOf[c] ELSE NoOutcome]

(* Delivery with duplicates, lost frames, reconnects and restarts of both  *)
(* sides settles a command once and reports what was settled, as long as   *)
(* no read loop of the Node ends with an error.                            *)
ImplementsService == Service!Spec
=============================================================================
