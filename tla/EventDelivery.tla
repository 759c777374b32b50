--------------------------- MODULE EventDelivery ---------------------------
(***************************************************************************)
(* The events of one runtime session, from the Node that generates them to *)
(* Core's events table.                                                    *)
(*                                                                         *)
(* A command task of the Node works on a snapshot of the state store.  It  *)
(* numbers its events with the snapshot's runtime sequence and offers each *)
(* one to the live queue at once (NodeLiveEventSink); only when the        *)
(* command has ended are the events merged into the durable outbox, and    *)
(* sent again in batches.  Core stores an event once, by its id, refuses a *)
(* second event with the same sequence number, and acknowledges a batch as *)
(* a whole; the Node deletes what was acknowledged and replays the rest    *)
(* when it connects again.                                                 *)
(*                                                                         *)
(* The transport of commands is CommandDelivery's subject: here Core may   *)
(* hand any command without a result to the connected Node.  Commands of   *)
(* one runtime share their execution lock, so a dispatcher runs one at a   *)
(* time.  The store is saved by every mutation before it is answered, so   *)
(* its memory and its disk are one variable.                               *)
(***************************************************************************)
EXTENDS Outbox, Naturals, Sequences, Functions

CONSTANTS
    Commands,       \* commands of the runtime
    NoCommand,      \* command_id of an event the Node makes on its own
    MaxOutbox,      \* MAX_EVENT_OUTBOX_EVENTS
    BatchSize,      \* EVENT_DELIVERY_BATCH_SIZE
    WriterCap,      \* CONTROL_WRITER_QUEUE_CAPACITY (frames Node -> Core)
    ControlCap,     \* CONTROL_QUEUE_CAPACITY (frames Core -> Node)
    MaxDispatches,  \* bound: times a command is handed to the Node
    MaxPerRun,      \* bound: events one run of a command generates
    MaxEvents,      \* bound: events ever generated
    MaxConns,       \* bound: control connections ever opened
    MaxTornRuns,    \* bound: aborted runs that had already generated events
    MaxReadErrors,  \* bound: read loops of the Node that end with an error
    MaxIngestErrors \* bound: events Core fails to store (database errors)

Conns == 1 .. MaxConns
Ids == 1 .. MaxEvents

ASSUME EventAssumption ==
    /\ NoCommand \notin Commands
    /\ MaxOutbox \in Nat \ {0} /\ BatchSize \in Nat \ {0}
    /\ WriterCap \in Nat /\ ControlCap \in Nat /\ MaxPerRun \in Nat
    /\ MaxDispatches \in Nat
    /\ MaxEvents \in Nat /\ MaxConns \in Nat /\ MaxTornRuns \in Nat
    /\ MaxReadErrors \in Nat /\ MaxIngestErrors \in Nat

VARIABLES
    born,       \* history: the events generated, by id (EventId::new)
    store,      \* Node, durable: runtime_seqs, event_outbox, command_status
    job,        \* Node, per connection: the command task of this runtime
    replay,     \* Node, per connection: outbox entries still to be replayed
    opened,     \* number of connections opened so far
    nodeEnd,    \* per connection: the Node's read loop and its dispatcher
    coreEnd,    \* per connection: is Core's socket task alive?
    active,     \* Core: generation in the ConnectionRegistry (0: no entry)
    n2c,        \* per connection: frames under way to Core
    c2n,        \* per connection: EventBatchAck frames under way
    ingest,     \* Core, per connection: events of the batch being stored
    log,        \* Core, durable: the events table in session_projection_seq order
    resolved,   \* Core, durable: commands that have their result
    kept,       \* history: events that were ever in the durable outbox
    count       \* history: dispatches and faults so far, by kind

vars == <<born, store, job, replay, opened, nodeEnd, coreEnd, active, n2c, c2n,
          ingest, log, resolved, kept, count>>
coreVars == <<active, ingest, log, resolved>>
linkVars == <<opened, nodeEnd, coreEnd>>

Event == [cmd : Commands \cup {NoCommand}, seq : Nat]
Store == [seq : Nat, outbox : Seq(Ids), done : SUBSET Commands]

(* A command task: the outbox and the sequence number of its snapshot, and *)
(* the events it has generated ("run") or has still to send ("send").      *)
Job == [pc : {"none", "run", "send"}, cmd : Commands \cup {NoCommand},
        old : Seq(Ids), from : Nat, evs : Seq(Ids)]
NoJob == [pc |-> "none", cmd |-> NoCommand, old |-> <<>>, from |-> 0, evs |-> <<>>]

Sending(c, evs) ==
    [pc |-> "send", cmd |-> c, old |-> <<>>, from |-> 0, evs |-> evs]

Frame == [kind : {"hello", "batch", "result"}, ids : Seq(Ids),
          cmd : Commands \cup {NoCommand}]
Hello      == [kind |-> "hello", ids |-> <<>>, cmd |-> NoCommand]
Batch(ids) == [kind |-> "batch", ids |-> ids, cmd |-> NoCommand]
Result(c)  == [kind |-> "result", ids |-> <<>>, cmd |-> c]

(* What Core's socket task does: idle, or the rest of a batch to store.    *)
Idle == [busy |-> FALSE, rest |-> <<>>, all |-> {}]
Storing(ids) == [busy |-> TRUE, rest |-> ids, all |-> Range(ids)]

Counters == {"dispatch", "torn", "read", "ingest"}

Init ==
    /\ born = <<>>
    /\ store = [seq |-> 0, outbox |-> <<>>, done |-> {}]
    /\ job = [g \in Conns |-> NoJob]
    /\ replay = [g \in Conns |-> <<>>]
    /\ opened = 0
    /\ nodeEnd = [g \in Conns |-> "closed"]
    /\ coreEnd = [g \in Conns |-> FALSE]
    /\ active = 0
    /\ n2c = [g \in Conns |-> <<>>]
    /\ c2n = [g \in Conns |-> <<>>]
    /\ ingest = [g \in Conns |-> Idle]
    /\ log = <<>>
    /\ resolved = {}
    /\ kept = {}
    /\ count = [f \in Counters |-> 0]

-----------------------------------------------------------------------------
(* Frames from the Node to Core.                                           *)

Fits(g) == coreEnd[g] /\ Len(n2c[g]) < WriterCap
Broken(g) == ~coreEnd[g] \/ nodeEnd[g] = "detached"

Queue(g, frame) == Fits(g) /\ n2c' = [n2c EXCEPT ![g] = Append(@, frame)]

(* try_send: a full queue refuses the frame, a broken connection may lose  *)
(* it.                                                                     *)
Offer(g, frame) ==
    \/ Queue(g, frame)
    \/ (~Fits(g) \/ Broken(g)) /\ UNCHANGED n2c

Chunk(ids) == SubSeq(ids, 1, IF Len(ids) < BatchSize THEN Len(ids) ELSE BatchSize)
Rest(ids)  == SubSeq(ids, Len(Chunk(ids)) + 1, Len(ids))

-----------------------------------------------------------------------------
(* Node: the task that runs a command.                                     *)

Reading(g) == nodeEnd[g] = "open" /\ replay[g] = <<>>

OfCommand(ids, c) == Without(ids, {i \in Range(ids) : born[i].cmd # c})

(* A command without a result reaches the dispatcher.  One the store has a *)
(* status for is answered with its events that are still in the outbox     *)
(* (outbox_events_for_command).                                            *)
Dispatch(g, c) ==
    /\ Reading(g) /\ coreEnd[g]
    /\ active = g
    /\ c \notin resolved
    /\ job[g].pc = "none"
    /\ count["dispatch"] < MaxDispatches
    /\ count' = [count EXCEPT !["dispatch"] = @ + 1]
    /\ job' = [job EXCEPT ![g] =
                 IF c \in store.done
                   THEN Sending(c, OfCommand(store.outbox, c))
                   ELSE [pc |-> "run", cmd |-> c, old |-> store.outbox,
                         from |-> store.seq, evs |-> <<>>]]
    /\ UNCHANGED <<born, store, replay, linkVars, n2c, c2n, coreVars, kept>>

(* next_runtime_seq on the task's own copy of the store, and the live      *)
(* delivery of the event.                                                  *)
Emit(g) ==
    /\ job[g].pc = "run"
    /\ Len(job[g].evs) < MaxPerRun
    /\ Len(born) < MaxEvents
    /\ born' = Append(born, [cmd |-> job[g].cmd,
                             seq |-> job[g].from + Len(job[g].evs) + 1])
    /\ job' = [job EXCEPT ![g].evs = Append(@, Len(born) + 1)]
    /\ Offer(g, Batch(<<Len(born) + 1>>))
    /\ UNCHANGED <<store, replay, linkVars, c2n, coreVars, kept, count>>

(* The last n of a sequence.                                               *)
LastOf(ids, n) == SubSeq(ids, Len(ids) - n + 1, Len(ids))

(* Wrong variant: every entry of the task's copy is merged, also the ones  *)
(* that were in its snapshot.                                              *)
MergeAll(j, ids, last) ==
    [seq    |-> IF last # j.from /\ last > store.seq THEN last ELSE store.seq,
     outbox |-> store.outbox \o Without(ids, Range(store.outbox)),
     done   |-> store.done \cup {j.cmd}]

(* merge_command_state_from: entries of the task's outbox that were not in *)
(* its snapshot are added; nothing is removed.  `last` is the number of    *)
(* the last event of the task.                                             *)
Merge(j, ids, last) ==
    [seq    |-> IF last # j.from /\ last > store.seq THEN last ELSE store.seq,
     outbox |-> store.outbox \o Without(ids, Range(j.old) \cup Range(store.outbox)),
     done   |-> store.done \cup {j.cmd}]

(* The command has ended: its events join the task's copy of the outbox,   *)
(* which enforce_event_outbox_retention cuts to MaxOutbox entries (the     *)
(* limits on age and bytes cut the same end), adding a notice when it      *)
(* dropped some; the copy is merged into the store and saved.              *)
Finish(g) ==
    /\ job[g].pc = "run"
    /\ LET j     == job[g]
           all   == j.old \o j.evs
           last  == j.from + Len(j.evs)
           note  == Len(born) + 1
       IN  \/ /\ Len(all) <= MaxOutbox
              /\ store' = Merge(j, all, last)
              /\ job' = [job EXCEPT ![g] = Sending(j.cmd, j.evs)]
              /\ UNCHANGED born
           \/ /\ Len(all) > MaxOutbox
              /\ Len(born) < MaxEvents
              /\ born' = Append(born, [cmd |-> NoCommand, seq |-> last + 1])
              /\ store' = Merge(j, LastOf(Append(all, note), MaxOutbox), last + 1)
              /\ job' = [job EXCEPT ![g] = Sending(j.cmd, Append(j.evs, note))]
    /\ kept' = kept \cup Range(store'.outbox)
    /\ UNCHANGED <<replay, linkVars, n2c, c2n, coreVars, count>>

(* send_event_batches waits for room in the queue; on a broken connection  *)
(* the batch is lost or the task ends with an error.                       *)
SendBatch(g) ==
    /\ job[g].pc = "send"
    /\ job[g].evs # <<>>
    /\ \/ /\ Queue(g, Batch(Chunk(job[g].evs))) \/ (Broken(g) /\ UNCHANGED n2c)
          /\ job' = [job EXCEPT ![g].evs = Rest(@)]
       \/ /\ Broken(g)
          /\ job' = [job EXCEPT ![g] = NoJob]
          /\ UNCHANGED n2c
    /\ UNCHANGED <<born, store, replay, linkVars, c2n, coreVars, kept, count>>

(* Wrong variant: the result does not wait for the events.                 *)
SendResultFirst(g) ==
    /\ job[g].pc = "send"
    /\ Offer(g, Result(job[g].cmd))
    /\ job' = [job EXCEPT ![g] = NoJob]
    /\ UNCHANGED <<born, store, replay, linkVars, c2n, coreVars, kept, count>>

(* send_command_result, after the last batch.                              *)
SendResult(g) ==
    /\ job[g].pc = "send"
    /\ job[g].evs = <<>>
    /\ Offer(g, Result(job[g].cmd))
    /\ job' = [job EXCEPT ![g] = NoJob]
    /\ UNCHANGED <<born, store, replay, linkVars, c2n, coreVars, kept, count>>

-----------------------------------------------------------------------------
(* Node: the control channel.                                              *)

(* run_control_channel snapshots the outbox, says Hello and replays ...    *)
Connect ==
    /\ opened < MaxConns
    /\ \A g \in Conns : nodeEnd[g] # "open"
    /\ opened' = opened + 1
    /\ nodeEnd' = [nodeEnd EXCEPT ![opened + 1] = "open"]
    /\ coreEnd' = [coreEnd EXCEPT ![opened + 1] = TRUE]
    /\ n2c' = [n2c EXCEPT ![opened + 1] = <<Hello>>]
    /\ replay' = [replay EXCEPT ![opened + 1] = store.outbox]
    /\ UNCHANGED <<born, store, job, c2n, coreVars, kept, count>>

(* Wrong variant: the snapshot is not replayed.                            *)
ReplayNothing(g) ==
    /\ nodeEnd[g] = "open"
    /\ replay[g] # <<>>
    /\ replay' = [replay EXCEPT ![g] = <<>>]
    /\ UNCHANGED <<born, store, job, linkVars, n2c, c2n, coreVars, kept, count>>

(* ... the snapshot before it reads its first frame.                       *)
Replay(g) ==
    /\ nodeEnd[g] = "open"
    /\ replay[g] # <<>>
    /\ Queue(g, Batch(Chunk(replay[g]))) \/ (Broken(g) /\ UNCHANGED n2c)
    /\ replay' = [replay EXCEPT ![g] = Rest(@)]
    /\ UNCHANGED <<born, store, job, linkVars, c2n, coreVars, kept, count>>

(* persist_event_ack.                                                      *)
ReceiveAck(g) ==
    /\ Reading(g)
    /\ c2n[g] # <<>>
    /\ store' = [store EXCEPT !.outbox = Without(@, Head(c2n[g]))]
    /\ c2n' = [c2n EXCEPT ![g] = Tail(@)]
    /\ UNCHANGED <<born, job, replay, linkVars, n2c, coreVars, kept, count>>

(* The last connection the bounds allow stays up.                          *)
MayEnd(g) == g = opened /\ opened < MaxConns

Torn(g) == job[g].pc = "run" /\ job[g].evs # <<>>

(* The read loop ends and the dispatcher is aborted, or the daemon stops:  *)
(* the task's copy of the store and the frames not read are gone.          *)
CloseChannel(g) ==
    /\ nodeEnd[g] = "open"
    /\ MayEnd(g)
    /\ Torn(g) => count["torn"] < MaxTornRuns
    /\ count' = IF Torn(g) THEN [count EXCEPT !["torn"] = @ + 1] ELSE count
    /\ nodeEnd' = [nodeEnd EXCEPT ![g] = "closed"]
    /\ job' = [job EXCEPT ![g] = NoJob]
    /\ replay' = [replay EXCEPT ![g] = <<>>]
    /\ c2n' = [c2n EXCEPT ![g] = <<>>]
    /\ UNCHANGED <<born, store, opened, coreEnd, n2c, coreVars, kept>>

(* The read loop ends with an error and leaves its dispatcher running.     *)
ReadError(g) ==
    /\ nodeEnd[g] = "open"
    /\ MayEnd(g)
    /\ count["read"] < MaxReadErrors
    /\ count' = [count EXCEPT !["read"] = @ + 1]
    /\ nodeEnd' = [nodeEnd EXCEPT ![g] = "detached"]
    /\ replay' = [replay EXCEPT ![g] = <<>>]
    /\ c2n' = [c2n EXCEPT ![g] = <<>>]
    /\ UNCHANGED <<born, store, job, opened, coreEnd, n2c, coreVars, kept>>

-----------------------------------------------------------------------------
(* Core: the socket task of connection g.                                  *)

Receiving(g, kind) ==
    /\ coreEnd[g]
    /\ ~ingest[g].busy
    /\ n2c[g] # <<>>
    /\ Head(n2c[g]).kind = kind

Consume(g) == n2c' = [n2c EXCEPT ![g] = Tail(@)]

ReceiveHello(g) ==
    /\ Receiving(g, "hello")
    /\ Consume(g)
    /\ active' = IF active <= g THEN g ELSE active
    /\ UNCHANGED <<born, store, job, replay, linkVars, c2n, ingest, log, resolved,
                   kept, count>>

ReceiveResult(g) ==
    /\ Receiving(g, "result")
    /\ Consume(g)
    /\ resolved' = IF active = g THEN resolved \cup {Head(n2c[g]).cmd} ELSE resolved
    /\ UNCHANGED <<born, store, job, replay, linkVars, c2n, active, ingest, log,
                   kept, count>>

(* require_active_generation is asked once for a batch.                    *)
BeginBatch(g) ==
    /\ Receiving(g, "batch")
    /\ Consume(g)
    /\ ingest' = IF active = g THEN [ingest EXCEPT ![g] = Storing(Head(n2c[g]).ids)]
                               ELSE ingest
    /\ UNCHANGED <<born, store, job, replay, linkVars, c2n, active, log, resolved,
                   kept, count>>

Stored(i) == i \in Range(log)
Conflict(i) == \E k \in Range(log) : k # i /\ born[k].seq = born[i].seq

(* Wrong variant: the sequence number is not compared.                     *)
AcceptAnySeq(g) ==
    /\ ingest[g].busy /\ ingest[g].rest # <<>>
    /\ log' = IF Stored(Head(ingest[g].rest)) THEN log
                                              ELSE Append(log, Head(ingest[g].rest))
    /\ ingest' = [ingest EXCEPT ![g].rest = Tail(@)]
    /\ UNCHANGED <<born, store, job, replay, linkVars, n2c, c2n, active, resolved,
                   kept, count>>

(* accept_node_event, one transaction under event_ingest_lock: an id that  *)
(* is there is a duplicate, another id with its number is a conflict that  *)
(* ends the batch, anything else is stored.                                *)
AcceptEvent(g) ==
    /\ ingest[g].busy
    /\ ingest[g].rest # <<>>
    /\ LET i == Head(ingest[g].rest)
       IN  \/ /\ Stored(i)
              /\ ingest' = [ingest EXCEPT ![g].rest = Tail(@)]
              /\ UNCHANGED log
           \/ /\ ~Stored(i) /\ ~Conflict(i)
              /\ log' = Append(log, i)
              /\ ingest' = [ingest EXCEPT ![g].rest = Tail(@)]
           \/ /\ ~Stored(i) /\ Conflict(i)
              /\ ingest' = [ingest EXCEPT ![g] = Idle]
              /\ UNCHANGED log
    /\ UNCHANGED <<born, store, job, replay, linkVars, n2c, c2n, active, resolved,
                   kept, count>>

(* Wrong variant: the event is skipped and the batch goes on.              *)
IngestSkips(g) ==
    /\ ingest[g].busy
    /\ ingest[g].rest # <<>>
    /\ count["ingest"] < MaxIngestErrors
    /\ count' = [count EXCEPT !["ingest"] = @ + 1]
    /\ ingest' = [ingest EXCEPT ![g].rest = Tail(@)]
    /\ UNCHANGED <<born, store, job, replay, linkVars, n2c, c2n, active, log,
                   resolved, kept>>

(* A database error ends the batch; the events stored so far stay, also    *)
(* the one whose publication failed after its transaction was committed.   *)
IngestError(g) ==
    /\ ingest[g].busy
    /\ ingest[g].rest # <<>>
    /\ count["ingest"] < MaxIngestErrors
    /\ count' = [count EXCEPT !["ingest"] = @ + 1]
    /\ LET i == Head(ingest[g].rest)
       IN  \/ UNCHANGED log
           \/ ~Stored(i) /\ ~Conflict(i) /\ log' = Append(log, i)
    /\ ingest' = [ingest EXCEPT ![g] = Idle]
    /\ UNCHANGED <<born, store, job, replay, linkVars, n2c, c2n, active, resolved,
                   kept>>

(* The whole batch is acknowledged, on the connection that is active now,  *)
(* unless its queue is full.                                               *)
AckBatch(g) ==
    /\ ingest[g].busy
    /\ ingest[g].rest = <<>>
    /\ ingest' = [ingest EXCEPT ![g] = Idle]
    /\ c2n' = IF active # 0 /\ Len(c2n[active]) < ControlCap
                THEN [c2n EXCEPT ![active] = Append(@, ingest[g].all)] ELSE c2n
    /\ UNCHANGED <<born, store, job, replay, linkVars, n2c, active, log, resolved,
                   kept, count>>

(* The read loop of Core ends: remove_if_active; unread frames are lost.   *)
SocketEnd(g) ==
    /\ coreEnd[g]
    /\ ~ingest[g].busy
    /\ MayEnd(g) \/ nodeEnd[g] # "open"
    /\ coreEnd' = [coreEnd EXCEPT ![g] = FALSE]
    /\ active' = IF active = g THEN 0 ELSE active
    /\ n2c' = [n2c EXCEPT ![g] = <<>>]
    /\ UNCHANGED <<born, store, job, replay, opened, nodeEnd, c2n, ingest, log,
                   resolved, kept, count>>

(* Core stops between two transactions of a batch, or anywhere else.       *)
CoreRestart ==
    /\ opened < MaxConns
    /\ \E g \in Conns : coreEnd[g]
    /\ coreEnd' = [g \in Conns |-> FALSE]
    /\ active' = 0
    /\ n2c' = [g \in Conns |-> <<>>]
    /\ ingest' = [g \in Conns |-> Idle]
    /\ UNCHANGED <<born, store, job, replay, opened, nodeEnd, c2n, log, resolved,
                   kept, count>>

-----------------------------------------------------------------------------
TaskStep(g) == Emit(g) \/ Finish(g) \/ SendBatch(g) \/ SendResult(g)
ReadStep(g) == Replay(g) \/ ReceiveAck(g)
SocketStep(g) == \/ ReceiveHello(g) \/ ReceiveResult(g)
                 \/ BeginBatch(g) \/ AcceptEvent(g) \/ AckBatch(g)

Next ==
    \/ \E g \in Conns : \/ TaskStep(g) \/ ReadStep(g) \/ SocketStep(g)
                        \/ CloseChannel(g) \/ ReadError(g)
                        \/ IngestError(g) \/ SocketEnd(g)
                        \/ \E c \in Commands : Dispatch(g, c)
    \/ Connect \/ CoreRestart

Spec == Init /\ [][Next]_vars

(* Fairness: tasks are scheduled, the Node notices a lost connection and   *)
(* connects again; no fault and no command is forced.                      *)
Fairness ==
    /\ \A g \in Conns :
          /\ WF_vars(TaskStep(g))
          /\ WF_vars(ReadStep(g))
          /\ WF_vars(SocketStep(g))
          /\ WF_vars(~coreEnd[g] /\ CloseChannel(g))
    /\ WF_vars(Connect)

FairSpec == Spec /\ Fairness

-----------------------------------------------------------------------------
TypeOK ==
    /\ born \in Seq(Event)
    /\ store \in Store
    /\ job \in [Conns -> Job]
    /\ replay \in [Conns -> Seq(Ids)]
    /\ opened \in 0 .. MaxConns
    /\ nodeEnd \in [Conns -> {"open", "detached", "closed"}]
    /\ coreEnd \in [Conns -> BOOLEAN]
    /\ active \in 0 .. MaxConns
    /\ n2c \in [Conns -> Seq(Frame)]
    /\ c2n \in [Conns -> Seq(SUBSET Ids)]
    /\ ingest \in [Conns -> [busy : BOOLEAN, rest : Seq(Ids), all : SUBSET Ids]]
    /\ log \in Seq(Ids)
    /\ resolved \subseteq Commands
    /\ kept \subseteq Ids
    /\ count \in [Counters -> Nat]

(* An event that was ever saved in the Node's outbox is still there or in  *)
(* Core's table, whatever is lost, restarted or acknowledged meanwhile     *)
(* (persist_event_ack, EventBatchAck of a batch that failed half-way).     *)
KeptOrStored == kept \subseteq Range(store.outbox) \cup Range(log)

(* Core's table holds an event id once and a sequence number once, also    *)
(* when two runs of a command used the same numbers (event.seq_conflict).  *)
StoredOnce ==
    \A m, n \in DOMAIN log :
        log[m] = log[n] \/ born[log[m]].seq = born[log[n]].seq => m = n

(* When Core has the result of a command it also has the events that the   *)
(* Node saved for it: they travel before the result, and a reconnect       *)
(* replays them first.  A torn run, a batch that fails in Core, or a       *)
(* dispatcher that outlives its connection lets the result overtake.       *)
EventsBeforeResult ==
    (\A n \in Counters \ {"dispatch"} : count[n] = 0)
        => \A i \in kept : born[i].cmd \in resolved => Stored(i)

(* "A stale snapshot must never replace an ACKed outbox" (comment in       *)
(* merge_command_state_from): an entry that left the outbox stays out.     *)
AckedStaysGone ==
    [][\A i \in kept : i \notin Range(store.outbox) => i \notin Range(store'.outbox)]_vars

(* "events in a local outbox until Core acknowledges their event ids, so   *)
(* reconnects can replay unaccepted provider events"                       *)
(* (docs/runbooks/v01-local-dev.md:259): every event saved in the outbox   *)
(* reaches Core's table.                                                   *)
EventuallyStored == \A i \in Ids : i \in kept ~> Stored(i)

=============================================================================
