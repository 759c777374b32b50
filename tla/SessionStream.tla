---------------------------- MODULE SessionStream ----------------------------
(***************************************************************************)
(* From a stored event of a session to the streams that follow the session.*)
(*                                                                         *)
(* An event is stored with the next cursor of the session and a row in the *)
(* publication outbox.  Whoever stored it then drains the outbox onto a    *)
(* broadcast channel, in the order of the senders' clocks.  A stream first *)
(* subscribes, then drains, then reads the events after its cursor, and    *)
(* from then on passes on what the channel brings with a later cursor.     *)
(*                                                                         *)
(* Events of the Node are stored under the ingest lock; the acknowledgement*)
(* of a warning reads its cursor before its transaction and takes no lock. *)
(***************************************************************************)
EXTENDS Integers, Sequences, FiniteSets

CONSTANTS
    Followers,      \* clients that follow the session
    MaxEvents,      \* bound: events stored
    MaxOpens,       \* bound: streams opened
    Capacity        \* places of the broadcast channel (256 in the code)

VARIABLES
    clocks,     \* Core, durable: happened_at of the events, by cursor
    rows,       \* Core, durable: cursors not marked as published
    task,       \* Core: where the ingest, the acknowledgement and the openers are
    cursor,     \* Core: the cursor that an acknowledgement read
    drain,      \* Core: who holds the publish lock, and the rows it selected
    stream,     \* per client: its stream, what it passed on, what is queued
    opens,      \* history: streams opened
    overtaken   \* history: cursors sent after a later one

streamVars == <<clocks, rows, task, cursor, drain, stream, opens, overtaken>>

Tasks == {"ingest", "acknowledge"} \cup Followers
NoDrain == [by |-> "nobody", list |-> <<>>]

(* A stream: has it subscribed, has it read the history; the last cursor   *)
(* it passed on and all of them; what the channel holds for it.            *)
Closed == [at |-> "closed", last |-> 0, got |-> {}, queue |-> <<>>, lagged |-> FALSE]

StreamInit ==
    /\ clocks = <<>> /\ rows = {}
    /\ task = [p \in Tasks |-> "idle"]
    /\ cursor = 0
    /\ drain = NoDrain
    /\ stream = [f \in Followers |-> Closed]
    /\ opens = 0 /\ overtaken = {}

-----------------------------------------------------------------------------
(* Storing an event.                                                       *)

(* complete_event_projection_on_connection: with the event its outbox row. *)
Insert(time) ==
    /\ clocks' = Append(clocks, time)
    /\ rows' = rows \cup {Len(clocks')}

(* accept_node_event, up to its commit, under the ingest lock; also what   *)
(* append_core_session_event makes.                                        *)
StoreNodeEvent ==
    /\ task["ingest"] = "idle" /\ Len(clocks) < MaxEvents
    /\ \E time \in 1 .. 2 : Insert(time)
    /\ task' = [task EXCEPT !["ingest"] = "drain"]
    /\ UNCHANGED <<drain, stream, opens, overtaken, cursor>>

(* An event that is already projected: enqueued again, which keeps the row *)
(* as it is, and drained.                                                  *)
StoreAgain ==
    /\ task["ingest"] = "idle" /\ clocks # <<>>
    /\ task' = [task EXCEPT !["ingest"] = "drain"]
    /\ UNCHANGED <<clocks, rows, drain, stream, opens, overtaken, cursor>>

(* record_warning_acknowledgement: the cursor is read first ...            *)
ReadCursor ==
    /\ task["acknowledge"] = "idle" /\ Len(clocks) < MaxEvents
    /\ task' = [task EXCEPT !["acknowledge"] = "insert"]
    /\ cursor' = Len(clocks) + 1
    /\ UNCHANGED <<clocks, rows, drain, stream, opens, overtaken>>

(* ... and the insert fails on the unique index when it is taken by then.  *)
StoreAcknowledgement ==
    /\ task["acknowledge"] = "insert"
    /\ cursor' = 0
    /\ IF cursor = Len(clocks) + 1
       THEN /\ \E time \in 1 .. 2 : Insert(time)
            /\ task' = [task EXCEPT !["acknowledge"] = "drain"]
       ELSE /\ UNCHANGED <<clocks, rows>>
            /\ task' = [task EXCEPT !["acknowledge"] = "idle"]
    /\ UNCHANGED <<drain, stream, opens, overtaken>>

-----------------------------------------------------------------------------
(* drain_event_publication_outbox, under the publish lock.                 *)

(* The rows, by happened_at and, where that is equal, by event id.         *)
SelectRows(p) ==
    /\ task[p] = "drain" /\ drain = NoDrain
    /\ \E list \in [1 .. Cardinality(rows) -> rows] :
          /\ {list[i] : i \in DOMAIN list} = rows
          /\ \A i, j \in DOMAIN list : i < j => clocks[list[i]] <= clocks[list[j]]
          /\ drain' = [by |-> p, list |-> list]
    /\ UNCHANGED <<clocks, rows, task, stream, opens, overtaken, cursor>>

Subscribed == {f \in Followers : stream[f].at # "closed"}

(* A broadcast: every receiver queues it, a full queue loses its oldest.   *)
Queued(s, n) ==
    IF s.at = "closed" THEN s
    ELSE IF Len(s.queue) < Capacity THEN [s EXCEPT !.queue = Append(@, n)]
    ELSE [s EXCEPT !.queue = Append(Tail(@), n), !.lagged = TRUE]

(* One row: sent and marked, or kept when there is no receiver.            *)
Publish ==
    LET n == drain.list[1]
    IN  /\ drain.list # <<>>
        /\ drain' = [drain EXCEPT !.list = Tail(@)]
        /\ IF Subscribed = {} THEN UNCHANGED <<rows, stream, overtaken>>
           ELSE /\ rows' = rows \ {n}
                /\ stream' = [f \in Followers |-> Queued(stream[f], n)]
                /\ overtaken' = IF \E m \in n + 1 .. Len(clocks) : m \notin rows
                                THEN overtaken \cup {n} ELSE overtaken
        /\ UNCHANGED <<clocks, task, opens, cursor>>

(* The lock is given up; an opener goes on to read the history.            *)
EndDrain ==
    /\ drain # NoDrain /\ drain.list = <<>>
    /\ task' = [task EXCEPT ![drain.by] = IF drain.by \in Followers THEN "load" ELSE "idle"]
    /\ drain' = NoDrain
    /\ UNCHANGED <<clocks, rows, stream, opens, overtaken, cursor>>

-----------------------------------------------------------------------------
(* session_stream.                                                         *)

(* subscribe; a client that comes back resumes after the last cursor it    *)
(* was sent (stream_resume_after_seq).                                     *)
Subscribe(f) ==
    /\ stream[f].at = "closed" /\ task[f] = "idle" /\ opens < MaxOpens
    /\ opens' = opens + 1
    /\ stream' = [stream EXCEPT ![f].at = "open", ![f].queue = <<>>, ![f].lagged = FALSE]
    /\ task' = [task EXCEPT ![f] = "drain"]
    /\ UNCHANGED <<clocks, rows, drain, overtaken, cursor>>

(* load_events, and the history it yields.                                 *)
LoadHistory(f) ==
    /\ task[f] = "load"
    /\ task' = [task EXCEPT ![f] = "idle"]
    /\ stream' = [stream EXCEPT ![f].at = "live",
                                ![f].got = @ \cup (stream[f].last + 1 .. Len(clocks)),
                                ![f].last = IF Len(clocks) > @ THEN Len(clocks) ELSE @]
    /\ UNCHANGED <<clocks, rows, drain, opens, overtaken, cursor>>

(* Wrong variant: a stream that lagged goes on with what is left.          *)
ReceiveOn(f) ==
    LET s == stream[f]
    IN  /\ s.at = "live" /\ s.queue # <<>>
        /\ stream' = [stream EXCEPT ![f] =
              IF s.queue[1] > s.last
              THEN [s EXCEPT !.queue = Tail(@), !.last = s.queue[1], !.got = @ \cup {s.queue[1]}]
              ELSE [s EXCEPT !.queue = Tail(@)]]
        /\ UNCHANGED <<clocks, rows, task, drain, opens, overtaken, cursor>>

(* An event of the channel: passed on when its cursor is later than all    *)
(* that were passed on; a stream that lagged says so and ends.             *)
Receive(f) ==
    LET s == stream[f]
    IN  /\ s.at = "live" /\ s.queue # <<>>
        /\ stream' = [stream EXCEPT ![f] =
              IF s.lagged THEN [Closed EXCEPT !.last = s.last, !.got = s.got]
              ELSE IF s.queue[1] > s.last
              THEN [s EXCEPT !.queue = Tail(@), !.last = s.queue[1], !.got = @ \cup {s.queue[1]}]
              ELSE [s EXCEPT !.queue = Tail(@)]]
        /\ UNCHANGED <<clocks, rows, task, drain, opens, overtaken, cursor>>

(* The client goes away.                                                   *)
Leave(f) ==
    /\ stream[f].at = "live"
    /\ stream' = [stream EXCEPT ![f].at = "closed", ![f].queue = <<>>, ![f].lagged = FALSE]
    /\ UNCHANGED <<clocks, rows, task, drain, opens, overtaken, cursor>>

(* Core stops, and starts again without any stream.                        *)
StopCore ==
    /\ opens < MaxOpens
    /\ opens' = opens + 1
    /\ task' = [p \in Tasks |-> "idle"]
    /\ drain' = NoDrain /\ cursor' = 0
    /\ stream' = [f \in Followers |-> [Closed EXCEPT !.last = stream[f].last, !.got = stream[f].got]]
    /\ UNCHANGED <<clocks, rows, overtaken>>

StreamNext ==
    \/ StoreNodeEvent \/ StoreAgain \/ ReadCursor \/ StoreAcknowledgement
    \/ \E p \in Tasks : SelectRows(p)
    \/ Publish \/ EndDrain
    \/ \E f \in Followers : Subscribe(f) \/ LoadHistory(f) \/ Receive(f) \/ Leave(f)
    \/ StopCore

StreamSpec == StreamInit /\ [][StreamNext]_streamVars

-----------------------------------------------------------------------------
(* docs/runbooks/v01-local-dev.md: a stream "sends persisted historical    *)
(* events first and then keeps the connection open for future accepted     *)
(* events".  When no task is under way, a stream that is open and did not  *)
(* lag has passed on every event of the session, in all the orders of      *)
(* storing, draining, subscribing and reading; the events it lacks were    *)
(* sent after one with a later cursor, which the order by the senders'     *)
(* clocks allows, and the stream skips them for good.                      *)
StreamComplete ==
    \A f \in Followers :
        stream[f].at = "live" /\ stream[f].queue = <<>> /\ (\A p \in Tasks : task[p] = "idle")
            => 1 .. Len(clocks) \subseteq stream[f].got \cup overtaken
=============================================================================
