------------------------------ MODULE Sessions -------------------------------
(***************************************************************************)
(* One session: the rows that Core derives from the events of its runtime, *)
(* the commands those rows allow, and the Node that runs the commands and  *)
(* makes the events.                                                       *)
(*                                                                         *)
(* The Node numbers the events of a runtime; Core takes the next number of *)
(* the same scope for an event of its own when it expires an idle runtime. *)
(*                                                                         *)
(* Commands and events travel as CommandDelivery and EventDelivery show: a *)
(* command is run once, the events of a run stay in the Node's outbox      *)
(* until they are acknowledged and are sent again by a new connection.     *)
(* A run that a lost connection tears apart is the subject of              *)
(* EventDelivery and is left out.                                          *)
(***************************************************************************)
EXTENDS Outbox, Integers, Sequences, FiniteSetsExt, SequencesExt

CONSTANTS
    Turns,          \* turns sent to the session
    NoTurn,         \* no turn
    MaxRequests,    \* bound: requests of the operator besides the turns
    MaxFaults,      \* bound: reconnects, expiries and events Core fails to store
    MaxWire         \* bound: batches on the way to Core when a run adds its own

ASSUME SessionAssumption ==
    /\ NoTurn \notin Turns
    /\ {MaxRequests, MaxFaults, MaxWire} \subseteq Nat

VARIABLES
    runtime,    \* Core, durable: the state of runtime_sessions
    session,    \* Core, durable: the state of session_threads
    turns,      \* Core, durable: the states of turns
    approvals,  \* Core, durable: the states of approvals, one for each turn
    log,        \* Core, durable: the events, in the order of their cursors
    expiry,     \* Core: where expire_idle_runtimes is, and the number it took
    open,       \* commands the Node has not run
    node,       \* Node: state and number of the runtime, its turn, its signal
    outbox,     \* Node, durable: events that are not acknowledged
    wire,       \* batches on the way to Core: what is left, what is stored
    fault,      \* history: Core refused an event of the Node
    count       \* history: requests and faults so far

coreVars == <<runtime, session, turns, approvals, log>>
nodeVars == <<open, node, outbox, wire>>
vars == <<coreVars, expiry, nodeVars, fault, count>>

(* An event names the turn, or the approval, that it is about.             *)
Event(n, k, t) == [seq |-> n, kind |-> k, of |-> t]
Command(k, t) == [kind |-> k, of |-> t]
Batch(evs) == [rest |-> evs, done |-> {}]

(* event_for_command and next_runtime_seq, for a run's events in order.    *)
Number(first, kinds, t) ==
    [i \in 1 .. Len(kinds) |-> Event(first + i, kinds[i], t)]

(* create_session_with_correlation: the rows and the start command.        *)
Init ==
    /\ runtime = "starting" /\ session = "active"
    /\ turns = [t \in Turns |-> "none"]
    /\ approvals = [t \in Turns |-> "none"]
    /\ log = <<>>
    /\ expiry = [at |-> "no", seq |-> 0]
    /\ open = {Command("start", NoTurn)}
    /\ node = [state |-> "none", seq |-> 0, turn |-> NoTurn, activity |-> <<>>, cut |-> FALSE]
    /\ outbox = <<>> /\ wire = <<>>
    /\ fault = FALSE
    /\ count = [requests |-> 0, faults |-> 0]

Tick(n, bound) == count[n] < bound /\ count' = [count EXCEPT ![n] = @ + 1]

-----------------------------------------------------------------------------
(* The rows that an event changes.                                         *)

(* The runtime state of an event, in apply_event_projection_on_connection. *)
RuntimeOf(k) ==
    CASE k = "Starting" -> "starting"   [] k = "Ready" -> "ready"
      [] k = "Resuming" -> "resuming"   [] k = "Running" -> "running"
      [] k \in {"Blocked", "ApprovalRequested"} -> "blocked"
      [] k = "Expired" -> "expired"     [] k = "Stopped" -> "stopped"
      [] k = "Error" -> "error"         [] k = "TurnInterrupted" -> "interrupted"
      [] OTHER -> "none"

(* update_session_state_from_event_on_connection.                          *)
SessionAfter(s, k) ==
    CASE k \in {"Expired", "Error"} -> "degraded"
      [] k = "Stopped" -> "stopped"
      [] RuntimeOf(k) = "none" \/ s = "detached" -> s
      [] OTHER -> "active"

(* turn_state_for_event.                                                   *)
TurnOf(k) ==
    CASE k = "TurnStarted" -> "running"       [] k = "TurnCompleted" -> "completed"
      [] k = "TurnInterrupted" -> "interrupted" [] k = "Error" -> "failed"
      [] k = "ApprovalRequested" -> "blocked"
      [] OTHER -> "none"

(* update_turn_from_event_on_connection.                                   *)
update_turn_from_event(e) ==
    turns' = IF e.of = NoTurn \/ TurnOf(e.kind) = "none" THEN turns
             ELSE [turns EXCEPT ![e.of] = TurnOf(e.kind)]

(* Wrong variant: a resolution that names no turn finds no approval.       *)
ResolveByTurn(e) ==
    approvals' = IF e.kind = "ApprovalRequested"
                   THEN [approvals EXCEPT ![e.of] = "requested"] ELSE approvals

(* update_approval_from_event_on_connection: an upsert of the approval the *)
(* payload names.                                                          *)
update_approval_from_event(e) ==
    approvals' = CASE e.kind = "ApprovalRequested" -> [approvals EXCEPT ![e.of] = "requested"]
                   [] e.kind = "ApprovalResolved" -> [approvals EXCEPT ![e.of] = "resolved"]
                   [] OTHER -> approvals

Numbers == {log[i].seq : i \in DOMAIN log}
LastNumber == Max(Numbers \cup {0})

(* Wrong variant: a stale runtime stays stale.                             *)
ProjectSticky(e) ==
    LET stale == e.seq > LastNumber + 1 \/ runtime = "stale"
        state == RuntimeOf(e.kind)
    IN  /\ runtime' = IF stale THEN "stale" ELSE IF state = "none" THEN runtime ELSE state
        /\ session' = IF stale THEN "degraded" ELSE SessionAfter(session, e.kind)
        /\ update_turn_from_event(e)
        /\ update_approval_from_event(e)

(* apply_event_projection_on_connection, and after it                      *)
(* mark_event_stream_gap_on_connection when a number was left out.         *)
Project(e) ==
    LET gap == e.seq > LastNumber + 1
        state == RuntimeOf(e.kind)
    IN  /\ runtime' = IF gap THEN "stale" ELSE IF state = "none" THEN runtime ELSE state
        /\ session' = IF gap THEN "degraded" ELSE SessionAfter(session, e.kind)
        /\ update_turn_from_event(e)
        /\ update_approval_from_event(e)

Seen(e) == e \in Range(log)
Conflict(e) == ~Seen(e) /\ e.seq \in Numbers

(* Wrong variant: an event that arrives again is stored again.             *)
AcceptAgain(e) == ~Conflict(e) /\ Project(e) /\ log' = Append(log, e)

(* accept_node_event, when it returns without an error.                    *)
accept_node_event(e) ==
    /\ ~Conflict(e)
    /\ IF Seen(e) THEN UNCHANGED coreVars
       ELSE Project(e) /\ log' = Append(log, e)

-----------------------------------------------------------------------------
(* What an operator reads, and what Core then accepts.                     *)

(* current_turn: the turns that have begun and not ended, from the events. *)
ActiveTurns(events) ==
    {t \in Turns : \E i \in DOMAIN events :
        /\ events[i].kind = "TurnStarted" /\ events[i].of = t
        /\ \A j \in i + 1 .. Len(events) :
              ~(events[j].of = t /\ events[j].kind \in {"TurnCompleted", "TurnInterrupted", "Error"})}

(* pending_approvals, from the events.                                     *)
pending_approvals(events) ==
    {t \in Turns : \E i \in DOMAIN events :
        /\ events[i].kind = "ApprovalRequested" /\ events[i].of = t
        /\ \A j \in i + 1 .. Len(events) :
              ~(events[j].of = t /\ events[j].kind = "ApprovalResolved")}

(* What surrounds a request: does the node accept commands, is the         *)
(* placement validated and free of hard blocks, is the provider there.     *)
Environments ==
    [node : BOOLEAN, placement : {"validated", "pending", "blocked"}, provider : BOOLEAN]

Kinds == {"turn", "deduction", "interrupt", "stop", "resume", "resolve"}

(* ensure_runtime_accepts_command.                                         *)
RuntimeAccepts(k) ==
    CASE k \in {"turn", "deduction"} -> runtime \in {"ready", "running"}
      [] k = "resolve"   -> runtime = "blocked"
      [] k = "interrupt" -> runtime \in {"running", "blocked"}
      [] k = "stop"      -> runtime \notin {"stopped", "expired"}
      [] k = "resume"    -> runtime \in {"stopped", "expired", "stale", "error", "interrupted"}

(* ensure_session_commandable.                                             *)
Commandable(k, env) ==
    /\ k \in {"turn", "resolve"} => session # "detached"
    /\ RuntimeAccepts(k)
    /\ env.node
    /\ k \in {"turn", "resume", "deduction"} => env.placement = "validated"
    /\ k \in {"turn", "resume", "resolve", "deduction"} => env.provider

(* available_commands.                                                     *)
Offered(k, env) ==
    LET attached == session # "detached"
        start == env.node /\ env.placement # "blocked" /\ env.provider
    IN  CASE k = "turn"      -> start /\ attached /\ runtime \in {"ready", "running"}
          [] k = "deduction" -> start /\ runtime \in {"ready", "running"}
          [] k = "interrupt" -> env.node /\ runtime \in {"running", "blocked"}
          [] k = "stop"      -> env.node /\ runtime \notin {"stopped", "expired"}
          [] k = "resume"    ->
                start /\ runtime \in {"stopped", "expired", "stale", "error", "interrupted"}
          [] k = "resolve"   -> /\ runtime = "blocked" /\ env.node /\ env.provider /\ attached
                                /\ pending_approvals(log) # {}

(* Every route reads the session first, which expires an idle runtime.     *)
Requested(k, t) ==
    /\ expiry.at = "no"
    /\ \E env \in Environments : Commandable(k, env)
    /\ open' = open \cup {Command(k, t)}

(* submit_turn_for_actor and record_turn_submission.                       *)
SubmitTurn(t) ==
    /\ turns[t] = "none"
    /\ Requested("turn", t)
    /\ turns' = [turns EXCEPT ![t] = "created"]
    /\ UNCHANGED <<runtime, session, approvals, log, expiry, node, outbox, wire, fault, count>>

(* runtime_lifecycle_command: interrupt, stop or resume.                   *)
LifecycleCommand(k) ==
    /\ k \in {"interrupt", "stop", "resume"}
    /\ Command(k, NoTurn) \notin open
    /\ Requested(k, NoTurn)
    /\ Tick("requests", MaxRequests)
    /\ UNCHANGED <<coreVars, expiry, node, outbox, wire, fault>>

(* resolve_approval: ensure_pending_approval looks into the events.        *)
ResolveApproval(t) ==
    /\ t \in pending_approvals(log)
    /\ Command("resolve", t) \notin open
    /\ Requested("resolve", t)
    /\ Tick("requests", MaxRequests)
    /\ UNCHANGED <<coreVars, expiry, node, outbox, wire, fault>>

(* update_session_attachment_state, from attach and detach.                *)
Attach(target) ==
    /\ session \notin {"stopped", target}
    /\ session' = target
    /\ Tick("requests", MaxRequests)
    /\ UNCHANGED <<runtime, turns, approvals, log, expiry, nodeVars, fault>>

-----------------------------------------------------------------------------
(* expire_idle_runtimes: the rows, then the next number, then the event.   *)
(* Whether the last step is old enough is left open.                       *)

FindExpired ==
    /\ expiry.at = "no" /\ runtime \in {"ready", "running", "blocked", "stale"}
    /\ Tick("faults", MaxFaults)
    /\ expiry' = [at |-> "found", seq |-> 0]
    /\ UNCHANGED <<coreVars, nodeVars, fault>>

TakeNumber ==
    /\ expiry.at = "found"
    /\ expiry' = [at |-> "numbered", seq |-> LastNumber + 1]
    /\ UNCHANGED <<coreVars, nodeVars, fault, count>>

(* The event is accepted, or the Node took the number meanwhile and the    *)
(* operator's request fails.                                               *)
Expire ==
    LET e == Event(expiry.seq, "Expired", NoTurn)
    IN  /\ expiry.at = "numbered"
        /\ expiry' = [at |-> "no", seq |-> 0]
        /\ accept_node_event(e) \/ (Conflict(e) /\ UNCHANGED coreVars)
        /\ UNCHANGED <<nodeVars, fault, count>>

-----------------------------------------------------------------------------
(* The Node runs the commands of the runtime one at a time.                *)

(* apply_runtime_state_projection, for the last event that has a state.    *)
StateAfter(evs) ==
    LET sets == {i \in DOMAIN evs :
                    RuntimeOf(evs[i].kind) # "none" /\ evs[i].kind # "ApprovalRequested"}
    IN  RuntimeOf(evs[Max(sets)].kind)

(* The events of a run go into the outbox and to Core as one batch.        *)
Finish(c, evs) ==
    /\ open' = open \ {c}
    /\ node' = [state |-> StateAfter(evs), seq |-> evs[Len(evs)].seq, turn |-> NoTurn,
                activity |-> <<>>, cut |-> FALSE]
    /\ outbox' = outbox \o evs
    /\ wire' = Append(wire, Batch(evs)) /\ Len(wire') <= MaxWire
    /\ UNCHANGED <<coreVars, expiry, fault, count>>

(* events_for_command, for every command but a turn.                       *)
ControlEvents(k) ==
    CASE k = "start"     -> <<"Starting", "Ready">>
      [] k = "resume"    -> <<"Resuming", "Ready">>
      [] k = "resolve"   -> <<"ApprovalResolved", "Ready">>
      [] k = "interrupt" -> <<"Error">>
      [] k = "stop"      -> <<"Stopped">>

Control(c) ==
    /\ c \in open /\ c.kind # "turn"
    /\ node.turn = NoTurn
    /\ Finish(c, Number(node.seq, ControlEvents(c.kind), c.of))

(* provider_mcp_access_failure_outcome, runtime_workspace_error_events:    *)
(* one error.                                                              *)
Refuse(c) ==
    /\ c \in open /\ c.kind \in {"start", "resume", "turn"}
    /\ node.turn = NoTurn
    /\ Finish(c, Number(node.seq, <<"Error">>, c.of))

(* send_turn_events: the first two events are also sent at once, each on   *)
(* its own, when the queue of frames takes them (NodeLiveEventSink::emit). *)
TurnHead(first, t) ==
    <<Event(first + 1, "Running", NoTurn), Event(first + 2, "TurnStarted", t)>>

BeginTurn(c) ==
    /\ c \in open /\ c.kind = "turn"
    /\ node.turn = NoTurn
    /\ node' = [node EXCEPT !.seq = @ + 2, !.state = "running", !.turn = c.of]
    /\ \E live \in {<<>>, <<1>>, <<2>>, <<1, 2>>} :
          wire' = wire \o [i \in DOMAIN live |-> Batch(<<TurnHead(node.seq, c.of)[live[i]]>>)]
    /\ Len(wire) < MaxWire
    /\ UNCHANGED <<coreVars, expiry, open, outbox, fault, count>>

(* emit_codex_activity_event: a line of the provider takes a number.       *)
Activity ==
    LET e == Event(node.seq + 1, "Activity", node.turn)
    IN  /\ node.turn # NoTurn /\ node.activity = <<>>
        /\ node' = [node EXCEPT !.seq = @ + 1, !.activity = <<e>>]
        /\ wire' \in {wire, Append(wire, Batch(<<e>>))} /\ Len(wire') <= MaxWire
        /\ UNCHANGED <<coreVars, expiry, open, outbox, fault, count>>

(* How a turn ends.  A cancelled turn and one that runs out of time keep   *)
(* no activity; the numbers it took are never used again.                  *)
EndTurn(how) ==
    LET c == Command("turn", node.turn)
        begun == node.seq - 2 - Len(node.activity)
        kept == IF how \in {"cancelled", "timeout"} THEN <<>> ELSE node.activity
        tail == CASE how = "completed" -> <<"TurnCompleted", "Ready">>
                  [] how = "approval" -> <<"ApprovalRequested", "Blocked">>
                  [] how = "cancelled" -> <<"TurnInterrupted">>
                  [] OTHER -> <<"Error">>
    IN  /\ node.turn # NoTurn
        /\ how = "cancelled" => node.cut
        /\ Finish(c, TurnHead(begun, node.turn) \o kept \o Number(node.seq, tail, node.turn))

(* An interrupt or a stop that arrives cuts the turn that is running.      *)
Signal(c) ==
    /\ c \in open /\ c.kind \in {"interrupt", "stop"}
    /\ node.turn # NoTurn /\ ~node.cut
    /\ node' = [node EXCEPT !.cut = TRUE]
    /\ UNCHANGED <<coreVars, expiry, open, outbox, wire, fault, count>>

-----------------------------------------------------------------------------
(* The batches on the way to Core.                                         *)

Head1 == wire[1].rest[1]

(* A new connection, between two runs, sends the outbox again.             *)
Replay ==
    /\ node.turn = NoTurn
    /\ Tick("faults", MaxFaults)
    /\ wire' = IF outbox = <<>> THEN <<>> ELSE <<Batch(outbox)>>
    /\ UNCHANGED outbox

(* An event of the first batch is stored; after the last one the batch is  *)
(* acknowledged and the Node drops its events, unless the frame is lost    *)
(* with the connection.                                                    *)
Deliver ==
    /\ wire # <<>>
    /\ accept_node_event(Head1)
    /\ LET b == [rest |-> Tail(wire[1].rest), done |-> wire[1].done \cup {Head1}]
       IN  \/ /\ b.rest # <<>>
              /\ wire' = [wire EXCEPT ![1] = b] /\ UNCHANGED <<outbox, count>>
           \/ /\ b.rest = <<>>
              /\ wire' = Tail(wire) /\ outbox' = Without(outbox, b.done) /\ UNCHANGED count
           \/ b.rest = <<>> /\ Replay
    /\ UNCHANGED <<expiry, open, node, fault>>

(* An event that is in conflict, or that Core fails to store, ends its     *)
(* batch: nothing is acknowledged and the rest is dropped.                 *)
DropBatch ==
    /\ wire # <<>>
    /\ \/ Conflict(Head1) /\ UNCHANGED count
       \/ ~Seen(Head1) /\ Tick("faults", MaxFaults)
    /\ wire' = Tail(wire)
    /\ fault' = TRUE
    /\ UNCHANGED <<coreVars, expiry, open, node, outbox>>

(* The connection is lost, and with it what was on the way.                *)
Reconnect == Replay /\ UNCHANGED <<coreVars, expiry, open, node, fault>>

-----------------------------------------------------------------------------
Next ==
    \/ \E t \in Turns : SubmitTurn(t) \/ ResolveApproval(t)
    \/ \E k \in {"interrupt", "stop", "resume"} : LifecycleCommand(k)
    \/ \E target \in {"active", "detached"} : Attach(target)
    \/ FindExpired \/ TakeNumber \/ Expire
    \/ \E c \in open : Control(c) \/ Refuse(c) \/ BeginTurn(c) \/ Signal(c)
    \/ Activity
    \/ \E how \in {"completed", "approval", "cancelled", "error", "timeout"} : EndTurn(how)
    \/ Deliver \/ DropBatch \/ Reconnect

Spec == Init /\ [][Next]_vars

(* The tasks of the Node and of Core go on; a provider's turn ends.        *)
FairSpec ==
    /\ Spec
    /\ WF_vars(\E c \in open : Control(c) \/ BeginTurn(c))
    /\ WF_vars(\E how \in {"completed", "approval", "error"} : EndTurn(how))
    /\ WF_vars(Deliver \/ DropBatch)
    /\ WF_vars(TakeNumber) /\ WF_vars(Expire)

-----------------------------------------------------------------------------
Quiet ==
    /\ wire = <<>> /\ outbox = <<>> /\ open = {}
    /\ expiry.at = "no" /\ ~fault

(* When nothing is under way and Core refused nothing, Core shows the      *)
(* state that the Node is in; only an expiry, or a number that the Node    *)
(* took and never sent, may make it another (apply_event_projection,       *)
(* mark_event_stream_gap, apply_runtime_state_projection).                 *)
Settled ==
    Quiet => \/ runtime = node.state
             \/ runtime = "expired" /\ log[Len(log)].kind = "Expired"
             \/ runtime = "stale" /\ log[Len(log)].seq - 1 \notin Numbers

Ended == {"completed", "interrupted", "failed"}

(* A turn that has ended, or an approval that was answered, never comes    *)
(* back to life, however often and however late its events arrive.         *)
EndedTurnsStay ==
    \A t \in Turns : /\ turns[t] \in Ended => turns'[t] = turns[t]
                     /\ approvals[t] = "resolved" => approvals'[t] = "resolved"

(* What the projection offers, the routes accept, in every environment but *)
(* one: a placement that was registered again and is not yet validated.    *)
OffersAccepted ==
    \A env \in Environments : env.placement # "pending" =>
        \A k \in Kinds : Offered(k, env) => Commandable(k, env)

(* The two ways in which Core derives turns and approvals agree: the rows  *)
(* that each event updates, and the reading of the whole log that the      *)
(* projection offers and that resolve_approval asks; and what the          *)
(* projection offers on that ground is accepted.                           *)
ViewsAgree ==
    /\ pending_approvals(log) = {t \in Turns : approvals[t] = "requested"}
    /\ ActiveTurns(log) = {t \in Turns : turns[t] \in {"running", "blocked"}}
    /\ OffersAccepted

(* docs/runbooks/v01-local-dev.md: "Expired runtimes reject new turns but  *)
(* remain resumable": a resume that Core accepted ends the expiry.         *)
ExpiredResumes ==
    runtime = "expired" /\ Command("resume", NoTurn) \in open ~> runtime # "expired"
=============================================================================
