------------------------------ MODULE Deductions ------------------------------
(***************************************************************************)
(* Deductions: a session is asked to explain itself, the provider answers  *)
(* with a structured result, and the user may cancel while it works.       *)
(*                                                                         *)
(* A deduction is a row of its own beside the command that requests it.    *)
(* The create and cancel routes, the dispatcher and the read loop of the   *)
(* control socket each write row and command in several transactions, and  *)
(* each acts on what it read in an earlier one.  Commands are delivered as *)
(* CommandDelivery shows: until they have a result, and from the Node's    *)
(* saved outcome once they were run.                                       *)
(***************************************************************************)
EXTENDS Naturals, Sequences

CONSTANTS
    Deductions,     \* deductions of one session, followed to the Node
    MaxBreaks,      \* bound: reconnects and restarts of Core
    MaxReplies,     \* bound: frames in flight when the Node adds another
    MaxVersions     \* bound: versions kept of one narrative

VARIABLES
    row,        \* Core, durable: deductions.state
    other,      \* Core, durable: a row of the session beside these is active
    said,       \* Core, durable: the ends its events announced
    versions,   \* Core, durable: versions of the narrative kept from it
    asks,       \* Core: where the create and the cancel request are
    cmd,        \* Core, durable: state of the request and cancel commands
    marking,    \* Core: requests that are sent and not yet marked
    recv,       \* Core: the frame the read loop is working on
    toNode,     \* requests on their way to the Node
    replies,    \* frames on their way to Core
    node,       \* Node: execution, signal, tombstone and saved outcomes
    breaks      \* history: reconnects and restarts

coreVars == <<row, other, said, versions, asks, cmd, marking, recv>>
dedVars == <<coreVars, toNode, replies, node, breaks>>

Active == {"requested", "running"}
Ended == {"completed", "invalid", "failed", "cancelled"}
\* "revoked": failed by cancel_deduction, with a payload of its own
Open == {"unsent", "sent", "acked"}

DedInit ==
    /\ row = [d \in Deductions |-> "none"] /\ other = FALSE
    /\ said = [d \in Deductions |-> {}]
    /\ versions = [d \in Deductions |-> 0]
    /\ asks = [d \in Deductions |-> [create |-> "idle", cancel |-> "idle"]]
    /\ cmd = [d \in Deductions |-> [run |-> "none", cancel |-> "none"]]
    /\ marking = {} /\ recv = <<>> /\ toNode = {} /\ replies = <<>>
    /\ node = [d \in Deductions |-> [running |-> FALSE, signal |-> "none", tomb |-> FALSE,
                                     out |-> "none", cancelled |-> FALSE]]
    /\ breaks = 0

-----------------------------------------------------------------------------
(* The routes of Core.                                                     *)

(* deductions_one_active_idx refuses a second active row in the session.   *)
NoneActive == ~other /\ \A d \in Deductions : row[d] \notin Active

(* create_deduction counts the active deductions of the session ...        *)
CountActive(d) ==
    /\ asks[d].create = "idle" /\ NoneActive
    /\ asks' = [asks EXCEPT ![d].create = "counted"]
    /\ UNCHANGED <<row, other, said, versions, cmd, marking, recv, toNode, replies, node, breaks>>

(* ... and later records command and row in one transaction, which fails   *)
(* when another request was faster.                                        *)
create_deduction(d) ==
    /\ asks[d].create = "counted"
    /\ \/ /\ NoneActive
          /\ asks' = [asks EXCEPT ![d].create = "over"]
          /\ row' = [row EXCEPT ![d] = "requested"]
          /\ cmd' = [cmd EXCEPT ![d].run = "unsent"]
       \/ /\ ~NoneActive
          /\ asks' = [asks EXCEPT ![d].create = "idle"]
          /\ UNCHANGED <<row, cmd>>
    /\ UNCHANGED <<other, said, versions, marking, recv, toNode, replies, node, breaks>>

(* Another deduction of the session begins, under the same index, or ends. *)
OtherDeduction ==
    /\ other \/ NoneActive
    /\ other' = ~other
    /\ UNCHANGED <<row, said, versions, asks, cmd, marking, recv, toNode, replies, node, breaks>>

(* cancel_deduction reads the row ...                                      *)
ReadActive(d) ==
    /\ asks[d].cancel = "idle" /\ row[d] \in Active
    /\ asks' = [asks EXCEPT ![d].cancel = "read"]
    /\ UNCHANGED <<row, other, said, versions, cmd, marking, recv, toNode, replies, node, breaks>>

(* ... and in a later transaction records the command that tells the Node, *)
(* fails the request if it was not dispatched, and ends an active row.     *)
cancel_deduction(d) ==
    /\ asks[d].cancel = "read"
    /\ asks' = [asks EXCEPT ![d].cancel = "announce"]
    /\ cmd' = [cmd EXCEPT ![d].cancel = "open",
                          ![d].run = IF @ = "unsent" THEN "revoked" ELSE @]
    /\ row' = [row EXCEPT ![d] = IF @ \in Active THEN "cancelled" ELSE @]
    /\ UNCHANGED <<other, said, versions, marking, recv, toNode, replies, node, breaks>>

(* append_core_session_event, whether the row was still active or not.     *)
AnnounceCancel(d) ==
    /\ asks[d].cancel = "announce"
    /\ asks' = [asks EXCEPT ![d].cancel = "over"]
    /\ said' = [said EXCEPT ![d] = @ \cup {"cancelled"}]
    /\ UNCHANGED <<row, other, versions, cmd, marking, recv, toNode, replies, node, breaks>>

(* One transaction; only a completed deduction has a block.                *)
persist_deduction(d) ==
    /\ row[d] = "completed" /\ versions[d] < MaxVersions
    /\ versions' = [versions EXCEPT ![d] = @ + 1]
    /\ UNCHANGED <<row, other, said, asks, cmd, marking, recv, toNode, replies, node, breaks>>

-----------------------------------------------------------------------------
(* The dispatcher of Core: a request is sent, and marked afterwards        *)
(* whatever became of the command meanwhile.                               *)

SendRequest(d) ==
    /\ cmd[d].run \in Open /\ d \notin toNode /\ d \notin marking
    /\ toNode' = toNode \cup {d} /\ marking' = marking \cup {d}
    /\ UNCHANGED <<row, other, said, versions, asks, cmd, recv, replies, node, breaks>>

MarkDispatched(d) ==
    /\ d \in marking
    /\ marking' = marking \ {d}
    /\ cmd' = [cmd EXCEPT ![d].run = "sent"]
    /\ UNCHANGED <<row, other, said, versions, asks, recv, toNode, replies, node, breaks>>

-----------------------------------------------------------------------------
(* The read loop of Core.                                                  *)

Frame(d, k, o) == [ded |-> d, kind |-> k, out |-> o]
Working(at) == recv # <<>> /\ recv[1].at = at
Go(f, at) == recv' = <<[ded |-> f.ded, kind |-> f.kind, out |-> f.out, at |-> at]>>

(* validate_command_ack and validate_command_result: a command that has    *)
(* its result accepts the same one again.                                  *)
Valid(f) ==
    CASE f.kind = "ack" -> cmd[f.ded].run \in {"sent", "acked"}
      [] f.kind = "run" -> cmd[f.ded].run \in Open \cup {f.out}
      [] f.kind = "cancel" -> TRUE

ReceiveFrame ==
    /\ recv = <<>> /\ replies # <<>>
    /\ LET f == Head(replies)
       IN  IF Valid(f) THEN Go(f, "store") ELSE UNCHANGED recv
    /\ replies' = Tail(replies)
    /\ UNCHANGED <<row, other, said, versions, asks, cmd, marking, toNode, node, breaks>>

(* update_command_state and update_command_result.                         *)
StoreFrame ==
    /\ Working("store")
    /\ LET f == recv[1]
       IN  /\ cmd' = CASE f.kind = "ack" -> [cmd EXCEPT ![f.ded].run = "acked"]
                       [] f.kind = "run" -> [cmd EXCEPT ![f.ded].run = f.out]
                       [] f.kind = "cancel" -> [cmd EXCEPT ![f.ded].cancel = "done"]
           /\ IF f.kind = "cancel" THEN recv' = <<>> ELSE Go(f, "project")
    /\ UNCHANGED <<row, other, said, versions, asks, marking, toNode, replies, node, breaks>>

mark_deduction_running ==
    /\ Working("project") /\ recv[1].kind = "ack"
    /\ row' = [row EXCEPT ![recv[1].ded] = IF @ = "requested" THEN "running" ELSE @]
    /\ recv' = <<>>
    /\ UNCHANGED <<other, said, versions, asks, cmd, marking, toNode, replies, node, breaks>>

(* project_deduction_command_result reads the row and returns if it ended; *)
ReadRow ==
    /\ Working("project") /\ recv[1].kind = "run"
    /\ IF row[recv[1].ded] \in Ended THEN recv' = <<>> ELSE Go(recv[1], "write")
    /\ UNCHANGED <<row, other, said, versions, asks, cmd, marking, toNode, replies, node, breaks>>

(* A completed command is judged by validate_deduction_output.             *)
Verdicts(out) == IF out = "completed" THEN {"completed", "invalid"} ELSE {"failed"}

(* The updates of a row name the states they may change.                   *)
IfActive(state, v) == IF state \in Active THEN v ELSE state

Announce(f, v) == [ded |-> f.ded, kind |-> "announce", out |-> v, at |-> "announce"]

(* Wrong variant: the verdict is written over whatever the row says.       *)
WriteVerdictOver ==
    /\ Working("write")
    /\ \E v \in Verdicts(recv[1].out) :
          /\ row' = [row EXCEPT ![recv[1].ded] = v]
          /\ recv' = <<Announce(recv[1], v)>>
    /\ UNCHANGED <<other, said, versions, asks, cmd, marking, toNode, replies, node, breaks>>

(* else writes the verdict or failure to a row that is still active ...   *)
WriteVerdict ==
    /\ Working("write")
    /\ \E v \in Verdicts(recv[1].out) :
          /\ row' = [row EXCEPT ![recv[1].ded] = IfActive(@, v)]
          /\ recv' = <<Announce(recv[1], v)>>
    /\ UNCHANGED <<other, said, versions, asks, cmd, marking, toNode, replies, node, breaks>>

(* ... and announces it in any case.                                       *)
AnnounceVerdict ==
    /\ Working("announce")
    /\ said' = [said EXCEPT ![recv[1].ded] = @ \cup {recv[1].out}]
    /\ recv' = <<>>
    /\ UNCHANGED <<row, other, versions, asks, cmd, marking, toNode, replies, node, breaks>>

-----------------------------------------------------------------------------
(* The Node: a request and its cancellation take one execution lock.       *)

Room == Len(replies) < MaxReplies
Reply(fs) == replies' = replies \o fs

(* A saved outcome is sent again; a remembered signal or a tombstone fails *)
(* the request before the provider is started.                             *)
ReceiveRequest(d) ==
    /\ d \in toNode /\ ~node[d].running /\ Room
    /\ toNode' = toNode \ {d}
    /\ IF node[d].out # "none"
         THEN /\ node' = [node EXCEPT ![d].signal = IF @ = "pending" THEN "sent" ELSE @]
              /\ Reply(<<Frame(d, "ack", "none"), Frame(d, "run", node[d].out)>>)
       ELSE IF node[d].tomb \/ node[d].signal = "pending"
         THEN /\ node' = [node EXCEPT ![d].out = "failed", ![d].tomb = FALSE,
                             ![d].signal = IF @ = "pending" THEN "sent" ELSE @]
              /\ Reply(<<Frame(d, "ack", "none"), Frame(d, "run", "failed")>>)
       ELSE /\ node' = [node EXCEPT ![d].running = TRUE]
            /\ Reply(<<Frame(d, "ack", "none")>>)
    /\ UNCHANGED <<coreVars, breaks>>

(* node.dispatch_busy: nothing is run and nothing is saved.                *)
RefuseRequest(d) ==
    /\ d \in toNode /\ Room
    /\ toNode' = toNode \ {d}
    /\ Reply(<<Frame(d, "ack", "none"), Frame(d, "run", "busy")>>)
    /\ UNCHANGED <<coreVars, node, breaks>>

(* execute_deduction; a signal only makes it fail sooner.                  *)
EndRequest(d) ==
    /\ node[d].running /\ Room
    /\ \E o \in {"completed", "failed"} :
          /\ node' = [node EXCEPT ![d].running = FALSE, ![d].out = o]
          /\ Reply(<<Frame(d, "run", o)>>)
    /\ UNCHANGED <<coreVars, toNode, breaks>>

(* ExecutionCancellationRegistry::cancel: remembered when nothing runs.    *)
SignalCancel(d) ==
    /\ cmd[d].cancel = "open" /\ node[d].signal = "none"
    /\ node' = [node EXCEPT ![d].signal = IF node[d].running THEN "sent" ELSE "pending"]
    /\ UNCHANGED <<coreVars, toNode, replies, breaks>>

(* CancelDeduction leaves a tombstone the first time.                      *)
AnswerCancel(d) ==
    /\ cmd[d].cancel = "open" /\ node[d].signal # "none" /\ ~node[d].running /\ Room
    /\ node' = [node EXCEPT ![d].cancelled = TRUE, ![d].tomb = @ \/ ~node[d].cancelled]
    /\ Reply(<<Frame(d, "cancel", "none")>>)
    /\ UNCHANGED <<coreVars, toNode, breaks>>

-----------------------------------------------------------------------------
(* The registry and the executions go with the connection.                 *)
Cut ==
    /\ breaks < MaxBreaks /\ breaks' = breaks + 1
    /\ toNode' = {} /\ replies' = <<>>
    /\ node' = [d \in Deductions |-> [node[d] EXCEPT !.running = FALSE, !.signal = "none"]]

Reconnect == Cut /\ UNCHANGED coreVars

(* Requests, dispatches and the frame being worked on are lost.            *)
CoreRestart ==
    /\ Cut
    /\ asks' = [d \in Deductions |->
                  [create |-> IF asks[d].create = "counted" THEN "idle" ELSE asks[d].create,
                   cancel |-> CASE asks[d].cancel = "read" -> "idle"
                                [] asks[d].cancel = "announce" -> "over"
                                [] OTHER -> asks[d].cancel]]
    /\ marking' = {} /\ recv' = <<>>
    /\ UNCHANGED <<row, other, said, versions, cmd>>

-----------------------------------------------------------------------------
DedNext ==
    \/ \E d \in Deductions :
          \/ CountActive(d) \/ create_deduction(d)
          \/ ReadActive(d) \/ cancel_deduction(d) \/ AnnounceCancel(d)
          \/ persist_deduction(d)
          \/ SendRequest(d) \/ MarkDispatched(d)
          \/ ReceiveRequest(d) \/ RefuseRequest(d) \/ EndRequest(d)
          \/ SignalCancel(d) \/ AnswerCancel(d)
    \/ OtherDeduction
    \/ ReceiveFrame \/ StoreFrame \/ mark_deduction_running
    \/ ReadRow \/ WriteVerdict \/ AnnounceVerdict
    \/ Reconnect \/ CoreRestart

DedSpec == DedInit /\ [][DedNext]_dedVars

-----------------------------------------------------------------------------
(* A deduction that ended stays as it ended, and an end is announced only  *)
(* when the row has ended: a verdict that was computed while the user      *)
(* cancelled, an acknowledgement that comes late and a result delivered    *)
(* again leave the row alone (project_deduction_command_result,            *)
(* update_deduction_failure, mark_deduction_running, cancel_deduction).    *)
EndedDeductionsStay ==
    \A d \in Deductions : /\ row[d] \in Ended => row'[d] = row[d]
                          /\ said'[d] # {} => row'[d] \in Ended
=============================================================================
