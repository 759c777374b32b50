----------------------------- MODULE ToolCalls ------------------------------
(***************************************************************************)
(* Calls of external tools, and the leases of the session that makes them. *)
(*                                                                         *)
(* A call is a row of tool_calls.  The request that makes it waits in      *)
(* memory for the result of its command; when that waiter is gone (Core    *)
(* was restarted, the wait timed out) the read loop of the control socket  *)
(* finishes the row instead.  The same wait serves the workspace requests. *)
(*                                                                         *)
(* Core dispatches a command that has no result when it is recorded, with  *)
(* any other command of the Node and when the Node connects, and the Node  *)
(* tries its answer once: on a connection that holds both may be lost for  *)
(* good.  A saved outcome is the answer of a later delivery.  As in        *)
(* TaskRuns two copies of a frame that was not taken count as one.  The    *)
(* dependency comes and goes on either side (see Integrations): whoever    *)
(* asks may find it usable or not.                                         *)
(***************************************************************************)
EXTENDS Naturals, Sequences, FiniteSets

CONSTANTS
    Calls,          \* tool calls
    MaxLeases,      \* bound: leases issued to the session
    MaxHellos,      \* bound: reconnects of the control channel
    MaxStops,       \* bound: restarts of Core
    MaxReadErrors,  \* bound: read loops of the Node that end with an error
    MaxOthers       \* bound: other commands issued for the Node

VARIABLES
    call,       \* Core, durable: tool_calls
    step,       \* Core: where the request of the call is, and its verdict
    told,       \* what the caller was answered
    waiters,    \* Core: command_waiters
    cmd,        \* Core, durable: the execute and cancel commands of the call
    recv,       \* Core: the result the read loop is working on
    wire,       \* results on their way to Core
    inbox,      \* dispatched commands the Node has not taken
    node,       \* Node: the execution of the call, and its saved outcome
    stray,      \* Node: executions a read error left behind
    dropped,    \* history: calls whose end nobody is left to record
    unanswered, \* history: calls whose command or its answer was lost, and
                \* which was not dispatched since
    detached,   \* history: calls with an execution that was left behind
    lease,      \* Core, durable: the newest lease of the session
    count       \* history: hellos, stops, read errors, other commands

coreVars == <<call, step, told, waiters, cmd, recv, dropped>>
nodeVars == <<node, stray, detached>>
linkVars == <<wire, inbox, nodeVars, unanswered>>
callVars == <<coreVars, linkVars>>
vars == <<callVars, lease, count>>

Terminal == {"completed", "failed", "cancelled", "timed_out", "denied"}
Outcomes == {"completed", "failed", "timed_out", "cancelled", "busy"}

Init ==
    /\ call = [c \in Calls |-> "none"]
    /\ step = [c \in Calls |-> [at |-> "idle", verdict |-> "none"]]
    /\ told = [c \in Calls |-> "none"]
    /\ waiters = {}
    /\ cmd = [c \in Calls |-> [run |-> "none", cancel |-> "none"]]
    /\ recv = <<>> /\ wire = <<>> /\ inbox = {}
    /\ node = [c \in Calls |-> [running |-> FALSE, cut |-> FALSE, out |-> "none"]]
    /\ stray = {} /\ dropped = {} /\ unanswered = {} /\ detached = {}
    /\ lease = [newest |-> 0, live |-> FALSE, session |-> "running"]
    /\ count = [hellos |-> 0, stops |-> 0, reads |-> 0, others |-> 0]

Tick(n, bound) == count[n] < bound /\ count' = [count EXCEPT ![n] = @ + 1]
At(c, s) == step' = [step EXCEPT ![c].at = s]
Verdict(c, v) == step' = [step EXCEPT ![c] = [at |-> "finish", verdict |-> v]]

-----------------------------------------------------------------------------
(* Leases.                                                                 *)

(* issue_mcp_access_lease: the session's earlier leases are revoked.       *)
IssueLease ==
    /\ lease.session = "running" /\ lease.newest < MaxLeases
    /\ lease' = [lease EXCEPT !.newest = @ + 1, !.live = TRUE]
    /\ UNCHANGED <<callVars, count>>

(* revoke_session_mcp_leases, when a stop is requested.                    *)
RequestStop ==
    /\ lease.session = "running" /\ lease.live
    /\ lease' = [lease EXCEPT !.live = FALSE]
    /\ UNCHANGED <<callVars, count>>

SessionStops ==
    /\ lease.session = "running"
    /\ lease' = [lease EXCEPT !.session = "stopped"]
    /\ UNCHANGED <<callVars, count>>

(* validate_mcp_access_lease, for the holder of lease number n.            *)
ValidLease(n) == n = lease.newest /\ lease.live /\ lease.session = "running"

-----------------------------------------------------------------------------
(* execute_tool, up to where it waits.                                     *)

(* policy_decision: a denied call and one that needs an approval end here. *)
BeginCall(c) ==
    /\ call[c] = "none"
    /\ \E n \in 1 .. MaxLeases : ValidLease(n)
    /\ \/ /\ call' = [call EXCEPT ![c] = "requested"]
          /\ At(c, "authorized") /\ UNCHANGED told
       \/ \E s \in {"denied", "approval_required"} :
             /\ call' = [call EXCEPT ![c] = s]
             /\ told' = [told EXCEPT ![c] = s]
             /\ At(c, "over")
    /\ UNCHANGED <<waiters, cmd, recv, dropped, linkVars, lease, count>>

(* effective_tool_availability; the arguments may be invalid as well.      *)
StartCall(c) ==
    /\ step[c].at = "authorized"
    /\ \/ /\ lease.session = "running"
          /\ call' = [call EXCEPT ![c] = "started"]
          /\ At(c, "route")
       \/ /\ Verdict(c, "failed") /\ UNCHANGED call
    /\ UNCHANGED <<told, waiters, cmd, recv, dropped, linkVars, lease, count>>

(* execute_tool_route: the tools of Core itself answer at once.            *)
RouteNative(c) ==
    /\ step[c].at = "route"
    /\ \E v \in {"completed", "failed"} : Verdict(c, v)
    /\ UNCHANGED <<call, told, waiters, cmd, recv, dropped, linkVars, lease, count>>

(* load_external_tool_route, and the waiter before the command.            *)
RouteCall(c) ==
    /\ step[c].at = "route"
    /\ \/ waiters' = waiters \cup {c} /\ At(c, "record")
       \/ Verdict(c, "failed") /\ UNCHANGED waiters
    /\ UNCHANGED <<call, told, cmd, recv, dropped, linkVars, lease, count>>

(* dispatch_pending_commands: each command that has no result is tried     *)
(* once; the Node takes it, or a full queue loses it.  The calls in anew   *)
(* were not under way from before.                                         *)
Command(k, c) == [kind |-> k, call |-> c]
Unresolved(cmds) == {Command("run", c) : c \in {d \in Calls : cmds[d].run = "open"}}
                      \cup {Command("cancel", c) : c \in {d \in Calls : cmds[d].cancel = "open"}}

Undelivered(cmds, sent, anew) ==
    LET reached == {c \in Calls : Command("run", c) \in sent}
    IN  (unanswered \ reached) \cup {c \in anew \ reached : cmds[c].run = "open"}

dispatch_pending_commands(cmds, taken, anew) ==
    \E sent \in SUBSET Unresolved(cmds) :
        /\ cmd' = cmds
        /\ inbox' = taken \cup sent
        /\ unanswered' = Undelivered(cmds, sent, anew)

(* record_and_dispatch_command.                                            *)
RecordCall(c) ==
    /\ step[c].at = "record"
    /\ dispatch_pending_commands([cmd EXCEPT ![c].run = "open"], inbox, {c})
    /\ At(c, "wait")
    /\ UNCHANGED <<call, told, waiters, recv, dropped, wire, nodeVars, lease, count>>

(* Another command of the Node is recorded and dispatched.                 *)
Redispatch ==
    /\ Unresolved(cmd) # {}
    /\ Tick("others", MaxOthers)
    /\ dispatch_pending_commands(cmd, inbox, {})
    /\ UNCHANGED <<call, step, told, waiters, recv, dropped, wire, nodeVars, lease>>

-----------------------------------------------------------------------------
(* wait_for_command_result and what follows.                               *)

Answer(out) == IF out = "completed" THEN "completed" ELSE "failed"

TimeOut(c) ==
    /\ step[c].at = "wait"
    /\ At(c, "recheck")
    /\ UNCHANGED <<call, told, waiters, cmd, recv, dropped, linkVars, lease, count>>

(* Wrong variant: the call is cancelled before its result is looked up.    *)
CancelThenLook(c) ==
    /\ step[c].at = "recheck"
    /\ waiters' = waiters \ {c}
    /\ dispatch_pending_commands([cmd EXCEPT ![c].cancel = "open"], inbox, {})
    /\ Verdict(c, IF cmd[c].run \in Outcomes THEN Answer(cmd[c].run) ELSE "failed")
    /\ UNCHANGED <<call, told, recv, dropped, wire, nodeVars, lease, count>>

(* load_durable_command_result: the result may have been stored although   *)
(* the notice was missed.                                                  *)
LookUp(c) ==
    /\ step[c].at = "recheck"
    /\ IF cmd[c].run \in Outcomes
         THEN Verdict(c, Answer(cmd[c].run)) /\ waiters' = waiters \ {c}
         ELSE At(c, "cancel") /\ UNCHANGED waiters
    /\ UNCHANGED <<call, told, cmd, recv, dropped, linkVars, lease, count>>

(* dispatch_tool_call_cancel; the guard then drops the waiter.             *)
DispatchCancel(c) ==
    /\ step[c].at = "cancel"
    /\ dispatch_pending_commands([cmd EXCEPT ![c].cancel = "open"], inbox, {})
    /\ waiters' = waiters \ {c}
    /\ Verdict(c, "failed")
    /\ UNCHANGED <<call, told, recv, dropped, wire, nodeVars, lease, count>>

(* finish_tool_call writes the state whatever the row says.                *)
FinishCall(c) ==
    /\ step[c].at = "finish"
    /\ call' = [call EXCEPT ![c] = step[c].verdict]
    /\ told' = [told EXCEPT ![c] = step[c].verdict]
    /\ At(c, "over")
    /\ UNCHANGED <<waiters, cmd, recv, dropped, linkVars, lease, count>>

-----------------------------------------------------------------------------
(* The read loop of Core: store, project unless somebody waits, notify.    *)

Frame(c, k, o) == [call |-> c, kind |-> k, out |-> o, seen |-> FALSE]

(* update_command_result.  A second result that differs is refused         *)
(* (validate_command_result), unless a late mark has hidden the first one  *)
(* (which CommandDelivery models): here it counts or does not.             *)
StoreResult ==
    /\ recv = <<>> /\ wire # <<>>
    /\ wire' = Tail(wire)
    /\ LET f == Head(wire)
       IN  \/ /\ recv' = <<f>>
              /\ cmd' = IF f.kind = "run" THEN [cmd EXCEPT ![f.call].run = f.out]
                        ELSE [cmd EXCEPT ![f.call].cancel = "done"]
           \/ /\ f.kind = "run" /\ cmd[f.call].run \notin {"open", f.out}
              /\ UNCHANGED <<recv, cmd>>
    /\ UNCHANGED <<call, step, told, waiters, dropped, inbox, nodeVars, unanswered, lease, count>>

(* Wrong variant: only the request that made the call finishes it.         *)
ProjectNever(f) == UNCHANGED <<call, dropped>>

(* project_tooling_command_result: a command that failed is not projected. *)
ProjectCall(f) ==
    IF f.kind = "run" /\ f.call \in waiters THEN UNCHANGED <<call, dropped>>
    ELSE IF f.out = "busy" THEN dropped' = dropped \cup {f.call} /\ UNCHANGED call
    ELSE call' = [call EXCEPT ![f.call] = f.out] /\ UNCHANGED dropped

ProjectResult ==
    /\ recv # <<>> /\ ~recv[1].seen
    /\ ProjectCall(recv[1])
    /\ recv' = <<[recv[1] EXCEPT !.seen = TRUE]>>
    /\ UNCHANGED <<step, told, waiters, cmd, linkVars, lease, count>>

(* The notice is lost on a request that stopped waiting.                   *)
NotifyWaiter ==
    /\ recv # <<>> /\ recv[1].seen
    /\ LET c == recv[1].call
       IN  IF recv[1].kind = "run" /\ c \in waiters
             THEN /\ waiters' = waiters \ {c}
                  /\ IF step[c].at = "wait" THEN Verdict(c, Answer(recv[1].out))
                     ELSE UNCHANGED step
             ELSE UNCHANGED <<waiters, step>>
    /\ recv' = <<>>
    /\ UNCHANGED <<call, told, cmd, dropped, linkVars, lease, count>>

-----------------------------------------------------------------------------
(* The Node: the execution holds the lock of its dependency, the           *)
(* cancellation has a lock of its own.                                     *)

Take(k, c) == Command(k, c) \in inbox /\ inbox' = inbox \ {Command(k, c)}

(* send_command_result is one try_send.  A lost answer also stands for one *)
(* that Core refuses because the command is not marked yet.                *)
Send(c, k, o) ==
    \/ /\ wire' = Append(wire, Frame(c, k, o))
       /\ unanswered' = IF k = "run" THEN unanswered \ {c} ELSE unanswered
    \/ /\ UNCHANGED wire
       /\ unanswered' = IF k = "run" THEN unanswered \cup {c} ELSE unanswered

(* ExecuteExternalTool; an outcome that was saved is sent again.           *)
ReceiveExecute(c) ==
    /\ ~node[c].running /\ Take("run", c)
    /\ \/ /\ node[c].out # "none"
          /\ Send(c, "run", node[c].out) /\ UNCHANGED node
       \/ /\ node[c].out = "none"
          /\ node' = [node EXCEPT ![c] = [running |-> TRUE, cut |-> FALSE, out |-> "none"]]
          /\ UNCHANGED <<wire, unanswered>>
       \/ /\ node[c].out = "none"
          /\ node' = [node EXCEPT ![c].out = "failed"] /\ Send(c, "run", "failed")
    /\ UNCHANGED <<coreVars, stray, detached, lease, count>>

(* call_external_tool, with its deadline and its cancellation.             *)
EndExecute(c) ==
    /\ node[c].running
    /\ \E o \in {"completed", "failed", "timed_out", "cancelled"} :
          /\ o = "cancelled" => node[c].cut
          /\ node' = [node EXCEPT ![c] = [running |-> FALSE, cut |-> FALSE, out |-> o]]
          /\ Send(c, "run", o)
    /\ UNCHANGED <<coreVars, inbox, stray, detached, lease, count>>

(* send_dispatch_busy_result, with a full dispatch queue: nothing is run   *)
(* and nothing is saved.  Without room for its acknowledgement a command   *)
(* is given up as well, and not answered.                                  *)
RefuseExecute(c) ==
    /\ Take("run", c)
    /\ Send(c, "run", "busy")
    /\ UNCHANGED <<coreVars, nodeVars, lease, count>>

(* CancelToolCall: call_external_tool waits for a change of the signal, so *)
(* one that was remembered for it before it began is not noticed.          *)
ReceiveCancel(c) ==
    /\ Take("cancel", c)
    /\ node' = [node EXCEPT ![c].cut = node[c].running]
    /\ Send(c, "cancel", "cancelled")
    /\ UNCHANGED <<coreVars, stray, detached, lease, count>>

(* What was left behind ends and replaces the saved outcome; its answer is *)
(* not for the connection that is in use, and Core refuses it.             *)
EndStray(c) ==
    /\ c \in stray /\ stray' = stray \ {c}
    /\ \E o \in {"completed", "failed", "timed_out"} : node' = [node EXCEPT ![c].out = o]
    /\ UNCHANGED <<coreVars, wire, inbox, unanswered, detached, lease, count>>

-----------------------------------------------------------------------------
(* The connection ends, and its frames are lost.  Executions are aborted,  *)
(* or, when the read loop ends with an error, left behind with what waited *)
(* for them.                                                               *)
ConnectionEnds(counted) ==
    /\ wire' = <<>>
    /\ node' = [c \in Calls |-> [node[c] EXCEPT !.running = FALSE, !.cut = FALSE]]
    /\ \/ UNCHANGED <<stray, detached>> /\ count' = counted
       \/ /\ count.reads < MaxReadErrors
          /\ count' = [counted EXCEPT !.reads = @ + 1]
          /\ \E left \in SUBSET {c \in Calls : node[c].running \/ Command("run", c) \in inbox} :
                stray' = stray \cup left /\ detached' = detached \cup left

(* A new control connection: Hello dispatches what has no result.          *)
Reconnect ==
    /\ count.hellos < MaxHellos
    /\ ConnectionEnds([count EXCEPT !.hellos = @ + 1])
    /\ dispatch_pending_commands(cmd, {}, Calls)
    /\ UNCHANGED <<call, step, told, waiters, recv, dropped, lease>>

(* Calls that had started and that no command will bring to an end.        *)
Orphans == {c \in Calls : call[c] = "started" /\
               (cmd[c].run = "none" \/ (recv # <<>> /\ ~recv[1].seen /\ recv[1].call = c)
                \/ (step[c].at \in {"wait", "recheck", "cancel", "finish"} /\ cmd[c].run \in Outcomes))}

(* Core restarts: requests and waiters are gone, leases are revoked, and   *)
(* the Node connects.                                                      *)
CoreRestart ==
    /\ count.stops < MaxStops
    /\ ConnectionEnds([count EXCEPT !.stops = @ + 1])
    /\ step' = [c \in Calls |-> IF step[c].at = "idle" THEN step[c]
                                 ELSE [at |-> "over", verdict |-> "none"]]
    /\ waiters' = {} /\ recv' = <<>>
    /\ dropped' = dropped \cup Orphans
    /\ lease' = [lease EXCEPT !.live = FALSE]
    /\ dispatch_pending_commands(cmd, {}, Calls)
    /\ UNCHANGED <<call, told>>

-----------------------------------------------------------------------------
RequestStep(c) ==
    \/ StartCall(c) \/ RouteNative(c) \/ RouteCall(c) \/ RecordCall(c)
    \/ LookUp(c) \/ DispatchCancel(c) \/ FinishCall(c)
CoreStep == StoreResult \/ ProjectResult \/ NotifyWaiter
NodeStep(c) == ReceiveExecute(c) \/ RefuseExecute(c) \/ EndExecute(c)

Next ==
    \/ IssueLease \/ RequestStop \/ SessionStops
    \/ \E c \in Calls : \/ BeginCall(c) \/ RequestStep(c) \/ TimeOut(c)
                        \/ NodeStep(c) \/ ReceiveCancel(c) \/ EndStray(c)
    \/ CoreStep \/ Redispatch
    \/ Reconnect \/ CoreRestart

Spec == Init /\ [][Next]_vars

(* Requests and read loops run, a wait has a timeout, the Node takes what  *)
(* reached it and a tool call has a deadline.  Nothing is delivered twice  *)
(* because it was lost, and nobody has to reconnect or to issue a command. *)
Fairness ==
    /\ \A c \in Calls : /\ WF_vars(RequestStep(c)) /\ WF_vars(TimeOut(c))
                        /\ WF_vars(ReceiveExecute(c) \/ RefuseExecute(c))
                        /\ WF_vars(EndExecute(c))
    /\ WF_vars(CoreStep)
FairSpec == Spec /\ Fairness

-----------------------------------------------------------------------------
(* A caller that was told its call completed finds the row completed ever  *)
(* after: no late result, duplicate or cancellation of the same call turns *)
(* it into something else (execute_external_tool and                       *)
(* project_terminal_tooling_event write the same row).  Calls that a read  *)
(* error left running are excepted: they may have two outcomes.            *)
AnswerStays ==
    \A c \in Calls \ detached : told[c] = "completed" => call[c] = "completed"

(* A call that was started ends: the request finishes it, or, when its     *)
(* process is gone, the read loop does from the command's result.  Three   *)
(* kinds of calls are lost: Core stops before the command is recorded or   *)
(* after its result is stored; the Node refused the command; nobody waits  *)
(* any more and the command or its only answer is lost for good.           *)
LostForGood(c) ==
    []<>(c \in unanswered /\ cmd[c].run = "open" /\ step[c].at = "over")
EveryCallEnds ==
    \A c \in Calls :
        LostForGood(c) \/ (call[c] = "started" ~> (call[c] \in Terminal \/ c \in dropped))

=============================================================================
