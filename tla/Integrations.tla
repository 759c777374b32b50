---------------------------- MODULE Integrations -----------------------------
(***************************************************************************)
(* The integration that external tools go through: Core keeps a row of     *)
(* connections and one of dependency instances, the Node keeps the desired *)
(* state it works towards.  The two sides tell each other about it with    *)
(* snapshots, results and heartbeats that cross each other.                *)
(*                                                                         *)
(* Commands are delivered as CommandDelivery shows, without an order       *)
(* between two that were recorded.  A command or its result may be lost:   *)
(* nothing forces one to be run.                                           *)
(***************************************************************************)
EXTENDS Naturals, Sequences

CONSTANTS
    MaxConnects,    \* bound: connects and disconnects of the integration
    MaxHellos,      \* bound: reconnects of the control channel
    MaxReports      \* bound: dependency results in flight

VARIABLES
    conn, dep,  \* Core, durable: the connection and the dependency instance
    owed,       \* Core: a snapshot of the desired state is to be dispatched
    asking,     \* Core: a connect request waits for its authorization URL
    jobs,       \* open dependency commands
    reports,    \* their results on the way to Core
    beat,       \* the dependency status of a heartbeat under way
    local,      \* Node, durable: tool_dependencies
    count       \* history: connects, hellos

vars == <<conn, dep, owed, asking, jobs, reports, beat, local, count>>

Desired == {"none", "enabled", "disabled"}
(* "unavailable" stands for toolhive_missing, installing and degraded.     *)
Actual == {"none", "starting", "running", "missing_auth", "failed", "stopped", "unavailable"}
Auth == {"disconnected", "connecting", "connected", "error"}
Status == [desired : Desired, actual : Actual]
NoStatus == [desired |-> "none", actual |-> "none"]
(* The Node's entry: enabled with or without a credential.                 *)
Local == {"none", "enabled", "unauthenticated", "disabled"}
DesiredOf(l) == IF l = "unauthenticated" THEN "enabled" ELSE l
Jobs == {"authorize", "enable", "unauthenticate", "disable"}

Init ==
    /\ conn = [desired |-> "none", auth |-> "disconnected"]
    /\ dep = NoStatus
    /\ owed = FALSE /\ asking = FALSE
    /\ jobs = {} /\ reports = <<>> /\ beat = NoStatus
    /\ local = "none"
    /\ count = [connects |-> 0, hellos |-> 0]

Tick(n, bound) == count[n] < bound /\ count' = [count EXCEPT ![n] = @ + 1]

-----------------------------------------------------------------------------
(* connect_integration_route: rows in a transaction, then the command.     *)
Connect ==
    /\ ~asking /\ Tick("connects", MaxConnects)
    /\ conn' = [desired |-> "enabled", auth |-> "connecting"]
    /\ dep' = [desired |-> "enabled", actual |-> "starting"]
    /\ jobs' = jobs \cup {"authorize"}
    /\ asking' = TRUE
    /\ UNCHANGED <<owed, reports, beat, local>>

(* mark_integration_authorization_error; or the URL arrives.               *)
ConnectEnds ==
    /\ asking /\ asking' = FALSE
    /\ conn' \in {conn, [conn EXCEPT !.auth = "error"]}
    /\ UNCHANGED <<dep, owed, jobs, reports, beat, local, count>>

(* disconnect_integration_route: the snapshot follows the transaction.     *)
Disconnect ==
    /\ conn.desired # "none" /\ Tick("connects", MaxConnects)
    /\ conn' = [desired |-> "disabled", auth |-> "disconnected"]
    /\ dep' = [dep EXCEPT !.desired = "disabled"]
    /\ owed' = TRUE
    /\ UNCHANGED <<asking, jobs, reports, beat, local>>

(* dispatch_dependency_desired_snapshots reads the rows as they are now.   *)
Snapshot ==
    IF dep.desired = "disabled" THEN "disable"
    ELSE IF conn.auth = "connected" THEN "enable" ELSE "unauthenticate"

SendSnapshot ==
    /\ owed /\ owed' = FALSE
    /\ jobs' = IF dep = NoStatus THEN jobs ELSE jobs \cup {Snapshot}
    /\ UNCHANGED <<conn, dep, asking, reports, beat, local, count>>

(* reconcile_dependency.                                                   *)
Reconciled(j) ==
    CASE j = "authorize"      -> {[desired |-> "enabled", actual |-> "starting"], NoStatus}
      [] j = "enable"         -> [desired : {"enabled"}, actual : {"running", "failed", "unavailable"}]
      [] j = "unauthenticate" -> [desired : {"enabled"}, actual : {"missing_auth", "unavailable"}]
      [] j = "disable"        -> [desired : {"disabled"}, actual : {"stopped", "unavailable"}]

Entry(j) ==
    CASE j \in {"authorize", "enable"} -> "enabled"
      [] j = "unauthenticate"          -> "unauthenticated"
      [] j = "disable"                 -> "disabled"

RunJob(j) ==
    /\ Len(reports) < MaxReports
    /\ jobs' = jobs \ {j}
    /\ local' = Entry(j)
    /\ \E s \in Reconciled(j) : reports' \in {reports} \cup (IF s = NoStatus THEN {} ELSE {Append(reports, s)})
    /\ UNCHANGED <<conn, dep, owed, asking, beat, count>>

(* Wrong variant: the status keeps what Core last wished for.              *)
PersistActual(s) ==
    /\ dep' = [dep EXCEPT !.actual = s.actual]
    /\ UNCHANGED conn

(* persist_dependency_status and update_connection_from_dependency_status: *)
(* what the Node says replaces the row, its desired state too.             *)
persist_dependency_status(s) ==
    /\ dep' = s
    /\ conn' = [conn EXCEPT !.auth =
                   CASE s.actual = "running"      -> "connected"
                     [] s.actual = "missing_auth" -> "disconnected"
                     [] s.actual = "failed"       -> "error"
                     [] OTHER                     -> @]

ReceiveReport ==
    /\ reports # <<>>
    /\ persist_dependency_status(Head(reports))
    /\ reports' = Tail(reports)
    /\ UNCHANGED <<owed, asking, jobs, beat, local, count>>

(* observe_dependency_status, when the heartbeat is put together.          *)
Observed ==
    [desired : {DesiredOf(local)},
     actual : {"unavailable"} \cup
              (CASE local = "disabled"        -> {"stopped"}
                 [] local = "unauthenticated" -> {"missing_auth"}
                 [] OTHER                     -> {"running", "starting", "missing_auth"})]

Observe ==
    /\ beat = NoStatus /\ local # "none"
    /\ beat' \in Observed
    /\ UNCHANGED <<conn, dep, owed, asking, jobs, reports, local, count>>

(* node_heartbeat: a dependency that came up has its tools read again.     *)
ReceiveBeat ==
    /\ beat # NoStatus /\ beat' = NoStatus
    /\ owed' = (owed \/ (beat.actual = "running" /\ dep.actual # "running"))
    /\ persist_dependency_status(beat)
    /\ UNCHANGED <<asking, jobs, reports, local, count>>

(* Hello dispatches a snapshot; open commands are delivered again, from    *)
(* the saved outcome when they were run.  A request of a stopped Core is   *)
(* over.                                                                   *)
Reconnect ==
    /\ Tick("hellos", MaxHellos)
    /\ owed' = TRUE
    /\ asking' \in {asking, FALSE}
    /\ UNCHANGED <<conn, dep, jobs, reports, beat, local>>

-----------------------------------------------------------------------------
Next ==
    \/ Connect \/ ConnectEnds \/ Disconnect \/ Reconnect
    \/ SendSnapshot \/ ReceiveReport \/ Observe \/ ReceiveBeat
    \/ \E j \in jobs : RunJob(j)

Spec == Init /\ [][Next]_vars

(* What was sent arrives, and heartbeats go on as long as the Node runs.   *)
Fairness ==
    /\ WF_vars(SendSnapshot) /\ WF_vars(ReceiveReport)
    /\ WF_vars(Observe) /\ WF_vars(ReceiveBeat)
FairSpec == Spec /\ Fairness

-----------------------------------------------------------------------------
(* However connects, disconnects, snapshots, results and heartbeats cross, *)
(* and whichever of the commands and results are lost: once the Node has   *)
(* an entry and the dependency is seen to stay up or to stay down, Core    *)
(* and the Node come to the same desired state and keep it; neither a      *)
(* stale heartbeat nor a late snapshot leaves them apart                   *)
(* (persist_dependency_status, dispatch_dependency_desired_snapshots).     *)
Up == dep.actual = "running"
SidesAgree ==
    <>(local # "none") /\ (<>[]Up \/ <>[]~Up) => <>[](dep.desired = DesiredOf(local))
=============================================================================
