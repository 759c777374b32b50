---------------------------- MODULE NodeAdmission ----------------------------
(***************************************************************************)
(* How a Node gets an identity and keeps it: enrollment, claim, heartbeat, *)
(* and what an administrator does to node rows and placements meanwhile.   *)
(*                                                                         *)
(* The Node runs one loop that sends one request at a time.  A request the *)
(* Node stopped waiting for (connection lost, Node restarted) goes on in   *)
(* Core.  Core's handlers have steps of their own: what one reads may have *)
(* changed when it writes.  A Node reports one workspace.                  *)
(***************************************************************************)
EXTENDS Naturals, Sequences, FiniteSets

CONSTANTS
    MaxPending,     \* max_pending_enrollments
    MaxFaults,      \* bound: answers the Node does not get, late approvals
    MaxAdmin,       \* bound: revocations, rotations, deletions, registrations
    MaxRequests     \* bound: requests of the Node at Core

VARIABLES
    policy,     \* Core: auto_approve_enrollments, auto_approve_node_name
    enroll,     \* Core, durable: node_enrollments
    nodes,      \* Core, durable: nodes, in the order they were inserted
    placed,     \* Core, durable: nodes with a placement for the workspace
    unbound,    \* Core, durable: deleted_workspace_bindings
    requests,   \* the Node's requests at Core
    local,      \* Node, durable: the enrollment attempt and the identity
    loop,       \* Node: off, idle, or waiting for the answer of a request
    count       \* history: faults, admin

vars == <<policy, enroll, nodes, placed, unbound, requests, local, loop, count>>

(* A fault or an administrator may cost the Node one enrollment each.      *)
Enrollments == 1 .. MaxFaults + MaxAdmin + 1

Init ==
    /\ policy \in {"ask", "name", "all"}
    /\ enroll = [e \in Enrollments |-> [status |-> "none", late |-> FALSE, node |-> 0]]
    /\ nodes = <<>> /\ placed = {} /\ unbound = {}
    /\ requests = <<>>
    /\ local = [attempt |-> 0, id |-> 0]
    /\ loop = "off"
    /\ count = [faults |-> 0, admin |-> 0]

Tick(n, bound) == count[n] < bound /\ count' = [count EXCEPT ![n] = @ + 1]
Unclaimed == {"pending_user_approval", "approved"}

-----------------------------------------------------------------------------
(* Enrollments.                                                            *)

(* create_enrollment under its lock: sweep, limit, insert.                 *)
Swept == [e \in Enrollments |->
             IF enroll[e].status \in Unclaimed /\ enroll[e].late
               THEN [enroll[e] EXCEPT !.status = "expired"] ELSE enroll[e]]
Waiting == {e \in Enrollments : Swept[e].status \in Unclaimed}
Exists(r) == nodes[r].presence # "deleted"
NameTaken == Waiting # {} \/ \E r \in DOMAIN nodes : Exists(r) /\ nodes[r].presence # "revoked"
Fresh == CHOOSE e \in Enrollments : enroll[e].status = "none"

create_enrollment ==
    [Swept EXCEPT ![Fresh].status =
        IF policy = "all" \/ (policy = "name" /\ ~NameTaken)
          THEN "approved" ELSE "pending_user_approval"]

(* uprava-node is started.                                                 *)
StartNode ==
    /\ loop = "off" /\ loop' = "idle"
    /\ UNCHANGED <<policy, enroll, nodes, placed, unbound, requests, local, count>>

(* ensure_enrollment; the answer, with the pairing code, may be lost.      *)
RequestEnrollment ==
    /\ loop = "idle" /\ local = [attempt |-> 0, id |-> 0]
    /\ IF Cardinality(Waiting) >= MaxPending
         THEN enroll' = Swept /\ UNCHANGED <<local, count>>
         ELSE /\ \E e \in Enrollments : enroll[e].status = "none"
              /\ enroll' = create_enrollment
              /\ \/ local' = [local EXCEPT !.attempt = Fresh] /\ UNCHANGED count
                 \/ Tick("faults", MaxFaults) /\ UNCHANGED local
    /\ UNCHANGED <<policy, nodes, placed, unbound, requests, loop>>

(* approve_node_enrollment.                                                *)
Approve(e) ==
    /\ enroll[e].status = "pending_user_approval" /\ ~enroll[e].late
    /\ enroll' = [enroll EXCEPT ![e].status = "approved"]
    /\ UNCHANGED <<policy, nodes, placed, unbound, requests, local, loop, count>>

(* expires_at passes.                                                      *)
Lapse(e) ==
    /\ enroll[e].status # "none" /\ ~enroll[e].late
    /\ enroll' = [enroll EXCEPT ![e].late = TRUE]
    /\ UNCHANGED <<policy, nodes, placed, unbound, requests, local, loop>>

(* The one the Node waits for lapses: it was not approved in time.         *)
Awaited(e) == e = local.attempt /\ enroll[e].status \in Unclaimed
LapseUnawaited(e) == ~Awaited(e) /\ Lapse(e) /\ UNCHANGED count
LapseAwaited(e) == Awaited(e) /\ Lapse(e) /\ Tick("faults", MaxFaults)

-----------------------------------------------------------------------------
(* Requests and their answers.                                             *)

Request(kind, of) == [kind |-> kind, of |-> of, at |-> "read", mine |-> TRUE]
SendRequest(kind, of) ==
    /\ loop = "idle" /\ Len(requests) < MaxRequests
    /\ requests' = Append(requests, Request(kind, of))
    /\ loop' = "waiting"
    /\ UNCHANGED <<policy, enroll, nodes, placed, unbound, local, count>>

SendClaim == local.id = 0 /\ local.attempt # 0 /\ SendRequest("claim", local.attempt)
SendBeat  == local.id # 0 /\ SendRequest("beat", local.id)

Without(i) == [j \in 1 .. Len(requests) - 1 |-> requests[IF j < i THEN j ELSE j + 1]]

(* The Node acts on an answer it is still waiting for: "registered" brings *)
(* the credential, "replayed" does not; "refused" and an unknown           *)
(* enrollment clear the attempt, an authentication error the identity too. *)
Answered(a, r) ==
    CASE a = "registered"             -> [local EXCEPT !.id = r]
      [] a = "refused"                -> [local EXCEPT !.attempt = 0]
      [] a = "unauthorized"           -> [attempt |-> 0, id |-> 0]
      [] a \in {"ok", "failed", "pending", "replayed"} -> local

Answer(i, a, r) ==
    /\ requests' = Without(i)
    /\ loop' = IF requests[i].mine THEN "idle" ELSE loop
    /\ local' = IF requests[i].mine THEN Answered(a, r) ELSE local

GoOn(i, s) == requests' = [requests EXCEPT ![i].at = s] /\ UNCHANGED <<local, loop>>

GiveUp ==
    /\ loop = "waiting" /\ Tick("faults", MaxFaults)
    /\ loop' = "idle"
    /\ requests' = [i \in DOMAIN requests |-> [requests[i] EXCEPT !.mine = FALSE]]
    /\ UNCHANGED <<policy, enroll, nodes, placed, unbound, local>>

-----------------------------------------------------------------------------
(* claim_enrollment.                                                       *)

(* Wrong variant: a claim that was settled is looked at before its expiry. *)
ReplayFirst(c) ==
    CASE c.status \in {"none", "deleted"} -> "refused"
      [] c.status = "registered"          -> "replayed"
      [] c.late                           -> "refused"
      [] c.status = "expired"             -> "refused"
      [] c.status = "approved"            -> "go"
      [] OTHER                            -> IF policy = "all" THEN "go" ELSE "pending"

(* What it decides from the row it read; "go" if it may claim.             *)
ClaimVerdict(c) ==
    CASE c.status \in {"none", "deleted"} -> "refused"
      [] c.late                           -> "refused"
      [] c.status = "registered"          -> "replayed"
      [] c.status = "expired"             -> "refused"
      [] c.status = "approved"            -> "go"
      [] OTHER                            -> IF policy = "all" THEN "go" ELSE "pending"

ReadClaim(i) ==
    LET e == requests[i].of
        v == ClaimVerdict(enroll[e])
    IN  /\ requests[i].kind = "claim" /\ requests[i].at = "read"
        /\ enroll' = IF enroll[e].late /\ enroll[e].status \in Unclaimed
                       THEN [enroll EXCEPT ![e].status = "expired"] ELSE enroll
        /\ IF v = "go" THEN GoOn(i, "commit") ELSE Answer(i, v, 0)
        /\ UNCHANGED <<policy, nodes, placed, unbound, count>>

(* Wrong variant: the enrollment is updated whatever it has become.        *)
ClaimAnyway(e) == TRUE

(* The conditions of the update; the clock is the one of the read.         *)
StillUnclaimed(e) == enroll[e].status \in Unclaimed /\ enroll[e].node = 0

Row(e) == [from |-> e, presence |-> "offline", credential |-> "claimed"]

CommitClaim(i) ==
    LET e == requests[i].of
        r == Len(nodes) + 1
    IN  /\ requests[i].kind = "claim" /\ requests[i].at = "commit"
        /\ IF StillUnclaimed(e)
             THEN /\ nodes' = Append(nodes, Row(e))
                  /\ enroll' = [enroll EXCEPT ![e].status = "registered", ![e].node = r]
                  /\ Answer(i, "registered", r)
             ELSE /\ Answer(i, IF enroll[e].status = "registered" THEN "replayed" ELSE "refused", 0)
                  /\ UNCHANGED <<nodes, enroll>>
        /\ UNCHANGED <<policy, placed, unbound, count>>

-----------------------------------------------------------------------------
(* node_heartbeat.                                                         *)

(* verify_node_credential; the Node only ever knows the claimed one.       *)
Valid(r) == nodes[r].presence \notin {"deleted", "revoked"} /\ nodes[r].credential = "claimed"

VerifyBeat(i) ==
    /\ requests[i].kind = "beat" /\ requests[i].at = "read"
    /\ IF Valid(requests[i].of) THEN GoOn(i, "upsert") ELSE Answer(i, "unauthorized", 0)
    /\ UNCHANGED <<policy, enroll, nodes, placed, unbound, count>>

(* The upsert makes any row reachable, and a deleted one a new row without *)
(* a credential.                                                           *)
UpsertNode(i) ==
    LET r == requests[i].of
    IN  /\ requests[i].kind = "beat" /\ requests[i].at = "upsert"
        /\ nodes' = [nodes EXCEPT ![r].presence = "reachable",
                         ![r].credential = IF Exists(r) THEN @ ELSE "none"]
        /\ GoOn(i, "workspaces")
        /\ UNCHANGED <<policy, enroll, placed, unbound, count>>

(* upsert_heartbeat_workspaces: workspace_binding_deleted, then the row.   *)
CheckWorkspace(i) ==
    /\ requests[i].kind = "beat" /\ requests[i].at = "workspaces"
    /\ IF requests[i].of \in unbound THEN Answer(i, "ok", 0) ELSE GoOn(i, "place")
    /\ UNCHANGED <<policy, enroll, nodes, placed, unbound, count>>

PlaceWorkspace(i) ==
    /\ requests[i].kind = "beat" /\ requests[i].at = "place"
    /\ placed' = IF Exists(requests[i].of) THEN placed \cup {requests[i].of} ELSE placed
    /\ Answer(i, IF Exists(requests[i].of) THEN "ok" ELSE "failed", 0)
    /\ UNCHANGED <<policy, enroll, nodes, unbound, count>>

-----------------------------------------------------------------------------
(* The administrator.                                                      *)

revoke_node(r) ==
    /\ Exists(r)
    /\ nodes' = [nodes EXCEPT ![r].presence = "revoked", ![r].credential = "none"]
    /\ UNCHANGED <<enroll, placed, unbound>>

rotate_node_credential(r) ==
    /\ Exists(r) /\ nodes[r].presence # "revoked"
    /\ nodes' = [nodes EXCEPT ![r].credential = "rotated"]
    /\ UNCHANGED <<enroll, placed, unbound>>

delete_node(r) ==
    /\ Exists(r)
    /\ nodes' = [nodes EXCEPT ![r].presence = "deleted", ![r].credential = "none"]
    /\ enroll' = [e \in Enrollments |-> IF enroll[e].node = r
                     THEN [enroll[e] EXCEPT !.status = "deleted"] ELSE enroll[e]]
    /\ placed' = placed \ {r} /\ unbound' = unbound \ {r}

delete_placement(r) ==
    /\ r \in placed
    /\ placed' = placed \ {r} /\ unbound' = unbound \cup {r}
    /\ UNCHANGED <<enroll, nodes>>

(* validate_placement_with_correlation on a workspace without placement.   *)
validate_placement(r) ==
    /\ nodes[r].presence = "reachable" /\ r \notin placed
    /\ placed' = placed \cup {r} /\ unbound' = unbound \ {r}
    /\ UNCHANGED <<enroll, nodes>>

Administer(r) ==
    /\ Tick("admin", MaxAdmin)
    /\ \/ revoke_node(r) \/ rotate_node_credential(r) \/ delete_node(r)
       \/ delete_placement(r) \/ validate_placement(r)
    /\ UNCHANGED <<policy, requests, local, loop>>

-----------------------------------------------------------------------------
NodeLoop == RequestEnrollment \/ SendClaim \/ SendBeat
Handle(i) ==
    \/ ReadClaim(i) \/ CommitClaim(i)
    \/ VerifyBeat(i) \/ UpsertNode(i) \/ CheckWorkspace(i) \/ PlaceWorkspace(i)

Next ==
    \/ StartNode \/ NodeLoop \/ GiveUp
    \/ \E e \in Enrollments : Approve(e) \/ LapseUnawaited(e) \/ LapseAwaited(e)
    \/ \E i \in DOMAIN requests : Handle(i)
    \/ \E r \in DOMAIN nodes : Administer(r)

Spec == Init /\ [][Next]_vars

(* The loop of the Node and the handlers of Core run, time passes, and     *)
(* somebody approves what waits for an approval.                           *)
Fairness ==
    /\ WF_vars(NodeLoop)
    /\ \A i \in 1 .. MaxRequests : WF_vars(i \in DOMAIN requests /\ Handle(i))
    /\ \A e \in Enrollments :
          WF_vars(Approve(e)) /\ WF_vars(LapseUnawaited(e))
FairSpec == Spec /\ Fairness

-----------------------------------------------------------------------------
(* One enrollment makes one node row, however many claims of it are under  *)
(* way when the Node retries (claim_enrollment's conditional update).      *)
ClaimedOnce ==
    \A r, q \in DOMAIN nodes : nodes[r].from = nodes[q].from => r = q

(* After the last lost answer, late approval, revocation, rotation or      *)
(* deletion a running Node ends up with an identity its heartbeats are     *)
(* accepted with: no enrollment that was claimed without the answer        *)
(* arriving, and no rejected identity, holds it up for good                *)
(* (ensure_enrollment, claim_enrollment, node_heartbeat).                  *)
EventuallyEnrolled == <>[](loop = "off" \/ (local.id # 0 /\ Valid(local.id)))

(* A workspace that was deleted stays away until it is registered again    *)
(* (delete_placement, upsert_heartbeat_workspaces).                        *)
DeletedStaysAway == placed \cap unbound = {}
=============================================================================
