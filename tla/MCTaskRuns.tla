----------------------------- MODULE MCTaskRuns -----------------------------
(* TaskRuns and NodeAdmission for TLC.  One task is enough: the runs of a  *)
(* project do not meet each other (the lock is per task).  A task is given *)
(* to a Node that has its identity, so the two share no state, and one run *)
(* explores each of them with the other at rest.                           *)
EXTENDS TaskRuns

CONSTANTS MaxPending, MaxAdmin, MaxRequests
VARIABLES policy, enroll, nodes, placed, unbound, requests, local, loop, total
Admission == INSTANCE NodeAdmission WITH count <- total
admission == <<policy, enroll, nodes, placed, unbound, requests, local, loop, total>>

(* Bound: which disturbances of a run are explored together.  A read error *)
(* and a cancellation are not: CancelHonoured says nothing after one.      *)
Budget(f, e, s, r, o) == [faults |-> f, errors |-> e, stops |-> s, reads |-> r, others |-> o]
Budgets == {Budget(1, 1, 1, 0, 0), Budget(2, 0, 0, 0, 0), Budget(1, 0, 0, 0, 1),
            Budget(0, 1, 1, 0, 1), Budget(0, 1, 0, 1, 0)}
Explored ==
    /\ \E b \in Budgets : \A n \in DOMAIN b : count[n] <= b[n]
    /\ \A t \in Tasks : count.reads > 0 => row[t].cancel = "none"

MCInit == Init /\ Admission!Init
MCNext ==
    \/ loop = "off" /\ policy = "ask" /\ Next /\ Explored' /\ UNCHANGED admission
    \/ Init /\ Admission!Next /\ UNCHANGED vars
MCSpec == MCInit /\ [][MCNext]_<<vars, admission>> /\ Fairness /\ Admission!Fairness

(* NodeAdmission's ClaimedOnce: one enrollment makes one node row, however *)
(* many claims of it are under way (claim_enrollment).                     *)
ClaimedOnce == Admission!ClaimedOnce

(* NodeAdmission's EventuallyEnrolled: a running Node ends up with an      *)
(* identity that Core accepts (ensure_enrollment, node_heartbeat).         *)
EventuallyEnrolled == Admission!EventuallyEnrolled
=============================================================================
