------------------------------ MODULE MCTooling ------------------------------
(***************************************************************************)
(* ToolCalls and Integrations for TLC.  ToolCalls takes from Integrations  *)
(* nothing but that the dependency may or may not be usable, so one run    *)
(* explores each of the two with the other at rest.                        *)
(***************************************************************************)
EXTENDS ToolCalls

CONSTANTS MaxConnects, MaxReports
VARIABLES conn, dep, owed, asking, jobs, reports, beat, local, tally
Deps == INSTANCE Integrations WITH count <- tally
deps == <<conn, dep, owed, asking, jobs, reports, beat, local, tally>>

(* What happens to one call beside its steps: reconnects, restarts of      *)
(* Core, read errors, other commands.  Each two are explored together,     *)
(* except other commands with reconnects or read errors.                   *)
Budget(h, s, r, o) == [hellos |-> h, stops |-> s, reads |-> r, others |-> o]
Budgets == {Budget(1, 1, 0, 0), Budget(1, 0, 1, 0), Budget(0, 1, 1, 0), Budget(0, 1, 0, 1)}
Explored == \E b \in Budgets : \A n \in DOMAIN b : count[n] <= b[n]

MCInit == Init /\ Deps!Init
MCNext ==
    \/ Deps!Init /\ Next /\ Explored' /\ UNCHANGED deps
    \/ Init /\ Deps!Next /\ UNCHANGED vars
MCSpec == MCInit /\ [][MCNext]_<<vars, deps>> /\ Fairness /\ Deps!Fairness

(* Integrations' SidesAgree: Core and the Node come to the same desired    *)
(* state (persist_dependency_status, dispatch_dependency_desired_snapshots).*)
SidesAgree == Deps!SidesAgree
=============================================================================
