------------------------------- MODULE Outbox -------------------------------
(* The Node's outbox of events is a queue: Vec::retain drops what was      *)
(* acknowledged and keeps the order of the rest.                           *)
EXTENDS Naturals, FiniteSets

(* Vec::retain, in remove_acked_events: s without the members of S.  Place *)
(* n of the result holds the n-th of the places that are left.             *)
Without(s, S) ==
    LET left == {i \in DOMAIN s : s[i] \notin S}
        rank(i) == Cardinality({j \in left : j <= i})
    IN  [n \in 1 .. Cardinality(left) |-> s[CHOOSE i \in left : rank(i) = n]]
=============================================================================
