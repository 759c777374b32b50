--------------------------- MODULE CommandService ---------------------------
(***************************************************************************)
(* What command delivery promises to the clients of Core, without          *)
(* connections, queues or caches: a command that was asked for is settled  *)
(* at most once on the Node, durably, and Core reports exactly what was    *)
(* settled, once.                                                          *)
(***************************************************************************)
CONSTANTS
    Commands,   \* command ids
    Outcome,    \* terminal results
    NoOutcome   \* no result yet

VARIABLES
    asked,      \* commands recorded in Core
    settled,    \* the outcome the Node holds durably for each command
    reported    \* the outcome of the Node that Core has stored

vars == <<asked, settled, reported>>

Init ==
    /\ asked = {}
    /\ settled = [c \in Commands |-> NoOutcome]
    /\ reported = [c \in Commands |-> NoOutcome]

Ask(c) ==
    /\ c \notin asked
    /\ asked' = asked \cup {c}
    /\ UNCHANGED <<settled, reported>>

Settle(c) ==
    /\ c \in asked
    /\ settled[c] = NoOutcome
    /\ \E out \in Outcome \ {NoOutcome} : settled' = [settled EXCEPT ![c] = out]
    /\ UNCHANGED <<asked, reported>>

Report(c) ==
    /\ settled[c] # NoOutcome
    /\ reported[c] = NoOutcome
    /\ reported' = [reported EXCEPT ![c] = settled[c]]
    /\ UNCHANGED <<asked, settled>>

Next == \E c \in Commands : Ask(c) \/ Settle(c) \/ Report(c)

Spec == Init /\ [][Next]_vars
=============================================================================
