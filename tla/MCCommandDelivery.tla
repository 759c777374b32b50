------------------------- MODULE MCCommandDelivery -------------------------
(***************************************************************************)
(* TLC instances of CommandDelivery.  A run takes one command over several *)
(* connections, recorded one way or another, or two commands of one        *)
(* execution key over one connection: a deduction and the command that     *)
(* cancels it.                                                             *)
(***************************************************************************)
EXTENDS CommandDelivery, TLC

CONSTANTS a, b, k

One == {a}
Two == {a, b}
OneKey == {k}

KeyOne == a :> k
KeyTwo == a :> k @@ b :> k

Turn      == a :> "turn"
Workspace == a :> "workspace"
Either    == a :> "workspace" @@ b :> "direct"
Cancelled == a :> "deduction" @@ b :> "cancel"

(* Of the two commands of Either a behaviour has one.                      *)
OneRecorded == \A c, d \in Commands : c = d \/ cmdState[c] = "absent" \/ cmdState[d] = "absent"
EitherSpec == Init /\ [][Next /\ OneRecorded']_vars /\ Fairness
=============================================================================
