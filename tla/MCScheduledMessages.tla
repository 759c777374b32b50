------------------------ MODULE MCScheduledMessages ------------------------
(***************************************************************************)
(* TLC instances of ScheduledMessages.                                     *)
(***************************************************************************)
EXTENDS ScheduledMessages

CONSTANTS a, b, r, s

OneMessage == {a}
TwoMessages == {a, b}
OneRequest == {r}
TwoRequests == {r, s}
=============================================================================
