-------------------------- MODULE MCEventDelivery --------------------------
(***************************************************************************)
(* TLC instances of EventDelivery.                                         *)
(***************************************************************************)
EXTENDS EventDelivery

CONSTANTS a, b

One == {a}
Two == {a, b}
=============================================================================
