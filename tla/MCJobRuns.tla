----------------------------- MODULE MCJobRuns -----------------------------
(***************************************************************************)
(* TLC instances of JobRuns.                                               *)
(***************************************************************************)
EXTENDS JobRuns

CONSTANTS j1, c1, c2

OneJob == {j1}
OneClient == {c1}
TwoClients == {c1, c2}
=============================================================================
