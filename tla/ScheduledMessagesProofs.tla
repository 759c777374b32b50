---------------------- MODULE ScheduledMessagesProofs ----------------------
(***************************************************************************)
(* Proofs about ScheduledMessages, for every set of messages and requests  *)
(* and every bound.                                                        *)
(***************************************************************************)
EXTENDS ScheduledMessages, TLAPS

(* A worker has a message exactly while it dispatches one.                 *)
WorkInv ==
    \A w \in Workers : work[w].at \in {"idle", "scan"} <=> work[w].msg = NoMessage

(* A turn that is still to come has been paid for: a row that waits, or a  *)
(* worker that has not submitted yet, has room for one more turn.          *)
BudgetInv ==
    \A m \in Messages :
        /\ turns[m] <= 1 + redo[m]
        /\ row[m] \in {"absent", "scheduled"} => turns[m] <= redo[m]
        /\ \A w \in Workers :
              Working(w, m) /\ work[w].at \in {"load", "submit"} => turns[m] <= redo[m]

ClaimInv == TypeOK /\ WorkInv /\ ExclusiveClaim
MessageInv == ClaimInv /\ BudgetInv

-----------------------------------------------------------------------------
(* The type invariant holds initially and is kept by every action.         *)
LEMMA TypeInit == Init => TypeOK
  BY MessageAssumption DEF Init, TypeOK, Work, Idle, States, Steps, Workers

(* Every action keeps the type invariant.                                  *)
LEMMA TypeNext == TypeOK /\ [Next]_vars => TypeOK'
<1> SUFFICES ASSUME TypeOK, [Next]_vars PROVE TypeOK'
  OBVIOUS
<1> USE MessageAssumption DEF TypeOK, Work, Idle, At, States, Steps, Workers
<1>1. ASSUME NEW m \in Messages, CreateMessage(m) PROVE TypeOK'
  BY <1>1 DEF CreateMessage
<1>2. ASSUME NEW m \in Messages, UpdateMessage(m) PROVE TypeOK'
  BY <1>2 DEF UpdateMessage
<1>3. ASSUME NEW m \in Messages, CancelMessage(m) PROVE TypeOK'
  BY <1>3 DEF CancelMessage
<1>4. ASSUME NEW m \in Messages, TimePasses(m) PROVE TypeOK'
  BY <1>4 DEF TimePasses
<1>5. ASSUME NEW m \in Messages, NEW w \in Requests, SendNow(w, m) PROVE TypeOK'
  BY <1>5 DEF SendNow, Claim
<1>6. ASSUME NEW m \in Messages, NEW w \in Requests, Retry(w, m) PROVE TypeOK'
  BY <1>6 DEF Retry, Claim
<1>7. ASSUME FetchDue PROVE TypeOK'
  BY <1>7 DEF FetchDue, Overdue
<1>8. ASSUME NEW m \in Messages, ClaimDue(m) PROVE TypeOK'
  BY <1>8 DEF ClaimDue, Claim
<1>9. ASSUME EndTick PROVE TypeOK'
  BY <1>9 DEF EndTick
<1>10. ASSUME NEW w \in Workers, LoadClaimed(w) PROVE TypeOK'
  BY <1>10 DEF LoadClaimed, Done
<1>11. ASSUME NEW w \in Workers, SubmitTurn(w) PROVE TypeOK'
  <2>1. turns' \in [Messages -> Nat]
    <3> DEFINE m == work[w].msg
    <3>1. turns' = [turns EXCEPT ![m] = turns[m] + 1]
      BY <1>11 DEF SubmitTurn
    <3>2. \A n \in Messages : turns'[n] \in Nat
      BY <3>1
    <3> QED BY <3>1, <3>2
  <2>2. work' \in [Workers -> Work] /\ faults' \in [errors : Nat, restarts : Nat]
    BY <1>11 DEF SubmitTurn
  <2> QED BY <1>11, <2>1, <2>2 DEF SubmitTurn
<1>12. ASSUME NEW w \in Workers, SubmitRefused(w) PROVE TypeOK'
  BY <1>12 DEF SubmitRefused
<1>13. ASSUME NEW w \in Workers, MarkMessage(w) PROVE TypeOK'
  BY <1>13 DEF MarkMessage, Outcome, Done
<1>14. ASSUME NEW w \in Workers, WorkerLost(w) PROVE TypeOK'
  BY <1>14 DEF WorkerLost
<1>15. ASSUME CoreRestart PROVE TypeOK'
  BY <1>15 DEF CoreRestart
<1>16. CASE UNCHANGED vars
  BY <1>16 DEF vars
<1> QED
  BY <1>1, <1>2, <1>3, <1>4, <1>5, <1>6, <1>7, <1>8, <1>9, <1>10, <1>11, <1>12,
     <1>13, <1>14, <1>15, <1>16 DEF Next, TickStep, DispatchStep

(* The rows, workers and counters keep their types in every behaviour.     *)
THEOREM TypeCorrect == Spec => []TypeOK
  BY TypeInit, TypeNext, PTL DEF Spec

-----------------------------------------------------------------------------
(* Every action keeps the exclusive claim.  A step that moves a row out of *)
(* "sending" is a step of the worker that holds it; a step that claims a   *)
(* row finds it in another state, so no worker can hold it.                *)
LEMMA ClaimNext == ClaimInv /\ [Next]_vars => ClaimInv'
<1> SUFFICES ASSUME ClaimInv, [Next]_vars PROVE WorkInv' /\ ExclusiveClaim'
  BY TypeNext DEF ClaimInv
<1>t. TypeOK /\ TypeOK'
  BY TypeNext DEF ClaimInv
<1> USE MessageAssumption, <1>t DEF ClaimInv, TypeOK, WorkInv, ExclusiveClaim, Working,
        Work, Idle, At, Workers
<1>1. ASSUME NEW m \in Messages, CreateMessage(m) PROVE WorkInv' /\ ExclusiveClaim'
  BY <1>1 DEF CreateMessage
<1>2. ASSUME NEW m \in Messages, UpdateMessage(m) PROVE WorkInv' /\ ExclusiveClaim'
  BY <1>2 DEF UpdateMessage
<1>3. ASSUME NEW m \in Messages, CancelMessage(m) PROVE WorkInv' /\ ExclusiveClaim'
  BY <1>3 DEF CancelMessage
<1>4. ASSUME NEW m \in Messages, TimePasses(m) PROVE WorkInv' /\ ExclusiveClaim'
  BY <1>4 DEF TimePasses
<1>5. ASSUME NEW m \in Messages, NEW w \in Requests, SendNow(w, m)
      PROVE  WorkInv' /\ ExclusiveClaim'
  BY <1>5 DEF SendNow, Claim
<1>6. ASSUME NEW m \in Messages, NEW w \in Requests, Retry(w, m)
      PROVE  WorkInv' /\ ExclusiveClaim'
  BY <1>6 DEF Retry, Claim
<1>7. ASSUME FetchDue PROVE WorkInv' /\ ExclusiveClaim'
  BY <1>7 DEF FetchDue
<1>8. ASSUME NEW m \in Messages, ClaimDue(m) PROVE WorkInv' /\ ExclusiveClaim'
  BY <1>8 DEF ClaimDue, Claim
<1>9. ASSUME EndTick PROVE WorkInv' /\ ExclusiveClaim'
  BY <1>9 DEF EndTick
<1>10. ASSUME NEW w \in Workers, LoadClaimed(w) PROVE WorkInv' /\ ExclusiveClaim'
  BY <1>10 DEF LoadClaimed, Done
<1>11. ASSUME NEW w \in Workers, SubmitTurn(w) PROVE WorkInv' /\ ExclusiveClaim'
  BY <1>11 DEF SubmitTurn
<1>12. ASSUME NEW w \in Workers, SubmitRefused(w) PROVE WorkInv' /\ ExclusiveClaim'
  BY <1>12 DEF SubmitRefused
<1>13. ASSUME NEW w \in Workers, MarkMessage(w) PROVE WorkInv' /\ ExclusiveClaim'
  BY <1>13 DEF MarkMessage, Done
<1>14. ASSUME NEW w \in Workers, WorkerLost(w) PROVE WorkInv' /\ ExclusiveClaim'
  BY <1>14 DEF WorkerLost
<1>15. ASSUME CoreRestart PROVE WorkInv' /\ ExclusiveClaim'
  BY <1>15 DEF CoreRestart
<1>16. CASE UNCHANGED vars
  BY <1>16 DEF vars
<1> QED
  BY <1>1, <1>2, <1>3, <1>4, <1>5, <1>6, <1>7, <1>8, <1>9, <1>10, <1>11, <1>12,
     <1>13, <1>14, <1>15, <1>16 DEF Next, TickStep, DispatchStep

(* Initially nobody works.                                                 *)
LEMMA ClaimInit == Init => ClaimInv
  BY TypeInit, MessageAssumption
     DEF Init, ClaimInv, WorkInv, ExclusiveClaim, Working, Idle, Workers

(* A claim is exclusive: at most one worker holds a row, and the row is    *)
(* "sending" as long as it does.                                           *)
THEOREM ClaimsAreExclusive == Spec => []ExclusiveClaim
<1>1. ClaimInv => ExclusiveClaim
  BY DEF ClaimInv
<1> QED BY ClaimInit, ClaimNext, <1>1, PTL DEF Spec

-----------------------------------------------------------------------------
(* Every action keeps the budget of turns: a submission uses the room that *)
(* its claim found, a retry or reschedule after a failure makes room, and  *)
(* recovery leaves a row "failed", which waits for the user.               *)
LEMMA BudgetNext == MessageInv /\ [Next]_vars => BudgetInv'
<1> SUFFICES ASSUME MessageInv, [Next]_vars PROVE BudgetInv'
  OBVIOUS
<1>t. ClaimInv /\ TypeOK /\ ClaimInv' /\ TypeOK' /\ BudgetInv
  BY ClaimNext DEF MessageInv, ClaimInv
<1> USE MessageAssumption, <1>t DEF TypeOK, BudgetInv, Working, Work, Idle, At, Workers
<1>1. ASSUME NEW m \in Messages, CreateMessage(m) PROVE BudgetInv'
  BY <1>1 DEF CreateMessage
<1>2. ASSUME NEW m \in Messages, UpdateMessage(m) PROVE BudgetInv'
  BY <1>2 DEF UpdateMessage
<1>3. ASSUME NEW m \in Messages, CancelMessage(m) PROVE BudgetInv'
  BY <1>3 DEF CancelMessage
<1>4. ASSUME NEW m \in Messages, TimePasses(m) PROVE BudgetInv'
  BY <1>4 DEF TimePasses
<1>5. ASSUME NEW m \in Messages, NEW w \in Requests, SendNow(w, m) PROVE BudgetInv'
  BY <1>5 DEF SendNow, Claim
<1>6. ASSUME NEW m \in Messages, NEW w \in Requests, Retry(w, m) PROVE BudgetInv'
  BY <1>6 DEF Retry, Claim, ClaimInv, WorkInv, ExclusiveClaim
<1>7. ASSUME FetchDue PROVE BudgetInv'
  BY <1>7 DEF FetchDue
<1>8. ASSUME NEW m \in Messages, ClaimDue(m) PROVE BudgetInv'
  BY <1>8 DEF ClaimDue, Claim
<1>9. ASSUME EndTick PROVE BudgetInv'
  BY <1>9 DEF EndTick
<1>10. ASSUME NEW w \in Workers, LoadClaimed(w) PROVE BudgetInv'
  BY <1>10 DEF LoadClaimed, Done
<1>11. ASSUME NEW w \in Workers, SubmitTurn(w) PROVE BudgetInv'
  BY <1>11 DEF SubmitTurn, ClaimInv, WorkInv, ExclusiveClaim
<1>12. ASSUME NEW w \in Workers, SubmitRefused(w) PROVE BudgetInv'
  BY <1>12 DEF SubmitRefused
<1>13. ASSUME NEW w \in Workers, MarkMessage(w) PROVE BudgetInv'
  BY <1>13 DEF MarkMessage, Done, Outcome
<1>14. ASSUME NEW w \in Workers, WorkerLost(w) PROVE BudgetInv'
  BY <1>14 DEF WorkerLost
<1>15. ASSUME CoreRestart PROVE BudgetInv'
  BY <1>15 DEF CoreRestart
<1>16. CASE UNCHANGED vars
  BY <1>16 DEF vars
<1> QED
  BY <1>1, <1>2, <1>3, <1>4, <1>5, <1>6, <1>7, <1>8, <1>9, <1>10, <1>11, <1>12,
     <1>13, <1>14, <1>15, <1>16 DEF MessageInv, Next, TickStep, DispatchStep

(* No turn beyond the first without a retry or reschedule of the user,     *)
(* whatever fails between submit_turn and the mark.                        *)
THEOREM NothingRepeatsHidden == Spec => []NoHiddenRepeat
<1>1. Init => MessageInv
  <2> SUFFICES ASSUME Init PROVE BudgetInv
    BY ClaimInit DEF MessageInv
  <2>1. 0 <= 0 /\ 0 <= 1 + 0
    OBVIOUS
  <2>2. ASSUME NEW m \in Messages PROVE turns[m] = 0 /\ redo[m] = 0
    BY DEF Init
  <2> QED BY <2>1, <2>2 DEF BudgetInv
<1>2. MessageInv /\ [Next]_vars => MessageInv'
  BY ClaimNext, BudgetNext DEF MessageInv
<1>3. MessageInv => NoHiddenRepeat
  BY DEF MessageInv, BudgetInv, NoHiddenRepeat
<1> QED BY <1>1, <1>2, <1>3, PTL DEF Spec
=============================================================================
