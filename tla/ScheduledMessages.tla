-------------------------- MODULE ScheduledMessages --------------------------
(***************************************************************************)
(* Scheduled session messages: a row of scheduled_messages becomes a turn  *)
(* of its session when its time has come, or when the user asks for it.    *)
(*                                                                         *)
(* Two kinds of worker run the same code: the dispatcher task, woken by a  *)
(* tick, and HTTP requests (send now, retry).  A worker claims the row     *)
(* with one conditional update, loads it, submits the turn and marks the   *)
(* row; each await on the database ends a step.  submit_turn commits the   *)
(* turn before it dispatches the command and loads the session again, so   *)
(* it may report an error for a turn that is recorded.                     *)
(***************************************************************************)
EXTENDS Naturals

CONSTANTS
    Messages,    \* rows of scheduled_messages
    Requests,    \* HTTP requests that may be under way at once
    Dispatcher,  \* the task of spawn_scheduled_message_dispatcher
    NoMessage,
    MaxRedo,     \* bound: times a failed message is retried or rescheduled
    MaxEdits,    \* bound: times a message that waits is rescheduled
    MaxErrors,   \* bound: workers that end in the middle
    MaxRestarts  \* bound: restarts of Core

Workers == Requests \cup {Dispatcher}

ASSUME MessageAssumption ==
    /\ Dispatcher \notin Requests /\ NoMessage \notin Messages
    /\ MaxRedo \in Nat /\ MaxEdits \in Nat
    /\ MaxErrors \in Nat /\ MaxRestarts \in Nat

VARIABLES
    row,      \* durable: state of each row ("absent": not inserted yet)
    due,      \* has due_at passed?
    turns,    \* durable: number of turns submitted for the row
    due_ids,  \* the dispatcher: rows its query returned and it has not visited
    work,     \* per worker: where it is and the row it works on
    redo,     \* history: times the user asked again after a failure
    edits,    \* history: reschedules of a row that waits
    faults    \* history: workers lost and restarts so far

vars == <<row, due, turns, due_ids, work, redo, edits, faults>>

States == {"absent", "scheduled", "sending", "sent", "failed", "cancelled"}
Steps == {"idle", "scan", "load", "submit", "mark_sent", "mark_failed"}
Work == [at : Steps, msg : Messages \cup {NoMessage}]
Idle == [at |-> "idle", msg |-> NoMessage]
At(s, m) == [at |-> s, msg |-> m]

Init ==
    /\ row = [m \in Messages |-> "absent"]
    /\ due = [m \in Messages |-> FALSE]
    /\ turns = [m \in Messages |-> 0]
    /\ due_ids = {}
    /\ work = [w \in Workers |-> Idle]
    /\ redo = [m \in Messages |-> 0]
    /\ edits = [m \in Messages |-> 0]
    /\ faults = [errors |-> 0, restarts |-> 0]

-----------------------------------------------------------------------------
(* Routes that are one conditional statement.                              *)

(* create_scheduled_message_route: due_at must lie in the future.          *)
CreateMessage(m) ==
    /\ row[m] = "absent"
    /\ row' = [row EXCEPT ![m] = "scheduled"]
    /\ UNCHANGED <<due, turns, due_ids, work, redo, edits, faults>>

(* update_scheduled_message_route: the state that was read first only      *)
(* chooses the answer; the update repeats the condition.  It schedules the *)
(* row again, at a time in the future.                                     *)
UpdateMessage(m) ==
    /\ \/ row[m] = "scheduled" /\ edits[m] < MaxEdits
          /\ edits' = [edits EXCEPT ![m] = @ + 1] /\ UNCHANGED redo
       \/ row[m] = "failed" /\ redo[m] < MaxRedo
          /\ redo' = [redo EXCEPT ![m] = @ + 1] /\ UNCHANGED edits
    /\ row' = [row EXCEPT ![m] = "scheduled"]
    /\ due' = [due EXCEPT ![m] = FALSE]
    /\ UNCHANGED <<turns, due_ids, work, faults>>

CancelMessage(m) ==
    /\ row[m] = "scheduled"
    /\ row' = [row EXCEPT ![m] = "cancelled"]
    /\ UNCHANGED <<due, turns, due_ids, work, redo, edits, faults>>

(* The clock reaches due_at.                                               *)
TimePasses(m) ==
    /\ row[m] = "scheduled" /\ ~due[m]
    /\ due' = [due EXCEPT ![m] = TRUE]
    /\ UNCHANGED <<row, turns, due_ids, work, redo, edits, faults>>

-----------------------------------------------------------------------------
(* Claims.                                                                 *)

(* Wrong variant: the claim does not look at the state of the row.         *)
ClaimAny(m, expected) ==
    /\ row[m] \in {expected, "sending"}
    /\ row' = [row EXCEPT ![m] = "sending"]

(* claim_scheduled_message: one update, conditional on the expected state. *)
Claim(m, expected) ==
    /\ row[m] = expected
    /\ row' = [row EXCEPT ![m] = "sending"]

(* send_scheduled_message_now_route.                                       *)
SendNow(w, m) ==
    /\ work[w] = Idle
    /\ Claim(m, "scheduled")
    /\ work' = [work EXCEPT ![w] = At("load", m)]
    /\ UNCHANGED <<due, turns, due_ids, redo, edits, faults>>

(* retry_scheduled_message_route.                                          *)
Retry(w, m) ==
    /\ work[w] = Idle
    /\ redo[m] < MaxRedo
    /\ Claim(m, "failed")
    /\ redo' = [redo EXCEPT ![m] = @ + 1]
    /\ work' = [work EXCEPT ![w] = At("load", m)]
    /\ UNCHANGED <<due, turns, due_ids, edits, faults>>

Overdue == {m \in Messages : row[m] = "scheduled" /\ due[m]}

(* A tick: dispatch_due_scheduled_messages reads the ids that are due.     *)
FetchDue ==
    /\ work[Dispatcher] = Idle
    /\ Overdue # {}
    /\ due_ids' = Overdue
    /\ work' = [work EXCEPT ![Dispatcher] = At("scan", NoMessage)]
    /\ UNCHANGED <<row, due, turns, redo, edits, faults>>

(* The next id.  The claim asks for the state "scheduled" and not for the  *)
(* time again; a claim that fails is passed over.                          *)
ClaimDue(m) ==
    /\ work[Dispatcher].at = "scan"
    /\ m \in due_ids
    /\ due_ids' = due_ids \ {m}
    /\ \/ Claim(m, "scheduled") /\ work' = [work EXCEPT ![Dispatcher] = At("load", m)]
       \/ row[m] # "scheduled" /\ UNCHANGED <<row, work>>
    /\ UNCHANGED <<due, turns, redo, edits, faults>>

EndTick ==
    /\ work[Dispatcher].at = "scan"
    /\ due_ids = {}
    /\ work' = [work EXCEPT ![Dispatcher] = Idle]
    /\ UNCHANGED <<row, due, turns, due_ids, redo, edits, faults>>

-----------------------------------------------------------------------------
(* dispatch_scheduled_message.                                             *)

(* What a worker does when it is done with a row.                          *)
Done(w) == IF w = Dispatcher THEN At("scan", NoMessage) ELSE Idle

LoadClaimed(w) ==
    /\ work[w].at = "load"
    /\ work' = [work EXCEPT ![w] = IF row[work[w].msg] = "sending"
                                     THEN At("submit", work[w].msg) ELSE Done(w)]
    /\ UNCHANGED <<row, due, turns, due_ids, redo, edits, faults>>

(* The turn is recorded; the dispatch that follows may still fail.         *)
SubmitTurn(w) ==
    /\ work[w].at = "submit"
    /\ LET m == work[w].msg
       IN  /\ turns' = [turns EXCEPT ![m] = @ + 1]
           /\ \/ work' = [work EXCEPT ![w] = At("mark_sent", m)] /\ UNCHANGED faults
              \/ /\ faults.errors < MaxErrors
                 /\ faults' = [faults EXCEPT !.errors = @ + 1]
                 /\ work' = [work EXCEPT ![w] = At("mark_failed", m)]
    /\ UNCHANGED <<row, due, due_ids, redo, edits>>

(* The session, its runtime, the Node or the placement refuses the turn.   *)
SubmitRefused(w) ==
    /\ work[w].at = "submit"
    /\ work' = [work EXCEPT ![w] = At("mark_failed", work[w].msg)]
    /\ UNCHANGED <<row, due, turns, due_ids, redo, edits, faults>>

(* Wrong variant: a mark that the table's check constraint does not know.  *)
OutcomeUnknown(s) == IF s = "mark_sent" THEN "sent" ELSE "error"

Outcome(s) == IF s = "mark_sent" THEN "sent" ELSE "failed"

(* Wrong variant: a refused turn is only logged.                           *)
MarkSentOnly(w) ==
    /\ work[w].at \in {"mark_sent", "mark_failed"}
    /\ row' = IF work[w].at = "mark_sent" THEN [row EXCEPT ![work[w].msg] = "sent"] ELSE row
    /\ work' = [work EXCEPT ![w] = Done(w)]
    /\ UNCHANGED <<due, turns, due_ids, redo, edits, faults>>

(* The row is marked, if it is still "sending".                            *)
MarkMessage(w) ==
    /\ work[w].at \in {"mark_sent", "mark_failed"}
    /\ LET m == work[w].msg
       IN  row' = IF row[m] = "sending"
                    THEN [row EXCEPT ![m] = Outcome(work[w].at)] ELSE row
    /\ work' = [work EXCEPT ![w] = Done(w)]
    /\ UNCHANGED <<due, turns, due_ids, redo, edits, faults>>

-----------------------------------------------------------------------------
(* A database error in the worker's own statements, or a request dropped   *)
(* with its connection.  The row stays as it is, and a tick ends.          *)
WorkerLost(w) ==
    /\ work[w].at # "idle"
    /\ faults.errors < MaxErrors
    /\ faults' = [faults EXCEPT !.errors = @ + 1]
    /\ work' = [work EXCEPT ![w] = Idle]
    /\ due_ids' = IF w = Dispatcher THEN {} ELSE due_ids
    /\ UNCHANGED <<row, due, turns, redo, edits>>

(* Wrong variant: recovery schedules the interrupted rows again.           *)
RestartRequeues ==
    /\ faults.restarts < MaxRestarts
    /\ faults' = [faults EXCEPT !.restarts = @ + 1]
    /\ work' = [w \in Workers |-> Idle]
    /\ due_ids' = {}
    /\ row' = [m \in Messages |-> IF row[m] = "sending" THEN "scheduled" ELSE row[m]]
    /\ UNCHANGED <<due, turns, redo, edits>>

(* Core stops anywhere; recover_interrupted_scheduled_messages runs before *)
(* the dispatcher is spawned and the routes are served.                    *)
CoreRestart ==
    /\ faults.restarts < MaxRestarts
    /\ faults' = [faults EXCEPT !.restarts = @ + 1]
    /\ work' = [w \in Workers |-> Idle]
    /\ due_ids' = {}
    /\ row' = [m \in Messages |-> IF row[m] = "sending" THEN "failed" ELSE row[m]]
    /\ UNCHANGED <<due, turns, redo, edits>>

-----------------------------------------------------------------------------
DispatchStep(w) ==
    LoadClaimed(w) \/ SubmitTurn(w) \/ SubmitRefused(w) \/ MarkMessage(w)
TickStep ==
    \/ FetchDue \/ EndTick \/ DispatchStep(Dispatcher)
    \/ \E m \in Messages : ClaimDue(m)

Next ==
    \/ \E m \in Messages :
          \/ CreateMessage(m) \/ UpdateMessage(m) \/ CancelMessage(m)
          \/ TimePasses(m)
          \/ \E w \in Requests : SendNow(w, m) \/ Retry(w, m)
    \/ TickStep
    \/ \E w \in Requests : DispatchStep(w)
    \/ \E w \in Workers : WorkerLost(w)
    \/ CoreRestart

Spec == Init /\ [][Next]_vars

(* Time passes, the dispatcher ticks for ever and tokio polls the requests *)
(* under way; no user action and no fault is forced.                       *)
FairSpec ==
    /\ Spec
    /\ \A m \in Messages : WF_vars(TimePasses(m))
    /\ WF_vars(TickStep)
    /\ \A w \in Requests : WF_vars(DispatchStep(w))

-----------------------------------------------------------------------------
TypeOK ==
    /\ row \in [Messages -> States]
    /\ due \in [Messages -> BOOLEAN]
    /\ turns \in [Messages -> Nat]
    /\ due_ids \subseteq Messages
    /\ work \in [Workers -> Work]
    /\ redo \in [Messages -> Nat]
    /\ edits \in [Messages -> Nat]
    /\ faults \in [errors : Nat, restarts : Nat]

Working(w, m) == work[w].msg = m

(* The claim is exclusive: a row has at most one worker, and while it has  *)
(* one no other route can move it, so the worker's late update of the row  *)
(* can only meet its own claim (the states in the conditional updates).    *)
ExclusiveClaim ==
    \A m \in Messages, w \in Workers : Working(w, m) =>
        /\ row[m] = "sending"
        /\ \A v \in Workers : Working(v, m) => v = w

(* A message is never sent again behind the user's back: beyond the first  *)
(* turn, every turn was asked for by a retry or a reschedule of a failure, *)
(* whatever crashed or failed between the turn and the mark.               *)
NoHiddenRepeat == \A m \in Messages : turns[m] <= 1 + redo[m]

(* A message whose time has come, or that is being sent, ends sent, failed *)
(* or cancelled, although requests, reschedules and a restart of Core      *)
(* cross the tick.  Only a worker that ends in the middle may leave it in  *)
(* "sending" (dispatch_scheduled_message has no clean-up of its own).      *)
EventuallySettled ==
    \A m \in Messages :
        row[m] = "sending" \/ (row[m] = "scheduled" /\ due[m])
            ~> row[m] \in {"sent", "failed", "cancelled"} \/ faults.errors > 0
=============================================================================
