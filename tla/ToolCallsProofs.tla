-------------------------- MODULE ToolCallsProofs --------------------------
(***************************************************************************)
(* Proofs about ToolCalls, for every set of calls and every bound.         *)
(***************************************************************************)
EXTENDS ToolCalls, SequenceTheorems, TLAPS

Early == {"idle", "authorized", "route", "record"}
Steps == Early \cup {"wait", "recheck", "cancel", "finish", "over"}
Ends == {"completed", "failed", "timed_out", "cancelled"}
CallState == {"none", "requested", "started", "denied", "approval_required"} \cup Outcomes
Progress == [at : Steps, verdict : {"none", "completed", "failed"}]
Commands == [run : {"none", "open"} \cup Outcomes, cancel : {"none", "open", "done"}]
Execution == [running : BOOLEAN, cut : BOOLEAN, out : {"none"} \cup Ends]
Frames == [call : Calls, kind : {"run", "cancel"}, out : Outcomes, seen : BOOLEAN]

TypeInv ==
    /\ call \in [Calls -> CallState]
    /\ step \in [Calls -> Progress]
    /\ told \in [Calls -> CallState]
    /\ cmd \in [Calls -> Commands]
    /\ node \in [Calls -> Execution]
    /\ recv \in Seq(Frames) /\ wire \in Seq(Frames)
    /\ stray \subseteq detached

(* A command exists once its request has recorded it, and a cancellation   *)
(* only after the request has given up on the result.                      *)
RecordedAt(c) ==
    /\ call[c] = "none" => step[c].at = "idle"
    /\ step[c].at \in Early => cmd[c].run = "none" /\ told[c] # "completed"
    /\ cmd[c].cancel # "none" => step[c].at \in {"finish", "over"}
RecordedInv == \A c \in Calls : RecordedAt(c)

(* The Node takes commands that were recorded.                             *)
InboxAt(c) ==
    /\ Command("run", c) \in inbox => cmd[c].run # "none"
    /\ Command("cancel", c) \in inbox => cmd[c].cancel # "none"
InboxInv == \A c \in Calls : InboxAt(c)

(* The Node runs a call until it has one outcome, which it keeps, unless   *)
(* an execution of it was left behind; what Core has stored is that        *)
(* outcome, or that the Node was busy.                                     *)
Decided(c) == cmd[c].run \in Ends
OutcomeAt(c) ==
    /\ node[c].running => cmd[c].run # "none" /\ (c \notin detached => node[c].out = "none")
    /\ c \notin detached /\ Decided(c) => cmd[c].run = node[c].out
OutcomeInv == \A c \in Calls : OutcomeAt(c)

(* Frames answer recorded commands, with the one outcome.                  *)
Says(f) ==
    IF f.kind = "run"
      THEN /\ cmd[f.call].run # "none"
           /\ f.call \notin detached => f.out \in {"busy", node[f.call].out}
      ELSE cmd[f.call].cancel # "none"
WireInv == \A i \in DOMAIN wire : Says(wire[i])
RecvInv == \A i \in DOMAIN recv : Says(recv[i])

(* A request that is about to say completed, and one that said so, has it  *)
(* from a tool of Core itself or from the one outcome, and the call was    *)
(* not cancelled.                                                          *)
Stands(c) == (cmd[c].run = "none" \/ node[c].out = "completed") /\ cmd[c].cancel = "none"
VerdictAt(c) ==
    /\ step[c].at = "finish" =>
          /\ step[c].verdict \in {"completed", "failed"}
          /\ c \notin detached /\ step[c].verdict = "completed" => Stands(c)
    /\ told[c] = "completed" =>
          step[c].at = "over" /\ (c \notin detached => call[c] = "completed" /\ Stands(c))
VerdictInv == \A c \in Calls : VerdictAt(c)

CallInv ==
    TypeInv /\ RecordedInv /\ InboxInv /\ OutcomeInv /\ WireInv /\ RecvInv /\ VerdictInv

-----------------------------------------------------------------------------
(* Initially nothing was called.                                           *)
LEMMA CallInit == Init => CallInv
<1> SUFFICES ASSUME Init PROVE CallInv
    OBVIOUS
<1>1. TypeInv
    BY DEF Init, TypeInv, CallState, Progress, Steps, Early, Commands, Execution, Outcomes, Ends
<1>2. recv = <<>> /\ wire = <<>> /\ inbox = {} /\ DOMAIN recv = {} /\ DOMAIN wire = {}
    BY DEF Init
<1>3. WireInv /\ RecvInv
    BY <1>2 DEF WireInv, RecvInv
<1>4. ASSUME NEW c \in Calls PROVE RecordedAt(c) /\ InboxAt(c) /\ OutcomeAt(c) /\ VerdictAt(c)
    BY <1>2 DEF Init, RecordedAt, InboxAt, OutcomeAt, VerdictAt, Decided, Ends, Early
<1> QED BY <1>1, <1>3, <1>4 DEF CallInv, RecordedInv, InboxInv, OutcomeInv, VerdictInv

(* The fields of the records of a call.                                    *)
LEMMA Fields ==
    ASSUME TypeInv, NEW c \in Calls
    PROVE  /\ call[c] \in CallState /\ told[c] \in CallState
           /\ step[c].at \in Steps /\ step[c].verdict \in {"none", "completed", "failed"}
           /\ cmd[c].run \in {"none", "open"} \cup Outcomes
           /\ cmd[c].cancel \in {"none", "open", "done"}
           /\ node[c].running \in BOOLEAN /\ node[c].out \in {"none"} \cup Ends
<1>1. step[c] \in Progress /\ cmd[c] \in Commands /\ node[c] \in Execution
    BY DEF TypeInv
<1>2. call[c] \in CallState /\ told[c] \in CallState
    BY DEF TypeInv
<1> QED BY <1>1, <1>2 DEF Progress, Commands, Execution

(* The fields of a frame.                                                  *)
LEMMA FrameFields ==
    ASSUME NEW f \in Frames
    PROVE  f.call \in Calls /\ f.kind \in {"run", "cancel"} /\ f.out \in Outcomes
    BY DEF Frames

(* The helpers that write one field change nothing else.                   *)
LEMMA AtEffect ==
    ASSUME TypeInv, NEW c \in Calls, NEW s \in Steps, At(c, s)
    PROVE  /\ step' \in [Calls -> Progress]
           /\ step'[c].at = s /\ step'[c].verdict = step[c].verdict
           /\ \A d \in Calls \ {c} : step'[d] = step[d]
<1>1. step \in [Calls -> Progress] /\ step[c] \in Progress
    BY DEF TypeInv
<1>2. step' = [step EXCEPT ![c] = [step[c] EXCEPT !.at = s]]
    BY <1>1 DEF At
<1>3. /\ [step[c] EXCEPT !.at = s] \in Progress
      /\ [step[c] EXCEPT !.at = s].at = s /\ [step[c] EXCEPT !.at = s].verdict = step[c].verdict
    BY <1>1 DEF Progress
<1> QED BY <1>1, <1>2, <1>3

(* A verdict changes the step of one call.                                 *)
LEMMA VerdictEffect ==
    ASSUME TypeInv, NEW c \in Calls, NEW v \in {"completed", "failed"}, Verdict(c, v)
    PROVE  /\ step' \in [Calls -> Progress]
           /\ step'[c].at = "finish" /\ step'[c].verdict = v
           /\ \A d \in Calls \ {c} : step'[d] = step[d]
<1>1. [at |-> "finish", verdict |-> v] \in Progress
    BY DEF Progress, Steps
<1> QED BY <1>1 DEF Verdict, TypeInv

(* Writing the state of a command changes only that.                       *)
LEMMA RunEffect ==
    ASSUME TypeInv, NEW c \in Calls, NEW o \in {"none", "open"} \cup Outcomes,
           cmd' = [cmd EXCEPT ![c].run = o]
    PROVE  /\ cmd' \in [Calls -> Commands]
           /\ cmd'[c].run = o /\ cmd'[c].cancel = cmd[c].cancel
           /\ \A d \in Calls \ {c} : cmd'[d] = cmd[d]
<1>1. cmd \in [Calls -> Commands] /\ cmd[c] \in Commands
    BY DEF TypeInv
<1>2. cmd' = [cmd EXCEPT ![c] = [cmd[c] EXCEPT !.run = o]]
    BY <1>1
<1>3. /\ [cmd[c] EXCEPT !.run = o] \in Commands
      /\ [cmd[c] EXCEPT !.run = o].run = o /\ [cmd[c] EXCEPT !.run = o].cancel = cmd[c].cancel
    BY <1>1 DEF Commands
<1> QED BY <1>1, <1>2, <1>3

(* Writing the state of a cancellation changes only that.                  *)
LEMMA CancelEffect ==
    ASSUME TypeInv, NEW c \in Calls, NEW o \in {"open", "done"},
           cmd' = [cmd EXCEPT ![c].cancel = o]
    PROVE  /\ cmd' \in [Calls -> Commands]
           /\ cmd'[c].cancel = o /\ cmd'[c].run = cmd[c].run
           /\ \A d \in Calls \ {c} : cmd'[d] = cmd[d]
<1>1. cmd \in [Calls -> Commands] /\ cmd[c] \in Commands
    BY DEF TypeInv
<1>2. cmd' = [cmd EXCEPT ![c] = [cmd[c] EXCEPT !.cancel = o]]
    BY <1>1
<1>3. /\ [cmd[c] EXCEPT !.cancel = o] \in Commands
      /\ [cmd[c] EXCEPT !.cancel = o].cancel = o /\ [cmd[c] EXCEPT !.cancel = o].run = cmd[c].run
    BY <1>1 DEF Commands
<1> QED BY <1>1, <1>2, <1>3

-----------------------------------------------------------------------------
(* What was recorded stays recorded, and an outcome stays as long as no    *)
(* execution is left behind.                                               *)
Kept ==
    \A d \in Calls :
        /\ cmd'[d].run = "none" => cmd[d].run = "none"
        /\ cmd'[d].cancel = "none" => cmd[d].cancel = "none"
        /\ d \notin detached' =>
              d \notin detached /\ (node'[d].out = node[d].out \/ node[d].out = "none")

(* A frame that was true is still true then.                               *)
LEMMA StillSays ==
    ASSUME Kept, NEW f \in Frames, Says(f)
    PROVE  Says(f)'
<1>1. f.call \in Calls /\ f.out \in Outcomes /\ "none" \notin Outcomes
    BY FrameFields DEF Outcomes
<1> QED BY <1>1 DEF Kept, Says

(* And so are the frames on the way, and the one being worked on.          *)
LEMMA StillTrue ==
    ASSUME CallInv, Kept
    PROVE  /\ UNCHANGED wire => WireInv'
           /\ UNCHANGED recv => RecvInv'
<1>a. WireInv /\ RecvInv /\ wire \in Seq(Frames) /\ recv \in Seq(Frames)
    BY DEF CallInv, TypeInv
<1>1. \A i \in DOMAIN wire : wire[i] \in Frames
    BY <1>a
<1>2. \A i \in DOMAIN recv : recv[i] \in Frames
    BY <1>a
<1>3. \A f \in Frames : Says(f) => Says(f)'
    BY StillSays
<1>4. ASSUME UNCHANGED wire PROVE WireInv'
    BY <1>a, <1>1, <1>3, <1>4 DEF WireInv
<1>5. ASSUME UNCHANGED recv PROVE RecvInv'
    BY <1>a, <1>2, <1>3, <1>5 DEF RecvInv
<1> QED BY <1>4, <1>5

(* Commands are dispatched when they are open.                             *)
LEMMA DispatchEffect ==
    ASSUME NEW cmds \in [Calls -> Commands], NEW taken, NEW anew,
           dispatch_pending_commands(cmds, taken, anew),
           \A d \in Calls : /\ Command("run", d) \in taken => cmds[d].run # "none"
                            /\ Command("cancel", d) \in taken => cmds[d].cancel # "none"
    PROVE  cmd' = cmds /\ InboxInv'
<1>1. PICK sent \in SUBSET Unresolved(cmds) : cmd' = cmds /\ inbox' = taken \cup sent
    BY DEF dispatch_pending_commands
<1>2. ASSUME NEW d \in Calls
      PROVE  /\ Command("run", d) \in sent => cmds[d].run = "open"
             /\ Command("cancel", d) \in sent => cmds[d].cancel = "open"
    BY <1>1 DEF Unresolved, Command
<1>3. \A d \in Calls : InboxAt(d)'
    BY <1>1, <1>2 DEF InboxAt, Command
<1> QED BY <1>1, <1>3 DEF InboxInv

(* A step of one request keeps the invariant if it does for that call.     *)
LEMMA OneRequest ==
    ASSUME CallInv, NEW c \in Calls, UNCHANGED <<recv, wire, nodeVars>>,
           call' \in [Calls -> CallState], step' \in [Calls -> Progress],
           told' \in [Calls -> CallState], cmd' \in [Calls -> Commands],
           \A d \in Calls \ {c} : /\ call'[d] = call[d] /\ step'[d] = step[d]
                                  /\ told'[d] = told[d] /\ cmd'[d] = cmd[d],
           \/ cmd'[c].run = cmd[c].run
           \/ cmd[c].run = "none" /\ cmd'[c].run = "open",
           cmd'[c].cancel = cmd[c].cancel \/ cmd'[c].cancel # "none",
           InboxInv', RecordedAt(c)', VerdictAt(c)'
    PROVE  CallInv'
<1>a. TypeInv /\ RecordedInv /\ OutcomeInv /\ VerdictInv /\ UNCHANGED <<node, stray, detached>>
    BY DEF CallInv, nodeVars
<1>1. Kept
    BY <1>a DEF Kept
<1>2. ASSUME NEW d \in Calls, d # c PROVE RecordedAt(d)' /\ VerdictAt(d)'
    BY <1>2, <1>a DEF RecordedInv, VerdictInv, RecordedAt, VerdictAt, Stands
<1>3. RecordedInv' /\ VerdictInv'
    BY <1>2 DEF RecordedInv, VerdictInv
<1>4. TypeInv'
    BY <1>a DEF TypeInv
<1>5. OutcomeInv'
    BY <1>a DEF OutcomeInv, OutcomeAt, Decided, Ends
<1> QED BY <1>1, <1>3, <1>4, <1>5, StillTrue DEF CallInv

(* A step that leaves the commands alone keeps what the Node may take.     *)
LEMMA InboxStays ==
    ASSUME CallInv, UNCHANGED <<cmd, inbox>>
    PROVE  InboxInv'
    BY DEF CallInv, InboxInv, InboxAt

(* A call begins, is routed or answered by a tool of Core itself: it has   *)
(* no command yet.                                                         *)
LEMMA BeginSteps ==
    ASSUME CallInv, NEW c \in Calls, BeginCall(c) \/ StartCall(c) \/ RouteNative(c) \/ RouteCall(c)
    PROVE  CallInv'
<1>a. TypeInv /\ RecordedAt(c) /\ VerdictAt(c)
    BY DEF CallInv, RecordedInv, VerdictInv
<1>b. UNCHANGED <<recv, wire, nodeVars, cmd, inbox>>
    BY DEF BeginCall, StartCall, RouteNative, RouteCall, linkVars
<1>c. call \in [Calls -> CallState] /\ told \in [Calls -> CallState] /\ cmd \in [Calls -> Commands]
    BY <1>a DEF TypeInv
<1>d. step[c].at \in Early /\ cmd[c].run = "none" /\ cmd[c].cancel = "none" /\ told[c] # "completed"
    BY <1>a DEF BeginCall, StartCall, RouteNative, RouteCall, RecordedAt, Early
<1>1. /\ step' \in [Calls -> Progress]
      /\ \A d \in Calls \ {c} : step'[d] = step[d]
      /\ \/ step'[c].at \in {"authorized", "over", "route", "record"}
         \/ step'[c].at = "finish" /\ step'[c].verdict \in {"completed", "failed"}
    <2>1. \/ \E s \in {"authorized", "over", "route", "record"} : At(c, s)
          \/ \E v \in {"completed", "failed"} : Verdict(c, v)
        BY DEF BeginCall, StartCall, RouteNative, RouteCall
    <2>2. CASE \E s \in {"authorized", "over", "route", "record"} : At(c, s)
        BY <1>a, <2>2, AtEffect DEF Steps, Early
    <2>3. CASE \E v \in {"completed", "failed"} : Verdict(c, v)
        BY <1>a, <2>3, VerdictEffect
    <2> QED BY <2>1, <2>2, <2>3
<1>2. \/ call' = call
      \/ \E x \in {"requested", "denied", "approval_required", "started"} : call' = [call EXCEPT ![c] = x]
    BY DEF BeginCall, StartCall, RouteNative, RouteCall
<1>3. \/ told' = told
      \/ \E x \in {"denied", "approval_required"} : told' = [told EXCEPT ![c] = x]
    BY DEF BeginCall, StartCall, RouteNative, RouteCall
<1>4. /\ call' \in [Calls -> CallState] /\ \A d \in Calls \ {c} : call'[d] = call[d]
      /\ call'[c] # "none"
    <2>1. call[c] # "none" \/ BeginCall(c)
        BY <1>a DEF StartCall, RouteNative, RouteCall, RecordedAt
    <2>2. BeginCall(c) => call' # call
        BY <1>c DEF BeginCall
    <2> QED BY <1>2, <1>c, <2>1, <2>2 DEF CallState
<1>5. /\ told' \in [Calls -> CallState] /\ \A d \in Calls \ {c} : told'[d] = told[d]
      /\ told'[c] # "completed"
    BY <1>3, <1>c, <1>d DEF CallState
<1>6. RecordedAt(c)' /\ VerdictAt(c)'
    BY <1>b, <1>d, <1>1, <1>4, <1>5 DEF RecordedAt, VerdictAt, Stands
<1>7. InboxInv'
    BY <1>b, InboxStays
<1> QED BY <1>b, <1>c, <1>1, <1>4, <1>5, <1>6, <1>7, OneRequest

(* The command and its cancellation are recorded, the wait ends, and the   *)
(* verdict is told: it says completed only of an outcome that is stored,   *)
(* and a request that cancels says that the call failed.                   *)
LEMMA WaitSteps ==
    ASSUME CallInv, NEW c \in Calls,
           RecordCall(c) \/ TimeOut(c) \/ LookUp(c) \/ DispatchCancel(c) \/ FinishCall(c)
    PROVE  CallInv'
<1>a. TypeInv /\ RecordedAt(c) /\ VerdictAt(c)
    BY DEF CallInv, RecordedInv, VerdictInv
<1>b. UNCHANGED <<recv, wire, nodeVars>>
    BY DEF RecordCall, TimeOut, LookUp, DispatchCancel, FinishCall, linkVars
<1>e. InboxInv /\ OutcomeAt(c)
    BY DEF CallInv, OutcomeInv
<1>f. TimeOut(c) \/ LookUp(c) \/ FinishCall(c) => InboxInv'
    <2>1. TimeOut(c) \/ LookUp(c) \/ FinishCall(c) => UNCHANGED <<cmd, inbox>>
        BY DEF TimeOut, LookUp, FinishCall, linkVars
    <2> QED BY <2>1, InboxStays
<1>c. call \in [Calls -> CallState] /\ told \in [Calls -> CallState] /\ cmd \in [Calls -> Commands]
    BY <1>a DEF TypeInv
<1>d. call[c] # "none"
    BY <1>a DEF RecordCall, TimeOut, LookUp, DispatchCancel, FinishCall, RecordedAt
<1>1. CASE RecordCall(c)
    <2> DEFINE cmds == [cmd EXCEPT ![c].run = "open"]
    <2>6. cmds \in [Calls -> Commands] /\ \A d \in Calls : cmds[d].cancel = cmd[d].cancel
                                          /\ (cmds[d].run = cmd[d].run \/ cmds[d].run = "open")
        BY <1>c DEF Commands
    <2>7. dispatch_pending_commands(cmds, inbox, {c})
        BY <1>1 DEF RecordCall
    <2> HIDE DEF cmds
    <2>8. cmd' = cmds /\ InboxInv'
        BY <1>e, <2>6, <2>7, DispatchEffect DEF InboxInv, InboxAt
    <2>1. At(c, "wait") /\ cmd' = [cmd EXCEPT ![c].run = "open"] /\ UNCHANGED <<call, told>>
        BY <1>1, <2>8 DEF RecordCall, cmds
    <2>2. /\ cmd[c].run = "none" /\ cmd[c].cancel = "none" /\ told[c] # "completed"
        BY <1>1, <1>a DEF RecordCall, RecordedAt, Early
    <2>3. /\ step' \in [Calls -> Progress] /\ step'[c].at = "wait"
          /\ \A d \in Calls \ {c} : step'[d] = step[d]
        BY <1>a, <2>1, AtEffect DEF Steps
    <2>4. /\ cmd' \in [Calls -> Commands] /\ cmd'[c].run = "open" /\ cmd'[c].cancel = cmd[c].cancel
          /\ \A d \in Calls \ {c} : cmd'[d] = cmd[d]
        BY <1>a, <2>1, RunEffect
    <2>5. RecordedAt(c)' /\ VerdictAt(c)'
        BY <1>d, <2>1, <2>2, <2>3, <2>4 DEF RecordedAt, VerdictAt, Early
    <2> QED BY <1>b, <1>c, <2>1, <2>2, <2>3, <2>4, <2>5, <2>8, OneRequest
<1>2. CASE TimeOut(c)
    <2>1. At(c, "recheck") /\ UNCHANGED <<call, told, cmd>> /\ step[c].at = "wait"
        BY <1>2 DEF TimeOut
    <2>2. /\ step' \in [Calls -> Progress] /\ step'[c].at = "recheck"
          /\ \A d \in Calls \ {c} : step'[d] = step[d]
        BY <1>a, <2>1, AtEffect DEF Steps
    <2>3. RecordedAt(c)' /\ VerdictAt(c)'
        BY <1>a, <1>d, <2>1, <2>2 DEF RecordedAt, VerdictAt, Early
    <2> QED BY <1>b, <1>c, <1>f, <1>2, <2>1, <2>2, <2>3, OneRequest
<1>3. CASE LookUp(c)
    <2>1. UNCHANGED <<call, told, cmd>> /\ step[c].at = "recheck"
        BY <1>3 DEF LookUp
    <2>2. told[c] # "completed" /\ cmd[c].cancel = "none"
        BY <1>a, <2>1 DEF VerdictAt, RecordedAt, TypeInv, Commands
    <2>3. CASE cmd[c].run \in Outcomes
        <3>1. Verdict(c, Answer(cmd[c].run))
            BY <1>3, <2>3 DEF LookUp
        <3>2. Answer(cmd[c].run) \in {"completed", "failed"}
            BY DEF Answer
        <3>3. /\ step' \in [Calls -> Progress] /\ step'[c].at = "finish"
              /\ step'[c].verdict = Answer(cmd[c].run)
              /\ \A d \in Calls \ {c} : step'[d] = step[d]
            BY <1>a, <3>1, <3>2, VerdictEffect
        <3>4. RecordedAt(c)' /\ VerdictAt(c)'
            <4>1. c \notin detached /\ Answer(cmd[c].run) = "completed" => node[c].out = "completed"
                BY <1>e, <2>3 DEF OutcomeAt, Decided, Ends, Answer
            <4>2. UNCHANGED <<node, detached>>
                BY <1>b DEF nodeVars
            <4> QED BY <1>d, <2>1, <2>2, <3>2, <3>3, <4>1, <4>2 DEF RecordedAt, VerdictAt, Stands, Early
        <3> QED BY <1>b, <1>c, <1>f, <1>3, <2>1, <3>3, <3>4, OneRequest
    <2>4. CASE cmd[c].run \notin Outcomes
        <3>1. At(c, "cancel")
            BY <1>3, <2>4 DEF LookUp
        <3>2. /\ step' \in [Calls -> Progress] /\ step'[c].at = "cancel"
              /\ \A d \in Calls \ {c} : step'[d] = step[d]
            BY <1>a, <3>1, AtEffect DEF Steps
        <3>3. RecordedAt(c)' /\ VerdictAt(c)'
            BY <1>d, <2>1, <2>2, <3>2 DEF RecordedAt, VerdictAt, Early
        <3> QED BY <1>b, <1>c, <1>f, <1>3, <2>1, <3>2, <3>3, OneRequest
    <2> QED BY <2>3, <2>4
<1>4. CASE DispatchCancel(c)
    <2> DEFINE cmds == [cmd EXCEPT ![c].cancel = "open"]
    <2>6. cmds \in [Calls -> Commands] /\ \A d \in Calls : cmds[d].run = cmd[d].run
                                          /\ (cmds[d].cancel = cmd[d].cancel \/ cmds[d].cancel = "open")
        BY <1>c DEF Commands
    <2>7. dispatch_pending_commands(cmds, inbox, {})
        BY <1>4 DEF DispatchCancel
    <2> HIDE DEF cmds
    <2>8. cmd' = cmds /\ InboxInv'
        BY <1>e, <2>6, <2>7, DispatchEffect DEF InboxInv, InboxAt
    <2>1. /\ Verdict(c, "failed") /\ cmd' = [cmd EXCEPT ![c].cancel = "open"]
          /\ UNCHANGED <<call, told>> /\ step[c].at = "cancel"
        BY <1>4, <2>8 DEF DispatchCancel, cmds
    <2>2. /\ step' \in [Calls -> Progress] /\ step'[c].at = "finish" /\ step'[c].verdict = "failed"
          /\ \A d \in Calls \ {c} : step'[d] = step[d]
        BY <1>a, <2>1, VerdictEffect
    <2>3. /\ cmd' \in [Calls -> Commands] /\ cmd'[c].cancel = "open" /\ cmd'[c].run = cmd[c].run
          /\ \A d \in Calls \ {c} : cmd'[d] = cmd[d]
        BY <1>a, <2>1, CancelEffect
    <2>4. RecordedAt(c)' /\ VerdictAt(c)'
        BY <1>a, <1>d, <2>1, <2>2, <2>3 DEF RecordedAt, VerdictAt, Early
    <2> QED BY <1>b, <1>c, <2>1, <2>2, <2>3, <2>4, <2>8, OneRequest
<1>5. CASE FinishCall(c)
    <2> DEFINE v == step[c].verdict
    <2>1. /\ At(c, "over") /\ call' = [call EXCEPT ![c] = v] /\ told' = [told EXCEPT ![c] = v]
          /\ UNCHANGED cmd /\ step[c].at = "finish"
        BY <1>5 DEF FinishCall
    <2>2. /\ step' \in [Calls -> Progress] /\ step'[c].at = "over"
          /\ \A d \in Calls \ {c} : step'[d] = step[d]
        BY <1>a, <2>1, AtEffect DEF Steps
    <2>3. v \in {"completed", "failed"} /\ v \in CallState
        BY <1>a, <2>1 DEF VerdictAt, CallState, Outcomes
    <2>4. RecordedAt(c)' /\ VerdictAt(c)'
        <3>1. UNCHANGED <<node, detached>>
            BY <1>b DEF nodeVars
        <3> QED BY <1>a, <1>c, <2>1, <2>2, <2>3, <3>1 DEF RecordedAt, VerdictAt, Stands, Early
    <2>5. /\ call' \in [Calls -> CallState] /\ told' \in [Calls -> CallState]
          /\ \A d \in Calls \ {c} : call'[d] = call[d] /\ told'[d] = told[d]
        BY <1>c, <2>1, <2>3
    <2> QED BY <1>b, <1>c, <1>f, <1>5, <2>1, <2>2, <2>4, <2>5, OneRequest
<1> QED BY <1>1, <1>2, <1>3, <1>4, <1>5

-----------------------------------------------------------------------------
(* The read loop takes a frame off the wire: it stores it, or refuses it.  *)
LEMMA StoreStep == ASSUME CallInv, StoreResult PROVE CallInv'
<1>a. TypeInv /\ RecordedInv /\ InboxInv /\ OutcomeInv /\ WireInv /\ RecvInv /\ VerdictInv
    BY DEF CallInv
<1>b. UNCHANGED <<node, detached, stray, inbox>>
    BY DEF StoreResult, nodeVars
<1>0. PICK rest : rest = Tail(wire)
    OBVIOUS
<1>f. PICK f : f = Head(wire)
    OBVIOUS
<1>1. /\ wire \in Seq(Frames) /\ wire # <<>> /\ wire' = rest
      /\ UNCHANGED <<call, step, told>>
      /\ \/ /\ recv' = <<f>>
            /\ \/ f.kind = "run" /\ cmd' = [cmd EXCEPT ![f.call].run = f.out]
               \/ f.kind # "run" /\ cmd' = [cmd EXCEPT ![f.call].cancel = "done"]
         \/ UNCHANGED <<recv, cmd>>
    BY <1>a, <1>0, <1>f DEF StoreResult, TypeInv
<1>2. /\ f \in Frames /\ rest \in Seq(Frames)
      /\ Len(wire) \in Nat \ {0} /\ DOMAIN wire = 1 .. Len(wire)
      /\ DOMAIN rest = 1 .. Len(wire) - 1
      /\ \A i \in DOMAIN rest : rest[i] = wire[i + 1]
      /\ f = wire[1]
    BY <1>0, <1>f, <1>1, HeadTailProperties
<1>3. Says(f) /\ \A i \in DOMAIN rest : rest[i] \in Frames /\ Says(rest[i])
    <2>1. \A i \in DOMAIN rest : i + 1 \in DOMAIN wire
        BY <1>2
    <2>2. 1 \in DOMAIN wire /\ \A i \in DOMAIN wire : wire[i] \in Frames
        BY <1>1, <1>2
    <2> QED BY <1>a, <1>2, <2>1, <2>2 DEF WireInv
<1>4. f.call \in Calls /\ f.out \in Outcomes /\ f.kind \in {"run", "cancel"}
    BY <1>2, FrameFields
<1>5. Kept => WireInv' /\ (UNCHANGED recv => RecvInv') /\ (recv' = <<f>> => RecvInv')
    <2> SUFFICES ASSUME Kept PROVE WireInv' /\ (UNCHANGED recv => RecvInv') /\ (recv' = <<f>> => RecvInv')
        OBVIOUS
    <2>1. \A i \in DOMAIN rest : Says(rest[i])'
        BY <1>3, StillSays
    <2>2. WireInv'
        BY <1>1, <2>1 DEF WireInv
    <2>3. Says(f)'
        BY <1>2, <1>3, StillSays
    <2>4. recv' = <<f>> => RecvInv'
        BY <2>3 DEF RecvInv
    <2> QED BY <2>2, <2>4, StillTrue
<1>6. CASE recv' = <<f>> /\ f.kind = "run" /\ cmd' = [cmd EXCEPT ![f.call].run = f.out]
    <2> DEFINE c == f.call
    <2>2. /\ cmd' \in [Calls -> Commands] /\ cmd'[c].run = f.out /\ cmd'[c].cancel = cmd[c].cancel
          /\ \A d \in Calls \ {c} : cmd'[d] = cmd[d]
        BY <1>a, <1>4, <1>6, RunEffect
    <2>3. /\ cmd[c].run # "none"
          /\ c \notin detached => f.out \in {"busy", node[c].out}
        BY <1>3, <1>6 DEF Says
    <2>4. f.out # "none" /\ "busy" \notin Ends
        BY <1>4 DEF Outcomes, Ends
    <2> HIDE DEF c
    <2>c. c \in Calls
        BY <1>4 DEF c
    <2>5. Kept
        BY <1>b, <2>2, <2>4, <2>c DEF Kept
    <2>6. \A d \in Calls : InboxAt(d)' /\ OutcomeAt(d)' /\ RecordedAt(d)' /\ VerdictAt(d)'
        <3> SUFFICES ASSUME NEW d \in Calls
                     PROVE  InboxAt(d)' /\ OutcomeAt(d)' /\ RecordedAt(d)' /\ VerdictAt(d)'
            OBVIOUS
        <3>1. InboxAt(d) /\ OutcomeAt(d) /\ RecordedAt(d) /\ VerdictAt(d)
            BY <1>a DEF InboxInv, OutcomeInv, RecordedInv, VerdictInv
        <3>2. CASE d = c
            <4>1. InboxAt(d)'
                BY <1>b, <2>2, <2>4, <3>1, <3>2 DEF InboxAt, Command
            <4>2. OutcomeAt(d)'
                BY <1>b, <2>2, <2>3, <2>4, <3>1, <3>2 DEF OutcomeAt, Decided
            <4>3. RecordedAt(d)'
                BY <1>1, <2>2, <2>3, <3>1, <3>2 DEF RecordedAt
            <4>4. VerdictAt(d)'
                BY <1>1, <1>b, <2>2, <2>3, <3>1, <3>2 DEF VerdictAt, Stands
            <4> QED BY <4>1, <4>2, <4>3, <4>4
        <3>3. CASE d # c
            BY <1>1, <1>b, <2>2, <3>1, <3>3
               DEF InboxAt, Command, OutcomeAt, Decided, RecordedAt, VerdictAt, Stands
        <3> QED BY <3>2, <3>3
    <2>7. TypeInv'
        BY <1>a, <1>b, <1>1, <1>2, <1>6, <2>2 DEF TypeInv
    <2> QED BY <1>5, <1>6, <2>5, <2>6, <2>7
           DEF CallInv, InboxInv, OutcomeInv, RecordedInv, VerdictInv
<1>7. CASE recv' = <<f>> /\ f.kind # "run" /\ cmd' = [cmd EXCEPT ![f.call].cancel = "done"]
    <2>1. cmd[f.call].cancel # "none"
        BY <1>3, <1>7 DEF Says
    <2>2. /\ cmd' \in [Calls -> Commands]
          /\ \A d \in Calls : /\ cmd'[d].run = cmd[d].run
                              /\ cmd'[d].cancel = "none" <=> cmd[d].cancel = "none"
        BY <1>a, <1>4, <1>7, <2>1, CancelEffect
    <2>3. Kept
        BY <1>b, <2>2 DEF Kept
    <2>4. InboxInv' /\ OutcomeInv'
        BY <1>a, <1>b, <2>2 DEF InboxInv, InboxAt, Command, OutcomeInv, OutcomeAt, Decided
    <2>5. RecordedInv' /\ VerdictInv'
        BY <1>a, <1>b, <1>1, <2>2 DEF RecordedInv, RecordedAt, VerdictInv, VerdictAt, Stands
    <2>6. TypeInv'
        BY <1>a, <1>b, <1>1, <1>2, <1>7, <2>2 DEF TypeInv
    <2> QED BY <1>5, <1>7, <2>3, <2>4, <2>5, <2>6 DEF CallInv
<1>8. CASE UNCHANGED <<recv, cmd>>
    <2>1. Kept
        BY <1>b, <1>8 DEF Kept
    <2>2. TypeInv' /\ RecordedInv' /\ VerdictInv'
        BY <1>a, <1>b, <1>1, <1>2, <1>8
           DEF TypeInv, RecordedInv, RecordedAt, VerdictInv, VerdictAt, Stands
    <2>3. InboxInv' /\ OutcomeInv'
        BY <1>a, <1>b, <1>8 DEF InboxInv, InboxAt, OutcomeInv, OutcomeAt, Decided
    <2> QED BY <1>5, <1>8, <2>1, <2>2, <2>3 DEF CallInv
<1> QED BY <1>1, <1>6, <1>7, <1>8

(* What is projected is what the Node reported: a call that stands is      *)
(* completed again or left alone.                                          *)
LEMMA ProjectStep == ASSUME CallInv, ProjectResult PROVE CallInv'
<1>a. TypeInv /\ RecordedInv /\ InboxInv /\ OutcomeInv /\ WireInv /\ RecvInv /\ VerdictInv
    BY DEF CallInv
<1> DEFINE f == recv[1]
<1>1. /\ recv \in Seq(Frames) /\ recv # <<>> /\ recv' = <<[f EXCEPT !.seen = TRUE]>>
      /\ ProjectCall(f) /\ UNCHANGED <<step, told, cmd, wire, inbox, node, stray, detached>>
    BY <1>a DEF ProjectResult, TypeInv, linkVars, nodeVars
<1>2. 1 \in DOMAIN recv /\ f \in Frames
    BY <1>1
<1>3. Says(f)
    BY <1>a, <1>2 DEF RecvInv
<1>4. f.call \in Calls /\ f.out \in Outcomes /\ f.kind \in {"run", "cancel"}
    BY <1>2, FrameFields
<1>5. call' = call \/ (f.out # "busy" /\ call' = [call EXCEPT ![f.call] = f.out])
    BY <1>1 DEF ProjectCall
<1> HIDE DEF f
<1>6. /\ recv' \in Seq(Frames) /\ DOMAIN recv' = {1} /\ recv'[1].call = f.call
      /\ recv'[1].kind = f.kind /\ recv'[1].out = f.out
    <2> DEFINE g == [f EXCEPT !.seen = TRUE]
    <2>1. g \in Frames /\ g.call = f.call /\ g.kind = f.kind /\ g.out = f.out
        BY <1>2 DEF Frames
    <2> HIDE DEF g
    <2>2. recv' = <<g>>
        BY <1>1 DEF g
    <2> QED BY <2>1, <2>2
<1>7. RecvInv'
    BY <1>1, <1>3, <1>6 DEF RecvInv, Says
<1>8. InboxInv' /\ OutcomeInv' /\ WireInv'
    BY <1>a, <1>1 DEF InboxInv, InboxAt, OutcomeInv, OutcomeAt, WireInv, Says, Decided
<1>9. /\ call' \in [Calls -> CallState]
      /\ \A d \in Calls : call'[d] = "none" => call[d] = "none"
      /\ \A d \in Calls : call'[d] = call[d] \/ (d = f.call /\ call'[d] = f.out /\ f.out # "busy")
    BY <1>a, <1>4, <1>5 DEF TypeInv, CallState, Outcomes
<1>10. RecordedInv'
    BY <1>a, <1>1, <1>9 DEF RecordedInv, RecordedAt
<1>11. VerdictInv'
    <2>1. ASSUME Stands(f.call), f.call \notin detached, f.out # "busy" PROVE f.out = "completed"
        BY <1>3, <1>4, <2>1 DEF Stands, Says
    <2> QED BY <1>a, <1>1, <1>9, <2>1 DEF VerdictInv, VerdictAt, Stands
<1> QED BY <1>a, <1>1, <1>6, <1>7, <1>8, <1>9, <1>10, <1>11 DEF CallInv, TypeInv

(* A request that waits takes its verdict from the frame that was stored.  *)
LEMMA NotifyStep == ASSUME CallInv, NotifyWaiter PROVE CallInv'
<1>a. TypeInv /\ RecordedInv /\ InboxInv /\ OutcomeInv /\ WireInv /\ RecvInv /\ VerdictInv
    BY DEF CallInv
<1> DEFINE f == recv[1]
<1> DEFINE c == f.call
<1>1. /\ recv \in Seq(Frames) /\ recv # <<>> /\ recv' = <<>>
      /\ UNCHANGED <<call, told, cmd, wire, inbox, node, stray, detached>>
    BY <1>a DEF NotifyWaiter, TypeInv, linkVars, nodeVars
<1>2. 1 \in DOMAIN recv /\ f \in Frames
    BY <1>1
<1>3. Says(f)
    BY <1>a, <1>2 DEF RecvInv
<1>4. c \in Calls
    BY <1>2, FrameFields
<1>5. \/ step' = step
      \/ f.kind = "run" /\ step[c].at = "wait" /\ Verdict(c, Answer(f.out))
    BY DEF NotifyWaiter
<1>b. f.kind = "run" /\ c \notin detached => f.out \in {"busy", node[c].out}
    BY <1>3 DEF Says
<1> HIDE DEF f, c
<1>6. InboxInv' /\ OutcomeInv' /\ WireInv' /\ RecvInv' /\ recv' \in Seq(Frames)
    BY <1>a, <1>1 DEF InboxInv, InboxAt, OutcomeInv, OutcomeAt, WireInv, Says, Decided, RecvInv
<1>7. CASE step' = step
    BY <1>a, <1>1, <1>6, <1>7 DEF CallInv, TypeInv, RecordedInv, RecordedAt, VerdictInv, VerdictAt, Stands
<1>8. CASE f.kind = "run" /\ step[c].at = "wait" /\ Verdict(c, Answer(f.out))
    <2>1. Answer(f.out) \in {"completed", "failed"}
        BY DEF Answer
    <2>2. /\ step' \in [Calls -> Progress] /\ step'[c].at = "finish"
          /\ step'[c].verdict = Answer(f.out) /\ \A d \in Calls \ {c} : step'[d] = step[d]
        BY <1>a, <1>4, <1>8, <2>1, VerdictEffect
    <2>3. /\ call[c] # "none" /\ cmd[c].cancel = "none" /\ told[c] # "completed"
        BY <1>a, <1>4, <1>8 DEF RecordedInv, RecordedAt, VerdictInv, VerdictAt
    <2>4. RecordedInv'
        BY <1>a, <1>1, <2>2, <2>3 DEF RecordedInv, RecordedAt, Early
    <2>5. ASSUME c \notin detached, Answer(f.out) = "completed" PROVE Stands(c)
        BY <1>b, <1>8, <2>3, <2>5 DEF Answer, Stands
    <2>6. VerdictInv'
        BY <1>a, <1>1, <2>1, <2>2, <2>3, <2>5 DEF VerdictInv, VerdictAt, Stands
    <2> QED BY <1>a, <1>1, <1>6, <2>2, <2>4, <2>6 DEF CallInv, TypeInv
<1> QED BY <1>5, <1>7, <1>8

-----------------------------------------------------------------------------
(* A step of the Node for one call sets its outcome at most once, unless   *)
(* an execution was left behind, and sends at most a true frame.           *)
Sends(f) == wire' = Append(wire, f) /\ Says(f)'

(* Such a step keeps the invariant.                                        *)
LEMMA NodeKeeps ==
    ASSUME CallInv, NEW c \in Calls, UNCHANGED <<call, step, told, cmd, recv, detached>>,
           stray' \subseteq stray, inbox' \subseteq inbox,
           node' \in [Calls -> Execution], \A d \in Calls \ {c} : node'[d] = node[d],
           c \notin detached => node'[c].out = node[c].out \/ node[c].out = "none",
           node'[c].running =>
              cmd[c].run # "none" /\ (c \notin detached => node'[c].out = "none"),
           wire' = wire \/ \E f \in Frames : Sends(f)
    PROVE  CallInv'
<1>a. TypeInv /\ RecordedInv /\ InboxInv /\ OutcomeInv /\ WireInv /\ RecvInv /\ VerdictInv
    BY DEF CallInv
<1>b. /\ wire \in Seq(Frames) /\ \A i \in DOMAIN wire : wire[i] \in Frames
      /\ Len(wire) \in Nat /\ DOMAIN wire = 1 .. Len(wire)
    BY <1>a DEF TypeInv
<1>1. Kept
    BY DEF Kept
<1>2. RecordedInv' /\ VerdictInv' /\ InboxInv'
    BY <1>a DEF RecordedInv, RecordedAt, VerdictInv, VerdictAt, Stands, InboxInv, InboxAt, Command
<1>3. OutcomeInv'
    BY <1>a DEF OutcomeInv, OutcomeAt, Decided, Ends
<1>4. RecvInv'
    BY <1>1, StillTrue
<1>5. WireInv' /\ wire' \in Seq(Frames)
    <2>1. CASE wire' = wire
        BY <1>1, <1>b, <2>1, StillTrue
    <2>2. CASE \E f \in Frames : Sends(f)
        <3>1. PICK f \in Frames : Sends(f)
            BY <2>2
        <3>a. PICK w : w = wire
            OBVIOUS
        <3>b. PICK v : v = Append(w, f)
            OBVIOUS
        <3>c. w \in Seq(Frames) /\ Len(w) \in Nat /\ DOMAIN w = 1 .. Len(w)
            BY <1>b, <3>a
        <3>2. /\ v \in Seq(Frames) /\ DOMAIN v = 1 .. Len(w) + 1
              /\ \A i \in 1 .. Len(w) : v[i] = w[i]
              /\ v[Len(w) + 1] = f
            BY <3>b, <3>c, AppendProperties
        <3>3. wire' = v
            BY <3>a, <3>b, <3>1 DEF Sends
        <3>4. \A i \in DOMAIN w : w[i] \in Frames /\ Says(w[i])
            BY <1>a, <1>b, <3>a DEF WireInv
        <3>5. \A i \in DOMAIN w : Says(w[i])'
            BY <1>1, <3>4, StillSays
        <3>6. \A i \in DOMAIN v : Says(v[i])'
            <4> SUFFICES ASSUME NEW i \in DOMAIN v PROVE Says(v[i])'
                OBVIOUS
            <4>1. CASE i \in 1 .. Len(w)
                BY <3>c, <3>2, <3>5, <4>1
            <4>2. CASE i = Len(w) + 1
                BY <3>1, <3>2, <4>2 DEF Sends
            <4> QED BY <3>2, <3>c, <4>1, <4>2
        <3> QED BY <3>2, <3>3, <3>6 DEF WireInv
    <2> QED BY <2>1, <2>2
<1>6. TypeInv'
    BY <1>a, <1>5 DEF TypeInv
<1> QED BY <1>1, <1>2, <1>3, <1>4, <1>5, <1>6 DEF CallInv

(* The frames of the Node are frames, and true if their command is known   *)
(* and their outcome is the one of the call.                               *)
LEMMA SendEffect ==
    ASSUME NEW c \in Calls, NEW k \in {"run", "cancel"}, NEW o \in Outcomes, Send(c, k, o),
           k = "run" => cmd'[c].run # "none" /\ (c \notin detached' => o \in {"busy", node'[c].out}),
           k = "cancel" => cmd'[c].cancel # "none"
    PROVE  wire' = wire \/ \E f \in Frames : Sends(f)
<1>1. /\ Frame(c, k, o) \in Frames
      /\ Frame(c, k, o).call = c /\ Frame(c, k, o).kind = k /\ Frame(c, k, o).out = o
    BY DEF Frame, Frames
<1>2. Says(Frame(c, k, o))'
    BY <1>1 DEF Says
<1> QED BY <1>1, <1>2 DEF Send, Sends

(* The steps of the Node are such steps.                                   *)
LEMMA NodeSteps ==
    ASSUME CallInv, NEW c \in Calls, NodeStep(c) \/ ReceiveCancel(c) \/ EndStray(c)
    PROVE  CallInv'
<1>a. TypeInv /\ OutcomeAt(c) /\ InboxAt(c) /\ stray \subseteq detached
    BY DEF CallInv, OutcomeInv, InboxInv, TypeInv
<1>b. node \in [Calls -> Execution] /\ node[c] \in Execution
    BY <1>a DEF TypeInv
<1>c. node[c].out \in {"none"} \cup Ends
    BY <1>a, Fields
<1>d. /\ UNCHANGED <<call, step, told, cmd, recv, detached>>
      /\ stray' \subseteq stray /\ inbox' \subseteq inbox
    BY DEF NodeStep, ReceiveExecute, EndExecute, RefuseExecute, ReceiveCancel, EndStray, Take,
           coreVars, nodeVars
<1>e. \A o \in Ends : o \in Outcomes
    BY DEF Ends, Outcomes
<1>f. Command("run", c) \in inbox => cmd[c].run # "none"
    BY <1>a DEF InboxAt
<1>1. CASE ReceiveExecute(c)
    <2>0. cmd[c].run # "none" /\ ~node[c].running
        BY <1>1, <1>f DEF ReceiveExecute, Take
    <2>1. CASE node[c].out # "none" /\ Send(c, "run", node[c].out) /\ UNCHANGED node
        <3>1. node[c].out \in Outcomes
            BY <1>c, <1>e, <2>1
        <3>2. wire' = wire \/ \E f \in Frames : Sends(f)
            BY <1>d, <2>0, <2>1, <3>1, SendEffect
        <3> QED BY <1>b, <1>d, <2>0, <2>1, <3>2, NodeKeeps
    <2>2. CASE /\ node[c].out = "none" /\ UNCHANGED wire
               /\ node' = [node EXCEPT ![c] = [running |-> TRUE, cut |-> FALSE, out |-> "none"]]
        <3>1. [running |-> TRUE, cut |-> FALSE, out |-> "none"] \in Execution
            BY DEF Execution
        <3>2. /\ node' \in [Calls -> Execution] /\ node'[c].out = "none"
              /\ \A d \in Calls \ {c} : node'[d] = node[d]
            BY <1>b, <2>2, <3>1
        <3> QED BY <1>d, <2>0, <2>2, <3>2, NodeKeeps
    <2>3. CASE /\ node[c].out = "none" /\ node' = [node EXCEPT ![c].out = "failed"]
               /\ Send(c, "run", "failed")
        <3>1. node' = [node EXCEPT ![c] = [node[c] EXCEPT !.out = "failed"]]
            BY <1>b, <2>3
        <3>2. /\ [node[c] EXCEPT !.out = "failed"] \in Execution
              /\ [node[c] EXCEPT !.out = "failed"].out = "failed"
              /\ [node[c] EXCEPT !.out = "failed"].running = node[c].running
            BY <1>b DEF Execution, Ends
        <3>3. /\ node' \in [Calls -> Execution] /\ node'[c].out = "failed" /\ ~node'[c].running
              /\ \A d \in Calls \ {c} : node'[d] = node[d]
            BY <1>b, <2>0, <3>1, <3>2
        <3>4. wire' = wire \/ \E f \in Frames : Sends(f)
            <4>1. "failed" \in Outcomes
                BY DEF Outcomes
            <4> QED BY <1>d, <2>0, <2>3, <3>3, <4>1, SendEffect
        <3> QED BY <1>d, <2>3, <3>3, <3>4, NodeKeeps
    <2>4. \/ node[c].out # "none" /\ Send(c, "run", node[c].out) /\ UNCHANGED node
          \/ /\ node[c].out = "none" /\ UNCHANGED wire
             /\ node' = [node EXCEPT ![c] = [running |-> TRUE, cut |-> FALSE, out |-> "none"]]
          \/ /\ node[c].out = "none" /\ node' = [node EXCEPT ![c].out = "failed"]
             /\ Send(c, "run", "failed")
        BY <1>1 DEF ReceiveExecute
    <2> QED BY <2>1, <2>2, <2>3, <2>4
<1>2. CASE EndExecute(c)
    <2>1. PICK o \in Ends :
             /\ node' = [node EXCEPT ![c] = [running |-> FALSE, cut |-> FALSE, out |-> o]]
             /\ Send(c, "run", o)
        BY <1>2 DEF EndExecute, Ends
    <2>2. [running |-> FALSE, cut |-> FALSE, out |-> o] \in Execution
        BY DEF Execution
    <2>3. /\ node' \in [Calls -> Execution] /\ node'[c].out = o /\ ~node'[c].running
          /\ \A d \in Calls \ {c} : node'[d] = node[d]
        BY <1>b, <2>1, <2>2
    <2>4. cmd[c].run # "none" /\ (c \notin detached => node[c].out = "none")
        BY <1>2, <1>a DEF EndExecute, OutcomeAt
    <2>5. wire' = wire \/ \E f \in Frames : Sends(f)
        BY <1>d, <1>e, <2>1, <2>3, <2>4, SendEffect
    <2> QED BY <1>d, <2>3, <2>4, <2>5, NodeKeeps
<1>3. CASE RefuseExecute(c)
    <2>1. UNCHANGED node /\ Send(c, "run", "busy") /\ cmd[c].run # "none"
        BY <1>3, <1>f DEF RefuseExecute, Take, nodeVars
    <2>2. wire' = wire \/ \E f \in Frames : Sends(f)
        <3>1. "busy" \in Outcomes
            BY DEF Outcomes
        <3> QED BY <1>d, <2>1, <3>1, SendEffect
    <2> QED BY <1>a, <1>b, <1>d, <2>1, <2>2, NodeKeeps DEF OutcomeAt
<1>4. CASE ReceiveCancel(c)
    <2>1. /\ node' = [node EXCEPT ![c] = [node[c] EXCEPT !.cut = node[c].running]]
          /\ Send(c, "cancel", "cancelled") /\ Command("cancel", c) \in inbox
        BY <1>4, <1>b DEF ReceiveCancel, Take
    <2>2. /\ [node[c] EXCEPT !.cut = node[c].running] \in Execution
          /\ [node[c] EXCEPT !.cut = node[c].running].out = node[c].out
          /\ [node[c] EXCEPT !.cut = node[c].running].running = node[c].running
        BY <1>b DEF Execution
    <2>3. /\ node' \in [Calls -> Execution] /\ node'[c].out = node[c].out
          /\ node'[c].running = node[c].running
          /\ \A d \in Calls \ {c} : node'[d] = node[d]
        BY <1>b, <2>1, <2>2
    <2>4. wire' = wire \/ \E f \in Frames : Sends(f)
        <3>1. "cancelled" \in Outcomes /\ cmd[c].cancel # "none"
            BY <1>a, <2>1 DEF Outcomes, InboxAt
        <3> QED BY <1>d, <2>1, <3>1, SendEffect
    <2> QED BY <1>a, <1>d, <2>3, <2>4, NodeKeeps DEF OutcomeAt
<1>5. CASE EndStray(c)
    <2>1. PICK o \in Ends : node' = [node EXCEPT ![c] = [node[c] EXCEPT !.out = o]]
        BY <1>5, <1>b DEF EndStray, Ends
    <2>2. /\ [node[c] EXCEPT !.out = o] \in Execution
          /\ [node[c] EXCEPT !.out = o].running = node[c].running
        BY <1>b DEF Execution
    <2>3. /\ node' \in [Calls -> Execution] /\ node'[c].running = node[c].running
          /\ \A d \in Calls \ {c} : node'[d] = node[d]
        BY <1>b, <2>1, <2>2
    <2>4. c \in detached /\ wire' = wire
        BY <1>5, <1>a DEF EndStray
    <2> QED BY <1>a, <1>d, <2>3, <2>4, NodeKeeps DEF OutcomeAt
<1> QED BY <1>1, <1>2, <1>3, <1>4, <1>5 DEF NodeStep

(* Frames are lost, executions are aborted or left behind; what is stored  *)
(* stays, and what is open is dispatched again.                            *)
LEMMA StopSteps == ASSUME CallInv, Reconnect \/ CoreRestart PROVE CallInv'
<1>a. TypeInv /\ RecordedInv /\ OutcomeInv /\ RecvInv /\ VerdictInv
    BY DEF CallInv
<1>1. /\ wire' = <<>> /\ UNCHANGED <<call, told>> /\ (recv' = recv \/ recv' = <<>>)
      /\ node' = [c \in Calls |-> [node[c] EXCEPT !.running = FALSE, !.cut = FALSE]]
      /\ detached \subseteq detached' /\ stray' \subseteq detached'
      /\ dispatch_pending_commands(cmd, {}, Calls)
    BY <1>a DEF Reconnect, CoreRestart, ConnectionEnds, TypeInv
<1>b. cmd' = cmd /\ InboxInv'
    <2>1. cmd \in [Calls -> Commands]
        BY <1>a DEF TypeInv
    <2>2. PICK none : none = {}
        OBVIOUS
    <2>3. dispatch_pending_commands(cmd, none, Calls)
        BY <1>1, <2>2
    <2>4. \A d \in Calls : Command("run", d) \notin none /\ Command("cancel", d) \notin none
        BY <2>2
    <2> QED BY <2>1, <2>3, <2>4, DispatchEffect
<1>2. ASSUME NEW c \in Calls
      PROVE  /\ [node[c] EXCEPT !.running = FALSE, !.cut = FALSE] \in Execution
             /\ [node[c] EXCEPT !.running = FALSE, !.cut = FALSE].out = node[c].out
             /\ [node[c] EXCEPT !.running = FALSE, !.cut = FALSE].running = FALSE
    <2>1. node[c] \in Execution
        BY <1>a DEF TypeInv
    <2> QED BY <2>1 DEF Execution
<1>3. /\ node' \in [Calls -> Execution]
      /\ \A c \in Calls : node'[c].out = node[c].out /\ ~node'[c].running
    BY <1>1, <1>2
<1>4. /\ step' \in [Calls -> Progress]
      /\ \A c \in Calls :
            step'[c] = step[c] \/ (step[c].at # "idle" /\ step'[c].at = "over")
    <2>1. CASE Reconnect
        BY <1>a, <2>1 DEF Reconnect, TypeInv
    <2>2. CASE CoreRestart
        <3>1. [at |-> "over", verdict |-> "none"] \in Progress
            BY DEF Progress, Steps
        <3> QED BY <1>a, <2>2, <3>1 DEF CoreRestart, TypeInv
    <2> QED BY <2>1, <2>2
<1>5. wire' \in Seq(Frames) /\ recv' \in Seq(Frames) /\ DOMAIN wire' = {}
    <2>1. recv \in Seq(Frames) /\ <<>> \in Seq(Frames) /\ DOMAIN <<>> = {}
        BY <1>a DEF TypeInv
    <2> QED BY <1>1, <2>1
<1>6. OutcomeInv'
    BY <1>a, <1>b, <1>1, <1>3 DEF OutcomeInv, OutcomeAt, Decided
<1>7. WireInv'
    BY <1>5 DEF WireInv
<1>8. RecvInv'
    <2>1. CASE recv' = <<>>
        BY <2>1 DEF RecvInv
    <2>2. CASE recv' = recv
        <3>1. Kept
            BY <1>b, <1>1, <1>3 DEF Kept
        <3> QED BY <2>2, <3>1, StillTrue
    <2> QED BY <1>1, <2>1, <2>2
<1>9. RecordedInv'
    BY <1>a, <1>b, <1>1, <1>4 DEF RecordedInv, RecordedAt, Early
<1>10. VerdictInv'
    <2>1. ASSUME NEW c \in Calls PROVE VerdictAt(c)'
        <3>1. VerdictAt(c)
            BY <1>a DEF VerdictInv
        <3>2. /\ cmd'[c] = cmd[c] /\ node'[c].out = node[c].out
              /\ told'[c] = told[c] /\ call'[c] = call[c]
              /\ c \notin detached' => c \notin detached
            BY <1>b, <1>1, <1>3
        <3>3. step'[c] = step[c] \/ step'[c].at = "over"
            BY <1>4
        <3> QED BY <3>1, <3>2, <3>3 DEF VerdictAt, Stands
    <2> QED BY <2>1 DEF VerdictInv
<1> QED BY <1>a, <1>b, <1>1, <1>3, <1>4, <1>5, <1>6, <1>7, <1>8, <1>9, <1>10 DEF CallInv, TypeInv

(* Another command takes what is open along.                               *)
LEMMA RedispatchStep == ASSUME CallInv, Redispatch PROVE CallInv'
<1>a. TypeInv /\ RecordedInv /\ InboxInv /\ OutcomeInv /\ VerdictInv
    BY DEF CallInv
<1>1. /\ dispatch_pending_commands(cmd, inbox, {})
      /\ UNCHANGED <<call, step, told, recv, wire, node, stray, detached>>
    BY DEF Redispatch, nodeVars
<1>2. cmd' = cmd /\ InboxInv'
    <2>1. cmd \in [Calls -> Commands]
        BY <1>a DEF TypeInv
    <2> QED BY <1>a, <1>1, <2>1, DispatchEffect DEF InboxInv, InboxAt
<1>3. Kept
    BY <1>1, <1>2 DEF Kept
<1>4. RecordedInv' /\ OutcomeInv' /\ VerdictInv'
    BY <1>a, <1>1, <1>2 DEF RecordedInv, RecordedAt, OutcomeInv, OutcomeAt, Decided,
       VerdictInv, VerdictAt, Stands
<1>5. TypeInv'
    BY <1>a, <1>1, <1>2 DEF TypeInv
<1> QED BY <1>1, <1>2, <1>3, <1>4, <1>5, StillTrue DEF CallInv

-----------------------------------------------------------------------------
(* The inductive invariant holds throughout.                               *)
LEMMA CallInvariant == Spec => []CallInv
<1>1. CallInv /\ [Next]_vars => CallInv'
    <2> SUFFICES ASSUME CallInv, [Next]_vars PROVE CallInv'
        OBVIOUS
    <2>1. CASE UNCHANGED callVars
        BY <2>1 DEF callVars, coreVars, linkVars, nodeVars, CallInv, TypeInv, RecordedInv, RecordedAt,
           InboxInv, InboxAt, OutcomeInv, OutcomeAt, WireInv, RecvInv, VerdictInv, VerdictAt, Stands,
           Says, Decided
    <2>2. CASE IssueLease \/ RequestStop \/ SessionStops \/ UNCHANGED vars
        BY <2>1, <2>2 DEF IssueLease, RequestStop, SessionStops, vars
    <2>3. CASE \E c \in Calls : \/ BeginCall(c) \/ RequestStep(c) \/ TimeOut(c)
                                \/ NodeStep(c) \/ ReceiveCancel(c) \/ EndStray(c)
        BY <2>3, BeginSteps, WaitSteps, NodeSteps DEF RequestStep
    <2>4. CASE CoreStep
        BY <2>4, StoreStep, ProjectStep, NotifyStep DEF CoreStep
    <2>5. CASE Redispatch \/ Reconnect \/ CoreRestart
        BY <2>5, RedispatchStep, StopSteps
    <2> QED BY <2>2, <2>3, <2>4, <2>5 DEF Next
<1> QED BY <1>1, CallInit, PTL DEF Spec

(* A caller that was told its call completed finds the row completed ever  *)
(* after, for any calls, whatever is repeated, lost, cancelled or          *)
(* restarted, unless a read error left an execution of it behind           *)
(* (execute_external_tool, project_terminal_tooling_event).                *)
THEOREM AnswersStay == Spec => []AnswerStays
<1>1. CallInv => AnswerStays
    BY DEF CallInv, VerdictInv, VerdictAt, AnswerStays
<1> QED BY <1>1, CallInvariant, PTL

(* A call has one outcome, unless a read error left an execution of it     *)
(* behind: what Core stored of its command is what the Node saved, and a   *)
(* frame on the way says the same or that the Node was busy                *)
(* (update_command_result, execute_external_tool on the Node).             *)
THEOREM OneOutcome == Spec => [](OutcomeInv /\ WireInv)
    BY CallInvariant, PTL DEF CallInv
=============================================================================
