----------------------- MODULE CommandDeliveryProofs -----------------------
(***************************************************************************)
(* Proofs about CommandDelivery, for every set of commands, every          *)
(* assignment of kinds and execution keys, every queue capacity and every  *)
(* bound on connections and faults.                                        *)
(***************************************************************************)
EXTENDS CommandDelivery, SequenceTheorems, TLAPS

(* The next-state relation, one action per disjunct.                       *)
LEMMA NextCases ==
    ASSUME Next
    PROVE  \/ \E c \in Commands : \/ RecordCommand(c) \/ UpdatePending(c)
                                  \/ ExpireCommand(c) \/ CancelDeduction(c)
           \/ \E p \in Procs : \/ FetchRows(p) \/ TakeSender(p)
                               \/ MarkDispatched(p)
                               \/ \E c \in Commands : SendRow(p, c)
           \/ \E g \in Conns : \/ ReceiveHello(g) \/ ValidateFrame(g)
                               \/ ApplyAck(g) \/ ApplyResult(g) \/ SocketEnd(g)
                               \/ ReceiveDispatch(g) \/ RejectBusy(g)
                               \/ SpawnTask(g) \/ CloseChannel(g) \/ ReadError(g)
                               \/ \E c \in Commands : BeginTask(g, c)
                               \/ \E j \in jobs[g] :
                                     \/ StartCommand(g, j) \/ PersistOutcome(g, j)
                                     \/ PersistFails(g, j) \/ SendResult(g, j)
           \/ Connect \/ CoreRestart \/ NodeRestart
BY Zenon DEF Next, CoreStep, SocketStep, ChannelStep, JobStep

(* The outcomes the model names are outcomes.                              *)
LEMMA OutcomeTypes ==
    /\ NoOutcome \in Maybe /\ Outcome \subseteq Maybe /\ NoOutcome \notin Outcome
    /\ AccessDenied \in Outcome
    /\ Busy \in Outcome
    /\ \A s \in Terminal : CoreMade(s) \in Outcome
    /\ \A s \in RunStatuses, g \in Conns : Ran(s, g) \in Outcome
BY CommandAssumption, BoundAssumption
   DEF Outcome, NoOutcome, AccessDenied, Busy, CoreMade, Ran, Terminal, Conns, Maybe

(* The frames that are sent are of the type.                               *)
LEMMA FrameTypes ==
    /\ Hello \in Frame
    /\ \A c \in Commands : Ack(c) \in Frame
    /\ \A c \in Commands, out \in Outcome : Result(c, out) \in Frame
BY OutcomeTypes DEF Frame, Hello, Ack, Result

(* The outcomes of a failed attempt are outcomes.                          *)
LEMMA OutcomesType ==
    ASSUME NEW g \in Conns, NEW j \in Job, NEW out \in Outcomes(g, j)
    PROVE  out \in Outcome
BY OutcomeTypes DEF Outcomes

(* What `Sent` and `Refused` leave in the frame queues.                    *)
LEMMA SentType ==
    ASSUME n2c \in [Conns -> Seq(Frame)], NEW g \in Conns,
           NEW frames \in Seq(Frame), Sent(g, frames) \/ Refused(g, frames)
    PROVE  n2c' \in [Conns -> Seq(Frame)]
<1>1. n2c[g] \o frames \in Seq(Frame)
    BY ConcatProperties
<1> QED BY <1>1 DEF Sent, Refused, Written

(* Taking a frame, duplicated or not, leaves frames.                       *)
LEMMA ConsumeType ==
    ASSUME n2c \in [Conns -> Seq(Frame)], NEW g \in Conns, n2c[g] # <<>>
    PROVE  /\ Head(n2c[g]) \in Frame
           /\ Consume(g) => n2c' \in [Conns -> Seq(Frame)]
<1>1. n2c[g] \in Seq(Frame)
    OBVIOUS
<1>2. Head(n2c[g]) \in Frame /\ Tail(n2c[g]) \in Seq(Frame)
    BY <1>1, HeadTailProperties
<1> QED BY <1>2 DEF Consume

(* Moving a connection task to a step leaves a task.                       *)
LEMMA AtType ==
    ASSUME NEW pc \in Steps, NEW rows \in SUBSET Commands,
           NEW chan \in 0 .. MaxConns, NEW sent \in SUBSET Commands
    PROVE  At(pc, rows, chan, sent) \in Task
BY DEF At, Task

(* The tasks written as constants are tasks.                               *)
LEMMA TaskTypes == Idle \in Task /\ Fetch \in Task /\ Apply \in Task
BY BoundAssumption, AtType DEF Idle, Fetch, Apply, Steps

(* What follows a step of a connection task is a task.                     *)
LEMMA AfterType ==
    ASSUME NEW t \in Task, NEW c \in Commands
    PROVE  After(t, c) \in Task
<1>1. t.rows \ {c} \in SUBSET Commands /\ t.chan \in 0 .. MaxConns
    BY DEF Task
<1> QED BY <1>1, AtType, TaskTypes DEF After, Steps

(* The type invariant holds initially.                                     *)
LEMMA InitTypeOK == Init => TypeOK
BY BoundAssumption, OutcomeTypes, TaskTypes DEF Init, TypeOK, States

(* Every action keeps the type invariant.                                  *)
LEMMA NextTypeOK == TypeOK /\ [Next]_vars => TypeOK'
<1> SUFFICES ASSUME TypeOK, [Next]_vars PROVE TypeOK'
    OBVIOUS
<1>0. /\ \A p \in Procs : /\ task[p] \in Task
                          /\ task[p].rows \in SUBSET Commands
                          /\ task[p].chan \in 0 .. MaxConns
                          /\ task[p].sent \in SUBSET Commands
      /\ \A t \in Task : \A p \in Procs : [task EXCEPT ![p] = t] \in [Procs -> Task]
      /\ 0 \in 0 .. MaxConns
    BY BoundAssumption DEF TypeOK, Task
<1>1. ASSUME NEW c \in Commands, RecordCommand(c) PROVE TypeOK'
    <2>1. task' \in [Procs -> Task]
        BY <1>0, <1>1, AtType, TaskTypes DEF RecordCommand, Steps, Procs
    <2> QED BY <1>1, <2>1 DEF RecordCommand, TypeOK, linkVars, nodeVars, States, Pending
<1>2. ASSUME NEW c \in Commands, UpdatePending(c) PROVE TypeOK'
    <2>1. task' \in [Procs -> Task]
        BY <1>0, <1>2, TaskTypes DEF UpdatePending, Procs
    <2> QED
        BY <1>2, <2>1 DEF UpdatePending, update_command_state, TypeOK, linkVars,
                         nodeVars, States, Pending
<1>3. ASSUME NEW c \in Commands, ExpireCommand(c) PROVE TypeOK'
    BY <1>3, OutcomeTypes DEF ExpireCommand, TypeOK, linkVars, nodeVars, States, Terminal
<1>4. ASSUME NEW c \in Commands, CancelDeduction(c) PROVE TypeOK'
    <2>1. task' \in [Procs -> Task]
        BY <1>0, <1>4, TaskTypes DEF CancelDeduction, Procs
    <2>2. cmdState' \in [Commands -> States] /\ resultOf' \in [Commands -> Maybe]
        <3>1. \E d \in Commands :
                 \/ /\ cmdState' = [cmdState EXCEPT ![c] = "recorded", ![d] = "failed"]
                    /\ resultOf' = [resultOf EXCEPT ![d] = CoreMade("failed")]
                 \/ cmdState' = [cmdState EXCEPT ![c] = "recorded"] /\ resultOf' = resultOf
            BY <1>4 DEF CancelDeduction
        <3>2. CoreMade("failed") \in Maybe
            BY OutcomeTypes DEF Terminal
        <3> QED BY <3>1, <3>2 DEF TypeOK, States, Pending, Terminal
    <2> QED BY <1>4, <2>1, <2>2 DEF CancelDeduction, TypeOK, linkVars, nodeVars
<1>5. ASSUME NEW p \in Procs, FetchRows(p) PROVE TypeOK'
    <2>1. {c \in outbox : cmdState[c] \in Pending} \in SUBSET Commands
        BY DEF TypeOK
    <2>2. task' \in [Procs -> Task]
        BY <1>0, <1>5, <2>1, AtType DEF FetchRows, Steps
    <2> QED BY <1>5, <2>2 DEF FetchRows, TypeOK, coreVars, linkVars, nodeVars
<1>6. ASSUME NEW p \in Procs, TakeSender(p) PROVE TypeOK'
    <2>1. task' \in [Procs -> Task]
        BY <1>0, <1>6, AtType, TaskTypes DEF TakeSender, Steps, TypeOK
    <2> QED BY <1>6, <2>1 DEF TakeSender, TypeOK, coreVars, linkVars, nodeVars
<1>7. ASSUME NEW p \in Procs, MarkDispatched(p) PROVE TypeOK'
    <2> PICK c \in task[p].sent : /\ update_command_state(c, "dispatched")
                                  /\ task' = [task EXCEPT ![p] = After(task[p], c)]
        BY <1>7 DEF MarkDispatched
    <2>1. c \in Commands
        BY <1>0
    <2>2. task' \in [Procs -> Task]
        BY <1>0, <2>1, AfterType
    <2> QED
        BY <1>7, <2>1, <2>2 DEF MarkDispatched, update_command_state, TypeOK, linkVars,
                               nodeVars, States, Pending
<1>8. ASSUME NEW p \in Procs, NEW c \in Commands, SendRow(p, c) PROVE TypeOK'
    <2>1. task' \in [Procs -> Task]
        BY <1>0, <1>8, AtType, AfterType DEF SendRow, Steps
    <2>2. c2n' \in [Conns -> Seq(Commands)]
        <3>1. ASSUME NEW h \in Conns PROVE Append(c2n[h], c) \in Seq(Commands)
            BY DEF TypeOK
        <3> DEFINE h == task[p].chan
        <3>2. c2n' = c2n \/ c2n' = [c2n EXCEPT ![h] = Append(@, c)]
            BY <1>8 DEF SendRow
        <3>3. CASE h \in Conns
            BY <3>1, <3>2, <3>3 DEF TypeOK
        <3>4. CASE h \notin Conns
            BY <3>2, <3>4 DEF TypeOK
        <3> QED BY <3>3, <3>4
    <2> QED
        BY <1>8, <2>1, <2>2 DEF SendRow, TypeOK, coreVars, linkVars, nodeVars
<1>9. ASSUME NEW g \in Conns, ReceiveHello(g) PROVE TypeOK'
    <2>1. task' \in [Procs -> Task]
        BY <1>0, <1>9, TaskTypes DEF ReceiveHello, Procs, TypeOK
    <2>2. n2c' \in [Conns -> Seq(Frame)]
        BY <1>9, ConsumeType DEF ReceiveHello, Receiving, TypeOK
    <2>3. active' \in 0 .. MaxConns
        BY <1>9, BoundAssumption DEF ReceiveHello, TypeOK, Conns
    <2> QED
        BY <1>9, <2>1, <2>2, <2>3 DEF ReceiveHello, TypeOK, coreVars, linkVars, nodeVars
<1>10. ASSUME NEW g \in Conns, ValidateFrame(g) PROVE TypeOK'
    <2>1. task' \in [Procs -> Task]
        BY <1>0, <1>10, TaskTypes DEF ValidateFrame, Procs, TypeOK
    <2>2. n2c' \in [Conns -> Seq(Frame)]
        BY <1>10, ConsumeType DEF ValidateFrame, Receiving, TypeOK
    <2> QED BY <1>10, <2>1, <2>2 DEF ValidateFrame, TypeOK, coreVars, linkVars, nodeVars
<1>11. ASSUME NEW g \in Conns, ApplyAck(g) PROVE TypeOK'
    <2>1. Head(n2c[g]) \in Frame /\ n2c' \in [Conns -> Seq(Frame)]
        BY <1>11, ConsumeType DEF ApplyAck, Receiving, TypeOK
    <2>2. task' \in [Procs -> Task]
        BY <1>0, <1>11, TaskTypes DEF ApplyAck, Procs
    <2> QED
        BY <1>11, <2>1, <2>2 DEF ApplyAck, update_command_state, TypeOK, linkVars,
                                nodeVars, States, Pending, Frame
<1>12. ASSUME NEW g \in Conns, ApplyResult(g) PROVE TypeOK'
    <2>1. Head(n2c[g]) \in Frame /\ n2c' \in [Conns -> Seq(Frame)]
        BY <1>12, ConsumeType DEF ApplyResult, Receiving, TypeOK
    <2>2. task' \in [Procs -> Task]
        BY <1>0, <1>12, TaskTypes DEF ApplyResult, Procs
    <2> QED
        <3> DEFINE f == Head(n2c[g])
        <3>1. f.cmd \subseteq Commands /\ f.out \in Outcome /\ f.out.status \in States
            BY <1>12, <2>1 DEF ApplyResult, Receiving, Frame, Outcome, States
        <3>2. PICK c \in f.cmd : update_command_result(c, f.out)
            BY <1>12 DEF ApplyResult
        <3> QED
            BY <1>12, <2>1, <2>2, <3>1, <3>2, OutcomeTypes
               DEF ApplyResult, update_command_result, TypeOK, linkVars, nodeVars
<1>13. ASSUME NEW g \in Conns, SocketEnd(g) PROVE TypeOK'
    BY <1>0, <1>13 DEF SocketEnd, TypeOK, coreVars, nodeVars
<1>14. ASSUME NEW g \in Conns, ReceiveDispatch(g) PROVE TypeOK'
    <2>1. Head(c2n[g]) \in Commands /\ c2n' \in [Conns -> Seq(Commands)]
        BY <1>14 DEF ReceiveDispatch, TypeOK
    <2>2. queue' \in [Conns -> Seq(Commands)]
        BY <1>14, <2>1 DEF ReceiveDispatch, TypeOK
    <2> QED BY <1>14, <2>1, <2>2 DEF ReceiveDispatch, TypeOK, coreVars, linkVars
<1>15. ASSUME NEW g \in Conns, RejectBusy(g) PROVE TypeOK'
    <2>1. Head(c2n[g]) \in Commands /\ c2n' \in [Conns -> Seq(Commands)]
        BY <1>15 DEF RejectBusy, TypeOK
    <2> DEFINE answer == <<Ack(Head(c2n[g])), Result(Head(c2n[g]), Busy)>>
    <2> DEFINE ack == <<Ack(Head(c2n[g]))>>
    <2>2. answer \in Seq(Frame) /\ ack \in Seq(Frame)
        BY <2>1, FrameTypes, OutcomeTypes
    <2>3. Sent(g, answer) \/ Sent(g, ack) \/ Refused(g, ack)
        BY <1>15 DEF RejectBusy
    <2> HIDE DEF answer, ack
    <2>4. n2c' \in [Conns -> Seq(Frame)]
        BY <2>2, <2>3, SentType DEF TypeOK
    <2>5. nodeEnd' \in [Conns -> {"open", "detached", "closed"}]
        BY <1>15 DEF RejectBusy, TypeOK
    <2> QED
        BY <1>15, <2>1, <2>4, <2>5 DEF RejectBusy, TypeOK, coreVars, nodeVars
<1>16. ASSUME NEW g \in Conns, SpawnTask(g) PROVE TypeOK'
    <2>1. Head(queue[g]) \in Commands /\ queue' \in [Conns -> Seq(Commands)]
        BY <1>16 DEF SpawnTask, TypeOK
    <2>2. waiting' \in [Conns -> [Commands -> Nat]]
        BY <1>16, <2>1 DEF SpawnTask, TypeOK
    <2> QED BY <1>16, <2>1, <2>2 DEF SpawnTask, TypeOK, coreVars, linkVars
<1>17. ASSUME NEW g \in Conns, NEW c \in Commands, BeginTask(g, c) PROVE TypeOK'
    <2>1. <<Ack(c)>> \in Seq(Frame)
        BY FrameTypes
    <2>2. n2c' \in [Conns -> Seq(Frame)]
        BY <1>17, <2>1, SentType DEF BeginTask, TypeOK
    <2>3. jobs' \in [Conns -> SUBSET Job]
        <3> DEFINE job == [cmd |-> c, out |-> mem[c],
                           pc |-> IF mem[c] = NoOutcome THEN "start" ELSE "reply"]
        <3>1. job \in Job
            BY DEF TypeOK, Job, Maybe
        <3>2. jobs' = jobs \/ jobs' = [jobs EXCEPT ![g] = @ \cup {job}]
            BY <1>17 DEF BeginTask
        <3> HIDE DEF job
        <3>3. jobs[g] \cup {job} \in SUBSET Job
            BY <3>1 DEF TypeOK
        <3> QED BY <3>2, <3>3 DEF TypeOK
    <2>4. waiting' \in [Conns -> [Commands -> Nat]]
        BY <1>17 DEF BeginTask, TypeOK
    <2> QED
        BY <1>17, <2>2, <2>3, <2>4 DEF BeginTask, TypeOK, coreVars, linkVars
<1>18. ASSUME NEW g \in Conns, NEW j \in jobs[g],
              \/ StartCommand(g, j) \/ PersistOutcome(g, j)
              \/ PersistFails(g, j) \/ SendResult(g, j)
       PROVE  TypeOK'
    <2>1. j \in Job
        BY DEF TypeOK
    <2>2. CASE StartCommand(g, j)
        <3>1. j.cmd \in Commands
            BY <2>1 DEF Job
        <3>2. [cmd |-> j.cmd, pc |-> "running", out |-> NoOutcome] \in Job
            BY <3>1 DEF Job
        <3>3. jobs' \in [Conns -> SUBSET Job]
            BY <2>2, <3>2 DEF StartCommand, Become, TypeOK
        <3>4. execs' \in [Conns -> [Commands -> Nat]]
            BY <2>2, <3>1 DEF StartCommand, TypeOK
        <3> QED BY <2>2, <3>3, <3>4 DEF StartCommand, TypeOK, coreVars, linkVars
    <2>3. CASE PersistOutcome(g, j)
        <3>1. PICK out \in Outcomes(g, j) :
                  /\ mem' = [mem EXCEPT ![j.cmd] = out]
                  /\ disk' = mem'
                  /\ Become(g, j, [cmd |-> j.cmd, pc |-> "reply", out |-> out])
            BY <2>3 DEF PersistOutcome
        <3>2. out \in Outcome /\ j.cmd \in Commands
            BY <2>1, OutcomesType DEF Job
        <3>3. [cmd |-> j.cmd, pc |-> "reply", out |-> out] \in Job
            BY <3>2 DEF Job
        <3>4. jobs' \in [Conns -> SUBSET Job]
            BY <3>1, <3>3 DEF Become, TypeOK
        <3>5. mem' \in [Commands -> Maybe]
            BY <3>1, <3>2, OutcomeTypes DEF TypeOK
        <3> QED
            BY <2>3, <3>1, <3>4, <3>5 DEF PersistOutcome, TypeOK, coreVars, linkVars
    <2>4. CASE PersistFails(g, j)
        <3>1. PICK out \in Outcomes(g, j) : mem' = [mem EXCEPT ![j.cmd] = out]
            BY <2>4 DEF PersistFails
        <3>2. mem' \in [Commands -> Maybe]
            BY <2>1, <3>1, OutcomesType, OutcomeTypes DEF TypeOK
        <3>3. faults' \in [FaultKinds -> Nat]
            BY <2>4 DEF PersistFails, TypeOK, FaultKinds
        <3> QED
            BY <2>4, <3>2, <3>3 DEF PersistFails, Drop, TypeOK, coreVars, linkVars
    <2>5. CASE SendResult(g, j)
        <3>1. <<Result(j.cmd, j.out)>> \in Seq(Frame)
            BY <2>1, <2>5, FrameTypes DEF SendResult, Job
        <3>2. n2c' \in [Conns -> Seq(Frame)]
            BY <2>5, <3>1, SentType DEF SendResult, TypeOK
        <3> QED BY <2>5, <3>2 DEF SendResult, Drop, TypeOK, coreVars, linkVars
    <2> QED BY <1>18, <2>2, <2>3, <2>4, <2>5
<1>19. ASSUME NEW g \in Conns, CloseChannel(g) PROVE TypeOK'
    BY <1>19 DEF CloseChannel, Forget, TypeOK, coreVars
<1>20. ASSUME NEW g \in Conns, ReadError(g) PROVE TypeOK'
    <2>1. nodeEnd' \in [Conns -> {"open", "detached", "closed"}]
        BY <1>20 DEF ReadError, TypeOK
    <2>2. faults' \in [FaultKinds -> Nat]
        BY <1>20 DEF ReadError, TypeOK, FaultKinds
    <2> QED BY <1>20, <2>1, <2>2 DEF ReadError, TypeOK, coreVars, nodeVars
<1>21. CASE Connect
    <2>1. opened + 1 \in Conns /\ opened' \in 0 .. MaxConns
        BY <1>21, BoundAssumption DEF Connect, TypeOK, Conns
    <2>2. <<Hello>> \in Seq(Frame)
        BY FrameTypes
    <2> QED BY <1>21, <2>1, <2>2 DEF Connect, TypeOK, coreVars, nodeVars
<1>22. CASE CoreRestart
    BY <1>0, <1>22, TaskTypes DEF CoreRestart, TypeOK, coreVars, nodeVars, FaultKinds
<1>23. CASE NodeRestart
    BY <1>23 DEF NodeRestart, Forget, TypeOK, coreVars, FaultKinds
<1>24. CASE UNCHANGED vars
    BY <1>24 DEF vars, TypeOK
<1> QED
    BY NextCases, <1>1, <1>2, <1>3, <1>4, <1>5, <1>6, <1>7, <1>8, <1>9, <1>10,
       <1>11, <1>12, <1>13, <1>14, <1>15, <1>16, <1>17, <1>18, <1>19, <1>20,
       <1>21, <1>22, <1>23, <1>24

(* Every variable of the model keeps its type: states, frames and outcomes *)
(* of Core and the Node are always the ones the protocol defines.          *)
THEOREM TypeCorrect == Spec => []TypeOK
BY InitTypeOK, NextTypeOK, PTL DEF Spec

-----------------------------------------------------------------------------
(* No command is lost.  The invariant follows a command from its outbox    *)
(* row through the rows an issuer holds to the frame Core is applying:     *)
(* each of them names recorded commands only.                              *)

Recorded == {c \in Commands : cmdState[c] # "absent"}

RowsRecorded ==
    \A p \in Procs : task[p].rows \subseteq Recorded /\ task[p].sent \subseteq Recorded

PendingRecorded ==
    \A c \in Commands : task[c].pc = "pending" => c \in Recorded

ApplyRecorded ==
    \A g \in Conns : task[g].pc = "apply" =>
        /\ n2c[g] # <<>>
        /\ Head(n2c[g]).cmd \subseteq Recorded

QueueInv ==
    /\ outbox \subseteq Recorded
    /\ RowsRecorded
    /\ PendingRecorded
    /\ ApplyRecorded
    /\ UnresolvedStaysQueued

(* A frame sent by the Node is queued behind the one Core is handling.     *)
LEMMA SentKeepsHead ==
    ASSUME n2c \in [Conns -> Seq(Frame)], NEW g \in Conns, NEW frames \in Seq(Frame),
           Sent(g, frames) \/ Refused(g, frames), NEW h \in Conns, n2c[h] # <<>>
    PROVE  n2c'[h] # <<>> /\ Head(n2c'[h]) = Head(n2c[h])
<1>1. n2c[h] \in Seq(Frame) /\ Len(n2c[h]) > 0
    BY EmptySeq
<1>2. CASE n2c' = n2c
    BY <1>2
<1>3. CASE n2c' = [n2c EXCEPT ![g] = @ \o frames]
    <2>1. CASE h = g
        <3>1. n2c'[h] = n2c[h] \o frames
            BY <1>3, <2>1
        <3>2. /\ n2c[h] \o frames \in Seq(Frame)
              /\ Len(n2c[h] \o frames) = Len(n2c[h]) + Len(frames)
              /\ (n2c[h] \o frames)[1] = n2c[h][1]
            BY <1>1, ConcatProperties
        <3>3. Len(frames) \in Nat
            OBVIOUS
        <3> QED BY <1>1, <3>1, <3>2, <3>3
    <2>2. CASE h # g
        BY <1>3, <2>2
    <2> QED BY <2>1, <2>2
<1> QED BY <1>2, <1>3 DEF Sent, Refused, Written

(* Steps of the Node leave the tables and the tasks of Core alone.         *)
LEMMA NodeKeepsQueue ==
    ASSUME TypeOK, QueueInv, UNCHANGED <<coreVars, task>>,
           \A h \in Conns : n2c[h] # <<>> /\ task[h].pc = "apply" =>
               n2c'[h] # <<>> /\ Head(n2c'[h]).cmd \subseteq Recorded
    PROVE  QueueInv'
BY DEF QueueInv, RowsRecorded, PendingRecorded, ApplyRecorded, UnresolvedStaysQueued,
       Recorded, coreVars

(* A step of Core's process p that keeps the commands table: only the      *)
(* record of p changes, and it names recorded commands.                    *)
LEMMA LoopKeepsQueue ==
    ASSUME TypeOK, QueueInv, UNCHANGED <<coreVars, n2c>>, NEW p \in Procs,
           NEW t, task' = [task EXCEPT ![p] = t],
           t.rows \subseteq Recorded, t.sent \subseteq Recorded,
           t.pc \notin {"pending", "apply"}
    PROVE  QueueInv'
<1>1. \A q \in Procs : task'[q] = IF q = p THEN t ELSE task[q]
    BY DEF TypeOK
<1>2. Recorded' = Recorded /\ Commands \subseteq Procs /\ Conns \subseteq Procs
    BY DEF Recorded, coreVars, Procs
<1> QED
    BY <1>1, <1>2 DEF QueueInv, RowsRecorded, PendingRecorded, ApplyRecorded,
                      UnresolvedStaysQueued, coreVars

(* Moving a task to a step changes its step and nothing else.              *)
LEMMA AtFields ==
    \A pc, rows, chan, sent :
        /\ At(pc, rows, chan, sent).pc = pc
        /\ At(pc, rows, chan, sent).rows = rows
        /\ At(pc, rows, chan, sent).sent = sent
BY DEF At

(* Initially nothing is recorded and nothing queued.                       *)
LEMMA InitQueue == Init => QueueInv
BY AtFields DEF Init, QueueInv, RowsRecorded, PendingRecorded, ApplyRecorded,
       UnresolvedStaysQueued, Recorded, Idle, Procs

(* Every action keeps each unresolved command in the dispatch outbox.      *)
LEMMA NextQueue == TypeOK /\ QueueInv /\ [Next]_vars => QueueInv'
<1> SUFFICES ASSUME TypeOK, QueueInv, [Next]_vars PROVE QueueInv'
    OBVIOUS
<1> USE DEF Procs
<1>0. Commands \subseteq Procs /\ Conns \subseteq Procs /\ Commands \cap Conns = {}
    BY CommandAssumption
<1>1. ASSUME NEW c \in Commands, RecordCommand(c) PROVE QueueInv'
    <2>1. Recorded' = Recorded \cup {c}
        BY <1>1 DEF RecordCommand, Recorded, TypeOK
    <2> DEFINE t == IF KindOf[c] = "workspace" THEN At("pending", {}, 0, {}) ELSE Fetch
    <2>2. /\ task' = [task EXCEPT ![c] = t]
          /\ t.rows = {} /\ t.sent = {} /\ t.pc # "apply"
        BY <1>1, AtFields DEF RecordCommand, Fetch
    <2> HIDE DEF t
    <2>3. \A q \in Procs : task'[q] = IF q = c THEN t ELSE task[q]
        BY <2>2 DEF TypeOK
    <2>4. RowsRecorded' /\ PendingRecorded'
        BY <1>0, <2>1, <2>2, <2>3 DEF QueueInv, RowsRecorded, PendingRecorded
    <2>5. ApplyRecorded'
        BY <1>0, <1>1, <2>1, <2>3 DEF RecordCommand, QueueInv, ApplyRecorded
    <2>6. UnresolvedStaysQueued' /\ (outbox \subseteq Recorded)'
        BY <1>1, <2>1 DEF RecordCommand, QueueInv, UnresolvedStaysQueued, TypeOK
    <2> QED BY <2>4, <2>5, <2>6 DEF QueueInv
<1>2. ASSUME NEW c \in Recorded, NEW s \in Pending, NEW p \in Procs, NEW t,
             update_command_state(c, s), task' = [task EXCEPT ![p] = t],
             t.rows \subseteq Recorded, t.sent \subseteq Recorded,
             t.pc \notin {"pending", "apply"},
             UNCHANGED <<outbox, resultOf>>,
             \A h \in Conns : h # p => n2c'[h] = n2c[h]
      PROVE  QueueInv'
    <2>1. Recorded' = Recorded
        BY <1>2 DEF update_command_state, Recorded, TypeOK, Pending
    <2>2. \A q \in Procs : task'[q] = IF q = p THEN t ELSE task[q]
        BY <1>2 DEF TypeOK
    <2>3. RowsRecorded' /\ PendingRecorded' /\ ApplyRecorded'
        BY <1>0, <1>2, <2>1, <2>2
           DEF QueueInv, RowsRecorded, PendingRecorded, ApplyRecorded
    <2>4. UnresolvedStaysQueued' /\ (outbox \subseteq Recorded)'
        BY <1>2, <2>1 DEF QueueInv, UnresolvedStaysQueued, Recorded
    <2> QED BY <2>3, <2>4 DEF QueueInv
<1>3. ASSUME NEW c \in Commands, UpdatePending(c) PROVE QueueInv'
    <2>1. c \in Recorded
        BY <1>3 DEF UpdatePending, QueueInv, PendingRecorded
    <2>2. Fetch.rows = {} /\ Fetch.sent = {} /\ Fetch.pc = "fetch"
        BY AtFields DEF Fetch
    <2> QED BY <1>2, <1>3, <2>1, <2>2 DEF UpdatePending, Pending
<1>4. ASSUME NEW c \in Commands, ExpireCommand(c) PROVE QueueInv'
    <2>1. Recorded' = Recorded /\ c \in Recorded
        BY <1>4 DEF ExpireCommand, Recorded, TypeOK, Pending
    <2>2. resultOf'[c] # NoOutcome
        BY <1>4, OutcomeTypes DEF ExpireCommand, TypeOK, Terminal
    <2>3. RowsRecorded' /\ PendingRecorded' /\ ApplyRecorded'
        BY <1>4, <2>1 DEF ExpireCommand, QueueInv, RowsRecorded,
                         PendingRecorded, ApplyRecorded
    <2>4. UnresolvedStaysQueued' /\ (outbox \subseteq Recorded)'
        BY <1>4, <2>1, <2>2 DEF ExpireCommand, QueueInv,
                               UnresolvedStaysQueued, TypeOK
    <2> QED BY <2>3, <2>4 DEF QueueInv
<1>5. ASSUME NEW c \in Commands, CancelDeduction(c) PROVE QueueInv'
    <2>1. PICK d \in Commands \ {c} :
              /\ d \in Recorded
              /\ \/ /\ cmdState' = [cmdState EXCEPT ![c] = "recorded", ![d] = "failed"]
                    /\ resultOf' = [resultOf EXCEPT ![d] = CoreMade("failed")]
                 \/ /\ cmdState' = [cmdState EXCEPT ![c] = "recorded"]
                    /\ UNCHANGED resultOf
        BY <1>5 DEF CancelDeduction, Recorded
    <2>2. Recorded' = Recorded \cup {c}
        BY <2>1 DEF Recorded, TypeOK
    <2>3. task' = [task EXCEPT ![c] = Fetch] /\ UNCHANGED n2c /\ outbox' = outbox \cup {c}
        BY <1>5 DEF CancelDeduction
    <2>4. Fetch.rows = {} /\ Fetch.sent = {} /\ Fetch.pc \notin {"pending", "apply"}
        BY AtFields DEF Fetch
    <2>5. \A q \in Procs : task'[q] = IF q = c THEN Fetch ELSE task[q]
        BY <2>3 DEF TypeOK
    <2>6. RowsRecorded' /\ PendingRecorded' /\ ApplyRecorded'
        BY <1>0, <2>2, <2>3, <2>4, <2>5
           DEF QueueInv, RowsRecorded, PendingRecorded, ApplyRecorded
    <2>7. ASSUME NEW e \in Commands, e # c, resultOf'[e] = NoOutcome
          PROVE  resultOf[e] = NoOutcome
        BY <2>1, <2>7, OutcomeTypes DEF TypeOK, Terminal
    <2>8. (outbox \subseteq Recorded)'
        BY <2>2, <2>3 DEF QueueInv
    <2>9. UnresolvedStaysQueued'
        <3> SUFFICES ASSUME NEW e \in Commands, cmdState'[e] # "absent",
                            resultOf'[e] = NoOutcome
                     PROVE  e \in outbox'
            BY DEF UnresolvedStaysQueued
        <3>1. CASE e = c
            BY <2>3, <3>1
        <3>2. CASE e # c
            <4>1. cmdState[e] # "absent"
                BY <2>2, <3>2 DEF Recorded
            <4>2. resultOf[e] = NoOutcome
                BY <2>7, <3>2
            <4> QED BY <2>3, <4>1, <4>2 DEF QueueInv, UnresolvedStaysQueued
        <3> QED BY <3>1, <3>2
    <2> QED BY <2>6, <2>8, <2>9 DEF QueueInv
<1>6. ASSUME NEW p \in Procs, FetchRows(p) PROVE QueueInv'
    <2> DEFINE rows == {c \in outbox : cmdState[c] \in Pending}
               t == At("channel", rows, 0, {})
    <2>1. t.rows \subseteq Recorded /\ t.sent \subseteq Recorded /\ t.pc = "channel"
        BY AtFields DEF QueueInv
    <2>2. task' = [task EXCEPT ![p] = t] /\ UNCHANGED <<coreVars, n2c>>
        BY <1>6 DEF FetchRows
    <2> HIDE DEF t
    <2> QED BY <2>1, <2>2, LoopKeepsQueue
<1>7. ASSUME NEW p \in Procs, TakeSender(p) PROVE QueueInv'
    <2> DEFINE t == IF active = 0 \/ task[p].rows = {} THEN Idle
                    ELSE At("send", task[p].rows, active, {})
    <2>1. /\ t.rows \subseteq Recorded /\ t.sent \subseteq Recorded
          /\ t.pc \notin {"pending", "apply"}
        BY AtFields DEF QueueInv, RowsRecorded, Idle
    <2>2. task' = [task EXCEPT ![p] = t] /\ UNCHANGED <<coreVars, n2c>>
        BY <1>7 DEF TakeSender
    <2> HIDE DEF t
    <2> QED BY <2>1, <2>2, LoopKeepsQueue
<1>8. ASSUME NEW p \in Procs, NEW c
      PROVE  /\ After(task[p], c).rows \subseteq Recorded
             /\ After(task[p], c).sent \subseteq Recorded
             /\ After(task[p], c).pc \notin {"pending", "apply"}
    BY AtFields DEF After, Idle, QueueInv, RowsRecorded
<1>9. ASSUME NEW p \in Procs, NEW c \in Commands, SendRow(p, c) PROVE QueueInv'
    <2>1. UNCHANGED <<coreVars, n2c>>
        BY <1>9 DEF SendRow
    <2>2. PICK t : /\ task' = [task EXCEPT ![p] = t]
                   /\ t.rows \subseteq Recorded /\ t.sent \subseteq Recorded
                   /\ t.pc \notin {"pending", "apply"}
        <3> DEFINE m == At("mark", task[p].rows, task[p].chan, {c})
        <3>1. /\ m.rows \subseteq Recorded /\ m.sent \subseteq Recorded
              /\ m.pc \notin {"pending", "apply"}
            BY <1>9, AtFields DEF SendRow, QueueInv, RowsRecorded
        <3>2. \/ task' = [task EXCEPT ![p] = m]
              \/ task' = [task EXCEPT ![p] = After(task[p], c)]
            BY <1>9 DEF SendRow
        <3> HIDE DEF m
        <3> QED BY <1>8, <3>1, <3>2
    <2> QED BY <2>1, <2>2, LoopKeepsQueue
<1>10. ASSUME NEW p \in Procs, MarkDispatched(p) PROVE QueueInv'
    <2>1. PICK c \in task[p].sent : /\ update_command_state(c, "dispatched")
                                    /\ task' = [task EXCEPT ![p] = After(task[p], c)]
        BY <1>10 DEF MarkDispatched
    <2>2. c \in Recorded
        BY DEF QueueInv, RowsRecorded
    <2>3. UNCHANGED <<outbox, resultOf, n2c>> /\ "dispatched" \in Pending
        BY <1>10 DEF MarkDispatched, Pending
    <2> QED BY <1>2, <1>8, <2>1, <2>2, <2>3
<1>11. ASSUME NEW g \in Conns, Consume(g) PROVE \A h \in Conns : h # g => n2c'[h] = n2c[h]
    BY <1>11 DEF Consume, TypeOK
<1>12. ASSUME NEW g \in Conns, ReceiveHello(g) PROVE QueueInv'
    <2>1. PICK t : /\ task' = [task EXCEPT ![g] = t]
                   /\ t.rows \subseteq Recorded /\ t.sent \subseteq Recorded
                   /\ t.pc \notin {"pending", "apply"}
        <3>1. CASE task' = [task EXCEPT ![g] = Fetch]
            <4>1. Fetch.rows = {} /\ Fetch.sent = {} /\ Fetch.pc = "fetch"
                BY AtFields DEF Fetch
            <4> QED BY <3>1, <4>1
        <3>2. CASE task' = task
            <4>1. task' = [task EXCEPT ![g] = task[g]]
                BY <3>2 DEF TypeOK
            <4> QED BY <1>0, <1>12, <4>1 DEF ReceiveHello, QueueInv, RowsRecorded
        <3> QED BY <1>12, <3>1, <3>2 DEF ReceiveHello
    <2>2. \A q \in Procs : task'[q] = IF q = g THEN t ELSE task[q]
        BY <2>1 DEF TypeOK
    <2>3. Recorded' = Recorded /\ UNCHANGED coreVars
        BY <1>12 DEF ReceiveHello, Recorded, coreVars
    <2> QED
        BY <1>0, <1>11, <1>12, <2>1, <2>2, <2>3
           DEF ReceiveHello, QueueInv, RowsRecorded, PendingRecorded, ApplyRecorded,
               UnresolvedStaysQueued, coreVars
<1>13. ASSUME NEW g \in Conns, ValidateFrame(g) PROVE QueueInv'
    <2>1. Recorded' = Recorded /\ UNCHANGED coreVars
        BY <1>13 DEF ValidateFrame, Recorded, coreVars
    <2>2. n2c[g] # <<>> /\ Head(n2c[g]) \in Frame
        BY <1>13, ConsumeType DEF ValidateFrame, Receiving, TypeOK
    <2>3. CASE /\ Valid(g, Head(n2c[g])) /\ task' = [task EXCEPT ![g] = Apply]
               /\ UNCHANGED n2c
        <3>1. \A q \in Procs : task'[q] = IF q = g THEN Apply ELSE task[q]
            BY <2>3 DEF TypeOK
        <3>2. Apply.rows = {} /\ Apply.sent = {} /\ Apply.pc = "apply"
            BY AtFields DEF Apply
        <3>3. Head(n2c[g]).cmd \subseteq Recorded
            BY <2>2, <2>3 DEF Valid, validate_command_ack, validate_command_result,
                              Recorded, Terminal, Frame
        <3> QED
            BY <1>0, <2>1, <2>2, <2>3, <3>1, <3>2, <3>3
               DEF QueueInv, RowsRecorded, PendingRecorded, ApplyRecorded,
                   UnresolvedStaysQueued, coreVars
    <2>4. CASE Consume(g) /\ UNCHANGED task
        BY <1>11, <1>13, <2>1, <2>4
           DEF ValidateFrame, QueueInv, RowsRecorded, PendingRecorded, ApplyRecorded,
               UnresolvedStaysQueued, coreVars
    <2> QED BY <1>13, <2>3, <2>4 DEF ValidateFrame
<1>14. Idle.rows = {} /\ Idle.sent = {} /\ Idle.pc = "idle"
    BY AtFields DEF Idle
<1>15. ASSUME NEW g \in Conns, ApplyAck(g) PROVE QueueInv'
    <2>1. PICK c \in Head(n2c[g]).cmd : update_command_state(c, "acknowledged")
        BY <1>15 DEF ApplyAck
    <2>2. c \in Recorded
        BY <1>15 DEF ApplyAck, QueueInv, ApplyRecorded
    <2>3. /\ UNCHANGED <<outbox, resultOf>> /\ "acknowledged" \in Pending
          /\ task' = [task EXCEPT ![g] = Idle]
        BY <1>15 DEF ApplyAck, Pending
    <2>4. \A h \in Conns : h # g => n2c'[h] = n2c[h]
        BY <1>11, <1>15 DEF ApplyAck
    <2> QED BY <1>0, <1>2, <1>14, <2>1, <2>2, <2>3, <2>4
<1>16. ASSUME NEW g \in Conns, ApplyResult(g) PROVE QueueInv'
    <2> DEFINE out == Head(n2c[g]).out
    <2>1. PICK c \in Head(n2c[g]).cmd : update_command_result(c, out)
        BY <1>16 DEF ApplyResult
    <2>2. c \in Recorded
        BY <1>16 DEF ApplyResult, QueueInv, ApplyRecorded
    <2>3. out \in Outcome
        BY <1>16, ConsumeType DEF ApplyResult, Receiving, TypeOK, Frame
    <2>4. out # NoOutcome /\ out.status # "absent"
        BY <2>3, OutcomeTypes DEF Outcome, Terminal
    <2> HIDE DEF out
    <2>5. Recorded' = Recorded
        BY <2>1, <2>2, <2>4 DEF update_command_result, Recorded, TypeOK
    <2>6. \A q \in Procs : task'[q] = IF q = g THEN Idle ELSE task[q]
        BY <1>16 DEF ApplyResult, TypeOK
    <2>7. RowsRecorded' /\ PendingRecorded'
        BY <1>0, <1>14, <2>5, <2>6 DEF QueueInv, RowsRecorded, PendingRecorded
    <2>8. ApplyRecorded'
        BY <1>0, <1>11, <1>14, <1>16, <2>5, <2>6 DEF ApplyResult, QueueInv, ApplyRecorded
    <2>9. UnresolvedStaysQueued' /\ (outbox \subseteq Recorded)'
        BY <2>1, <2>2, <2>4, <2>5 DEF update_command_result, QueueInv,
                                     UnresolvedStaysQueued, Recorded, TypeOK
    <2> QED BY <2>7, <2>8, <2>9 DEF QueueInv
<1>17. ASSUME NEW g \in Conns, SocketEnd(g) PROVE QueueInv'
    <2>1. \A h \in Conns : h # g => n2c'[h] = n2c[h]
        BY <1>17 DEF SocketEnd, TypeOK
    <2> QED BY <1>17, <2>1, NodeKeepsQueue DEF SocketEnd, QueueInv, ApplyRecorded
<1>18. ASSUME CoreRestart PROVE QueueInv'
    BY <1>0, <1>14, <1>18 DEF CoreRestart, QueueInv, RowsRecorded, PendingRecorded,
           ApplyRecorded, UnresolvedStaysQueued, Recorded, coreVars
<1>19. ASSUME NEW g \in Conns, NEW frames \in Seq(Frame),
              Sent(g, frames) \/ Refused(g, frames), UNCHANGED <<coreVars, task>>
       PROVE  QueueInv'
    <2>1. \A h \in Conns : n2c[h] # <<>> =>
              n2c'[h] # <<>> /\ Head(n2c'[h]) = Head(n2c[h])
        BY <1>19, SentKeepsHead DEF TypeOK
    <2> QED BY <1>19, <2>1, NodeKeepsQueue DEF QueueInv, ApplyRecorded
<1>20. ASSUME NEW g \in Conns, RejectBusy(g) PROVE QueueInv'
    <2> DEFINE answer == <<Ack(Head(c2n[g])), Result(Head(c2n[g]), Busy)>>
    <2>1. Head(c2n[g]) \in Commands
        BY <1>20 DEF RejectBusy, TypeOK
    <2> DEFINE ack == <<Ack(Head(c2n[g]))>>
    <2>2. answer \in Seq(Frame) /\ ack \in Seq(Frame)
        BY <2>1, FrameTypes, OutcomeTypes
    <2>3. Sent(g, answer) \/ Sent(g, ack) \/ Refused(g, ack)
        BY <1>20 DEF RejectBusy
    <2> HIDE DEF answer, ack
    <2> QED BY <1>19, <1>20, <2>2, <2>3 DEF RejectBusy
<1>21. ASSUME NEW g \in Conns, NEW c \in Commands, BeginTask(g, c) PROVE QueueInv'
    <2>1. <<Ack(c)>> \in Seq(Frame)
        BY FrameTypes
    <2> QED BY <1>19, <1>21, <2>1 DEF BeginTask
<1>22. ASSUME NEW g \in Conns, NEW j \in jobs[g], SendResult(g, j) PROVE QueueInv'
    <2>1. <<Result(j.cmd, j.out)>> \in Seq(Frame)
        <3>1. j \in Job
            BY DEF TypeOK
        <3>2. j.cmd \in Commands /\ j.out \in Outcome
            BY <1>22, <3>1 DEF SendResult, Job
        <3> QED BY <3>2, FrameTypes
    <2> QED BY <1>19, <1>22, <2>1 DEF SendResult
<1>23. ASSUME UNCHANGED <<coreVars, task, n2c>> PROVE QueueInv'
    BY <1>23, NodeKeepsQueue DEF QueueInv, ApplyRecorded
<1>24. ASSUME NEW g \in Conns,
              \/ ReceiveDispatch(g) \/ SpawnTask(g) \/ CloseChannel(g) \/ ReadError(g)
              \/ \E j \in jobs[g] : \/ StartCommand(g, j) \/ PersistOutcome(g, j)
                                    \/ PersistFails(g, j)
       PROVE  QueueInv'
    BY <1>23, <1>24 DEF ReceiveDispatch, SpawnTask, CloseChannel, ReadError,
                        StartCommand, PersistOutcome, PersistFails
<1>25. CASE Connect
    <2>1. opened + 1 \in Conns
        BY <1>25, BoundAssumption DEF Connect, TypeOK, Conns
    <2>2. \A h \in Conns : n2c'[h] = IF h = opened + 1 THEN <<Hello>> ELSE n2c[h]
        BY <1>25, <2>1 DEF Connect, TypeOK
    <2>3. Head(<<Hello>>).cmd = {} /\ <<Hello>> # <<>>
        BY DEF Hello
    <2> QED BY <1>25, <2>2, <2>3, NodeKeepsQueue DEF Connect, QueueInv, ApplyRecorded
<1>26. CASE NodeRestart
    BY <1>23, <1>26 DEF NodeRestart
<1>27. CASE UNCHANGED vars
    BY <1>23, <1>27 DEF vars, coreVars
<1> QED
    BY NextCases, <1>1, <1>3, <1>4, <1>5, <1>6, <1>7, <1>9, <1>10, <1>12, <1>13, <1>15,
       <1>16, <1>17, <1>18, <1>20, <1>21, <1>22, <1>24, <1>25, <1>26, <1>27

(* No command is lost: whatever the interleaving of issuers, sockets, lost *)
(* frames and restarts, a command without a stored result has its          *)
(* dispatch-outbox row and is sent again on the next Hello.                *)
THEOREM NoCommandLost == Spec => []UnresolvedStaysQueued
<1>1. Init => TypeOK /\ QueueInv
    BY InitTypeOK, InitQueue
<1>2. TypeOK /\ QueueInv /\ [Next]_vars => (TypeOK /\ QueueInv)'
    BY NextTypeOK, NextQueue
<1>3. QueueInv => UnresolvedStaysQueued
    BY DEF QueueInv
<1> QED BY <1>1, <1>2, <1>3, PTL DEF Spec

-----------------------------------------------------------------------------
(* One run per connection.  Within the dispatcher of one connection a      *)
(* command that was started is still running under its lock, or has left   *)
(* an outcome in the memory of the state store, which every later snapshot *)
(* sees; once the connection is closed nothing runs there any more.        *)

LockHeldOnce ==
    \A g \in Conns : \A i, j \in jobs[g] : KeyOf[i.cmd] = KeyOf[j.cmd] => i = j

ClosedIsQuiet ==
    \A g \in Conns : nodeEnd[g] = "closed" =>
        /\ queue[g] = <<>>
        /\ \A c \in Commands : waiting[g][c] = 0
        /\ jobs[g] = {}

UnopenedIsClosed ==
    \A g \in Conns : g > opened =>
        nodeEnd[g] = "closed" /\ \A c \in Commands : execs[g][c] = 0

StartIsFirst ==
    \A g \in Conns : \A j \in jobs[g] : j.pc = "start" => execs[g][j.cmd] = 0

RunLeavesTrace ==
    \A g \in Conns, c \in Commands :
        execs[g][c] # 0 =>
            /\ execs[g][c] = 1
            /\ \/ mem[c] # NoOutcome
               \/ \E j \in jobs[g] : j.cmd = c /\ j.pc = "running"
               \/ nodeEnd[g] = "closed"

RunInv ==
    /\ LockHeldOnce
    /\ ClosedIsQuiet
    /\ UnopenedIsClosed
    /\ StartIsFirst
    /\ RunLeavesTrace

(* Initially nothing runs.                                                 *)
LEMMA InitRun == Init => RunInv
BY DEF Init, RunInv, LockHeldOnce, ClosedIsQuiet, UnopenedIsClosed, StartIsFirst,
       RunLeavesTrace

(* Steps that touch no task and no store of the Node, and close nothing.   *)
LEMMA OtherKeepsRun ==
    ASSUME TypeOK, RunInv, UNCHANGED <<jobs, mem, execs>>, opened' \in Nat,
           opened' >= opened,
           \A g \in Conns : nodeEnd[g] = "closed" =>
               nodeEnd'[g] = "closed" \/ (g = opened' /\ opened' # opened),
           \A g \in Conns : nodeEnd'[g] = "closed" => nodeEnd[g] = "closed",
           \A g \in Conns : nodeEnd'[g] = "closed" =>
               queue'[g] = queue[g] /\ waiting'[g] = waiting[g],
           opened' # opened => \A c \in Commands : execs[opened'][c] = 0
    PROVE  RunInv'
<1>1. LockHeldOnce' /\ StartIsFirst'
    BY DEF RunInv, LockHeldOnce, StartIsFirst
<1>2. ClosedIsQuiet'
    BY DEF RunInv, ClosedIsQuiet
<1>3. UnopenedIsClosed'
    BY DEF RunInv, UnopenedIsClosed, TypeOK, Conns
<1>4. RunLeavesTrace'
    BY DEF RunInv, RunLeavesTrace, UnopenedIsClosed
<1> QED BY <1>1, <1>2, <1>3, <1>4 DEF RunInv

(* The fields of the job a worker has.                                     *)
LEMMA JobFacts ==
    ASSUME TypeOK, RunInv, NEW g \in Conns, NEW j \in jobs[g]
    PROVE  /\ nodeEnd[g] # "closed" /\ j \in Job /\ j.cmd \in Commands
           /\ \A i \in jobs[g] : i.cmd = j.cmd => i = j
<1>1. j \in Job
    BY DEF TypeOK
<1>2. j.cmd \in Commands
    BY <1>1 DEF Job
<1>3. nodeEnd[g] # "closed"
    BY DEF RunInv, ClosedIsQuiet
<1>4. \A i \in jobs[g] : i.cmd = j.cmd => i = j
    BY DEF RunInv, LockHeldOnce
<1> QED BY <1>1, <1>2, <1>3, <1>4

(* A task that ends, or goes on to answer, leaves the cache with an entry  *)
(* for a command it has run.                                               *)
LEMMA JobEndKeepsRun ==
    ASSUME TypeOK, RunInv, NEW g \in Conns, NEW j \in jobs[g], NEW rest,
           \A i \in rest : i.cmd = j.cmd /\ i.pc = "reply",
           \A i, k \in rest : i = k,
           jobs' = [jobs EXCEPT ![g] = (jobs[g] \ {j}) \cup rest],
           \A c \in Commands : mem[c] # NoOutcome => mem'[c] # NoOutcome,
           j.pc = "running" => mem'[j.cmd] # NoOutcome,
           UNCHANGED <<opened, nodeEnd, queue, waiting, execs>>
    PROVE  RunInv'
<1>1. \A h \in Conns :
          jobs'[h] = IF h = g THEN (jobs[g] \ {j}) \cup rest ELSE jobs[h]
    BY DEF TypeOK
<1>2. LockHeldOnce'
    BY <1>1 DEF RunInv, LockHeldOnce
<1>3. StartIsFirst' /\ ClosedIsQuiet' /\ UnopenedIsClosed'
    BY JobFacts, <1>1 DEF RunInv, StartIsFirst, ClosedIsQuiet, UnopenedIsClosed
<1>4. RunLeavesTrace'
    BY <1>1 DEF RunInv, RunLeavesTrace
<1> QED BY <1>2, <1>3, <1>4 DEF RunInv

(* Every action keeps the account of what one connection has run.          *)
LEMMA NextRun == TypeOK /\ RunInv /\ [Next]_vars => RunInv'
<1> SUFFICES ASSUME TypeOK, RunInv, [Next]_vars PROVE RunInv'
    OBVIOUS
<1>0. opened \in Nat /\ opened >= opened
    BY BoundAssumption DEF TypeOK
<1>1. ASSUME UNCHANGED <<opened, nodeEnd, nodeVars>> PROVE RunInv'
    BY <1>0, <1>1, OtherKeepsRun DEF nodeVars
<1>2. ASSUME NEW c \in Commands, \/ RecordCommand(c) \/ UpdatePending(c)
                                 \/ ExpireCommand(c) \/ CancelDeduction(c)
      PROVE  RunInv'
    BY <1>1, <1>2 DEF RecordCommand, UpdatePending, ExpireCommand, CancelDeduction,
                      linkVars
<1>3. ASSUME NEW p \in Procs, \/ FetchRows(p) \/ TakeSender(p) \/ MarkDispatched(p)
                              \/ \E c \in Commands : SendRow(p, c)
      PROVE  RunInv'
    BY <1>1, <1>3 DEF FetchRows, TakeSender, MarkDispatched, SendRow, linkVars
<1>4. ASSUME NEW g \in Conns, \/ ReceiveHello(g) \/ ValidateFrame(g) \/ ApplyAck(g)
                              \/ ApplyResult(g) \/ SocketEnd(g)
      PROVE  RunInv'
    BY <1>1, <1>4 DEF ReceiveHello, ValidateFrame, ApplyAck, ApplyResult, SocketEnd,
                      linkVars
<1>5. ASSUME NEW g \in Conns, \/ ReceiveDispatch(g) \/ RejectBusy(g) \/ SpawnTask(g)
                              \/ ReadError(g)
      PROVE  RunInv'
    <2>1. nodeEnd[g] # "closed" /\ nodeEnd'[g] # "closed"
        BY <1>5 DEF ReceiveDispatch, RejectBusy, SpawnTask, ReadError, TypeOK, RunInv,
                    ClosedIsQuiet, linkVars
    <2>2. /\ UNCHANGED <<jobs, mem, execs, opened>>
          /\ \A h \in Conns \ {g} : /\ nodeEnd'[h] = nodeEnd[h]
                                    /\ queue'[h] = queue[h]
                                    /\ waiting'[h] = waiting[h]
        BY <1>5 DEF ReceiveDispatch, RejectBusy, SpawnTask, ReadError, TypeOK,
                    linkVars, nodeVars
    <2> QED BY <1>0, <2>1, <2>2, OtherKeepsRun
<1>6. CASE Connect
    <2>1. /\ opened + 1 \in Conns /\ opened' = opened + 1
          /\ nodeEnd' = [nodeEnd EXCEPT ![opened + 1] = "open"]
          /\ UNCHANGED <<queue, waiting, jobs, mem, execs>>
        BY <1>6, BoundAssumption DEF Connect, TypeOK, Conns, nodeVars
    <2>2. \A c \in Commands : execs[opened + 1][c] = 0
        BY <1>0, <2>1 DEF RunInv, UnopenedIsClosed
    <2>3. \A h \in Conns : nodeEnd'[h] = IF h = opened + 1 THEN "open" ELSE nodeEnd[h]
        BY <2>1 DEF TypeOK
    <2> QED BY <1>0, <2>1, <2>2, <2>3, OtherKeepsRun
<1>7. ASSUME NEW g \in Conns, NEW c \in Commands, BeginTask(g, c) PROVE RunInv'
    <2> DEFINE job == [cmd |-> c, out |-> mem[c],
                       pc |-> IF mem[c] = NoOutcome THEN "start" ELSE "reply"]
    <2>1. nodeEnd[g] # "closed"
        BY <1>7 DEF BeginTask, RunInv, ClosedIsQuiet
    <2>2. UNCHANGED <<opened, nodeEnd, queue, mem, execs>>
        BY <1>7 DEF BeginTask, linkVars
    <2>3. \A h \in Conns \ {g} : waiting'[h] = waiting[h]
        BY <1>7 DEF BeginTask, TypeOK
    <2>4. CASE jobs' = jobs
        BY <1>0, <2>1, <2>2, <2>3, <2>4, OtherKeepsRun
    <2>5. CASE jobs' = [jobs EXCEPT ![g] = @ \cup {job}]
        <3>1. job.cmd = c /\ job.pc # "running" /\ (job.pc = "start" => mem[c] = NoOutcome)
            OBVIOUS
        <3> HIDE DEF job
        <3>2. \A h \in Conns : jobs'[h] = IF h = g THEN jobs[g] \cup {job} ELSE jobs[h]
            BY <2>5 DEF TypeOK
        <3>3. \A j \in jobs[g] : KeyOf[j.cmd] # KeyOf[c]
            BY <1>7 DEF BeginTask, Unlocked
        <3>4. LockHeldOnce'
            BY <3>1, <3>2, <3>3 DEF RunInv, LockHeldOnce
        <3>5. job.pc = "start" => execs[g][c] = 0
            BY <2>1, <3>1, <3>3 DEF RunInv, RunLeavesTrace
        <3>6. StartIsFirst'
            BY <2>2, <3>1, <3>2, <3>5 DEF RunInv, StartIsFirst
        <3>7. ClosedIsQuiet' /\ UnopenedIsClosed'
            BY <2>1, <2>2, <2>3, <3>2 DEF RunInv, ClosedIsQuiet, UnopenedIsClosed
        <3>8. RunLeavesTrace'
            BY <2>2, <3>2 DEF RunInv, RunLeavesTrace
        <3> QED BY <3>4, <3>6, <3>7, <3>8 DEF RunInv
    <2> QED BY <1>7, <2>4, <2>5 DEF BeginTask
<1>8. ASSUME NEW g \in Conns, NEW j \in jobs[g]
      PROVE  /\ nodeEnd[g] # "closed" /\ j \in Job /\ j.cmd \in Commands
             /\ \A i \in jobs[g] : i.cmd = j.cmd => i = j
    BY JobFacts
<1>9. ASSUME NEW g \in Conns, NEW j \in jobs[g], StartCommand(g, j) PROVE RunInv'
    <2> DEFINE run == [cmd |-> j.cmd, pc |-> "running", out |-> NoOutcome]
    <2>1. run.cmd = j.cmd /\ run.pc = "running"
        OBVIOUS
    <2>2. jobs' = [jobs EXCEPT ![g] = (@ \ {j}) \cup {run}]
        BY <1>9 DEF StartCommand, Become
    <2> HIDE DEF run
    <2>3. \A h \in Conns :
              jobs'[h] = IF h = g THEN (jobs[g] \ {j}) \cup {run} ELSE jobs[h]
        BY <2>2 DEF TypeOK
    <2>4. UNCHANGED <<opened, nodeEnd, queue, waiting, mem>>
        BY <1>9 DEF StartCommand, linkVars
    <2>5. execs[g][j.cmd] = 0 /\ j.pc = "start"
        BY <1>9 DEF StartCommand, RunInv, StartIsFirst
    <2>6. \A h \in Conns, c \in Commands :
              execs'[h][c] = IF h = g /\ c = j.cmd THEN 1 ELSE execs[h][c]
        BY <1>8, <1>9, <2>5 DEF StartCommand, TypeOK
    <2>7. LockHeldOnce'
        BY <2>1, <2>3 DEF RunInv, LockHeldOnce
    <2>8. StartIsFirst'
        <3> SUFFICES ASSUME NEW h \in Conns, NEW i \in jobs'[h], i.pc = "start"
                     PROVE  execs'[h][i.cmd] = 0
            BY DEF StartIsFirst
        <3>1. i \in jobs[h] /\ (h = g => i # j)
            BY <2>1, <2>3
        <3>2. i.cmd \in Commands /\ (h = g => i.cmd # j.cmd)
            BY <1>8, <3>1
        <3> QED BY <2>6, <3>1, <3>2 DEF RunInv, StartIsFirst
    <2>9. ClosedIsQuiet' /\ UnopenedIsClosed'
        BY <1>8, <2>3, <2>4, <2>6 DEF RunInv, ClosedIsQuiet, UnopenedIsClosed
    <2>10. RunLeavesTrace'
        <3> SUFFICES ASSUME NEW h \in Conns, NEW c \in Commands, execs'[h][c] # 0
                     PROVE  /\ execs'[h][c] = 1
                            /\ \/ mem[c] # NoOutcome
                               \/ \E i \in jobs'[h] : i.cmd = c /\ i.pc = "running"
                               \/ nodeEnd[h] = "closed"
            BY <2>4 DEF RunLeavesTrace
        <3>1. CASE h = g /\ c = j.cmd
            BY <2>1, <2>3, <2>6, <3>1
        <3>2. CASE ~(h = g /\ c = j.cmd)
            <4>1. \A i \in jobs[h] : i.pc = "running" => i \in jobs'[h]
                BY <2>3, <2>5
            <4> QED BY <2>6, <3>2, <4>1 DEF RunInv, RunLeavesTrace
        <3> QED BY <3>1, <3>2
    <2> QED BY <2>7, <2>8, <2>9, <2>10 DEF RunInv
<1>10. ASSUME NEW g \in Conns, NEW j \in jobs[g], PersistOutcome(g, j) PROVE RunInv'
    <2>1. PICK out \in Outcomes(g, j) :
              /\ mem' = [mem EXCEPT ![j.cmd] = out]
              /\ Become(g, j, [cmd |-> j.cmd, pc |-> "reply", out |-> out])
        BY <1>10 DEF PersistOutcome
    <2> DEFINE rest == {[cmd |-> j.cmd, pc |-> "reply", out |-> out]}
    <2>2. out # NoOutcome
        BY <1>8, OutcomesType, OutcomeTypes
    <2>3. \A c \in Commands : mem'[c] = IF c = j.cmd THEN out ELSE mem[c]
        BY <1>8, <2>1 DEF TypeOK
    <2>4. /\ \A i \in rest : i.cmd = j.cmd /\ i.pc = "reply"
          /\ \A i, k \in rest : i = k
          /\ jobs' = [jobs EXCEPT ![g] = (jobs[g] \ {j}) \cup rest]
        BY <2>1 DEF Become
    <2>5. UNCHANGED <<opened, nodeEnd, queue, waiting, execs>>
        BY <1>10 DEF PersistOutcome, linkVars
    <2> HIDE DEF rest
    <2>6. /\ \A c \in Commands : mem[c] # NoOutcome => mem'[c] # NoOutcome
          /\ mem'[j.cmd] # NoOutcome
        BY <1>8, <2>2, <2>3
    <2> QED BY <2>4, <2>5, <2>6, JobEndKeepsRun
<1>11. ASSUME NEW g \in Conns, NEW j \in jobs[g], PersistFails(g, j) PROVE RunInv'
    <2> DEFINE none == {}
    <2>1. PICK out \in Outcomes(g, j) : mem' = [mem EXCEPT ![j.cmd] = out]
        BY <1>11 DEF PersistFails
    <2>2. out # NoOutcome
        BY <1>8, OutcomesType, OutcomeTypes
    <2>3. \A c \in Commands : mem'[c] = IF c = j.cmd THEN out ELSE mem[c]
        BY <1>8, <2>1 DEF TypeOK
    <2>4. jobs' = [jobs EXCEPT ![g] = (jobs[g] \ {j}) \cup none]
        BY <1>11 DEF PersistFails, Drop
    <2>5. UNCHANGED <<opened, nodeEnd, queue, waiting, execs>>
        BY <1>11 DEF PersistFails, linkVars
    <2>6. /\ \A c \in Commands : mem[c] # NoOutcome => mem'[c] # NoOutcome
          /\ mem'[j.cmd] # NoOutcome
        BY <1>8, <2>2, <2>3
    <2>7. /\ \A i \in none : i.cmd = j.cmd /\ i.pc = "reply"
          /\ \A i, k \in none : i = k
        OBVIOUS
    <2> HIDE DEF none
    <2> QED BY <2>4, <2>5, <2>6, <2>7, JobEndKeepsRun
<1>12. ASSUME NEW g \in Conns, NEW j \in jobs[g], SendResult(g, j) PROVE RunInv'
    <2> DEFINE none == {}
    <2>1. jobs' = [jobs EXCEPT ![g] = (jobs[g] \ {j}) \cup none] /\ j.pc = "reply"
        BY <1>12 DEF SendResult, Drop
    <2>2. UNCHANGED <<opened, nodeEnd, queue, waiting, mem, execs>>
        BY <1>12 DEF SendResult, linkVars
    <2>3. /\ \A i \in none : i.cmd = j.cmd /\ i.pc = "reply"
          /\ \A i, k \in none : i = k
          /\ j.pc # "running"
        BY <2>1
    <2> HIDE DEF none
    <2> QED BY <2>1, <2>2, <2>3, JobEndKeepsRun
<1>13. ASSUME NEW G \in SUBSET Conns, Forget(G), UNCHANGED <<opened, execs>>,
              \A h \in G : nodeEnd'[h] = "closed",
              \A h \in Conns \ G : nodeEnd'[h] = nodeEnd[h],
              G # Conns => UNCHANGED mem
       PROVE  RunInv'
    <2>1. \A h \in Conns : /\ jobs'[h] = IF h \in G THEN {} ELSE jobs[h]
                           /\ queue'[h] = IF h \in G THEN <<>> ELSE queue[h]
                           /\ waiting'[h] = IF h \in G THEN [c \in Commands |-> 0]
                                            ELSE waiting[h]
        BY <1>13 DEF Forget
    <2>2. LockHeldOnce' /\ StartIsFirst'
        BY <1>13, <2>1 DEF RunInv, LockHeldOnce, StartIsFirst
    <2>3. ClosedIsQuiet'
        BY <1>13, <2>1 DEF RunInv, ClosedIsQuiet
    <2>4. UnopenedIsClosed' /\ RunLeavesTrace'
        BY <1>13, <2>1 DEF RunInv, UnopenedIsClosed, RunLeavesTrace
    <2> QED BY <2>2, <2>3, <2>4 DEF RunInv
<1>14. ASSUME NEW g \in Conns, CloseChannel(g) PROVE RunInv'
    <2>1. /\ Forget({g}) /\ UNCHANGED <<opened, execs, mem>>
          /\ nodeEnd' = [nodeEnd EXCEPT ![g] = "closed"]
        BY <1>14 DEF CloseChannel
    <2> QED BY <1>13, <2>1 DEF TypeOK
<1>15. CASE NodeRestart
    <2>1. Forget(Conns) /\ UNCHANGED <<opened, execs>>
        BY <1>15 DEF NodeRestart
    <2> QED BY <1>13, <1>15, <2>1 DEF NodeRestart
<1>16. CASE CoreRestart
    BY <1>1, <1>16 DEF CoreRestart
<1>17. CASE UNCHANGED vars
    BY <1>1, <1>17 DEF vars, nodeVars
<1> QED
    BY NextCases, <1>2, <1>3, <1>4, <1>5, <1>6, <1>7, <1>9, <1>10, <1>11, <1>12,
       <1>14, <1>15, <1>16, <1>17

(* Duplicate deliveries, full queues, refused acknowledgements and failed  *)
(* saves included, the dispatcher of one connection starts the effect of a *)
(* command at most once.                                                   *)
THEOREM RunsOncePerConnection == Spec => []OncePerConnection
<1>1. Init => TypeOK /\ RunInv
    BY InitTypeOK, InitRun
<1>2. TypeOK /\ RunInv /\ [Next]_vars => (TypeOK /\ RunInv)'
    BY NextTypeOK, NextRun
<1>3. TypeOK /\ RunInv => OncePerConnection
    <2> SUFFICES ASSUME TypeOK, RunInv, NEW g \in Conns, NEW c \in Commands
                 PROVE  execs[g][c] <= 1
        BY DEF OncePerConnection
    <2>1. execs[g][c] = 0 \/ execs[g][c] = 1
        BY DEF RunInv, RunLeavesTrace
    <2> QED BY <2>1
<1> QED BY <1>1, <1>2, <1>3, PTL DEF Spec

-----------------------------------------------------------------------------
(* What holds as long as no read loop of the Node ends with an error, so   *)
(* that no dispatcher outlives its connection: one connection at a time    *)
(* has tasks, and a task that has not run its command yet, or still runs   *)
(* it, works on a command without an outcome.                              *)

NoneDetached == \A g \in Conns : nodeEnd[g] # "detached"

OneLive == \A g, h \in Conns : nodeEnd[g] = "open" /\ nodeEnd[h] = "open" => g = h

UnsettledRuns ==
    \A g \in Conns : \A j \in jobs[g] : j.pc # "reply" => mem[j.cmd] = NoOutcome

LiveInv == OneLive /\ UnsettledRuns

(* With every save done and no dispatch queue ever full, the outcome the   *)
(* Node holds in memory is the one on its disk; every answer of a task, on *)
(* the way to Core or stored there, is that outcome.                       *)
CleanNode ==
    /\ NoneDetached
    /\ faults["save"] = 0
    /\ \A g \in Conns : Len(queue[g]) < DispatchCap

RepliesAgree ==
    \A g \in Conns : \A j \in jobs[g] : j.pc = "reply" => j.out = disk[j.cmd]

Settles(f) == f.kind = "result" => \A c \in f.cmd : NodeReported(f.out) /\ f.out = disk[c]

FramesAgree == \A g \in Conns : \A i \in DOMAIN n2c[g] : Settles(n2c[g][i])

OwnOutcomes == \A c \in Commands : mem[c] = NoOutcome \/ NodeReported(mem[c])

AgreeInv == mem = disk /\ OwnOutcomes /\ RepliesAgree /\ FramesAgree /\ NodeAgrees

(* The Node only ever handles commands that Core has recorded.             *)
NodeKnows ==
    \A g \in Conns :
        /\ \A i \in DOMAIN c2n[g] : c2n[g][i] \in Recorded
        /\ \A i \in DOMAIN queue[g] : queue[g][i] \in Recorded
        /\ \A c \in Commands : waiting[g][c] # 0 => c \in Recorded
        /\ \A j \in jobs[g] : j.cmd \in Recorded

(* With no detached dispatcher, whoever has a task has the open connection.*)
LEMMA JobAlone ==
    ASSUME TypeOK, RunInv, OneLive, NoneDetached,
           NEW g \in Conns, NEW h \in Conns, jobs[g] # {}, jobs[h] # {}
    PROVE  g = h
<1>1. nodeEnd[g] = "open" /\ nodeEnd[h] = "open"
    BY DEF TypeOK, RunInv, ClosedIsQuiet, NoneDetached
<1> QED BY <1>1 DEF OneLive

(* Taking a job away, or adding some, changes the jobs of one connection.  *)
LEMMA JobsOf ==
    ASSUME TypeOK, NEW g \in Conns, NEW J, jobs' = [jobs EXCEPT ![g] = J]
    PROVE  \A h \in Conns : jobs'[h] = IF h = g THEN J ELSE jobs[h]
BY DEF TypeOK

(* The connections stay apart: a new one is opened only when none is open. *)
LEMMA NextLive ==
    ASSUME TypeOK, OneLive, [Next]_vars
    PROVE  OneLive'
<1>1. ASSUME \A g \in Conns : nodeEnd'[g] = "open" => nodeEnd[g] = "open" PROVE OneLive'
    BY <1>1 DEF OneLive
<1>2. CASE UNCHANGED nodeEnd
    BY <1>1, <1>2
<1>3. ASSUME NEW g \in Conns, ReadError(g) \/ CloseChannel(g) \/ RejectBusy(g) PROVE OneLive'
    <2>1. \/ UNCHANGED nodeEnd \/ nodeEnd' = [nodeEnd EXCEPT ![g] = "detached"]
          \/ nodeEnd' = [nodeEnd EXCEPT ![g] = "closed"]
        BY <1>3 DEF ReadError, CloseChannel, RejectBusy
    <2> QED BY <1>1, <2>1 DEF TypeOK
<1>4. CASE Connect
    <2>1. /\ \A g \in Conns : nodeEnd[g] # "open"
          /\ nodeEnd' = [nodeEnd EXCEPT ![opened + 1] = "open"]
        BY <1>4 DEF Connect
    <2>2. \A g \in Conns : nodeEnd'[g] = "open" => g = opened + 1
        BY <2>1 DEF TypeOK
    <2> QED BY <2>2 DEF OneLive
<1>5. CASE NodeRestart
    BY <1>5 DEF NodeRestart, OneLive
<1>6. ASSUME NEW c \in Commands, \/ RecordCommand(c) \/ UpdatePending(c)
                                 \/ ExpireCommand(c) \/ CancelDeduction(c)
      PROVE  UNCHANGED nodeEnd
    BY <1>6 DEF RecordCommand, UpdatePending, ExpireCommand, CancelDeduction, linkVars
<1>7. ASSUME NEW p \in Procs, \/ FetchRows(p) \/ TakeSender(p) \/ MarkDispatched(p)
                              \/ \E c \in Commands : SendRow(p, c)
      PROVE  UNCHANGED nodeEnd
    BY <1>7 DEF FetchRows, TakeSender, MarkDispatched, SendRow, linkVars
<1>8. ASSUME NEW g \in Conns,
             \/ ReceiveHello(g) \/ ValidateFrame(g) \/ ApplyAck(g) \/ ApplyResult(g)
             \/ SocketEnd(g) \/ ReceiveDispatch(g) \/ SpawnTask(g)
             \/ \E c \in Commands : BeginTask(g, c)
             \/ \E j \in jobs[g] : \/ StartCommand(g, j) \/ PersistOutcome(g, j)
                                   \/ PersistFails(g, j) \/ SendResult(g, j)
      PROVE  UNCHANGED nodeEnd
    BY <1>8 DEF ReceiveHello, ValidateFrame, ApplyAck, ApplyResult, SocketEnd,
         ReceiveDispatch, SpawnTask, BeginTask, StartCommand, PersistOutcome, PersistFails,
         SendResult, linkVars
<1>9. CoreRestart \/ UNCHANGED vars => UNCHANGED nodeEnd
    BY DEF CoreRestart, vars
<1> QED
    BY NextCases, <1>2, <1>3, <1>4, <1>5, <1>6, <1>7, <1>8, <1>9

(* What a step does to the tasks, the caches and the effects of the Node.  *)
Untouched == UNCHANGED <<jobs, mem, disk, execs>>
Begins(g, c) ==
    /\ \/ UNCHANGED jobs
       \/ /\ Unlocked(g, c)
          /\ jobs' = [jobs EXCEPT ![g] = @ \cup
                        {[cmd |-> c, out |-> mem[c],
                          pc |-> IF mem[c] = NoOutcome THEN "start" ELSE "reply"]}]
    /\ UNCHANGED <<mem, disk, execs>>
Starts(g, j) ==
    /\ j.pc = "start"
    /\ execs' = [execs EXCEPT ![g][j.cmd] = @ + 1]
    /\ Become(g, j, [cmd |-> j.cmd, pc |-> "running", out |-> NoOutcome])
    /\ UNCHANGED <<mem, disk>>
Saves(g, j, out) ==
    /\ mem' = [mem EXCEPT ![j.cmd] = out] /\ disk' = mem'
    /\ Become(g, j, [cmd |-> j.cmd, pc |-> "reply", out |-> out])
    /\ UNCHANGED <<execs, faults, coreVars, n2c>>
SaveFails(g, j, out) ==
    /\ mem' = [mem EXCEPT ![j.cmd] = out] /\ Drop(g, j)
    /\ UNCHANGED <<execs, disk>> /\ faults' = [faults EXCEPT !["save"] = @ + 1]
Leaves(g, j) == Drop(g, j) /\ UNCHANGED <<mem, disk, execs>>
Clears(G) ==
    /\ jobs' = [g \in Conns |-> IF g \in G THEN {} ELSE jobs[g]]
    /\ UNCHANGED <<disk, execs>>
    /\ (G # Conns /\ UNCHANGED mem) \/ (G = Conns /\ mem' = disk)

(* Every step is one of these.                                             *)
LEMMA WorkSteps ==
    ASSUME TypeOK, [Next]_vars
    PROVE  \/ Untouched
           \/ \E g \in Conns, c \in Commands : Begins(g, c)
           \/ \E g \in Conns : \E j \in jobs[g] :
                 \/ Starts(g, j) \/ (SendResult(g, j) /\ Leaves(g, j))
                 \/ \E out \in Outcomes(g, j) : Saves(g, j, out) \/ SaveFails(g, j, out)
           \/ \E G \in SUBSET Conns : Clears(G)
<1>1. ASSUME NEW c \in Commands, \/ RecordCommand(c) \/ UpdatePending(c)
                                 \/ ExpireCommand(c) \/ CancelDeduction(c)
      PROVE  Untouched
    BY <1>1 DEF RecordCommand, UpdatePending, ExpireCommand, CancelDeduction, nodeVars,
                Untouched
<1>2. ASSUME NEW p \in Procs, \/ FetchRows(p) \/ TakeSender(p) \/ MarkDispatched(p)
                              \/ \E c \in Commands : SendRow(p, c)
      PROVE  Untouched
    BY <1>2 DEF FetchRows, TakeSender, MarkDispatched, SendRow, nodeVars, Untouched
<1>3. ASSUME NEW g \in Conns,
             \/ ReceiveHello(g) \/ ValidateFrame(g) \/ ApplyAck(g) \/ ApplyResult(g)
             \/ SocketEnd(g) \/ ReceiveDispatch(g) \/ SpawnTask(g) \/ RejectBusy(g)
             \/ ReadError(g)
      PROVE  Untouched
    BY <1>3 DEF ReceiveHello, ValidateFrame, ApplyAck, ApplyResult, SocketEnd,
         ReceiveDispatch, SpawnTask, RejectBusy, ReadError, nodeVars, Untouched
<1>4. CoreRestart \/ Connect \/ UNCHANGED vars => Untouched
    BY DEF CoreRestart, Connect, vars, nodeVars, Untouched
<1>5. ASSUME NEW g \in Conns, NEW c \in Commands, BeginTask(g, c) PROVE Begins(g, c)
    BY <1>5 DEF BeginTask, Begins
<1>6. ASSUME NEW g \in Conns, NEW j \in jobs[g]
      PROVE  /\ StartCommand(g, j) => Starts(g, j)
             /\ SendResult(g, j) => Leaves(g, j)
             /\ PersistOutcome(g, j) => \E out \in Outcomes(g, j) : Saves(g, j, out)
             /\ PersistFails(g, j) => \E out \in Outcomes(g, j) : SaveFails(g, j, out)
    BY DEF StartCommand, SendResult, PersistOutcome, PersistFails, Starts, Leaves, Saves,
           SaveFails
<1>7. ASSUME NEW g \in Conns, CloseChannel(g) PROVE \E G \in SUBSET Conns : Clears(G) \/ Untouched
    <2>1. /\ jobs' = [h \in Conns |-> IF h \in {g} THEN {} ELSE jobs[h]]
          /\ UNCHANGED <<mem, disk, execs>>
        BY <1>7 DEF CloseChannel, Forget
    <2>2. CASE {g} # Conns
        BY <2>1, <2>2 DEF Clears
    <2>3. CASE {g} = Conns
        <3>1. MayEnd(g)
            BY <1>7 DEF CloseChannel
        <3>2. MaxConns \in Conns /\ opened \in Conns /\ opened # MaxConns
            BY <3>1, BoundAssumption DEF MayEnd, Conns, TypeOK
        <3> QED BY <2>3, <3>2
    <2> QED BY <2>2, <2>3
<1>8. NodeRestart => Clears(Conns)
    BY DEF NodeRestart, Forget, Clears
<1> QED BY NextCases, <1>1, <1>2, <1>3, <1>4, <1>5, <1>6, <1>7, <1>8

(* A task is begun on a command without an outcome, and only it settles it.*)
LEMMA NextUnsettled ==
    ASSUME TypeOK, RunInv, LiveInv, NoneDetached, [Next]_vars
    PROVE  UnsettledRuns'
<1>1. CASE Untouched
    BY <1>1 DEF Untouched, LiveInv, UnsettledRuns
<1>2. ASSUME NEW g \in Conns, NEW c \in Commands, Begins(g, c) PROVE UnsettledRuns'
    <2> DEFINE job == [cmd |-> c, out |-> mem[c],
                       pc |-> IF mem[c] = NoOutcome THEN "start" ELSE "reply"]
    <2>1. job.cmd = c /\ (job.pc # "reply" => mem[c] = NoOutcome)
        OBVIOUS
    <2>2. UNCHANGED mem /\ (jobs' = jobs \/ jobs' = [jobs EXCEPT ![g] = jobs[g] \cup {job}])
        BY <1>2 DEF Begins
    <2> HIDE DEF job
    <2>3. \A h \in Conns : \A j \in jobs'[h] : j \in jobs[h] \/ j = job
        BY <2>2, JobsOf
    <2> QED BY <2>1, <2>2, <2>3 DEF LiveInv, UnsettledRuns
<1>3. ASSUME NEW g \in Conns, NEW j \in jobs[g], Starts(g, j) PROVE UnsettledRuns'
    <2> DEFINE run == [cmd |-> j.cmd, pc |-> "running", out |-> NoOutcome]
    <2>1. run.cmd = j.cmd /\ mem[j.cmd] = NoOutcome /\ UNCHANGED mem
        BY <1>3 DEF Starts, LiveInv, UnsettledRuns
    <2>2. jobs' = [jobs EXCEPT ![g] = (jobs[g] \ {j}) \cup {run}]
        BY <1>3 DEF Starts, Become
    <2> HIDE DEF run
    <2>3. \A h \in Conns : \A i \in jobs'[h] : i \in jobs[h] \/ i = run
        BY <2>2, JobsOf
    <2> QED BY <2>1, <2>3 DEF LiveInv, UnsettledRuns
<1>4. ASSUME NEW g \in Conns, NEW j \in jobs[g], NEW out,
             mem' = [mem EXCEPT ![j.cmd] = out], NEW rest,
             \A i \in rest : i.pc = "reply",
             jobs' = [jobs EXCEPT ![g] = (jobs[g] \ {j}) \cup rest]
      PROVE  UnsettledRuns'
    <2> SUFFICES ASSUME NEW h \in Conns, NEW i \in jobs'[h], i.pc # "reply"
                 PROVE  mem'[i.cmd] = NoOutcome
        BY DEF UnsettledRuns
    <2>0. jobs'[h] = IF h = g THEN (jobs[g] \ {j}) \cup rest ELSE jobs[h]
        BY <1>4, JobsOf
    <2>1. i \in jobs[h] /\ (h = g => i # j)
        BY <1>4, <2>0
    <2>2. h = g
        BY <2>1, JobAlone DEF LiveInv
    <2>3. i.cmd # j.cmd
        BY <2>1, <2>2, JobFacts
    <2>4. mem[i.cmd] = NoOutcome
        BY <2>1 DEF LiveInv, UnsettledRuns
    <2> QED BY <1>4, <2>3, <2>4 DEF TypeOK
<1>5. ASSUME NEW g \in Conns, NEW j \in jobs[g], NEW out \in Outcomes(g, j),
             Saves(g, j, out) \/ SaveFails(g, j, out)
      PROVE  UnsettledRuns'
    <2> DEFINE rest == {[cmd |-> j.cmd, pc |-> "reply", out |-> out]}
               none == {}
    <2>1. CASE Saves(g, j, out)
        <3>1. /\ \A i \in rest : i.pc = "reply"
              /\ mem' = [mem EXCEPT ![j.cmd] = out]
              /\ jobs' = [jobs EXCEPT ![g] = (jobs[g] \ {j}) \cup rest]
            BY <2>1 DEF Saves, Become
        <3> HIDE DEF rest
        <3> QED BY <3>1, <1>4
    <2>2. CASE SaveFails(g, j, out)
        <3>1. /\ \A i \in none : i.pc = "reply"
              /\ mem' = [mem EXCEPT ![j.cmd] = out]
              /\ jobs' = [jobs EXCEPT ![g] = (jobs[g] \ {j}) \cup none]
            BY <2>2 DEF SaveFails, Drop
        <3> HIDE DEF none
        <3> QED BY <3>1, <1>4
    <2> QED BY <1>5, <2>1, <2>2
<1>6. ASSUME NEW g \in Conns, NEW j \in jobs[g], Leaves(g, j) PROVE UnsettledRuns'
    <2>1. jobs' = [jobs EXCEPT ![g] = jobs[g] \ {j}] /\ UNCHANGED mem
        BY <1>6 DEF Leaves, Drop
    <2>2. \A h \in Conns : \A i \in jobs'[h] : i \in jobs[h]
        BY <2>1, JobsOf
    <2> QED BY <2>1, <2>2 DEF LiveInv, UnsettledRuns
<1>7. ASSUME NEW G \in SUBSET Conns, Clears(G) PROVE UnsettledRuns'
    <2>1. \A h \in Conns : jobs'[h] = IF h \in G THEN {} ELSE jobs[h]
        BY <1>7 DEF Clears
    <2>2. CASE UNCHANGED mem
        BY <2>1, <2>2 DEF LiveInv, UnsettledRuns
    <2>3. CASE G = Conns
        BY <2>1, <2>3 DEF UnsettledRuns
    <2> QED BY <1>7, <2>2, <2>3 DEF Clears
<1> QED BY WorkSteps, <1>1, <1>2, <1>3, <1>5, <1>6, <1>7

(* The invariant is kept as long as no dispatcher is left behind.          *)
LEMMA LiveKept ==
    /\ Init => TypeOK /\ RunInv /\ LiveInv
    /\ TypeOK /\ RunInv /\ LiveInv /\ NoneDetached /\ [Next]_vars
         => (TypeOK /\ RunInv /\ LiveInv)'
<1>1. Init => LiveInv
    BY DEF Init, LiveInv, OneLive, UnsettledRuns
<1>2. ASSUME TypeOK, RunInv, LiveInv, NoneDetached, [Next]_vars
      PROVE  (TypeOK /\ RunInv /\ LiveInv)'
    <2>1. OneLive'
        BY <1>2, NextLive DEF LiveInv
    <2>2. UnsettledRuns'
        BY <1>2, NextUnsettled
    <2>3. TypeOK' /\ RunInv'
        BY <1>2, NextTypeOK, NextRun
    <2> QED BY <2>1, <2>2, <2>3 DEF LiveInv
<1>3. Init => TypeOK /\ RunInv /\ LiveInv
    BY <1>1, InitTypeOK, InitRun
<1>4. TypeOK /\ RunInv /\ LiveInv /\ NoneDetached /\ [Next]_vars
        => (TypeOK /\ RunInv /\ LiveInv)'
    BY <1>2
<1> QED BY <1>3, <1>4

(* Commands of one execution key never overlap, on one connection or on    *)
(* two, as long as no read loop ends with an error: the execution locks    *)
(* belong to a dispatcher, and a dispatcher ends with its connection.      *)
THEOREM KeysExclude == Spec /\ []NoneDetached => []NoOverlap
<1>1. TypeOK /\ RunInv /\ LiveInv /\ NoneDetached => NoOverlap
    <2> SUFFICES ASSUME TypeOK, RunInv, LiveInv, NoneDetached,
                        NEW g \in Conns, NEW h \in Conns,
                        NEW i \in jobs[g], NEW j \in jobs[h], KeyOf[i.cmd] = KeyOf[j.cmd]
                 PROVE  g = h /\ i = j
        BY DEF NoOverlap
    <2>1. g = h
        BY JobAlone DEF LiveInv
    <2> QED BY <2>1 DEF RunInv, LockHeldOnce
<1> QED BY <1>1, LiveKept, PTL DEF Spec

(* Neither is a command started again once the Node has its outcome:       *)
(* whatever was queued before, on this connection or an earlier one, is    *)
(* answered from the cache.  Failed saves and restarts are allowed.        *)
THEOREM OutcomeStopsRuns == Spec /\ []NoneDetached => NoRerunAfterOutcome
<1>1. TypeOK /\ RunInv /\ LiveInv /\ NoneDetached /\ [Next]_vars
        => [\A c \in Commands :
              (\E g \in Conns : execs'[g][c] > execs[g][c]) => mem[c] = NoOutcome]_vars
    <2> SUFFICES ASSUME TypeOK, RunInv, LiveInv, [Next]_vars,
                        NEW c \in Commands, NEW h \in Conns, execs'[h][c] > execs[h][c]
                 PROVE  mem[c] = NoOutcome
        OBVIOUS
    <2>0. execs[h][c] \in Nat
        BY DEF TypeOK
    <2>1. execs' # execs
        BY <2>0
    <2>2. PICK g \in Conns : \E j \in jobs[g] : Starts(g, j)
        BY <2>1, WorkSteps DEF Untouched, Begins, Leaves, Saves, SaveFails, Clears
    <2>3. PICK j \in jobs[g] : Starts(g, j)
        BY <2>2
    <2>4. j.cmd = c
        <3>1. execs' = [execs EXCEPT ![g][j.cmd] = @ + 1]
            BY <2>3 DEF Starts
        <3>2. j.cmd # c => execs'[h][c] = execs[h][c]
            BY <3>1 DEF TypeOK
        <3> QED BY <2>0, <3>2
    <2>5. j.pc # "reply"
        BY <2>3 DEF Starts
    <2> QED BY <2>4, <2>5 DEF LiveInv, UnsettledRuns
<1> QED BY <1>1, LiveKept, PTL DEF Spec, NoRerunAfterOutcome

-----------------------------------------------------------------------------
(* The frames on their way to Core after a step: those that were there,    *)
(* greetings, acknowledgements, and the answer of a task.                  *)
Comes(h, f) ==
    \/ \E k \in DOMAIN n2c[h] : f = n2c[h][k]
    \/ f.kind # "result"
    \/ \E j \in jobs[h] : j.pc = "reply" /\ f = Result(j.cmd, j.out) /\ UNCHANGED disk
FramesCome == \A h \in Conns : \A i \in DOMAIN n2c'[h] : Comes(h, n2c'[h][i])

(* Frames that only go.                                                    *)
LEMMA SameFrames == UNCHANGED n2c => FramesCome
BY DEF FramesCome, Comes

(* Taking the frame at the head moves the others up.                       *)
LEMMA TakenFrames ==
    ASSUME TypeOK, NEW g \in Conns, n2c[g] # <<>>, Consume(g)
    PROVE  FramesCome
<1>1. n2c[g] \in Seq(Frame) /\ n2c' = [n2c EXCEPT ![g] = Tail(n2c[g])]
    BY DEF TypeOK, Consume
<1> SUFFICES ASSUME NEW h \in Conns, NEW i \in DOMAIN n2c'[h] PROVE Comes(h, n2c'[h][i])
    BY DEF FramesCome
<1>2. CASE h = g
    <2>1. n2c'[h] = Tail(n2c[g])
        BY <1>1, <1>2 DEF TypeOK
    <2>2. /\ Tail(n2c[g]) \in Seq(Frame)
          /\ Len(Tail(n2c[g])) = Len(n2c[g]) - 1
          /\ \A k \in 1 .. Len(Tail(n2c[g])) : Tail(n2c[g])[k] = n2c[g][k + 1]
        BY <1>1, HeadTailProperties
    <2>3. i \in 1 .. Len(Tail(n2c[g])) /\ Len(n2c[g]) \in Nat
        <3>1. PICK rest \in Seq(Frame) : rest = Tail(n2c[g])
            BY <2>2
        <3>2. i \in DOMAIN rest /\ DOMAIN rest = 1 .. Len(rest)
            BY <2>1, <3>1
        <3> QED BY <1>1, <3>1, <3>2
    <2>4. n2c'[h][i] = n2c[g][i + 1]
        BY <2>1, <2>2, <2>3
    <2>5. i + 1 \in DOMAIN n2c[g]
        BY <1>1, <2>2, <2>3
    <2> QED BY <1>2, <2>4, <2>5 DEF Comes
<1>3. CASE h # g
    BY <1>1, <1>3 DEF TypeOK, Comes
<1> QED BY <1>2, <1>3

(* A queue is left as it is or lost with its connection.                   *)
LEMMA DroppedFrames ==
    ASSUME TypeOK, \A h \in Conns : n2c'[h] = n2c[h] \/ n2c'[h] = <<>>
    PROVE  FramesCome
<1> SUFFICES ASSUME NEW h \in Conns, NEW i \in DOMAIN n2c'[h] PROVE Comes(h, n2c'[h][i])
    BY DEF FramesCome
<1>1. n2c'[h] = n2c[h]
    OBVIOUS
<1> QED BY <1>1 DEF Comes

(* One frame that the Node tries to send.                                  *)
LEMMA SentFrame ==
    ASSUME TypeOK, NEW g \in Conns, NEW f \in Frame, Comes(g, f),
           Sent(g, <<f>>) \/ Refused(g, <<f>>)
    PROVE  FramesCome
<1>1. CASE UNCHANGED n2c
    BY <1>1, SameFrames
<1>2. CASE n2c' = [n2c EXCEPT ![g] = @ \o <<f>>]
    <2> SUFFICES ASSUME NEW h \in Conns, NEW i \in DOMAIN n2c'[h] PROVE Comes(h, n2c'[h][i])
        BY DEF FramesCome
    <2>1. CASE h # g
        BY <1>2, <2>1 DEF TypeOK, Comes
    <2>2. CASE h = g
        <3>1. n2c'[h] = n2c[g] \o <<f>> /\ n2c[g] \in Seq(Frame)
            BY <1>2, <2>2 DEF TypeOK
        <3>2. (i \in DOMAIN n2c[g] /\ n2c'[h][i] = n2c[g][i]) \/ n2c'[h][i] = f
            BY <3>1
        <3> QED BY <2>2, <3>2 DEF Comes
    <2> QED BY <2>1, <2>2
<1> QED BY <1>1, <1>2 DEF Sent, Refused, Written

(* Every step, with room in every dispatch queue, sends such frames only.  *)
LEMMA FrameSteps == ASSUME TypeOK, CleanNode, [Next]_vars PROVE FramesCome
<1>1. ASSUME NEW c \in Commands, \/ RecordCommand(c) \/ UpdatePending(c)
                                 \/ ExpireCommand(c) \/ CancelDeduction(c)
      PROVE  UNCHANGED n2c
    BY <1>1 DEF RecordCommand, UpdatePending, ExpireCommand, CancelDeduction
<1>2. ASSUME NEW p \in Procs, \/ FetchRows(p) \/ TakeSender(p) \/ MarkDispatched(p)
                              \/ \E c \in Commands : SendRow(p, c)
      PROVE  UNCHANGED n2c
    BY <1>2 DEF FetchRows, TakeSender, MarkDispatched, SendRow
<1>3. ASSUME NEW g \in Conns,
             \/ ReceiveHello(g) \/ ValidateFrame(g) \/ ApplyAck(g) \/ ApplyResult(g)
      PROVE  FramesCome
    <2>1. n2c[g] # <<>> /\ (UNCHANGED n2c \/ Consume(g))
        BY <1>3 DEF ReceiveHello, ValidateFrame, ApplyAck, ApplyResult, Receiving
    <2> QED BY <2>1, SameFrames, TakenFrames
<1>4. ASSUME NEW g \in Conns, SocketEnd(g) PROVE FramesCome
    BY <1>4, DroppedFrames DEF SocketEnd, TypeOK
<1>5. CASE CoreRestart
    BY <1>5, DroppedFrames DEF CoreRestart
<1>6. ASSUME NEW g \in Conns, RejectBusy(g) PROVE FALSE
    <2>1. Len(queue[g]) < DispatchCap /\ Len(queue[g]) = DispatchCap /\ DispatchCap \in Nat
        BY <1>6, BoundAssumption DEF CleanNode, RejectBusy
    <2> QED BY <2>1
<1>7. ASSUME NEW g \in Conns,
             \/ ReceiveDispatch(g) \/ SpawnTask(g) \/ CloseChannel(g) \/ ReadError(g)
             \/ \E j \in jobs[g] : \/ StartCommand(g, j) \/ PersistOutcome(g, j)
                                   \/ PersistFails(g, j)
      PROVE  UNCHANGED n2c
    BY <1>7 DEF ReceiveDispatch, SpawnTask, CloseChannel, ReadError, StartCommand,
                PersistOutcome, PersistFails
<1>8. ASSUME NEW g \in Conns, NEW c \in Commands, BeginTask(g, c) PROVE FramesCome
    <2>1. Sent(g, <<Ack(c)>>) \/ Refused(g, <<Ack(c)>>)
        BY <1>8 DEF BeginTask
    <2>2. Ack(c) \in Frame /\ Ack(c).kind = "ack"
        BY FrameTypes DEF Ack
    <2>3. Comes(g, Ack(c))
        BY <2>2 DEF Comes
    <2> QED BY <2>1, <2>2, <2>3, SentFrame
<1>9. ASSUME NEW g \in Conns, NEW j \in jobs[g], SendResult(g, j) PROVE FramesCome
    <2>1. j \in Job /\ j.pc = "reply"
        BY <1>9 DEF SendResult, TypeOK
    <2>2. Result(j.cmd, j.out) \in Frame
        BY <2>1, FrameTypes DEF Job
    <2>3. Comes(g, Result(j.cmd, j.out))
        BY <1>9, <2>1 DEF SendResult, Comes
    <2>4. Sent(g, <<Result(j.cmd, j.out)>>) \/ Refused(g, <<Result(j.cmd, j.out)>>)
        BY <1>9 DEF SendResult
    <2> QED BY <2>2, <2>3, <2>4, SentFrame
<1>10. CASE Connect
    <2>1. opened + 1 \in Conns
        BY <1>10, BoundAssumption DEF Connect, TypeOK, Conns
    <2>2. \A h \in Conns : n2c'[h] = IF h = opened + 1 THEN <<Hello>> ELSE n2c[h]
        BY <1>10, <2>1 DEF Connect, TypeOK
    <2>3. ASSUME NEW h \in Conns, NEW i \in DOMAIN n2c'[h] PROVE Comes(h, n2c'[h][i])
        <3>1. n2c'[h][i] = Hello \/ (n2c'[h] = n2c[h])
            BY <2>2, <2>3
        <3>2. Hello.kind # "result"
            BY DEF Hello
        <3> QED BY <2>3, <3>1, <3>2 DEF Comes
    <2> QED BY <2>3 DEF FramesCome
<1>11. NodeRestart \/ UNCHANGED vars => UNCHANGED n2c
    BY DEF NodeRestart, vars
<1> QED BY NextCases, SameFrames, <1>1, <1>2, <1>3, <1>4, <1>5, <1>6, <1>7, <1>8, <1>9,
       <1>10, <1>11

(* What a step does to the results Core holds: nothing, or it makes one of *)
(* its own where there was none, or it stores the frame it is handling.    *)
CoreSettles(c) == resultOf[c] = NoOutcome /\ resultOf'[c].src = "core"
Stores(g, c) ==
    /\ task[g].pc = "apply" /\ n2c[g] # <<>> /\ Head(n2c[g]).kind = "result"
    /\ c \in Head(n2c[g]).cmd
    /\ resultOf' = [resultOf EXCEPT ![c] = Head(n2c[g]).out]
    /\ cmdState' = [cmdState EXCEPT ![c] = Head(n2c[g]).out.status]
    /\ UNCHANGED disk
Local == \A c \in Commands : resultOf'[c] = resultOf[c] \/ CoreSettles(c)

(* Every step but one leaves what the Node reported.                       *)
LEMMA ResultSteps ==
    ASSUME TypeOK, [Next]_vars
    PROVE  Local \/ \E g \in Conns : \E c \in Head(n2c[g]).cmd : Stores(g, c)
<1>1. ASSUME UNCHANGED resultOf PROVE Local
    BY <1>1 DEF Local
<1>2. ASSUME NEW c \in Commands, ExpireCommand(c) PROVE Local
    BY <1>2 DEF ExpireCommand, TypeOK, Local, CoreSettles, CoreMade
<1>3. ASSUME NEW c \in Commands, CancelDeduction(c) PROVE Local
    <2>1. \/ UNCHANGED resultOf
          \/ \E d \in Commands : resultOf[d] = NoOutcome
                /\ resultOf' = [resultOf EXCEPT ![d] = CoreMade("failed")]
        BY <1>3 DEF CancelDeduction
    <2> QED BY <1>1, <2>1 DEF TypeOK, Local, CoreSettles, CoreMade
<1>4. ASSUME NEW g \in Conns, ApplyResult(g)
      PROVE  \E c \in Head(n2c[g]).cmd : Stores(g, c)
    BY <1>4 DEF ApplyResult, Receiving, update_command_result, nodeVars, Stores
<1>5. ASSUME NEW c \in Commands, RecordCommand(c) \/ UpdatePending(c)
      PROVE  UNCHANGED resultOf
    BY <1>5 DEF RecordCommand, UpdatePending
<1>6. ASSUME NEW p \in Procs, \/ FetchRows(p) \/ TakeSender(p) \/ MarkDispatched(p)
                              \/ \E c \in Commands : SendRow(p, c)
      PROVE  UNCHANGED resultOf
    BY <1>6 DEF FetchRows, TakeSender, MarkDispatched, SendRow, coreVars
<1>7. ASSUME NEW g \in Conns,
             \/ ReceiveHello(g) \/ ValidateFrame(g) \/ ApplyAck(g) \/ SocketEnd(g)
             \/ ReceiveDispatch(g) \/ RejectBusy(g) \/ SpawnTask(g)
             \/ CloseChannel(g) \/ ReadError(g)
      PROVE  UNCHANGED resultOf
    BY <1>7 DEF ReceiveHello, ValidateFrame, ApplyAck, SocketEnd, ReceiveDispatch,
         RejectBusy, SpawnTask, CloseChannel, ReadError, coreVars
<1>8. ASSUME NEW g \in Conns,
             \/ \E c \in Commands : BeginTask(g, c)
             \/ \E j \in jobs[g] : \/ StartCommand(g, j) \/ PersistOutcome(g, j)
                                   \/ PersistFails(g, j) \/ SendResult(g, j)
      PROVE  UNCHANGED resultOf
    BY <1>8 DEF BeginTask, StartCommand, PersistOutcome, PersistFails, SendResult, coreVars
<1>9. Connect \/ CoreRestart \/ NodeRestart \/ UNCHANGED vars => UNCHANGED resultOf
    BY DEF Connect, CoreRestart, NodeRestart, coreVars, vars
<1> QED BY NextCases, <1>1, <1>2, <1>3, <1>4, <1>5, <1>6, <1>7, <1>8, <1>9

(* With every save done, the memory of the Node is its disk, and an        *)
(* outcome that is there stays.                                            *)
Grows == \A c \in Commands : disk[c] # NoOutcome => disk'[c] = disk[c]

(* A run ends with an outcome of the Node.                                 *)
LEMMA OwnOutcome ==
    ASSUME NEW g \in Conns, NEW j \in Job, NEW out \in Outcomes(g, j)
    PROVE  NodeReported(out)
BY DEF Outcomes, NodeReported, Ran, AccessDenied

(* The one step that writes the disk writes where nothing was.             *)
LEMMA DiskSteps ==
    ASSUME TypeOK, RunInv, LiveInv, AgreeInv, CleanNode', [Next]_vars
    PROVE  Grows /\ mem' = disk' /\ OwnOutcomes'
<1>1. CASE UNCHANGED <<mem, disk>>
    BY <1>1 DEF Grows, AgreeInv, OwnOutcomes
<1>2. ASSUME NEW g \in Conns, NEW j \in jobs[g], NEW out \in Outcomes(g, j),
             Saves(g, j, out)
      PROVE  Grows /\ mem' = disk' /\ OwnOutcomes'
    <2>1. j \in Job /\ j.cmd \in Commands /\ j.pc # "reply"
        BY <1>2, JobFacts DEF Outcomes
    <2>2. disk[j.cmd] = NoOutcome
        BY <2>1 DEF LiveInv, UnsettledRuns, AgreeInv
    <2>3. mem' = disk' /\ disk' = [disk EXCEPT ![j.cmd] = out]
        BY <1>2 DEF Saves, AgreeInv
    <2>4. NodeReported(out)
        BY <2>1, OwnOutcome
    <2>5. \A c \in Commands : disk'[c] = IF c = j.cmd THEN out ELSE disk[c]
        BY <2>3 DEF TypeOK
    <2> QED BY <2>2, <2>3, <2>4, <2>5 DEF Grows, AgreeInv, OwnOutcomes
<1>3. ASSUME NEW g \in Conns, NEW j \in jobs[g], NEW out, SaveFails(g, j, out)
      PROVE  FALSE
    <2>1. faults'["save"] = faults["save"] + 1 /\ faults["save"] \in Nat
        BY <1>3 DEF SaveFails, TypeOK, FaultKinds
    <2> QED BY <2>1 DEF CleanNode
<1>4. ASSUME NEW G \in SUBSET Conns, Clears(G)
      PROVE  Grows /\ mem' = disk' /\ OwnOutcomes'
    BY <1>4 DEF Clears, Grows, AgreeInv, OwnOutcomes
<1>5. ASSUME NEW g \in Conns, NEW c \in Commands, Begins(g, c) PROVE UNCHANGED <<mem, disk>>
    BY <1>5 DEF Begins
<1>6. ASSUME NEW g \in Conns, NEW j \in jobs[g], Starts(g, j) \/ Leaves(g, j)
      PROVE  UNCHANGED <<mem, disk>>
    BY <1>6 DEF Starts, Leaves
<1>7. CASE Untouched
    BY <1>1, <1>7 DEF Untouched
<1> QED BY WorkSteps, <1>1, <1>2, <1>3, <1>4, <1>5, <1>6, <1>7

(* A task about to answer answers with the outcome on disk.                *)
LEMMA NextReplies ==
    ASSUME TypeOK, RunInv, LiveInv, AgreeInv, CleanNode', [Next]_vars
    PROVE  RepliesAgree'
<1>1. Grows
    BY DiskSteps
<1>2. ASSUME NEW h \in Conns, NEW i \in jobs[h], i.pc = "reply"
      PROVE  i.out = disk'[i.cmd]
    <2>1. i \in Job /\ i.cmd \in Commands /\ i.out = disk[i.cmd]
        BY <1>2, JobFacts DEF AgreeInv, RepliesAgree
    <2>2. i.out # NoOutcome
        BY <1>2, <2>1, OutcomeTypes DEF Job
    <2> QED BY <1>1, <2>1, <2>2 DEF Grows
<1>3. ASSUME \A h \in Conns : \A i \in jobs'[h] : i.pc = "reply" => i \in jobs[h]
      PROVE  RepliesAgree'
    BY <1>2, <1>3 DEF RepliesAgree
<1>4. ASSUME NEW g \in Conns, NEW c \in Commands, Begins(g, c) PROVE RepliesAgree'
    <2> DEFINE job == [cmd |-> c, out |-> mem[c],
                       pc |-> IF mem[c] = NoOutcome THEN "start" ELSE "reply"]
    <2>1. job.cmd = c /\ job.out = mem[c]
        OBVIOUS
    <2>2. UNCHANGED disk /\ (jobs' = jobs \/ jobs' = [jobs EXCEPT ![g] = jobs[g] \cup {job}])
        BY <1>4 DEF Begins
    <2> HIDE DEF job
    <2>3. \A h \in Conns : \A i \in jobs'[h] : i \in jobs[h] \/ i = job
        BY <2>2, JobsOf
    <2>4. job.out = disk'[job.cmd]
        BY <2>1, <2>2 DEF AgreeInv
    <2> QED BY <1>2, <2>3, <2>4 DEF RepliesAgree
<1>5. ASSUME NEW g \in Conns, NEW j \in jobs[g], Starts(g, j) PROVE RepliesAgree'
    <2> DEFINE run == [cmd |-> j.cmd, pc |-> "running", out |-> NoOutcome]
    <2>1. run.pc # "reply" /\ jobs' = [jobs EXCEPT ![g] = (jobs[g] \ {j}) \cup {run}]
        BY <1>5 DEF Starts, Become
    <2> HIDE DEF run
    <2>2. \A h \in Conns : \A i \in jobs'[h] : i \in jobs[h] \/ i = run
        BY <2>1, JobsOf
    <2> QED BY <1>3, <2>1, <2>2
<1>6. ASSUME NEW g \in Conns, NEW j \in jobs[g], NEW out \in Outcomes(g, j),
             Saves(g, j, out)
      PROVE  RepliesAgree'
    <2> DEFINE answer == [cmd |-> j.cmd, pc |-> "reply", out |-> out]
    <2>1. answer.cmd = j.cmd /\ answer.out = out
        OBVIOUS
    <2>2. /\ jobs' = [jobs EXCEPT ![g] = (jobs[g] \ {j}) \cup {answer}]
          /\ mem' = [mem EXCEPT ![j.cmd] = out] /\ disk' = mem'
        BY <1>6 DEF Saves, Become
    <2> HIDE DEF answer
    <2>3. \A h \in Conns : \A i \in jobs'[h] : i \in jobs[h] \/ i = answer
        BY <2>2, JobsOf
    <2>4. answer.out = disk'[answer.cmd]
        BY <2>1, <2>2, JobFacts DEF TypeOK
    <2> QED BY <1>2, <2>3, <2>4 DEF RepliesAgree
<1>7. ASSUME NEW g \in Conns, NEW j \in jobs[g], NEW out,
             Leaves(g, j) \/ SaveFails(g, j, out)
      PROVE  RepliesAgree'
    <2>1. jobs' = [jobs EXCEPT ![g] = jobs[g] \ {j}]
        BY <1>7 DEF Leaves, SaveFails, Drop
    <2>2. \A h \in Conns : \A i \in jobs'[h] : i \in jobs[h]
        BY <2>1, JobsOf
    <2> QED BY <1>3, <2>2
<1>8. ASSUME NEW G \in SUBSET Conns, Clears(G) PROVE RepliesAgree'
    <2>1. \A h \in Conns : jobs'[h] = IF h \in G THEN {} ELSE jobs[h]
        BY <1>8 DEF Clears
    <2> QED BY <1>3, <2>1
<1>9. CASE Untouched
    BY <1>3, <1>9 DEF Untouched
<1> QED BY WorkSteps, <1>4, <1>5, <1>6, <1>7, <1>8, <1>9

(* A result on its way to Core reports the outcome on disk.                *)
LEMMA NextFrames ==
    ASSUME TypeOK, RunInv, LiveInv, AgreeInv, CleanNode, CleanNode', [Next]_vars
    PROVE  FramesAgree'
<1>1. Grows /\ FramesCome
    BY DiskSteps, FrameSteps
<1> SUFFICES ASSUME NEW h \in Conns, NEW i \in DOMAIN n2c'[h], NEW c \in n2c'[h][i].cmd,
                    n2c'[h][i].kind = "result"
             PROVE  NodeReported(n2c'[h][i].out) /\ n2c'[h][i].out = disk'[c]
    BY DEF FramesAgree, Settles
<1>2. PICK f : f = n2c'[h][i]
    OBVIOUS
<1>3. Comes(h, f)
    BY <1>1, <1>2 DEF FramesCome
<1>4. CASE \E k \in DOMAIN n2c[h] : f = n2c[h][k]
    <2>1. PICK k \in DOMAIN n2c[h] : f = n2c[h][k]
        BY <1>4
    <2>2. NodeReported(f.out) /\ f.out = disk[c]
        BY <1>2, <2>1 DEF AgreeInv, FramesAgree, Settles
    <2>3. f \in Frame
        <3>1. n2c[h] \in Seq(Frame)
            BY DEF TypeOK
        <3> QED BY <2>1, <3>1
    <2>4. c \in Commands
        BY <1>2, <2>3 DEF Frame
    <2>5. f.out # NoOutcome
        BY <2>2 DEF NodeReported, NoOutcome
    <2> QED BY <1>1, <1>2, <2>2, <2>4, <2>5 DEF Grows
<1>5. ASSUME NEW j \in jobs[h], j.pc = "reply", f = Result(j.cmd, j.out), UNCHANGED disk
      PROVE  NodeReported(f.out) /\ f.out = disk'[c]
    <2>1. j \in Job /\ j.cmd \in Commands
        BY JobFacts
    <2>2. c = j.cmd /\ f.out = j.out
        BY <1>2, <1>5 DEF Result
    <2>3. j.out = disk[j.cmd] /\ j.out # NoOutcome
        BY <1>5, <2>1, OutcomeTypes DEF AgreeInv, RepliesAgree, Job
    <2>4. NodeReported(mem[j.cmd])
        BY <2>1, <2>3 DEF AgreeInv, OwnOutcomes
    <2> QED BY <1>5, <2>2, <2>3, <2>4 DEF AgreeInv
<1> QED BY <1>2, <1>3, <1>4, <1>5 DEF Comes

(* What Core stores is the head of a queue, so it agrees, too.             *)
LEMMA StoredAgrees ==
    ASSUME TypeOK, AgreeInv, NEW g \in Conns, NEW c \in Head(n2c[g]).cmd, Stores(g, c)
    PROVE  /\ c \in Commands
           /\ NodeReported(Head(n2c[g]).out) /\ Head(n2c[g]).out = disk[c]
<1>1. n2c[g] \in Seq(Frame) /\ n2c[g] # <<>>
    BY DEF TypeOK, Stores
<1>2. Head(n2c[g]) \in Frame /\ 1 \in DOMAIN n2c[g] /\ Head(n2c[g]) = n2c[g][1]
    BY <1>1, HeadTailProperties
<1>3. Settles(n2c[g][1])
    BY <1>2 DEF AgreeInv, FramesAgree
<1>4. c \in Commands
    BY <1>2 DEF Frame
<1> QED BY <1>2, <1>3, <1>4 DEF Settles, Stores

(* The results of the Node in Core are on the disk of the Node.            *)
LEMMA NextAgrees ==
    ASSUME TypeOK, RunInv, LiveInv, AgreeInv, CleanNode', [Next]_vars
    PROVE  NodeAgrees'
<1>1. Grows
    BY DiskSteps
<1>2. ASSUME NEW c \in Commands, NodeReported(resultOf[c]), resultOf'[c] = resultOf[c]
      PROVE  disk'[c] = resultOf'[c]
    <2>1. disk[c] = resultOf[c] /\ resultOf[c] # NoOutcome
        BY <1>2 DEF AgreeInv, NodeAgrees, NodeReported, NoOutcome
    <2> QED BY <1>1, <1>2, <2>1 DEF Grows
<1>3. CASE Local
    <2>1. \A c \in Commands : NodeReported(resultOf'[c]) => resultOf'[c] = resultOf[c]
        BY <1>3 DEF Local, CoreSettles, NodeReported
    <2> QED BY <1>2, <2>1 DEF NodeAgrees
<1>4. ASSUME NEW g \in Conns, NEW c \in Head(n2c[g]).cmd, Stores(g, c)
      PROVE  NodeAgrees'
    <2>1. /\ c \in Commands /\ UNCHANGED disk
          /\ resultOf' = [resultOf EXCEPT ![c] = Head(n2c[g]).out]
          /\ Head(n2c[g]).out = disk[c]
        BY <1>4, StoredAgrees DEF Stores
    <2>2. \A d \in Commands : resultOf'[d] = IF d = c THEN disk[c] ELSE resultOf[d]
        BY <2>1 DEF TypeOK
    <2> QED BY <1>2, <2>1, <2>2 DEF NodeAgrees
<1> QED BY ResultSteps, <1>3, <1>4

(* The invariant of a Node whose saves succeed and whose queues have room. *)
LEMMA AgreeKept ==
    /\ Init => TypeOK /\ RunInv /\ LiveInv /\ AgreeInv
    /\ TypeOK /\ RunInv /\ LiveInv /\ AgreeInv /\ CleanNode /\ CleanNode' /\ [Next]_vars
         => (TypeOK /\ RunInv /\ LiveInv /\ AgreeInv)'
<1>1. Init => AgreeInv
    BY DEF Init, AgreeInv, OwnOutcomes, RepliesAgree, FramesAgree, NodeAgrees, NodeReported,
           NoOutcome
<1>2. CleanNode => NoneDetached
    BY DEF CleanNode
<1>3. TypeOK /\ RunInv /\ LiveInv /\ AgreeInv /\ CleanNode /\ CleanNode' /\ [Next]_vars
         => AgreeInv'
    BY DiskSteps, NextReplies, NextFrames, NextAgrees DEF AgreeInv
<1> QED BY <1>1, <1>2, <1>3, LiveKept

(* A result Core stored from the Node is the one on the disk of the Node.  *)
THEOREM CoreAndNodeAgree == Spec /\ []CleanNode => []NodeAgrees
<1>1. AgreeInv => NodeAgrees
    BY DEF AgreeInv
<1> QED BY <1>1, AgreeKept, PTL DEF Spec

(* A result the Node reported stays the result of the command.             *)
THEOREM ResultsStay == Spec /\ []CleanNode => ResultNeverReplaced
<1>1. ASSUME TypeOK, AgreeInv, [Next]_vars, NEW c \in Commands, NodeReported(resultOf[c])
      PROVE  resultOf'[c] = resultOf[c]
    <2>1. CASE Local
        BY <1>1, <2>1 DEF Local, CoreSettles, NodeReported, NoOutcome
    <2>2. ASSUME NEW g \in Conns, NEW d \in Head(n2c[g]).cmd, Stores(g, d)
          PROVE  resultOf'[c] = resultOf[c]
        <3>1. /\ d \in Commands /\ resultOf' = [resultOf EXCEPT ![d] = Head(n2c[g]).out]
              /\ Head(n2c[g]).out = disk[d]
            BY <1>1, <2>2, StoredAgrees DEF Stores
        <3>2. disk[c] = resultOf[c]
            BY <1>1 DEF AgreeInv, NodeAgrees
        <3> QED BY <1>1, <3>1, <3>2 DEF TypeOK
    <2> QED BY <1>1, <2>1, <2>2, ResultSteps
<1>2. TypeOK /\ RunInv /\ LiveInv /\ AgreeInv /\ [Next]_vars
        => [\A c \in Commands : NodeReported(resultOf[c]) => resultOf'[c] = resultOf[c]]_vars
    BY <1>1
<1> QED BY <1>2, AgreeKept, PTL DEF Spec, ResultNeverReplaced

-----------------------------------------------------------------------------
(* The implementation of CommandService, one action at a time.             *)

(* A command that is there stays there.                                    *)
LEMMA StateWritten ==
    ASSUME TypeOK, NEW c \in Recorded, NEW s \in States \ {"absent"},
           update_command_state(c, s)
    PROVE  Recorded' = Recorded
BY DEF TypeOK, Recorded, update_command_state

(* A step records no command, or one; and then it does nothing else that   *)
(* the service would see.                                                  *)
LEMMA RecordSteps ==
    ASSUME TypeOK, QueueInv, [Next]_vars
    PROVE  \/ Recorded' = Recorded
           \/ /\ Local /\ UNCHANGED disk
              /\ \E c \in Commands \ Recorded : Recorded' = Recorded \cup {c}
<1>1. ASSUME NEW c \in Commands, RecordCommand(c)
      PROVE  /\ Local /\ UNCHANGED disk /\ c \notin Recorded
             /\ Recorded' = Recorded \cup {c}
    <2>1. cmdState[c] = "absent" /\ UNCHANGED <<resultOf, disk>>
        BY <1>1 DEF RecordCommand, nodeVars
    <2>2. \A d \in Commands : d # c => cmdState'[d] = cmdState[d]
        BY <1>1 DEF RecordCommand, TypeOK
    <2>3. cmdState'[c] # "absent"
        BY <1>1 DEF RecordCommand, TypeOK
    <2> QED BY <2>1, <2>2, <2>3 DEF Recorded, Local
<1>2. ASSUME NEW c \in Commands, CancelDeduction(c)
      PROVE  /\ Local /\ UNCHANGED disk /\ c \notin Recorded
             /\ Recorded' = Recorded \cup {c}
    <2>1. cmdState[c] = "absent" /\ UNCHANGED disk
        BY <1>2 DEF CancelDeduction, nodeVars
    <2>2. PICK d \in Commands \ {c} :
              /\ cmdState[d] # "absent" /\ resultOf[d] = NoOutcome
              /\ \/ /\ cmdState' = [cmdState EXCEPT ![c] = "recorded", ![d] = "failed"]
                    /\ resultOf' = [resultOf EXCEPT ![d] = CoreMade("failed")]
                 \/ /\ cmdState' = [cmdState EXCEPT ![c] = "recorded"]
                    /\ UNCHANGED resultOf
        BY <1>2 DEF CancelDeduction
    <2>3. Local
        BY <2>2 DEF TypeOK, Local, CoreSettles, CoreMade
    <2>4. Recorded' = Recorded \cup {c}
        BY <2>2 DEF TypeOK, Recorded
    <2> QED BY <2>1, <2>3, <2>4 DEF Recorded
<1>3. ASSUME NEW c \in Commands, UpdatePending(c) PROVE Recorded' = Recorded
    BY <1>3, StateWritten DEF UpdatePending, QueueInv, PendingRecorded, States, Pending
<1>4. ASSUME NEW c \in Commands, ExpireCommand(c) PROVE Recorded' = Recorded
    <2>1. cmdState[c] # "absent" /\ cmdState' = [cmdState EXCEPT ![c] = "expired"]
        BY <1>4 DEF ExpireCommand, Pending
    <2> QED BY <2>1 DEF TypeOK, Recorded
<1>5. ASSUME NEW p \in Procs, MarkDispatched(p) PROVE Recorded' = Recorded
    BY <1>5, StateWritten DEF MarkDispatched, QueueInv, RowsRecorded, States, Pending
<1>6. ASSUME NEW p \in Procs, \/ FetchRows(p) \/ TakeSender(p)
                              \/ \E c \in Commands : SendRow(p, c)
      PROVE  UNCHANGED cmdState
    BY <1>6 DEF FetchRows, TakeSender, SendRow, coreVars
<1>7. ASSUME NEW g \in Conns, ApplyAck(g) PROVE Recorded' = Recorded
    <2>1. PICK c \in Head(n2c[g]).cmd : update_command_state(c, "acknowledged")
        BY <1>7 DEF ApplyAck
    <2>2. c \in Recorded
        BY <1>7, <2>1 DEF ApplyAck, QueueInv, ApplyRecorded
    <2> QED BY <2>1, <2>2, StateWritten DEF States, Pending
<1>8. ASSUME NEW g \in Conns, ApplyResult(g) PROVE Recorded' = Recorded
    <2>1. PICK c \in Head(n2c[g]).cmd :
              cmdState' = [cmdState EXCEPT ![c] = Head(n2c[g]).out.status]
        BY <1>8 DEF ApplyResult, update_command_result
    <2>2. c \in Recorded
        BY <1>8, <2>1 DEF ApplyResult, QueueInv, ApplyRecorded
    <2>3. n2c[g] # <<>> /\ Head(n2c[g]).kind = "result"
        BY <1>8 DEF ApplyResult, Receiving
    <2>4. Head(n2c[g]) \in Frame
        BY <2>3, ConsumeType DEF TypeOK
    <2>5. Head(n2c[g]).out.status \in States \ {"absent"}
        BY <2>3, <2>4 DEF Frame, Outcome, Terminal, States
    <2> QED BY <2>1, <2>2, <2>5, StateWritten DEF update_command_state
<1>9. ASSUME NEW g \in Conns,
             \/ ReceiveHello(g) \/ ValidateFrame(g) \/ SocketEnd(g)
             \/ ReceiveDispatch(g) \/ RejectBusy(g) \/ SpawnTask(g)
             \/ CloseChannel(g) \/ ReadError(g)
      PROVE  UNCHANGED cmdState
    BY <1>9 DEF ReceiveHello, ValidateFrame, SocketEnd, ReceiveDispatch, RejectBusy,
         SpawnTask, CloseChannel, ReadError, coreVars
<1>10. ASSUME NEW g \in Conns,
             \/ \E c \in Commands : BeginTask(g, c)
             \/ \E j \in jobs[g] : \/ StartCommand(g, j) \/ PersistOutcome(g, j)
                                   \/ PersistFails(g, j) \/ SendResult(g, j)
      PROVE  UNCHANGED cmdState
    BY <1>10 DEF BeginTask, StartCommand, PersistOutcome, PersistFails, SendResult, coreVars
<1>11. Connect \/ CoreRestart \/ NodeRestart \/ UNCHANGED vars => UNCHANGED cmdState
    BY DEF Connect, CoreRestart, NodeRestart, coreVars, vars
<1>12. UNCHANGED cmdState => Recorded' = Recorded
    BY DEF Recorded
<1> QED
    BY NextCases, <1>1, <1>2, <1>3, <1>4, <1>5, <1>6, <1>7, <1>8, <1>9, <1>10, <1>11, <1>12

(* What is queued behind, taken from or left in a queue of known commands. *)
LEMMA KnownQueue ==
    ASSUME NEW R, NEW s \in Seq(Commands), \A i \in DOMAIN s : s[i] \in R
    PROVE  /\ \A c \in R : \A i \in DOMAIN Append(s, c) : Append(s, c)[i] \in R
           /\ s # <<>> => /\ Head(s) \in R
                          /\ \A i \in DOMAIN Tail(s) : Tail(s)[i] \in R
<1>1. ASSUME NEW c \in R, NEW i \in DOMAIN Append(s, c) PROVE Append(s, c)[i] \in R
    <2>1. i \in 1 .. Len(s) + 1
        BY <1>1
    <2>2. CASE i = Len(s) + 1
        BY <2>2
    <2>3. CASE i # Len(s) + 1
        <3>1. i \in DOMAIN s
            BY <2>1, <2>3
        <3>2. Append(s, c)[i] = s[i]
            BY <2>1, <2>3
        <3> QED BY <3>1, <3>2
    <2> QED BY <2>2, <2>3
<1>2. ASSUME s # <<>> PROVE Head(s) \in R
    BY <1>2, HeadTailProperties
<1>3. ASSUME s # <<>>, NEW i \in DOMAIN Tail(s) PROVE Tail(s)[i] \in R
    <2>1. PICK rest \in Seq(Commands) : rest = Tail(s)
        BY <1>3, HeadTailProperties
    <2>2. Len(rest) = Len(s) - 1 /\ \A k \in 1 .. Len(rest) : rest[k] = s[k + 1]
        BY <1>3, <2>1, HeadTailProperties
    <2>3. i \in 1 .. Len(rest)
        BY <1>3, <2>1
    <2>4. i + 1 \in DOMAIN s
        BY <2>2, <2>3
    <2> QED BY <2>1, <2>2, <2>3, <2>4
<1> QED BY <1>1, <1>2, <1>3

(* Every command on its way to the Node, or in one of its queues and       *)
(* tasks, is one that Core has recorded.                                   *)
LEMMA NextKnows ==
    ASSUME TypeOK, QueueInv, NodeKnows, [Next]_vars
    PROVE  NodeKnows'
<1> DEFINE Known(s) == \A i \in DOMAIN s : s[i] \in Recorded
<1>0. Recorded \subseteq Recorded'
    BY RecordSteps
<1>1. \A h \in Conns : /\ c2n[h] \in Seq(Commands) /\ Known(c2n[h])
                       /\ queue[h] \in Seq(Commands) /\ Known(queue[h])
    BY DEF TypeOK, NodeKnows
<1>2. ASSUME \A h \in Conns :
                /\ c2n'[h] = c2n[h] \/ Known(c2n'[h])
                /\ queue'[h] = queue[h] \/ Known(queue'[h])
                /\ \A c \in Commands : waiting'[h][c] # 0 =>
                      waiting[h][c] # 0 \/ c \in Recorded
                /\ \A j \in jobs'[h] : j.cmd \in Recorded
      PROVE  NodeKnows'
    BY <1>0, <1>1, <1>2 DEF NodeKnows
<1>3. ASSUME UNCHANGED <<c2n, queue, waiting, jobs>> PROVE NodeKnows'
    BY <1>2, <1>3 DEF NodeKnows
<1>4. ASSUME NEW c \in Commands, \/ RecordCommand(c) \/ UpdatePending(c)
                                 \/ ExpireCommand(c) \/ CancelDeduction(c)
      PROVE  UNCHANGED <<c2n, queue, waiting, jobs>>
    BY <1>4 DEF RecordCommand, UpdatePending, ExpireCommand, CancelDeduction, nodeVars
<1>5. ASSUME NEW p \in Procs, FetchRows(p) \/ TakeSender(p) \/ MarkDispatched(p)
      PROVE  UNCHANGED <<c2n, queue, waiting, jobs>>
    BY <1>5 DEF FetchRows, TakeSender, MarkDispatched, nodeVars
<1>6. ASSUME NEW p \in Procs, NEW c \in Commands, SendRow(p, c) PROVE NodeKnows'
    <2>1. c \in Recorded /\ UNCHANGED <<queue, waiting, jobs>>
        BY <1>6 DEF SendRow, QueueInv, RowsRecorded, nodeVars
    <2>2. \A h \in Conns : c2n'[h] = c2n[h] \/ c2n'[h] = Append(c2n[h], c)
        BY <1>6 DEF SendRow, TypeOK
    <2>3. \A h \in Conns : Known(Append(c2n[h], c))
        BY <1>1, <2>1, KnownQueue
    <2> QED BY <1>2, <2>1, <2>2, <2>3 DEF NodeKnows
<1>7. ASSUME NEW g \in Conns,
             \/ ReceiveHello(g) \/ ValidateFrame(g) \/ ApplyAck(g) \/ ApplyResult(g)
             \/ SocketEnd(g) \/ ReadError(g)
      PROVE  UNCHANGED <<c2n, queue, waiting, jobs>>
    BY <1>7 DEF ReceiveHello, ValidateFrame, ApplyAck, ApplyResult, SocketEnd, ReadError,
         nodeVars
<1>8. ASSUME NEW g \in Conns, ReceiveDispatch(g) \/ RejectBusy(g) PROVE NodeKnows'
    <2>1. /\ c2n[g] # <<>> /\ c2n' = [c2n EXCEPT ![g] = Tail(c2n[g])]
          /\ queue' = queue \/ queue' = [queue EXCEPT ![g] = Append(queue[g], Head(c2n[g]))]
          /\ UNCHANGED <<waiting, jobs>>
        BY <1>8 DEF ReceiveDispatch, RejectBusy, nodeVars
    <2>2. Head(c2n[g]) \in Recorded /\ Known(Tail(c2n[g]))
        BY <1>1, <2>1, KnownQueue
    <2>3. Known(Append(queue[g], Head(c2n[g])))
        BY <1>1, <2>2, KnownQueue
    <2>4. \A h \in Conns : /\ c2n'[h] = IF h = g THEN Tail(c2n[g]) ELSE c2n[h]
                           /\ \/ queue'[h] = queue[h]
                              \/ h = g /\ queue'[h] = Append(queue[g], Head(c2n[g]))
        BY <2>1 DEF TypeOK
    <2> HIDE DEF Known
    <2> QED BY <1>2, <2>1, <2>2, <2>3, <2>4 DEF NodeKnows
<1>9. ASSUME NEW g \in Conns, SpawnTask(g) PROVE NodeKnows'
    <2>1. /\ queue[g] # <<>> /\ queue' = [queue EXCEPT ![g] = Tail(queue[g])]
          /\ waiting' = [waiting EXCEPT ![g][Head(queue[g])] = @ + 1]
          /\ UNCHANGED <<c2n, jobs>>
        BY <1>9 DEF SpawnTask
    <2>2. Head(queue[g]) \in Recorded /\ Known(Tail(queue[g]))
        BY <1>1, <2>1, KnownQueue
    <2>3. \A h \in Conns : queue'[h] = IF h = g THEN Tail(queue[g]) ELSE queue[h]
        BY <2>1 DEF TypeOK
    <2>4. \A h \in Conns : \A c \in Commands :
              waiting'[h][c] = waiting[h][c] \/ c = Head(queue[g])
        BY <2>1 DEF TypeOK
    <2> HIDE DEF Known
    <2> QED BY <1>2, <2>1, <2>2, <2>3, <2>4 DEF NodeKnows
<1>10. ASSUME NEW g \in Conns, NEW c \in Commands, BeginTask(g, c) PROVE NodeKnows'
    <2> DEFINE job == [cmd |-> c, out |-> mem[c],
                       pc |-> IF mem[c] = NoOutcome THEN "start" ELSE "reply"]
    <2>1. job.cmd = c
        OBVIOUS
    <2>2. /\ waiting[g][c] > 0 /\ waiting' = [waiting EXCEPT ![g][c] = @ - 1]
          /\ UNCHANGED <<c2n, queue>>
          /\ jobs' = jobs \/ jobs' = [jobs EXCEPT ![g] = jobs[g] \cup {job}]
        BY <1>10 DEF BeginTask
    <2> HIDE DEF job
    <2>3. waiting[g][c] \in Nat
        BY DEF TypeOK
    <2>4. c \in Recorded
        BY <2>2, <2>3 DEF NodeKnows
    <2>5. \A h \in Conns : \A d \in Commands : waiting'[h][d] = waiting[h][d] \/ d = c
        BY <2>2 DEF TypeOK
    <2>6. \A h \in Conns : \A j \in jobs'[h] : j \in jobs[h] \/ j = job
        BY <2>2, JobsOf
    <2> QED BY <1>2, <2>1, <2>2, <2>4, <2>5, <2>6 DEF NodeKnows
<1>11. ASSUME NEW g \in Conns, NEW j \in jobs[g],
              \/ StartCommand(g, j) \/ PersistOutcome(g, j)
              \/ PersistFails(g, j) \/ SendResult(g, j)
       PROVE  NodeKnows'
    <2>1. UNCHANGED <<c2n, queue, waiting>>
        BY <1>11 DEF StartCommand, PersistOutcome, PersistFails, SendResult
    <2>2. Drop(g, j) \/ \E k : k.cmd = j.cmd /\ Become(g, j, k)
        <3>1. ASSUME StartCommand(g, j) PROVE \E k : k.cmd = j.cmd /\ Become(g, j, k)
            <4> DEFINE k == [cmd |-> j.cmd, pc |-> "running", out |-> NoOutcome]
            <4>1. k.cmd = j.cmd /\ Become(g, j, k)
                BY <3>1 DEF StartCommand
            <4> HIDE DEF k
            <4> QED BY <4>1
        <3>2. ASSUME PersistOutcome(g, j) PROVE \E k : k.cmd = j.cmd /\ Become(g, j, k)
            <4>1. PICK out : Become(g, j, [cmd |-> j.cmd, pc |-> "reply", out |-> out])
                BY <3>2 DEF PersistOutcome
            <4> DEFINE k == [cmd |-> j.cmd, pc |-> "reply", out |-> out]
            <4>2. k.cmd = j.cmd /\ Become(g, j, k)
                BY <4>1
            <4> HIDE DEF k
            <4> QED BY <4>2
        <3> QED BY <1>11, <3>1, <3>2 DEF PersistFails, SendResult
    <2>3. ASSUME Drop(g, j) PROVE \A h \in Conns : \A i \in jobs'[h] : i \in jobs[h]
        BY <2>3, JobsOf DEF Drop
    <2>4. ASSUME NEW k, k.cmd = j.cmd, Become(g, j, k)
          PROVE  \A h \in Conns : \A i \in jobs'[h] : i.cmd \in Recorded
        <3>1. \A h \in Conns : \A i \in jobs'[h] : i \in jobs[h] \/ i = k
            BY <2>4, JobsOf DEF Become
        <3> QED BY <2>4, <3>1 DEF NodeKnows
    <2>5. \A h \in Conns : \A i \in jobs'[h] : i.cmd \in Recorded
        BY <2>2, <2>3, <2>4 DEF NodeKnows
    <2> QED BY <1>2, <2>1, <2>5
<1>12. ASSUME UNCHANGED c2n, NEW G \in SUBSET Conns, Forget(G) PROVE NodeKnows'
    <2>1. \A h \in Conns : /\ queue'[h] = IF h \in G THEN <<>> ELSE queue[h]
                           /\ waiting'[h] = IF h \in G THEN [c \in Commands |-> 0]
                                                       ELSE waiting[h]
                           /\ jobs'[h] = IF h \in G THEN {} ELSE jobs[h]
        BY <1>12 DEF Forget
    <2> QED BY <1>2, <1>12, <2>1 DEF NodeKnows
<1>13. (\E g \in Conns : CloseChannel(g)) \/ NodeRestart
         => UNCHANGED c2n /\ \E G \in SUBSET Conns : Forget(G)
    BY DEF CloseChannel, NodeRestart
<1>14. Connect \/ CoreRestart \/ UNCHANGED vars => UNCHANGED <<c2n, queue, waiting, jobs>>
    BY DEF Connect, CoreRestart, vars, nodeVars
<1> HIDE DEF Known
<1> QED
    BY NextCases, <1>3, <1>4, <1>5, <1>6, <1>7, <1>8, <1>9, <1>10, <1>11, <1>12, <1>13, <1>14

(* A step of delivery is a step of the service: a command is asked for, the*)
(* Node saves its outcome, Core stores what the Node reported, or nothing. *)
LEMMA ServiceStep ==
    ASSUME TypeOK, QueueInv, NodeKnows, RunInv, LiveInv, AgreeInv, CleanNode', [Next]_vars
    PROVE  [Service!Next]_Service!vars
<1> DEFINE Reported == [c \in Commands |-> IF NodeReported(resultOf[c]) THEN resultOf[c]
                                           ELSE NoOutcome]
<1>1. Local => Reported' = Reported
    BY DEF Local, CoreSettles, NodeReported, NoOutcome
<1>2. ASSUME Local, UNCHANGED disk, NEW c \in Commands \ Recorded,
             Recorded' = Recorded \cup {c}
      PROVE  Service!Ask(c)
    BY <1>1, <1>2 DEF Service!Ask, Recorded
<1>3. ASSUME NEW g \in Conns, NEW c \in Head(n2c[g]).cmd, Stores(g, c),
             Recorded' = Recorded
      PROVE  [Service!Next]_Service!vars
    <2>1. /\ c \in Commands /\ NodeReported(disk[c]) /\ UNCHANGED disk
          /\ resultOf' = [resultOf EXCEPT ![c] = disk[c]]
        BY <1>3, StoredAgrees DEF Stores
    <2>2. \A d \in Commands : resultOf'[d] = IF d = c THEN disk[c] ELSE resultOf[d]
        BY <2>1 DEF TypeOK
    <2>3. Reported' = [Reported EXCEPT ![c] = disk[c]]
        BY <2>1, <2>2
    <2>4. disk[c] # NoOutcome
        BY <2>1 DEF NodeReported, NoOutcome
    <2>5. CASE NodeReported(resultOf[c])
        <3>1. Reported[c] = disk[c]
            BY <2>1, <2>5 DEF AgreeInv, NodeAgrees
        <3>2. Reported' = Reported
            BY <2>3, <3>1
        <3> QED BY <1>3, <2>1, <3>2 DEF Service!vars, Recorded
    <2>6. CASE ~NodeReported(resultOf[c])
        <3>1. Reported[c] = NoOutcome
            BY <2>1, <2>6
        <3>2. Service!Report(c)
            BY <1>3, <2>1, <2>3, <2>4, <3>1 DEF Service!Report, Recorded
        <3> QED BY <2>1, <3>2 DEF Service!Next
    <2> QED BY <2>5, <2>6
<1>4. ASSUME NEW g \in Conns, NEW j \in jobs[g], NEW out \in Outcomes(g, j),
             Saves(g, j, out)
      PROVE  [Service!Next]_Service!vars
    <2>1. j \in Job /\ j.cmd \in Commands /\ j.pc # "reply" /\ j.cmd \in Recorded
        BY <1>4, JobFacts DEF Outcomes, NodeKnows
    <2>2. disk[j.cmd] = NoOutcome
        BY <2>1 DEF LiveInv, UnsettledRuns, AgreeInv
    <2>3. disk' = [disk EXCEPT ![j.cmd] = out] /\ UNCHANGED coreVars
        BY <1>4 DEF Saves, AgreeInv
    <2>4. out \in Outcome \ {NoOutcome}
        BY <2>1, OutcomesType, OutcomeTypes
    <2>5. Recorded' = Recorded /\ Reported' = Reported
        BY <2>3 DEF coreVars, Recorded
    <2>6. Service!Settle(j.cmd)
        BY <2>1, <2>2, <2>3, <2>4, <2>5 DEF Service!Settle, Recorded
    <2> QED BY <2>1, <2>6 DEF Service!Next
<1>5. ASSUME Local, Recorded' = Recorded, UNCHANGED disk
      PROVE  UNCHANGED Service!vars
    BY <1>1, <1>5 DEF Service!vars, Recorded
<1>6. ASSUME UNCHANGED disk PROVE [Service!Next]_Service!vars
    BY <1>2, <1>3, <1>5, <1>6, RecordSteps, ResultSteps DEF Service!Next
<1>7. ASSUME NEW g \in Conns, NEW j \in jobs[g], NEW out, SaveFails(g, j, out)
      PROVE  UNCHANGED disk
    BY <1>7 DEF SaveFails
<1>8. ASSUME NEW g \in Conns, NEW c \in Commands, Begins(g, c) PROVE UNCHANGED disk
    BY <1>8 DEF Begins
<1>9. ASSUME NEW g \in Conns, NEW j \in jobs[g], Starts(g, j) \/ Leaves(g, j)
      PROVE  UNCHANGED disk
    BY <1>9 DEF Starts, Leaves
<1>10. ASSUME NEW G, Clears(G) PROVE UNCHANGED disk
    BY <1>10 DEF Clears
<1>11. Untouched => UNCHANGED disk
    BY DEF Untouched
<1> QED BY WorkSteps, <1>4, <1>6, <1>7, <1>8, <1>9, <1>10, <1>11

(* Delivery keeps the promise of CommandService, with lost frames,         *)
(* duplicates, reconnects and restarts of both sides, as long as no read   *)
(* loop ends with an error, no save fails and no dispatch queue is full.   *)
THEOREM DeliveryImplementsService == Spec /\ []CleanNode => ImplementsService
<1>1. Init => QueueInv /\ NodeKnows
    <2>1. Init => NodeKnows
        BY DEF Init, NodeKnows
    <2> QED BY <2>1, InitQueue
<1>2. TypeOK /\ QueueInv /\ NodeKnows /\ [Next]_vars => (QueueInv /\ NodeKnows)'
    BY NextQueue, NextKnows
<1>3. Init => Service!Init
    BY DEF Init, Service!Init, NodeReported, NoOutcome
<1>4. TypeOK /\ QueueInv /\ NodeKnows /\ RunInv /\ LiveInv /\ AgreeInv /\ CleanNode'
        /\ [Next]_vars => [Service!Next]_Service!vars
    BY ServiceStep
<1> QED BY <1>1, <1>2, <1>3, <1>4, AgreeKept, PTL DEF Spec, Service!Spec, ImplementsService

=============================================================================
