--------------------------- MODULE TaskRunsProofs ---------------------------
(***************************************************************************)
(* Proofs about TaskRuns, for every set of tasks and every bound, and, in  *)
(* its second half, about NodeAdmission, for every bound and every policy, *)
(* by itself and beside the tasks the admitted Node runs (MCTaskRuns).     *)
(***************************************************************************)
EXTENDS MCTaskRuns, FiniteSetTheorems, SequenceTheorems, TLAPS

(* A step knows what it works with: a run that is not under way has        *)
(* nothing, one that saves has an outcome with evidence, one that answers  *)
(* has an outcome.                                                         *)
StepAt(r) ==
    /\ r.at = "idle" => r = Idle
    /\ r.at = "save" => r.answer \in Package /\ r.answer.cleanup # "none"
    /\ r.at = "send" => r.answer \in Package
StepInv == \A t \in Tasks, c \in Conns : StepAt(run[t][c])

(* Sandboxes are numbered as they are created, and a run maps its own.     *)
NumberAt(t, c) ==
    /\ run[t][c].box <= count.boxes
    /\ run[t][c].at = "map" =>
          run[t][c].box # 0 /\ \A b \in boxes : b.id = run[t][c].box => b.task = t
NumberInv ==
    /\ \A b \in boxes : b.id <= count.boxes
    /\ named \subseteq 1 .. count.boxes
    /\ \A t \in Tasks, c \in Conns : NumberAt(t, c)

(* A task that no read error left a run of runs at the dispatcher in use   *)
(* or not at all, and no other dispatcher will take its RunTask.           *)
Alone ==
    /\ \A t \in Tasks \ detached, c \in Conns : run[t][c].at # "idle" => c = Current
    /\ \A m \in inbox : m.kind = "run" /\ m.task \notin detached => m.conn = Current
    /\ count.reads = 0 => detached = {}
Now(t) == run[t][Current]

(* The frames that may be on their way for a task whose saved outcome is   *)
(* o: any event, an answer to a cancellation, and the outcome itself.      *)
Tells(f, o) == o # Nothing /\ f.state = o.state /\ f.cleanup = o.cleanup
Agreeing(o) == {f \in Frame : f.kind = "result" => Tells(f, o)}

(* One outcome: memory and disk have the same one, the run has it when it  *)
(* answers, there is none before, and no other result is on its way.       *)
OutcomeAt(t) ==
    /\ mem[t].outcome # Nothing => Now(t).at \in {"idle", "send"}
    /\ Now(t).at = "send" => Now(t).answer = mem[t].outcome
    /\ disk[t].outcome = mem[t].outcome
    /\ mem[t].outcome.cleanup = "none" => mem[t].outcome \in {Nothing, NoPackage}
    /\ wire[t] \in Seq(Agreeing(mem[t].outcome))
OutcomeInv == \A t \in Tasks \ detached : OutcomeAt(t)

(* A row whose result was projected says what the Node's outcome says.     *)
RowAt(t) ==
    row[t].run = "done" =>
        /\ mem[t].outcome # Nothing /\ row[t].state = mem[t].outcome.state
        /\ mem[t].outcome.cleanup # "none" => row[t].cleanup = mem[t].outcome.cleanup
RowInv == \A t \in Tasks \ detached : RowAt(t)

(* No sandbox of the task is one that the Node has to account for.         *)
Owed == named \ lost
Gone(t) == \A b \in boxes : b.task = t => b.id \notin Owed

(* A sandbox that is owed is mapped, in memory and on disk; the mapping of *)
(* a run is empty until the sandbox is there and then its own; a run that  *)
(* calls itself clean, and an outcome that says so, owe none.              *)
Holds(s, id) == s.mapped /\ s.box = id
MappedAt(t) ==
    /\ Now(t).at \in {"create", "map"} => mem[t].box = 0
    /\ Now(t).at \in {"ready", "codex", "checks", "delete"} => mem[t].box = Now(t).box
CleanAt(t) ==
    /\ Now(t).clean => Now(t).at \in {"unmap", "finish", "save"} /\ Gone(t)
    /\ Now(t).at = "unmap" => Now(t).clean
    /\ Now(t).at = "save" /\ Now(t).answer.cleanup = "completed" => Gone(t)
    /\ mem[t].outcome.cleanup = "completed" => Gone(t)
HeldInv ==
    \A b \in boxes : b.id \in Owed /\ b.task \notin detached =>
        Holds(mem[b.task], b.id) /\ Holds(disk[b.task], b.id)
BoxInv == HeldInv /\ \A t \in Tasks \ detached : MappedAt(t) /\ CleanAt(t)

(* While the connection lives, a cancellation that was signalled is either *)
(* remembered or has cut the run short.                                    *)
Quiet == count.faults = 0 /\ count.reads = 0
Signalled(t) == <<t, 0>> \in pending \/ run[t][0].cut
Uncancelled == {f \in Frame : f.kind # "cancelled"}
SignalAt(t) ==
    Quiet /\ mem[t].outcome = Nothing /\ ~Signalled(t) =>
        <<t, 0>> \notin asked /\ row[t].cancel # "done" /\ wire[t] \in Seq(Uncancelled)
SignalInv == \A t \in Tasks : SignalAt(t)

TaskInv ==
    TypeOK /\ StepInv /\ NumberInv /\ Alone /\ OutcomeInv /\ RowInv /\ BoxInv /\ SignalInv

-----------------------------------------------------------------------------
(* The steps of a run that leave the rows, and those of the Node and Core. *)
Working(t, c) ==
    \/ BeginRun(t, c) \/ ForgetRun(t, c) \/ PrepareRun(t, c) \/ CreateSandbox(t, c)
    \/ MapSandbox(t, c) \/ WaitReady(t, c) \/ RunCodex(t, c) \/ RunChecks(t, c)
    \/ DeleteSandbox(t, c) \/ Unmap(t, c) \/ FinishRun(t, c) \/ SaveOutcome(t, c)
    \/ SendOutcome(t, c) \/ DropOutcome(t, c)
Requested(t) == CreateTask(t) \/ CancelTask(t)
Received(t) == ReceiveEvent(t) \/ ReceiveResult(t) \/ ReceiveCancelled(t)

(* The next-state relation, by who acts.                                   *)
LEMMA NextCases ==
    ASSUME Next
    PROVE  \/ \E t \in Tasks : Requested(t) \/ Received(t)
           \/ \E t \in Tasks, c \in Conns :
                 Working(t, c) \/ SignalCancel(t, c) \/ AnswerCancel(t, c)
           \/ Redispatch \/ ConnectionLost \/ ReadError \/ NodeRestart
BY Zenon DEF Next, CoreStep, RunStep, Working, Requested, Received

(* A frame at the head of a well-typed queue, and the queue without it.    *)
LEMMA Receive ==
    ASSUME NEW S, NEW q \in Seq(S), q # <<>>
    PROVE  Head(q) \in S /\ Tail(q) \in Seq(S)
BY HeadTailProperties

(* The constants the actions write are of the type.                        *)
LEMMA ConstantTypes ==
    /\ Nothing \notin Package /\ NoPackage \in Package
    /\ Idle \in Exec /\ EmptyStore \in Store
    /\ \A t \in Tasks : CancelResult(t) \in Frame /\ CancelResult(t).kind = "cancelled"
    /\ \A t \in Tasks, p \in Package : Result(t, p) \in Frame /\ Result(t, p).kind = "result"
    /\ \A p \in Package \cup {Nothing} : Sending(p) \in Exec
    /\ 0 \in Box /\ MaxSandboxes \in Nat /\ 0 \in Conns
    /\ Events \subseteq Frame
<1>1. Nothing \notin Package /\ NoPackage \in Package /\ Idle \in Exec /\ EmptyStore \in Store
    BY TaskAssumption DEF Nothing, NoPackage, Package, Terminal, Cleanup, Idle, Exec, Steps, Box,
       EmptyStore, Store
<1>2. \A t \in Tasks : CancelResult(t) \in Frame /\ CancelResult(t).kind = "cancelled"
    BY DEF CancelResult, Frame
<1>3. \A t \in Tasks, p \in Package : Result(t, p) \in Frame /\ Result(t, p).kind = "result"
    BY DEF Result, Frame, Package
<1>4. \A p \in Package \cup {Nothing} : Sending(p) \in Exec
    BY <1>1 DEF Sending, Exec, Steps
<1>5. 0 \in Box /\ MaxSandboxes \in Nat /\ 0 \in Conns /\ Events \subseteq Frame
    BY TaskAssumption DEF Box, Conns, Frame
<1> QED BY <1>1, <1>2, <1>3, <1>4, <1>5

(* The events an action writes are of the type.                            *)
LEMMA EventTypes ==
    ASSUME NEW t \in Tasks
    PROVE  /\ \A s \in {"active"} \cup Terminal, k \in Cleanup : Event(t, s, k) \in Events
           /\ Event(t, "active", "pending") \in Events
           /\ \A p \in Package : EventsOf(t, p) \in Seq(Events)
<1>1. \A s \in {"active"} \cup Terminal, k \in Cleanup : Event(t, s, k) \in Events
    BY DEF Event, Events
<1>2. Event(t, "active", "pending") \in Events
    BY <1>1 DEF Cleanup
<1>3. ASSUME NEW p \in Package PROVE EventsOf(t, p) \in Seq(Events)
    <2>1. CASE p.cleanup = "none"
        BY <2>1 DEF EventsOf
    <2>2. CASE p.cleanup # "none"
        <3>1. Event(t, p.state, p.cleanup) \in Events
            BY <1>1, <2>2 DEF Package
        <3> QED BY <1>2, <2>2, <3>1 DEF EventsOf
    <2> QED BY <2>1, <2>2
<1> QED BY <1>1, <1>2, <1>3

(* The outbox after an outcome was saved is of the type.                   *)
LEMMA OutboxType ==
    ASSUME NEW t \in Tasks, NEW p \in Package, p.cleanup # "none", NEW q \in Seq(Events)
    PROVE  Outboxed(t, q, p) \in Seq(Events)
<1>1. Event(t, p.state, p.cleanup) \in Events
    BY EventTypes DEF Package
<1>2. EventsOf(t, p) \in Seq(Events)
    BY EventTypes
<1>3. Append(q, Event(t, p.state, p.cleanup)) \in Seq(Events)
    BY <1>1
<1> QED BY <1>2, <1>3 DEF Outboxed

(* Events live or batched are frames.                                      *)
LEMMA EventsMonotonic ==
    ASSUME NEW S, Events \subseteq S, NEW q \in Seq(Events)
    PROVE  q \in Seq(S)
BY SeqMonotonic

(* The queue of a task grows by at most one event, the others stay.        *)
Told(t) == /\ wire'[t] = wire[t] \/ \E e \in Events : wire'[t] = Append(wire[t], e)
           /\ wire' \in [Tasks -> Seq(Frame)]
           /\ \A u \in Tasks : u # t => wire'[u] = wire[u]
(* What push_task_state does to the queues.                                *)
LEMMA PushType ==
    ASSUME NEW t \in Tasks, NEW c, NEW s \in {"active"} \cup Terminal, NEW k \in Cleanup,
           wire \in [Tasks -> Seq(Frame)], Push(t, c, s, k)
    PROVE  Told(t)
<1>1. Event(t, s, k) \in Events /\ Event(t, s, k) \in Frame
    BY EventTypes, ConstantTypes
<1>2. Append(wire[t], Event(t, s, k)) \in Seq(Frame)
    BY <1>1
<1> HIDE DEF Event
<1>3. \/ wire' = wire
      \/ wire' = [wire EXCEPT ![t] = Append(wire[t], Event(t, s, k))]
    BY DEF Push
<1> QED BY <1>1, <1>2, <1>3 DEF Told

(* A queue that is left alone, and a stage.                                *)
LEMMA ToldCases ==
    ASSUME NEW t \in Tasks, NEW c, wire \in [Tasks -> Seq(Frame)],
           PushStage(t, c) \/ UNCHANGED wire
    PROVE  Told(t)
<1>1. CASE PushStage(t, c)
    BY <1>1, PushType DEF PushStage, Cleanup
<1>2. CASE UNCHANGED wire
    BY <1>2 DEF Told
<1> QED BY <1>1, <1>2

(* The steps of an execution keep its fields in their sets.                *)
LEMMA ExecTypes ==
    ASSUME NEW r \in Exec, NEW a \in Steps
    PROVE  /\ [r EXCEPT !.at = a] \in Exec
           /\ \A b \in Box : [r EXCEPT !.at = a, !.box = b] \in Exec
           /\ \A e \in Terminal : /\ [r EXCEPT !.at = a, !.end = e] \in Exec
                                 /\ \A x \in BOOLEAN :
                                       [r EXCEPT !.at = a, !.end = e, !.clean = x] \in Exec
           /\ \A x \in BOOLEAN : /\ [r EXCEPT !.at = a, !.ok = x] \in Exec
                                /\ [r EXCEPT !.at = a, !.clean = x] \in Exec
                                /\ [r EXCEPT !.at = a, !.cut = x] \in Exec
                                /\ [r EXCEPT !.cut = x] \in Exec
           /\ \A p \in Package : [r EXCEPT !.at = a, !.answer = p] \in Exec
BY DEF Exec

(* Moving a run to a step leaves a run, and leaves the others.             *)
LEMMA ToType ==
    ASSUME NEW t \in Tasks, NEW c \in Conns, NEW r \in Exec,
           run \in [Tasks -> [Conns -> Exec]], To(t, c, r)
    PROVE  /\ run' \in [Tasks -> [Conns -> Exec]] /\ run'[t][c] = r
           /\ \A u \in Tasks, d \in Conns : u # t \/ d # c => run'[u][d] = run[u][d]
BY DEF To

(* The counters go up by one, or stay.                                     *)
LEMMA CounterUp ==
    ASSUME NEW D, NEW n \in D, NEW f \in [D -> Nat], NEW k \in Nat
    PROVE  /\ [f EXCEPT ![n] = k] \in [D -> Nat]
           /\ [f EXCEPT ![n] = @ + k] \in [D -> Nat]
           /\ \A m \in D : [f EXCEPT ![n] = @ + k][m] = IF m = n THEN f[m] + k ELSE f[m]
OBVIOUS

(* Counting leaves counts, and those of other things.                      *)
LEMMA CountType ==
    ASSUME NEW n \in Counts, NEW bound,
           count \in [Counts -> Nat], Tick(n, bound) \/ UNCHANGED count
    PROVE  /\ count' \in [Counts -> Nat]
           /\ \A m \in Counts : count'[m] = count[m] \/ (m = n /\ count'[m] = count[m] + 1)
<1>1. CASE UNCHANGED count
    BY <1>1
<1>2. CASE Tick(n, bound)
    BY <1>2, CounterUp DEF Tick
<1> QED BY <1>1, <1>2

(* What disturbs a step leaves the number of the dispatcher and of the     *)
(* sandboxes.                                                              *)
Counted == /\ count' \in [Counts -> Nat] /\ Current' = Current
           /\ count'.boxes = count.boxes /\ count'.faults >= count.faults
(* The disturbances leave them.                                            *)
LEMMA CountKept ==
    ASSUME count \in [Counts -> Nat],
           \/ UNCHANGED count \/ Error \/ Tick("faults", MaxFaults)
           \/ Tick("stops", MaxCoreStops) \/ Tick("others", MaxOthers)
    PROVE  Counted
<1>1. PICK n \in Counts \ {"boxes", "reads"}, bound \in Nat : Tick(n, bound) \/ UNCHANGED count
    BY TaskAssumption DEF Error, Counts
<1>2. count' \in [Counts -> Nat] /\ \A m \in Counts : count'[m] = count[m]
                                       \/ (m = n /\ count'[m] = count[m] + 1)
    BY <1>1, CountType
<1> QED BY <1>1, <1>2 DEF Counted, Counts, Current

(* The sandboxes that restarts look at are finitely many.                  *)
LEMMA MappedFinite ==
    ASSUME TypeOK, NEW failed \in SUBSET ({disk[t].box : t \in Tasks} \ {0})
    PROVE  Cardinality(failed) \in Nat
<1>1. failed \subseteq 0 .. MaxSandboxes
    BY DEF TypeOK, Store, Box
<1>2. IsFiniteSet(0 .. MaxSandboxes)
    BY FS_Interval, TaskAssumption
<1>3. IsFiniteSet(failed)
    BY <1>1, <1>2, FS_Subset
<1> QED BY <1>3, FS_CardinalityType

-----------------------------------------------------------------------------
(* A step of one run leaves the other runs and what the Node has saved of  *)
(* other tasks.                                                            *)
Ran(t, c) ==
    /\ run' \in [Tasks -> [Conns -> Exec]]
    /\ \A u \in Tasks, d \in Conns : u # t \/ d # c => run'[u][d] = run[u][d]
Saved(t) ==
    /\ mem' \in [Tasks -> Store] /\ disk' \in [Tasks -> Store]
    /\ \A u \in Tasks : u # t => mem'[u] = mem[u] /\ disk'[u] = disk[u]
Queued(t) ==
    /\ wire' \in [Tasks -> Seq(Frame)]
    /\ \A u \in Tasks : u # t => wire'[u] = wire[u]
Moved(t, c) ==
    /\ Ran(t, c) /\ Saved(t) /\ Queued(t)
    /\ UNCHANGED <<row, seen, detached, asked>>
    /\ inbox' \subseteq inbox /\ dropped' \subseteq Tasks
    /\ pending' = pending \/ pending' = pending \ {<<t, c>>}
    /\ count' \in [Counts -> Nat] /\ Current' = Current /\ count'.faults >= count.faults

(* The parts of the type invariant the steps of a run start from.          *)
LEMMA TypeParts ==
    ASSUME TypeOK
    PROVE  /\ run \in [Tasks -> [Conns -> Exec]] /\ wire \in [Tasks -> Seq(Frame)]
           /\ mem \in [Tasks -> Store] /\ disk \in [Tasks -> Store]
           /\ count \in [Counts -> Nat] /\ dropped \subseteq Tasks
           /\ count.boxes \in Nat /\ count.faults \in Nat /\ count.reads \in Nat
           /\ \A t \in Tasks, c \in Conns : run[t][c] \in Exec /\ mem[t] \in Store
           /\ Current \in Conns
BY DEF TypeOK, Counts

(* What is saved is saved for one task.                                    *)
LEMMA SaveType ==
    ASSUME TypeOK, NEW t \in Tasks, NEW s \in Store
    PROVE  /\ Save(t, s) => Saved(t) /\ mem'[t] = s /\ disk'[t] = s
           /\ SaveFails(t, s) => Saved(t) /\ mem'[t] = s /\ UNCHANGED disk
           /\ UNCHANGED <<mem, disk>> => Saved(t)
BY DEF TypeOK, Save, SaveFails, Saved

(* What a store says after its mapping or its outcome was changed.         *)
LEMMA StoreFields ==
    ASSUME TypeOK, NEW t \in Tasks
    PROVE  /\ \A b \in Box :
                 LET x == Recorded(t, b)
                 IN  x \in Store /\ x.mapped = TRUE /\ x.box = b /\ x.outcome = mem[t].outcome
           /\ LET x == Unrecorded(t)
              IN  x \in Store /\ x.mapped = FALSE /\ x.box = 0 /\ x.outcome = mem[t].outcome
           /\ \A s \in Store, o \in Package :
                 LET x == [s EXCEPT !.outcome = o]
                 IN  x \in Store /\ x.mapped = s.mapped /\ x.box = s.box /\ x.outcome = o
           /\ \A s \in Store, o \in Package, q \in Seq(Events) :
                 LET x == [s EXCEPT !.outcome = o, !.events = q]
                 IN  x \in Store /\ x.mapped = s.mapped /\ x.box = s.box /\ x.outcome = o
<1>1. mem[t] \in Store
    BY DEF TypeOK
<1>2. \A b \in Box : LET x == Recorded(t, b)
                    IN  x \in Store /\ x.mapped = TRUE /\ x.box = b /\ x.outcome = mem[t].outcome
    BY <1>1 DEF Store, Recorded
<1>3. LET x == Unrecorded(t)
      IN  x \in Store /\ x.mapped = FALSE /\ x.box = 0 /\ x.outcome = mem[t].outcome
    BY <1>1, ConstantTypes DEF Store, Unrecorded
<1>4. \A s \in Store, o \in Package :
          LET x == [s EXCEPT !.outcome = o]
          IN  x \in Store /\ x.mapped = s.mapped /\ x.box = s.box /\ x.outcome = o
    BY DEF Store
<1>5. \A s \in Store, o \in Package, q \in Seq(Events) :
          LET x == [s EXCEPT !.outcome = o, !.events = q]
          IN  x \in Store /\ x.mapped = s.mapped /\ x.box = s.box /\ x.outcome = o
    BY DEF Store
<1> QED BY <1>2, <1>3, <1>4, <1>5

(* What a run is after it was moved to a step.                             *)
Same(t, c) == run'[t][c].box = run[t][c].box /\ run'[t][c].cut = run[t][c].cut
At(t, c, a) == run'[t][c].at = a
Clean(t, c, x) == run'[t][c].clean = x
(* The fields of a run after each of the moves.                            *)
LEMMA ToFields ==
    ASSUME TypeOK, NEW t \in Tasks, NEW c \in Conns, NEW a, NEW e, NEW x, NEW b
    PROVE  /\ To(t, c, [run[t][c] EXCEPT !.at = a]) =>
                 At(t, c, a) /\ Same(t, c) /\ Clean(t, c, run[t][c].clean)
           /\ To(t, c, [run[t][c] EXCEPT !.at = a, !.box = b]) =>
                 /\ At(t, c, a) /\ run'[t][c].box = b /\ run'[t][c].cut = run[t][c].cut
                 /\ Clean(t, c, run[t][c].clean)
           /\ To(t, c, [run[t][c] EXCEPT !.at = a, !.ok = x]) =>
                 At(t, c, a) /\ Same(t, c) /\ Clean(t, c, run[t][c].clean)
           /\ To(t, c, [run[t][c] EXCEPT !.at = a, !.clean = TRUE]) =>
                 At(t, c, a) /\ Same(t, c) /\ Clean(t, c, TRUE)
           /\ To(t, c, [run[t][c] EXCEPT !.at = a, !.clean = FALSE]) =>
                 At(t, c, a) /\ Same(t, c) /\ Clean(t, c, FALSE)
           /\ To(t, c, [run[t][c] EXCEPT !.at = a, !.end = e]) =>
                 At(t, c, a) /\ Same(t, c) /\ Clean(t, c, run[t][c].clean)
           /\ To(t, c, [run[t][c] EXCEPT !.at = a, !.end = e, !.clean = TRUE]) =>
                 At(t, c, a) /\ Same(t, c) /\ Clean(t, c, TRUE)
<1>1. run \in [Tasks -> [Conns -> Exec]] /\ run[t][c] \in Exec
    BY TypeParts
<1>2. \A r : To(t, c, r) => run'[t][c] = r
    BY <1>1 DEF To
<1> QED BY <1>1, <1>2 DEF Same, At, Clean, Exec

(* A run that has its answer has nothing else.                             *)
LEMMA SendingFields ==
    ASSUME NEW p
    PROVE  /\ Sending(p).at = "send" /\ Sending(p).answer = p /\ Sending(p).box = 0
           /\ Sending(p).cut = FALSE /\ Sending(p).clean = FALSE
           /\ Idle.at = "idle" /\ Idle.box = 0 /\ Idle.cut = FALSE /\ Idle.clean = FALSE
BY DEF Sending, Idle

(* What BeginRun does to the task and leaves of the others.                *)
LEMMA BeginEffect ==
    ASSUME TypeOK, NEW t \in Tasks, NEW c \in Conns, BeginRun(t, c)
    PROVE  /\ Moved(t, c) /\ UNCHANGED <<mem, disk, boxes, named, lost, count>>
           /\ run[t][c].at = "idle" /\ Taken("run", t, c) \in inbox
           /\ pending' = pending \ {<<t, c>>}
           /\ run'[t][c].box = 0 /\ run'[t][c].clean = FALSE
           /\ \/ /\ run'[t][c].at = "prepare" /\ mem[t].outcome = Nothing
                 /\ run'[t][c].cut = (<<t, c>> \in pending) /\ Told(t)
              \/ /\ run'[t][c] = Sending(mem[t].outcome) /\ mem[t].outcome \in Package
                 /\ run'[t][c].at = "send" /\ run'[t][c].answer = mem[t].outcome
                 /\ UNCHANGED wire
<1> DEFINE x == (<<t, c>> \in pending)
<1>1. /\ UNCHANGED <<mem, disk, boxes, named, lost, count, row, seen, detached, asked, dropped>>
      /\ run[t][c].at = "idle" /\ Taken("run", t, c) \in inbox /\ inbox' \subseteq inbox
      /\ pending' = pending \ {<<t, c>>}
    BY DEF BeginRun, Core, Outside, Take
<1>2. \/ /\ To(t, c, [Idle EXCEPT !.at = "prepare", !.cut = x]) /\ PushStage(t, c)
         /\ mem[t].outcome = Nothing
      \/ To(t, c, Sending(mem[t].outcome)) /\ UNCHANGED wire /\ mem[t].outcome # Nothing
    BY DEF BeginRun
<1>3. Counted /\ Saved(t)
    BY <1>1, SaveType, ConstantTypes, CountKept, TypeParts
<1>4. CASE /\ To(t, c, [Idle EXCEPT !.at = "prepare", !.cut = x]) /\ PushStage(t, c)
           /\ mem[t].outcome = Nothing
    <2>1. [Idle EXCEPT !.at = "prepare", !.cut = x] \in Exec
        <3>1. \A y \in BOOLEAN : [Idle EXCEPT !.at = "prepare", !.cut = y] \in Exec
            BY ConstantTypes, ExecTypes DEF Steps
        <3>2. x \in BOOLEAN
            OBVIOUS
        <3> HIDE DEF x
        <3> QED BY <3>1, <3>2
    <2>2. LET y == [Idle EXCEPT !.at = "prepare", !.cut = x]
          IN  y.at = "prepare" /\ y.cut = x /\ y.box = 0 /\ y.clean = FALSE
        BY DEF Idle
    <2>3. Told(t)
        BY <1>4, ToldCases, TypeParts
    <2>4. Ran(t, c) /\ run'[t][c] = [Idle EXCEPT !.at = "prepare", !.cut = x]
        BY <1>4, <2>1, ToType, TypeParts DEF Ran
    <2>5. run'[t][c].at = "prepare" /\ run'[t][c].cut = x /\ run'[t][c].box = 0
          /\ run'[t][c].clean = FALSE
        BY <2>2, <2>4
    <2> QED BY <1>1, <1>3, <1>4, <2>3, <2>4, <2>5, TypeParts DEF Moved, Queued, Told, Counted
<1>5. CASE To(t, c, Sending(mem[t].outcome)) /\ UNCHANGED wire /\ mem[t].outcome # Nothing
    <2>1. mem[t].outcome \in Package
        BY <1>5, TypeParts DEF Store
    <2>2. Ran(t, c) /\ run'[t][c] = Sending(mem[t].outcome)
        BY <1>5, <2>1, ConstantTypes, ToType, TypeParts DEF Ran
    <2> QED BY <1>1, <1>3, <1>5, <2>1, <2>2, SendingFields, TypeParts DEF Moved, Queued, Counted
<1> QED BY <1>2, <1>4, <1>5

(* A RunTask that is given up leaves the run and the stores.               *)
LEMMA ForgetEffect ==
    ASSUME TypeOK, NEW t \in Tasks, NEW c \in Conns, ForgetRun(t, c)
    PROVE  /\ Moved(t, c) /\ UNCHANGED <<run, mem, disk, wire, boxes, named, lost>>
           /\ run[t][c].at = "idle" /\ count'.faults = count.faults + 1
           /\ count'.boxes = count.boxes
<1>1. /\ UNCHANGED <<run, mem, disk, wire, boxes, named, lost, row, seen, detached, asked>>
      /\ run[t][c].at = "idle" /\ inbox' \subseteq inbox
      /\ pending' = pending \ {<<t, c>>} /\ Tick("faults", MaxFaults)
      /\ dropped' \subseteq Tasks
    BY TypeParts DEF ForgetRun, Core, Outside, Take, Drop
<1>2. Counted /\ Saved(t)
    BY <1>1, SaveType, ConstantTypes, CountKept, TypeParts
<1>3. count'.faults = count.faults + 1
    BY <1>1, TypeParts DEF Tick, Counts
<1> QED BY <1>1, <1>2, <1>3, TypeParts DEF Moved, Ran, Queued, Counted

(* What PrepareRun does to the task and leaves of the others.              *)
LEMMA PrepareEffect ==
    ASSUME TypeOK, NEW t \in Tasks, NEW c \in Conns, PrepareRun(t, c)
    PROVE  /\ Moved(t, c) /\ Told(t) /\ UNCHANGED <<boxes, named, pending, inbox>>
           /\ run[t][c].at = "prepare" /\ run'[t][c].box \in {0, run[t][c].box}
           /\ count'.boxes = count.boxes /\ disk'[t] = mem'[t]
           /\ \/ /\ mem'[t].outcome = mem[t].outcome /\ mem'[t].box = 0
                 /\ lost' = lost \cup {mem[t].box, disk[t].box}
                 /\ run'[t][c].cut = run[t][c].cut
                 /\ \/ run'[t][c].at = "create" /\ run'[t][c].clean = run[t][c].clean
                    \/ run'[t][c].at = "unmap" /\ run'[t][c].clean = TRUE
              \/ /\ mem'[t].outcome = NoPackage
                 /\ \/ /\ mem'[t].mapped = mem[t].mapped /\ mem'[t].box = mem[t].box
                       /\ UNCHANGED lost
                    \/ lost' = lost \cup {mem[t].box, disk[t].box}
                 /\ run'[t][c] = Sending(NoPackage)
                 /\ run'[t][c].at = "send" /\ run'[t][c].clean = FALSE
                 /\ run'[t][c].answer = NoPackage
<1>1. /\ run[t][c].at = "prepare"
      /\ UNCHANGED <<boxes, named, pending, asked, row, seen, inbox, dropped, detached>>
      /\ PushStage(t, c) \/ UNCHANGED wire
      /\ UNCHANGED count \/ Error
    BY DEF PrepareRun, NoWorktree, NoMapping, FailBare, NoError, Core, Registry, Delivery
<1>2. Counted /\ Told(t)
    BY <1>1, CountKept, ToldCases, TypeParts
<1>3. ASSUME NEW s \in Store, Save(t, s), NEW r \in Exec, To(t, c, r)
      PROVE  /\ Moved(t, c) /\ mem'[t] = s /\ disk'[t] = s /\ run'[t][c] = r
    <2>1. Saved(t) /\ mem'[t] = s /\ disk'[t] = s
        BY <1>3, SaveType
    <2>2. Ran(t, c) /\ run'[t][c] = r
        BY <1>3, ToType, TypeParts DEF Ran
    <2> QED BY <1>1, <1>2, <2>1, <2>2, TypeParts DEF Moved, Queued, Told, Counted
<1>4. CASE Save(t, Recorded(t, 0)) /\ Replace(t)
           /\ \/ To(t, c, [run[t][c] EXCEPT !.at = "unmap", !.end = "cancelled", !.clean = TRUE])
              \/ To(t, c, [run[t][c] EXCEPT !.at = "create"])
    <2>1. Recorded(t, 0) \in Store /\ Recorded(t, 0).outcome = mem[t].outcome
          /\ Recorded(t, 0).box = 0
        BY StoreFields, ConstantTypes
    <2>2. [run[t][c] EXCEPT !.at = "unmap", !.end = "cancelled", !.clean = TRUE] \in Exec
          /\ [run[t][c] EXCEPT !.at = "create"] \in Exec
        BY ConstantTypes, ExecTypes, TypeParts DEF Steps, Terminal
    <2>3. /\ Moved(t, c) /\ mem'[t] = Recorded(t, 0) /\ disk'[t] = Recorded(t, 0)
          /\ \/ run'[t][c] = [run[t][c] EXCEPT !.at = "unmap", !.end = "cancelled", !.clean = TRUE]
             \/ run'[t][c] = [run[t][c] EXCEPT !.at = "create"]
        BY <1>3, <1>4, <2>1, <2>2
    <2>4. /\ run'[t][c].box = run[t][c].box /\ run'[t][c].cut = run[t][c].cut
          /\ \/ run'[t][c].at = "create" /\ run'[t][c].clean = run[t][c].clean
             \/ run'[t][c].at = "unmap" /\ run'[t][c].clean = TRUE
        BY <1>4, ToFields DEF At, Same, Clean
    <2> QED BY <1>1, <1>2, <1>4, <2>1, <2>3, <2>4 DEF Replace, Counted
<1>5. CASE \E s \in {mem[t], Recorded(t, 0)} :
              FailBare(t, c, s) /\ ((s = mem[t] /\ UNCHANGED lost) \/ Replace(t))
    <2>1. PICK s \in Store : FailBare(t, c, s) /\ ((s = mem[t] /\ UNCHANGED lost) \/ Replace(t))
        BY <1>5, StoreFields, ConstantTypes, TypeParts
    <2> DEFINE n == [s EXCEPT !.outcome = NoPackage]
    <2>2. n \in Store /\ n.mapped = s.mapped /\ n.box = s.box /\ n.outcome = NoPackage
        <3>1. NoPackage \in Package
            BY ConstantTypes
        <3> QED BY <3>1 DEF Store
    <2>3. Save(t, n) /\ To(t, c, Sending(NoPackage))
        BY <2>1 DEF FailBare
    <2>4. Sending(NoPackage) \in Exec
        BY ConstantTypes
    <2> HIDE DEF n
    <2>5. Moved(t, c) /\ mem'[t] = n /\ disk'[t] = n /\ run'[t][c] = Sending(NoPackage)
        BY <1>3, <2>2, <2>3, <2>4
    <2>6. run'[t][c].at = "send" /\ run'[t][c].clean = FALSE /\ run'[t][c].box = 0
          /\ run'[t][c].answer = NoPackage
        BY <2>5, SendingFields
    <2>7. \/ mem'[t].mapped = mem[t].mapped /\ mem'[t].box = mem[t].box /\ UNCHANGED lost
          \/ lost' = lost \cup {mem[t].box, disk[t].box}
        BY <2>1, <2>2, <2>5 DEF Replace
    <2> QED BY <1>1, <1>2, <2>2, <2>5, <2>6, <2>7 DEF Counted
<1> QED BY <1>4, <1>5 DEF PrepareRun, NoWorktree, NoMapping

(* A step of a run that works in its sandbox.                              *)
LEMMA MovedWork ==
    ASSUME TypeOK, NEW t \in Tasks, NEW c \in Conns, NEW r \in Exec, To(t, c, r),
           UNCHANGED <<row, seen, detached, asked, inbox, dropped, pending>>,
           Counted, Saved(t), Queued(t)
    PROVE  Moved(t, c) /\ run'[t][c] = r
<1>1. Ran(t, c) /\ run'[t][c] = r
    BY ToType, TypeParts DEF Ran
<1> QED BY <1>1, TypeParts DEF Moved, Counted

(* Queues and stores that are left alone.                                  *)
LEMMA Unchanged ==
    ASSUME TypeOK, NEW t \in Tasks
    PROVE  /\ UNCHANGED wire \/ Told(t) => Queued(t)
           /\ UNCHANGED <<mem, disk>> => Saved(t)
           /\ UNCHANGED count \/ Error => Counted
<1>1. UNCHANGED wire \/ Told(t) => Queued(t)
    BY TypeParts DEF Queued, Told
<1>2. UNCHANGED <<mem, disk>> => Saved(t)
    BY TypeParts DEF Saved
<1>3. UNCHANGED count \/ Error => Counted
    BY CountKept, TypeParts
<1> QED BY <1>1, <1>2, <1>3

(* What CreateSandbox does to the task and leaves of the others.           *)
LEMMA CreateEffect ==
    ASSUME TypeOK, NEW t \in Tasks, NEW c \in Conns, CreateSandbox(t, c)
    PROVE  LET b == count.boxes + 1
           IN  /\ Moved(t, c) /\ UNCHANGED <<wire, mem, disk, named, lost, pending, inbox>>
               /\ run[t][c].at = "create" /\ run'[t][c].cut = run[t][c].cut
               /\ b \in 1 .. MaxSandboxes
               /\ \/ /\ run'[t][c].at = "map" /\ run'[t][c].box = b
                     /\ run'[t][c].clean = run[t][c].clean
                     /\ boxes' = boxes \cup {[id |-> b, task |-> t]} /\ count'.boxes = b
                  \/ /\ run'[t][c].at = "unmap" /\ run'[t][c].box = run[t][c].box
                     /\ run'[t][c].clean = TRUE
                     /\ \/ boxes' = boxes /\ count'.boxes = count.boxes
                        \/ boxes' = boxes \cup {[id |-> b, task |-> t]} /\ count'.boxes = b
<1> DEFINE b == count.boxes + 1
<1> DEFINE made == [count EXCEPT !.boxes = b]
<1>1. /\ run[t][c].at = "create" /\ count.boxes < MaxSandboxes
      /\ UNCHANGED <<wire, mem, disk, named, lost, row, seen, detached, asked, inbox, dropped,
                     pending>>
    BY DEF CreateSandbox, Core, Registry, Delivery
<1>2. b \in Nat /\ b \in 1 .. MaxSandboxes /\ b \in Box
    BY <1>1, ConstantTypes, TypeParts DEF Box
<1>3. \/ /\ boxes' = boxes \cup {[id |-> b, task |-> t]} /\ count' = made
         /\ To(t, c, [run[t][c] EXCEPT !.at = "map", !.box = b])
      \/ /\ \/ boxes' = boxes /\ Error
            \/ /\ boxes' = boxes \cup {[id |-> b, task |-> t]}
               /\ count' = [made EXCEPT !.errors = @ + 1]
         /\ To(t, c, [run[t][c] EXCEPT !.at = "unmap", !.end = "failed", !.clean = TRUE])
    BY DEF CreateSandbox
<1>4. /\ made \in [Counts -> Nat] /\ made.boxes = b /\ made.faults = count.faults
      /\ made.reads = count.reads
    <2>1. count \in [Counts -> Nat]
        BY TypeParts
    <2> HIDE DEF b
    <2> QED BY <1>2, <2>1 DEF Counts
<1>5. \/ count' = made \/ count' = [made EXCEPT !.errors = @ + 1]
      => /\ count'.boxes = b /\ count'.faults = count.faults /\ Current' = Current
         /\ count' \in [Counts -> Nat]
    <2> HIDE DEF b, made
    <2> QED BY <1>4, TypeParts DEF Counts, Current
<1>6. Error => Counted
    BY CountKept, TypeParts
<1>7. /\ [run[t][c] EXCEPT !.at = "map", !.box = b] \in Exec
      /\ [run[t][c] EXCEPT !.at = "unmap", !.end = "failed", !.clean = TRUE] \in Exec
    <2>1. run[t][c] \in Exec
        BY TypeParts
    <2> HIDE DEF b
    <2> QED BY <1>2, <2>1, ExecTypes DEF Steps, Terminal
<1>8. Saved(t) /\ Queued(t)
    BY <1>1, Unchanged
<1> HIDE DEF b, made
<1>9. Ran(t, c)
    BY <1>3, <1>7, ToType, TypeParts DEF Ran
<1>10. Moved(t, c)
    BY <1>1, <1>3, <1>5, <1>6, <1>8, <1>9, TypeParts DEF Moved, Counted
<1>11. /\ To(t, c, [run[t][c] EXCEPT !.at = "map", !.box = b]) =>
            /\ run'[t][c].at = "map" /\ run'[t][c].box = b /\ run'[t][c].cut = run[t][c].cut
            /\ run'[t][c].clean = run[t][c].clean
       /\ To(t, c, [run[t][c] EXCEPT !.at = "unmap", !.end = "failed", !.clean = TRUE]) =>
            run'[t][c].at = "unmap" /\ Same(t, c) /\ run'[t][c].clean = TRUE
    BY ToFields DEF At, Clean
<1>12. \/ /\ run'[t][c].at = "map" /\ run'[t][c].box = b
          /\ run'[t][c].clean = run[t][c].clean /\ run'[t][c].cut = run[t][c].cut
          /\ boxes' = boxes \cup {[id |-> b, task |-> t]} /\ count'.boxes = b
       \/ /\ run'[t][c].at = "unmap" /\ run'[t][c].box = run[t][c].box
          /\ run'[t][c].clean = TRUE /\ run'[t][c].cut = run[t][c].cut
          /\ \/ boxes' = boxes /\ count'.boxes = count.boxes
             \/ boxes' = boxes \cup {[id |-> b, task |-> t]} /\ count'.boxes = b
    BY <1>3, <1>5, <1>6, <1>11 DEF Same, Counted
<1> QED BY <1>1, <1>2, <1>10, <1>12 DEF b

(* What MapSandbox does to the task and leaves of the others.              *)
LEMMA MapEffect ==
    ASSUME TypeOK, NEW t \in Tasks, NEW c \in Conns, MapSandbox(t, c)
    PROVE  /\ Moved(t, c) /\ UNCHANGED <<boxes, wire, lost, pending, inbox>>
           /\ count'.boxes = count.boxes
           /\ run[t][c].at = "map" /\ Same(t, c) /\ run'[t][c].clean = run[t][c].clean
           /\ mem'[t].mapped = TRUE /\ mem'[t].box = run[t][c].box
           /\ mem'[t].outcome = mem[t].outcome
           /\ \/ /\ run'[t][c].at = "ready" /\ disk'[t] = mem'[t]
                 /\ named' = named \cup {run[t][c].box}
              \/ run'[t][c].at = "delete" /\ disk'[t] = disk[t] /\ UNCHANGED named
<1>1. /\ run[t][c].at = "map"
      /\ UNCHANGED <<boxes, wire, lost, row, seen, detached, asked, inbox, dropped, pending>>
      /\ UNCHANGED count \/ Error
    BY DEF MapSandbox, Core, Registry, Delivery, NoError
<1>2. PICK b \in Box : b = run[t][c].box
    BY TypeParts DEF Exec
<1>3. /\ Recorded(t, b) \in Store /\ Recorded(t, b).mapped = TRUE /\ Recorded(t, b).box = b
      /\ Recorded(t, b).outcome = mem[t].outcome
    BY StoreFields
<1> DEFINE s == Recorded(t, b)
<1>4. \/ Save(t, s) /\ To(t, c, [run[t][c] EXCEPT !.at = "ready"])
         /\ named' = named \cup {run[t][c].box}
      \/ SaveFails(t, s) /\ UNCHANGED named
         /\ To(t, c, [run[t][c] EXCEPT !.at = "delete", !.end = "failed"])
    BY <1>2 DEF MapSandbox
<1> HIDE DEF s
<1>5. Saved(t) /\ mem'[t] = s /\ (Save(t, s) => disk'[t] = s) /\ (SaveFails(t, s) => disk'[t] = disk[t])
    BY <1>3, <1>4, SaveType DEF s
<1>6. /\ [run[t][c] EXCEPT !.at = "ready"] \in Exec
      /\ [run[t][c] EXCEPT !.at = "delete", !.end = "failed"] \in Exec
    BY ExecTypes, TypeParts DEF Steps, Terminal
<1>7. Counted /\ Queued(t)
    BY <1>1, Unchanged
<1>8. Moved(t, c)
    BY <1>1, <1>4, <1>5, <1>6, <1>7, MovedWork
<1>9. /\ To(t, c, [run[t][c] EXCEPT !.at = "ready"]) =>
            run'[t][c].at = "ready" /\ Same(t, c) /\ run'[t][c].clean = run[t][c].clean
      /\ To(t, c, [run[t][c] EXCEPT !.at = "delete", !.end = "failed"]) =>
            run'[t][c].at = "delete" /\ Same(t, c) /\ run'[t][c].clean = run[t][c].clean
    BY ToFields DEF At, Clean
<1>10. mem'[t].mapped = TRUE /\ mem'[t].box = run[t][c].box /\ mem'[t].outcome = mem[t].outcome
    BY <1>2, <1>3, <1>5 DEF s
<1>11. \/ /\ run'[t][c].at = "ready" /\ disk'[t] = mem'[t]
          /\ named' = named \cup {run[t][c].box}
       \/ run'[t][c].at = "delete" /\ disk'[t] = disk[t] /\ UNCHANGED named
    BY <1>4, <1>5, <1>9
<1> QED BY <1>1, <1>4, <1>7, <1>8, <1>9, <1>10, <1>11 DEF Counted

(* What waiting for the sandbox and working in it do to the task.          *)
LEMMA WorkEffect ==
    ASSUME TypeOK, NEW t \in Tasks, NEW c \in Conns,
           WaitReady(t, c) \/ RunCodex(t, c) \/ RunChecks(t, c)
    PROVE  /\ Moved(t, c) /\ Told(t)
           /\ UNCHANGED <<mem, disk, boxes, named, lost, pending, inbox>>
           /\ count'.boxes = count.boxes
           /\ run[t][c].at \in {"ready", "codex", "checks"}
           /\ run'[t][c].at \in {"codex", "checks", "delete"}
           /\ Same(t, c) /\ run'[t][c].clean = run[t][c].clean
<1>1. /\ UNCHANGED <<mem, disk, boxes, named, lost, row, seen, detached, asked, inbox, dropped,
                     pending>>
      /\ run[t][c].at \in {"ready", "codex", "checks"}
      /\ PushStage(t, c) /\ (UNCHANGED count \/ Error)
    BY DEF WaitReady, RunCodex, RunChecks, CutShort, TimedOut, NoEndpoint, NoError, Collect,
       Core, Registry, Outside, Delivery
<1>2. \/ \E end \in Terminal : To(t, c, [run[t][c] EXCEPT !.at = "delete", !.end = end])
      \/ To(t, c, [run[t][c] EXCEPT !.at = "codex"])
      \/ \E ok \in BOOLEAN : To(t, c, [run[t][c] EXCEPT !.at = "checks", !.ok = ok])
    BY DEF WaitReady, RunCodex, RunChecks, CutShort, TimedOut, NoEndpoint, Collect, Terminal,
       ExitOk
<1> DEFINE Works == /\ \E r \in Exec : To(t, c, r)
                    /\ run'[t][c].at \in {"codex", "checks", "delete"} /\ Same(t, c)
                    /\ run'[t][c].clean = run[t][c].clean
<1>3. Works
    <2>0. run[t][c] \in Exec
        BY TypeParts
    <2>1. ASSUME NEW end \in Terminal, To(t, c, [run[t][c] EXCEPT !.at = "delete", !.end = end])
          PROVE  Works
        <3>1. [run[t][c] EXCEPT !.at = "delete", !.end = end] \in Exec
            BY <2>0, ExecTypes DEF Steps
        <3>2. run'[t][c].at = "delete" /\ Same(t, c) /\ run'[t][c].clean = run[t][c].clean
            BY <2>1, ToFields DEF At, Clean
        <3> QED BY <2>1, <3>1, <3>2
    <2>2. CASE To(t, c, [run[t][c] EXCEPT !.at = "codex"])
        <3>1. [run[t][c] EXCEPT !.at = "codex"] \in Exec
            BY <2>0, ExecTypes DEF Steps
        <3>2. run'[t][c].at = "codex" /\ Same(t, c) /\ run'[t][c].clean = run[t][c].clean
            BY <2>2, ToFields DEF At, Clean
        <3> QED BY <2>2, <3>1, <3>2
    <2>3. ASSUME NEW ok \in BOOLEAN, To(t, c, [run[t][c] EXCEPT !.at = "checks", !.ok = ok])
          PROVE  Works
        <3>1. [run[t][c] EXCEPT !.at = "checks", !.ok = ok] \in Exec
            BY <2>0, ExecTypes DEF Steps
        <3>2. run'[t][c].at = "checks" /\ Same(t, c) /\ run'[t][c].clean = run[t][c].clean
            BY <2>3, ToFields DEF At, Clean
        <3> QED BY <2>3, <3>1, <3>2
    <2> QED BY <1>2, <2>1, <2>2, <2>3
<1>4. PICK r \in Exec : To(t, c, r)
    BY <1>3
<1>5. Counted /\ Told(t) /\ Saved(t) /\ Queued(t)
    BY <1>1, Unchanged, ToldCases, TypeParts
<1>6. Moved(t, c)
    BY <1>1, <1>4, <1>5, MovedWork
<1> QED BY <1>1, <1>3, <1>5, <1>6 DEF Counted

(* What DeleteSandbox does to the task and leaves of the others.           *)
LEMMA DeleteEffect ==
    ASSUME TypeOK, NEW t \in Tasks, NEW c \in Conns, DeleteSandbox(t, c)
    PROVE  /\ Moved(t, c) /\ UNCHANGED <<mem, disk, wire, named, lost, pending, inbox>>
           /\ count'.boxes = count.boxes
           /\ run[t][c].at = "delete" /\ Same(t, c)
           /\ \/ /\ run'[t][c].at = "unmap" /\ run'[t][c].clean = TRUE
                 /\ boxes' = {b \in boxes : b.id # run[t][c].box}
              \/ /\ run'[t][c].at = "finish" /\ run'[t][c].clean = run[t][c].clean
                 /\ UNCHANGED boxes
<1>1. /\ run[t][c].at = "delete"
      /\ UNCHANGED <<mem, disk, wire, named, lost, row, seen, detached, asked, inbox, dropped,
                     pending>>
    BY DEF DeleteSandbox, Core, Registry, Delivery
<1>2. \/ /\ To(t, c, [run[t][c] EXCEPT !.at = "unmap", !.clean = TRUE])
         /\ boxes' = {b \in boxes : b.id # run[t][c].box} /\ UNCHANGED count
      \/ To(t, c, [run[t][c] EXCEPT !.at = "finish"]) /\ UNCHANGED boxes /\ Error
    BY DEF DeleteSandbox, NoError
<1>3. /\ [run[t][c] EXCEPT !.at = "unmap", !.clean = TRUE] \in Exec
      /\ [run[t][c] EXCEPT !.at = "finish"] \in Exec
    BY ExecTypes, TypeParts DEF Steps
<1>4. Counted /\ Saved(t) /\ Queued(t)
    BY <1>1, <1>2, Unchanged
<1>5. Moved(t, c)
    BY <1>1, <1>2, <1>3, <1>4, MovedWork
<1>6. /\ To(t, c, [run[t][c] EXCEPT !.at = "unmap", !.clean = TRUE]) =>
            run'[t][c].at = "unmap" /\ Same(t, c) /\ run'[t][c].clean = TRUE
      /\ To(t, c, [run[t][c] EXCEPT !.at = "finish"]) =>
            run'[t][c].at = "finish" /\ Same(t, c) /\ run'[t][c].clean = run[t][c].clean
    BY ToFields DEF At, Clean
<1> QED BY <1>1, <1>2, <1>4, <1>5, <1>6 DEF Counted

(* What Unmap does to the task and leaves of the others.                   *)
LEMMA UnmapEffect ==
    ASSUME TypeOK, NEW t \in Tasks, NEW c \in Conns, Unmap(t, c)
    PROVE  /\ Moved(t, c) /\ UNCHANGED <<boxes, wire, named, lost, pending, inbox>>
           /\ count'.boxes = count.boxes
           /\ run[t][c].at = "unmap" /\ run'[t][c].at = "finish" /\ Same(t, c)
           /\ mem'[t].outcome = mem[t].outcome /\ disk'[t] \in {mem'[t], disk[t]}
           /\ run'[t][c].clean \in {run[t][c].clean, FALSE}
<1>1. /\ run[t][c].at = "unmap"
      /\ UNCHANGED <<boxes, wire, named, lost, row, seen, detached, asked, inbox, dropped,
                     pending>>
      /\ UNCHANGED count \/ Error
    BY DEF Unmap, Core, Registry, Outside, Delivery, NoError
<1> DEFINE s == Unrecorded(t)
<1>2. s \in Store /\ s.outcome = mem[t].outcome
    BY StoreFields
<1>3. \/ Save(t, s) /\ To(t, c, [run[t][c] EXCEPT !.at = "finish"])
      \/ SaveFails(t, s) /\ To(t, c, [run[t][c] EXCEPT !.at = "finish", !.clean = FALSE])
    BY DEF Unmap
<1> HIDE DEF s
<1>4. Saved(t) /\ mem'[t] = s /\ disk'[t] \in {mem'[t], disk[t]}
    BY <1>2, <1>3, SaveType
<1>5. /\ [run[t][c] EXCEPT !.at = "finish"] \in Exec
      /\ [run[t][c] EXCEPT !.at = "finish", !.clean = FALSE] \in Exec
    BY ExecTypes, TypeParts DEF Steps
<1>6. Counted /\ Queued(t)
    BY <1>1, Unchanged
<1>7. Moved(t, c)
    BY <1>1, <1>3, <1>4, <1>5, <1>6, MovedWork
<1>8. /\ To(t, c, [run[t][c] EXCEPT !.at = "finish"]) =>
            run'[t][c].at = "finish" /\ Same(t, c) /\ run'[t][c].clean = run[t][c].clean
      /\ To(t, c, [run[t][c] EXCEPT !.at = "finish", !.clean = FALSE]) =>
            run'[t][c].at = "finish" /\ Same(t, c) /\ run'[t][c].clean = FALSE
    BY ToFields DEF At, Clean
<1> QED BY <1>1, <1>2, <1>3, <1>4, <1>6, <1>7, <1>8 DEF Counted

(* What FinishRun does to the task and leaves of the others.               *)
LEMMA FinishEffect ==
    ASSUME TypeOK, NEW t \in Tasks, NEW c \in Conns, FinishRun(t, c)
    PROVE  /\ Moved(t, c) /\ Told(t)
           /\ UNCHANGED <<mem, disk, boxes, named, lost, pending, inbox, count>>
           /\ run[t][c].at = "finish" /\ run'[t][c].at = "save" /\ Same(t, c)
           /\ run'[t][c].clean = run[t][c].clean
           /\ run'[t][c].answer \in Package /\ run'[t][c].answer.cleanup # "none"
           /\ run'[t][c].answer.cleanup = "completed" => run[t][c].clean
<1> DEFINE k == IF run[t][c].clean THEN "completed" ELSE "failed"
<1> DEFINE p == [state |-> run[t][c].end, cleanup |-> k]
<1>1. /\ run[t][c].at = "finish"
      /\ UNCHANGED <<mem, disk, boxes, named, lost, row, seen, detached, asked, inbox, dropped,
                     pending, count>>
      /\ To(t, c, [run[t][c] EXCEPT !.at = "save", !.answer = p])
      /\ Push(t, c, run[t][c].end, k)
    BY DEF FinishRun, Core, Registry, Outside, Delivery
<1>2. run[t][c] \in Exec /\ run[t][c].end \in Terminal /\ k \in Cleanup
    BY TypeParts DEF Exec, Cleanup
<1>3. p \in Package /\ p.cleanup = k
    BY <1>2 DEF Package
<1>4. k # "none" /\ (k = "completed" => run[t][c].clean)
    OBVIOUS
<1> HIDE DEF k, p
<1>5. Told(t)
    BY <1>1, <1>2, PushType, TypeParts
<1>6. [run[t][c] EXCEPT !.at = "save", !.answer = p] \in Exec
    BY <1>2, <1>3, ExecTypes DEF Steps
<1>7. Counted /\ Saved(t) /\ Queued(t)
    BY <1>1, <1>5, Unchanged
<1>8. Moved(t, c)
    BY <1>1, <1>6, <1>7, MovedWork
<1>9. run'[t][c].at = "save" /\ Same(t, c) /\ run'[t][c].clean = run[t][c].clean
      /\ run'[t][c].answer = p
    <2> DEFINE r == [run[t][c] EXCEPT !.at = "save", !.answer = p]
    <2>1. r.at = "save" /\ r.box = run[t][c].box /\ r.cut = run[t][c].cut
          /\ r.clean = run[t][c].clean /\ r.answer = p
        BY <1>2 DEF Exec
    <2>2. run'[t][c] = r
        BY <1>1, <1>6, ToType, TypeParts
    <2> HIDE DEF r
    <2> QED BY <2>1, <2>2 DEF Same
<1> QED BY <1>1, <1>3, <1>4, <1>5, <1>8, <1>9

(* What SaveOutcome does to the task and leaves of the others.             *)
LEMMA SaveEffect ==
    ASSUME TypeOK, StepInv, NEW t \in Tasks, NEW c \in Conns, SaveOutcome(t, c)
    PROVE  /\ Moved(t, c) /\ UNCHANGED <<wire, boxes, named, lost, pending, inbox, count>>
           /\ run[t][c].at = "save" /\ run[t][c].answer \in Package
           /\ run[t][c].answer.cleanup # "none"
           /\ mem'[t].outcome = run[t][c].answer /\ disk'[t] = mem'[t]
           /\ mem'[t].mapped = mem[t].mapped /\ mem'[t].box = mem[t].box
           /\ run'[t][c] = Sending(run[t][c].answer)
<1> DEFINE p == run[t][c].answer
<1> DEFINE n == [mem[t] EXCEPT !.outcome = p, !.events = Outboxed(t, @, p)]
<1>1. /\ run[t][c].at = "save"
      /\ UNCHANGED <<wire, boxes, named, lost, row, seen, detached, asked, inbox, dropped,
                     pending, count>>
      /\ Save(t, n) /\ To(t, c, Sending(p))
    BY DEF SaveOutcome, Core, Registry, Outside, Delivery
<1>2. p \in Package /\ p.cleanup # "none"
    BY <1>1 DEF StepInv, StepAt
<1>3. mem[t] \in Store /\ mem[t].events \in Seq(Events)
    BY TypeParts DEF Store
<1> HIDE DEF p
<1>4. Outboxed(t, mem[t].events, p) \in Seq(Events)
    BY <1>2, <1>3, OutboxType
<1>5. n \in Store /\ n.mapped = mem[t].mapped /\ n.box = mem[t].box /\ n.outcome = p
    <2> DEFINE q == Outboxed(t, mem[t].events, p)
    <2>1. n = [mem[t] EXCEPT !.outcome = p, !.events = q]
        BY <1>3 DEF Store
    <2> HIDE DEF q, n
    <2>2. q \in Seq(Events)
        BY <1>4 DEF q
    <2> QED BY <1>2, <1>3, <2>1, <2>2 DEF Store
<1> HIDE DEF n
<1>6. Saved(t) /\ mem'[t] = n /\ disk'[t] = n
    BY <1>1, <1>5, SaveType
<1>7. Sending(p) \in Exec
    BY <1>2, ConstantTypes
<1>8. Counted /\ Queued(t)
    BY <1>1, Unchanged
<1>9. Moved(t, c) /\ run'[t][c] = Sending(p)
    BY <1>1, <1>6, <1>7, <1>8, MovedWork
<1> QED BY <1>1, <1>2, <1>5, <1>6, <1>9 DEF p

(* What an answer does to the task and leaves of the others: the queue of  *)
(* the dispatcher in use takes the batch and perhaps the result.           *)
LEMMA SendEffect ==
    ASSUME TypeOK, StepInv, NEW t \in Tasks, NEW c \in Conns,
           SendOutcome(t, c) \/ DropOutcome(t, c)
    PROVE  /\ Moved(t, c) /\ UNCHANGED <<mem, disk, boxes, named, lost, pending, inbox, count>>
           /\ run[t][c].at = "send" /\ run'[t][c] = Idle /\ run[t][c].answer \in Package
           /\ \/ UNCHANGED wire
              \/ \E answer \in {<<>>, <<Result(t, run[t][c].answer)>>} :
                    wire'[t] = wire[t] \o EventsOf(t, run[t][c].answer) \o answer
<1> DEFINE p == run[t][c].answer
<1>1. run[t][c].at = "send"
    BY DEF SendOutcome, DropOutcome, SendFrames
<1>2. p \in Package
    BY <1>1 DEF StepInv, StepAt
<1>3. PICK answer \in {<<>>, <<Result(t, p)>>} : SendFrames(t, c, answer)
    BY DEF SendOutcome, DropOutcome
<1> HIDE DEF p
<1>4. answer \in Seq(Frame)
    <2>1. Result(t, p) \in Frame
        BY <1>2, ConstantTypes
    <2>2. <<Result(t, p)>> \in Seq(Frame)
        BY <2>1
    <2>3. <<>> \in Seq(Frame)
        OBVIOUS
    <2> QED BY <1>3, <2>2, <2>3
<1>5. EventsOf(t, p) \in Seq(Frame)
    BY <1>2, EventTypes, EventsMonotonic, ConstantTypes
<1>6. wire[t] \o EventsOf(t, p) \o answer \in Seq(Frame)
    BY <1>4, <1>5, ConcatProperties, TypeParts
<1>7. /\ UNCHANGED <<mem, disk, boxes, named, lost, pending, asked, row, seen, inbox, detached,
                     count>>
      /\ \/ UNCHANGED wire
         \/ wire' = [wire EXCEPT ![t] = @ \o EventsOf(t, p) \o answer]
      /\ To(t, c, Idle) /\ dropped' \subseteq Tasks
    BY <1>3, TypeParts DEF SendFrames, SendOutcome, DropOutcome, Drop, Core, Registry, Outside, p
<1>8. Queued(t) /\ (UNCHANGED wire \/ wire'[t] = wire[t] \o EventsOf(t, p) \o answer)
    BY <1>6, <1>7, TypeParts DEF Queued
<1>9. Ran(t, c) /\ run'[t][c] = Idle
    BY <1>7, ToType, ConstantTypes, TypeParts DEF Ran
<1>10. Counted /\ Saved(t)
    BY <1>7, Unchanged
<1>11. Moved(t, c)
    BY <1>7, <1>8, <1>9, <1>10, TypeParts DEF Moved, Counted
<1> QED BY <1>1, <1>2, <1>3, <1>7, <1>8, <1>9, <1>11 DEF p

(* What a cancellation does at the Node.                                   *)
LEMMA SignalEffect ==
    ASSUME TypeOK, NEW t \in Tasks, NEW c \in Conns, SignalCancel(t, c)
    PROVE  /\ Ran(t, c) /\ inbox' \subseteq inbox
           /\ UNCHANGED <<row, seen, wire, mem, disk, boxes, named, lost, detached, dropped, count>>
           /\ run'[t][c].at = run[t][c].at /\ run'[t][c].box = run[t][c].box
           /\ run'[t][c].clean = run[t][c].clean /\ run'[t][c].answer = run[t][c].answer
           /\ \/ /\ run[t][c].at = "idle" /\ UNCHANGED run
                 /\ pending' = pending \cup {<<t, c>>}
              \/ run[t][c].at # "idle" /\ run'[t][c].cut = TRUE /\ UNCHANGED pending
           /\ asked' = asked \cup {<<t, c>>}
<1>1. /\ asked' = asked \cup {<<t, c>>} /\ inbox' \subseteq inbox
      /\ UNCHANGED <<row, seen, wire, mem, disk, boxes, named, lost, detached, dropped, count>>
    BY DEF SignalCancel, Take, Core, Outside
<1>2. CASE run[t][c].at = "idle"
    BY <1>1, <1>2, TypeParts DEF SignalCancel, Signal, Ran
<1>3. CASE run[t][c].at # "idle"
    <2>1. run' = [run EXCEPT ![t][c].cut = TRUE] /\ UNCHANGED pending
        BY <1>3 DEF SignalCancel, Signal
    <2> DEFINE r == [run[t][c] EXCEPT !.cut = TRUE]
    <2>2. To(t, c, r)
        BY <2>1, TypeParts DEF To
    <2>3. r \in Exec /\ r.at = run[t][c].at /\ r.box = run[t][c].box /\ r.cut = TRUE
          /\ r.clean = run[t][c].clean /\ r.answer = run[t][c].answer
        BY TypeParts DEF Exec
    <2> HIDE DEF r
    <2>4. Ran(t, c) /\ run'[t][c] = r
        BY <2>2, <2>3, ToType, TypeParts DEF Ran
    <2> QED BY <1>1, <1>3, <2>1, <2>3, <2>4
<1> QED BY <1>2, <1>3

(* What the answer to a cancellation does.                                 *)
LEMMA CancelEffect ==
    ASSUME TypeOK, NEW t \in Tasks, NEW c \in Conns, AnswerCancel(t, c)
    PROVE  /\ Queued(t) /\ <<t, c>> \in asked /\ asked' = asked \ {<<t, c>>}
           /\ UNCHANGED <<row, seen, run, pending, mem, disk, boxes, named, lost, inbox, detached,
                          dropped, count>>
           /\ wire' = wire \/ (c = Current /\ wire'[t] = Append(wire[t], CancelResult(t)))
<1>1. Append(wire[t], CancelResult(t)) \in Seq(Frame)
    <2>1. CancelResult(t) \in Frame /\ wire[t] \in Seq(Frame)
        BY ConstantTypes, TypeParts
    <2> QED BY <2>1
<1> QED BY <1>1, TypeParts DEF AnswerCancel, Core, Outside, Delivery, Queued

-----------------------------------------------------------------------------
(* A dispatch puts commands into the inbox of one dispatcher.              *)
Messages == [kind : {"run", "cancel"}, task : Tasks, conn : Conns]
(* What a dispatch does.                                                   *)
LEMMA DispatchEffect ==
    ASSUME NEW r, NEW taken, NEW c \in Conns, NEW anew, anew \subseteq Tasks,
           taken \subseteq Messages, dropped \subseteq Tasks,
           dispatch_pending_commands(r, taken, c, anew)
    PROVE  /\ row' = r /\ inbox' \subseteq Messages /\ dropped' \subseteq Tasks
           /\ \A m \in inbox' : m \in taken \/ m.conn = c
<1>1. PICK sent \in SUBSET Unresolved(r) : /\ row' = r
                                           /\ inbox' = taken \cup Dispatched(sent, c)
                                           /\ dropped' = Undelivered(r, sent, anew)
    BY DEF dispatch_pending_commands
<1>2. \A m \in Dispatched(sent, c) : m \in Messages /\ m.conn = c
    BY DEF Dispatched, Unresolved, Command, Messages
<1>3. dropped' \subseteq Tasks
    BY <1>1 DEF Undelivered
<1> QED BY <1>1, <1>2, <1>3

(* What a command that is issued leaves of the Node.                       *)
LEMMA IssueEffect ==
    ASSUME TypeOK, NEW r, NEW anew, anew \subseteq Tasks, Issue(r, anew)
    PROVE  /\ row' = r /\ inbox' \subseteq Messages /\ dropped' \subseteq Tasks
           /\ \A m \in inbox' : m \in inbox \/ m.conn = Current
           /\ UNCHANGED <<seen, wire, run, pending, asked, mem, disk, boxes, named, lost, detached>>
<1>1. inbox \subseteq Messages /\ dropped \subseteq Tasks /\ Current \in Conns
    BY DEF TypeOK, Messages
<1>2. /\ dispatch_pending_commands(r, inbox, Current, anew)
      /\ UNCHANGED <<seen, wire, run, pending, asked, mem, disk, boxes, named, lost, detached>>
    BY DEF Issue, Node, Registry, Outside
<1> QED BY <1>1, <1>2, DispatchEffect

(* What a request of a user does to the rows.                              *)
LEMMA RequestEffect ==
    ASSUME TypeOK, NEW t \in Tasks, Requested(t)
    PROVE  /\ row' \in [Tasks -> Row] /\ inbox' \subseteq Messages /\ dropped' \subseteq Tasks
           /\ \A m \in inbox' : m \in inbox \/ m.conn = Current
           /\ UNCHANGED <<seen, wire, run, pending, asked, mem, disk, boxes, named, lost, detached,
                          count>>
           /\ \A u \in Tasks : u # t => row'[u] = row[u]
           /\ row'[t].cleanup = row[t].cleanup
           /\ \/ /\ row[t].state = "absent" /\ row'[t].state = "queued"
                 /\ row'[t].cancel = row[t].cancel /\ row'[t].run = "open"
              \/ /\ row[t].state \notin Terminal /\ row'[t].state = "cancelling"
                 /\ row'[t].cancel = "open" /\ row'[t].run = row[t].run
<1> DEFINE q == [row EXCEPT ![t].state = "queued", ![t].run = "open"]
<1> DEFINE k == [row EXCEPT ![t].state = "cancelling", ![t].cancel = "open"]
<1>1. \/ row[t].state = "absent" /\ Issue(q, {t})
      \/ row[t].state \notin Terminal /\ Issue(k, {})
    BY DEF Requested, CreateTask, CancelTask
<1>2. UNCHANGED count
    BY DEF Requested, CreateTask, CancelTask
<1>3. row \in [Tasks -> Row]
    BY DEF TypeOK
<1>4. /\ q \in [Tasks -> Row] /\ q[t].state = "queued" /\ q[t].run = "open"
      /\ q[t].cleanup = row[t].cleanup /\ q[t].cancel = row[t].cancel
      /\ \A u \in Tasks : u # t => q[u] = row[u]
    BY <1>3 DEF Row, States
<1>5. /\ k \in [Tasks -> Row] /\ k[t].state = "cancelling" /\ k[t].cancel = "open"
      /\ k[t].cleanup = row[t].cleanup /\ k[t].run = row[t].run
      /\ \A u \in Tasks : u # t => k[u] = row[u]
    BY <1>3 DEF Row, States
<1> HIDE DEF q, k
<1>6. CASE row[t].state = "absent" /\ Issue(q, {t})
    <2>1. {t} \subseteq Tasks
        OBVIOUS
    <2> QED BY <1>2, <1>4, <1>6, <2>1, IssueEffect
<1>7. CASE row[t].state \notin Terminal /\ Issue(k, {})
    <2>1. {} \subseteq Tasks
        OBVIOUS
    <2> QED BY <1>2, <1>5, <1>7, <2>1, IssueEffect
<1> QED BY <1>1, <1>6, <1>7

(* Another command leaves the rows.                                        *)
LEMMA RedispatchEffect ==
    ASSUME TypeOK, Redispatch
    PROVE  /\ inbox' \subseteq Messages /\ dropped' \subseteq Tasks
           /\ \A m \in inbox' : m \in inbox \/ m.conn = Current
           /\ UNCHANGED <<row, seen, wire, run, pending, asked, mem, disk, boxes, named, lost,
                          detached>>
           /\ Counted
<1>1. Issue(row, {}) /\ Tick("others", MaxOthers)
    BY DEF Redispatch
<1>2. {} \subseteq Tasks
    OBVIOUS
<1> QED BY <1>1, <1>2, IssueEffect, CountKept, TypeParts

(* A frame that Core takes leaves the Node; its event changes the row as   *)
(* project_task_event says, its result as project_task_command_result.     *)
Projected(t, f) ==
    \/ /\ row'[t].state = row[t].state /\ row'[t].cleanup = row[t].cleanup
       /\ row'[t].run = "done" => row[t].run = "done"
    \/ /\ f.kind = "event" /\ row'[t].run = row[t].run
       /\ row[t].state = "cancelling" => f.state \in Terminal
       /\ row'[t].state = f.state /\ row'[t].cleanup = f.cleanup
       /\ row[t].state \notin Terminal
    \/ /\ f.kind = "result" /\ row'[t].state = f.state /\ row'[t].run = "done"
       /\ row'[t].cleanup = IF f.cleanup = "none" THEN row[t].cleanup ELSE f.cleanup
(* What Core does with the frame at the head of a queue.                   *)
LEMMA ReceiveEffect ==
    ASSUME TypeOK, NEW t \in Tasks, Received(t)
    PROVE  LET f == Head(wire[t])
           IN  /\ wire[t] # <<>> /\ Queued(t) /\ wire'[t] = Tail(wire[t]) /\ f \in Frame
               /\ UNCHANGED <<run, pending, asked, mem, disk, boxes, named, lost, inbox, dropped,
                              detached>>
               /\ Counted
               /\ row' \in [Tasks -> Row] /\ seen' \in [Tasks -> SUBSET ({"active"} \cup Terminal)]
               /\ \A u \in Tasks : u # t => row'[u] = row[u]
               /\ row'[t].cancel = IF f.kind = "cancelled" THEN "done" ELSE row[t].cancel
               /\ Projected(t, f)
<1> DEFINE f == Head(wire[t])
<1>1. /\ wire[t] # <<>> /\ wire' = [wire EXCEPT ![t] = Tail(@)]
      /\ UNCHANGED <<run, pending, asked, mem, disk, boxes, named, lost, inbox, dropped, detached>>
    BY DEF Received, ReceiveEvent, ReceiveResult, ReceiveCancelled, Node, Registry, Outside,
       Delivery
<1>2. f \in Frame /\ Tail(wire[t]) \in Seq(Frame)
    BY <1>1, Receive, TypeParts
<1>3. Queued(t) /\ wire'[t] = Tail(wire[t])
    BY <1>1, <1>2, TypeParts DEF Queued
<1>4. Counted
    <2>1. UNCHANGED count \/ Tick("stops", MaxCoreStops)
        BY DEF Received, ReceiveEvent, ReceiveResult, ReceiveCancelled
    <2> QED BY <2>1, CountKept, TypeParts
<1>5. row \in [Tasks -> Row] /\ row[t] \in Row
    BY DEF TypeOK
<1> DEFINE Good(r) ==
        /\ r \in Row
        /\ r.cancel = IF f.kind = "cancelled" THEN "done" ELSE row[t].cancel
<1>6. ASSUME NEW r, row' = [row EXCEPT ![t] = r], Good(r)
      PROVE  /\ row' \in [Tasks -> Row] /\ row'[t] = r
             /\ \A u \in Tasks : u # t => row'[u] = row[u]
    BY <1>5, <1>6
<1>7. CASE ReceiveEvent(t)
    <2>1. f.kind = "event" /\ f.state \in {"active"} \cup Terminal /\ f.cleanup \in Cleanup
        BY <1>2, <1>7 DEF ReceiveEvent, Frame, Events
    <2>2. \/ row' = row
          \/ row' = [row EXCEPT ![t] = project_task_event(row[t], f)]
        BY <1>7 DEF ReceiveEvent
    <2>3. seen' \in [Tasks -> SUBSET ({"active"} \cup Terminal)]
        BY <1>7, <2>1 DEF ReceiveEvent, TypeOK
    <2> HIDE DEF f
    <2> DEFINE r == project_task_event(row[t], f)
    <2>4. /\ r \in Row /\ r.cancel = row[t].cancel /\ r.run = row[t].run
          /\ \/ r = row[t]
             \/ /\ r.state = f.state /\ r.cleanup = f.cleanup /\ row[t].state \notin Terminal
                /\ row[t].state = "cancelling" => f.state \in Terminal
        BY <1>5, <2>1 DEF project_task_event, Row, States
    <2> HIDE DEF r
    <2>5. CASE row' = row
        BY <1>1, <1>2, <1>3, <1>4, <1>5, <2>1, <2>3, <2>5 DEF Projected, f
    <2>6. CASE row' = [row EXCEPT ![t] = r]
        <3>1. Good(r)
            BY <2>1, <2>4
        <3>2. /\ row' \in [Tasks -> Row] /\ row'[t] = r
              /\ \A u \in Tasks : u # t => row'[u] = row[u]
            BY <1>6, <2>6, <3>1
        <3>3. Projected(t, f)
            BY <2>1, <2>4, <3>2 DEF Projected
        <3> QED BY <1>1, <1>2, <1>3, <1>4, <2>1, <2>3, <2>4, <3>2, <3>3 DEF f
    <2> QED BY <2>2, <2>5, <2>6 DEF r
<1>8. CASE ReceiveResult(t)
    <2> DEFINE done == [row[t] EXCEPT !.run = "done"]
    <2> DEFINE cut == [row[t] EXCEPT !.run = "resolved"]
    <2>1. f.kind = "result" /\ f.state \in Terminal /\ f.cleanup \in Cleanup \cup {"none"}
        BY <1>2, <1>8 DEF ReceiveResult, Frame, Events
    <2>2. \/ row' = row
          \/ row' = [row EXCEPT ![t] = project_task_command_result(done, f)]
          \/ row' = [row EXCEPT ![t] = cut]
        BY <1>5, <1>8 DEF ReceiveResult
    <2>3. seen' = seen
        BY <1>8 DEF ReceiveResult
    <2>4. /\ done \in Row /\ done.state = row[t].state /\ done.cleanup = row[t].cleanup
          /\ done.cancel = row[t].cancel /\ done.run = "done"
          /\ cut \in Row /\ cut.state = row[t].state /\ cut.cleanup = row[t].cleanup
          /\ cut.cancel = row[t].cancel /\ cut.run = "resolved"
        BY <1>5 DEF Row
    <2> HIDE DEF f, done, cut
    <2> DEFINE r == project_task_command_result(done, f)
    <2>5. /\ r \in Row /\ r.cancel = row[t].cancel /\ r.run = "done"
          /\ r.state = f.state
          /\ r.cleanup = IF f.cleanup = "none" THEN row[t].cleanup ELSE f.cleanup
        BY <2>1, <2>4 DEF project_task_command_result, Row, States
    <2> HIDE DEF r
    <2>6. CASE row' = row
        BY <1>1, <1>2, <1>3, <1>4, <1>5, <2>1, <2>3, <2>6 DEF Projected, f, TypeOK
    <2>7. CASE row' = [row EXCEPT ![t] = r]
        <3>1. Good(r)
            BY <2>1, <2>5
        <3>2. /\ row' \in [Tasks -> Row] /\ row'[t] = r
              /\ \A u \in Tasks : u # t => row'[u] = row[u]
            BY <1>6, <2>7, <3>1
        <3>3. Projected(t, f)
            BY <2>1, <2>5, <3>2 DEF Projected
        <3> QED BY <1>1, <1>2, <1>3, <1>4, <2>1, <2>3, <2>5, <3>2, <3>3 DEF f, TypeOK
    <2>8. CASE row' = [row EXCEPT ![t] = cut]
        <3>1. Good(cut)
            BY <2>1, <2>4
        <3>2. /\ row' \in [Tasks -> Row] /\ row'[t] = cut
              /\ \A u \in Tasks : u # t => row'[u] = row[u]
            BY <1>6, <2>8, <3>1
        <3>3. Projected(t, f)
            BY <2>4, <3>2 DEF Projected
        <3> QED BY <1>1, <1>2, <1>3, <1>4, <2>1, <2>3, <2>4, <3>2, <3>3 DEF f, TypeOK
    <2> QED BY <2>2, <2>6, <2>7, <2>8 DEF r
<1>9. CASE ReceiveCancelled(t)
    <2> DEFINE r == [row[t] EXCEPT !.cancel = "done"]
    <2>1. f.kind = "cancelled" /\ seen' = seen
        BY <1>9 DEF ReceiveCancelled
    <2>2. row' = [row EXCEPT ![t] = r]
        BY <1>5, <1>9 DEF ReceiveCancelled
    <2>3. r \in Row /\ r.state = row[t].state /\ r.cleanup = row[t].cleanup /\ r.cancel = "done"
          /\ r.run = row[t].run
        BY <1>5 DEF Row
    <2> HIDE DEF r, f
    <2>4. Good(r)
        BY <2>1, <2>3
    <2>5. /\ row' \in [Tasks -> Row] /\ row'[t] = r
          /\ \A u \in Tasks : u # t => row'[u] = row[u]
        BY <1>6, <2>2, <2>4
    <2>6. Projected(t, f)
        BY <2>3, <2>5 DEF Projected
    <2> QED BY <1>1, <1>2, <1>3, <1>4, <2>1, <2>3, <2>5, <2>6 DEF f, TypeOK
<1> QED BY <1>7, <1>8, <1>9 DEF Received

(* What a lost connection leaves: the stores, and the runs of the other    *)
(* dispatchers.                                                            *)
LEMMA LostEffect ==
    ASSUME TypeOK, ConnectionLost
    PROVE  /\ run' \in [Tasks -> [Conns -> Exec]] /\ wire' \in [Tasks -> Seq(Events)]
           /\ \A u \in Tasks : /\ run'[u][Current] = Idle
                               /\ \A d \in Conns \ {Current} : run'[u][d] = run[u][d]
           /\ pending' \subseteq pending /\ asked' \subseteq asked
           /\ inbox' \subseteq Messages /\ dropped' \subseteq Tasks
           /\ \A m \in inbox' : m \in inbox \/ m.conn = Current
           /\ Counted /\ count'.faults = count.faults + 1
           /\ UNCHANGED <<row, seen, mem, disk, boxes, named, lost, detached>>
<1> DEFINE taken == {m \in inbox : m.conn # Current}
<1>1. /\ Tick("faults", MaxFaults)
      /\ run' = [t \in Tasks |-> [run[t] EXCEPT ![Current] = Idle]]
      /\ pending' \subseteq pending /\ asked' \subseteq asked
      /\ wire' = [t \in Tasks |-> mem[t].events]
      /\ dispatch_pending_commands(row, taken, Current, Tasks)
      /\ UNCHANGED <<seen, mem, disk, boxes, named, lost, detached>>
    BY DEF ConnectionLost, Hello, Behind, Outside
<1>2. taken \subseteq Messages /\ taken \subseteq inbox
    BY DEF TypeOK, Messages
<1>3. Counted /\ count'.faults = count.faults + 1
    BY <1>1, CountKept, TypeParts DEF Tick, Counts
<1>4. run' \in [Tasks -> [Conns -> Exec]]
    BY <1>1, ConstantTypes, TypeParts
<1>5. wire' \in [Tasks -> Seq(Events)]
    BY <1>1, TypeParts DEF Store
<1> HIDE DEF taken
<1>6. /\ row' = row /\ inbox' \subseteq Messages /\ dropped' \subseteq Tasks
      /\ \A m \in inbox' : m \in taken \/ m.conn = Current
    BY <1>1, <1>2, DispatchEffect, TypeParts
<1>7. \A u \in Tasks : /\ run'[u][Current] = Idle
                       /\ \A d \in Conns \ {Current} : run'[u][d] = run[u][d]
    BY <1>1, TypeParts
<1> QED BY <1>1, <1>2, <1>3, <1>4, <1>5, <1>6, <1>7

(* What a read error leaves: everything but the frames on their way, and a *)
(* dispatcher that was not there before.  A task whose run it leaves       *)
(* behind, or whose RunTask the old dispatcher has taken, is detached.     *)
LEMMA ErrorEffect ==
    ASSUME TypeOK, ReadError
    PROVE  /\ wire' \in [Tasks -> Seq(Events)] /\ asked' = {}
           /\ inbox' \subseteq Messages /\ dropped' \subseteq Tasks
           /\ detached \subseteq detached' /\ detached' \subseteq Tasks
           /\ \A t \in Tasks \ detached' : run[t][Current].at = "idle"
           /\ \A m \in inbox' : \/ m.conn = Current'
                                \/ m \in inbox /\ m.conn # Current
                                \/ m.task \in detached'
           /\ count' \in [Counts -> Nat] /\ Current' = Current + 1 /\ Current' \in Conns
           /\ count'.reads # 0 /\ count'.boxes = count.boxes
           /\ UNCHANGED <<row, seen, run, pending, mem, disk, boxes, named, lost>>
<1>1. PICK taken \in SUBSET {m \in inbox : m.conn = Current /\ m.kind = "run"} :
          /\ detached' = detached \cup Left(taken)
          /\ Hello(mem, taken \cup {m \in inbox : m.conn # Current}, Current + 1)
    BY DEF ReadError
<1>2. /\ count.reads < MaxReadErrors /\ count' = [count EXCEPT !.reads = @ + 1]
      /\ asked' = {} /\ UNCHANGED <<seen, run, pending, mem, disk, boxes, named, lost>>
    BY DEF ReadError, Tick, Outside
<1>3. /\ count' \in [Counts -> Nat] /\ Current' = Current + 1
      /\ count'.reads # 0 /\ count'.boxes = count.boxes
    <2>1. count \in [Counts -> Nat] /\ "reads" \in Counts /\ "boxes" \in Counts
        BY TypeParts DEF Counts
    <2> QED BY <1>2, <2>1 DEF Current
<1>4. Current + 1 \in Conns
    BY <1>2, TypeParts, TaskAssumption DEF Current, Conns
<1> DEFINE all == taken \cup {m \in inbox : m.conn # Current}
<1>5. all \subseteq Messages
    BY <1>1 DEF TypeOK, Messages
<1>6. \A m \in all : \/ m \in inbox /\ m.conn # Current
                     \/ m \in taken /\ m = Taken("run", m.task, Current) /\ m.task \in Tasks
    BY <1>1 DEF TypeOK, Taken
<1>7. wire' = [t \in Tasks |-> mem[t].events]
      /\ dispatch_pending_commands(row, all, Current + 1, Tasks)
    BY <1>1 DEF Hello
<1> HIDE DEF all
<1>8. /\ row' = row /\ inbox' \subseteq Messages /\ dropped' \subseteq Tasks
      /\ \A m \in inbox' : m \in all \/ m.conn = Current + 1
    BY <1>4, <1>5, <1>7, DispatchEffect, TypeParts
<1>9. wire' \in [Tasks -> Seq(Events)]
    BY <1>7, TypeParts DEF Store
<1>10. detached' \subseteq Tasks /\ detached \subseteq detached'
       /\ \A t \in Tasks \ detached' : run[t][Current].at = "idle"
       /\ \A m \in taken : m = Taken("run", m.task, Current) /\ m.task \in Tasks
                              => m.task \in detached'
    BY <1>1 DEF Left, TypeOK
<1>11. \A m \in inbox' : \/ m.conn = Current'
                         \/ m \in inbox /\ m.conn # Current
                         \/ m.task \in detached'
    BY <1>3, <1>6, <1>8, <1>10
<1> QED BY <1>2, <1>3, <1>4, <1>8, <1>9, <1>10, <1>11

(* What a restart of the Node leaves of every task.                        *)
LEMMA RestartEffect ==
    ASSUME TypeOK, NodeRestart
    PROVE  /\ run' \in [Tasks -> [Conns -> Exec]] /\ wire' \in [Tasks -> Seq(Events)]
           /\ mem' = disk' /\ disk' \in [Tasks -> Store]
           /\ \A u \in Tasks, c \in Conns : run'[u][c] = Idle
           /\ pending' = {} /\ asked' = {}
           /\ inbox' \subseteq Messages /\ dropped' \subseteq Tasks
           /\ \A m \in inbox' : m.conn = Current
           /\ Counted /\ count'.faults = count.faults + 1
           /\ UNCHANGED <<row, seen, named, lost, detached>>
           /\ \E gone :
                 /\ boxes' = {b \in boxes : b.id \notin gone}
                 /\ \A u \in Tasks :
                       /\ disk'[u].outcome = disk[u].outcome
                       /\ disk[u].box # 0 /\ disk[u].box \notin gone => disk'[u] = disk[u]
<1> DEFINE mapped == {disk[t].box : t \in Tasks} \ {0}
<1>1. PICK failed \in SUBSET mapped :
          /\ count' = [count EXCEPT !.faults = @ + 1, !.errors = @ + Cardinality(failed)]
          /\ boxes' = {b \in boxes : b.id \notin mapped \ failed}
          /\ disk' = Reconciled(mapped \ failed)
    BY DEF NodeRestart
<1> DEFINE gone == mapped \ failed
<1>2. \A u \in Tasks : disk'[u] = IF disk[u].mapped /\ (disk[u].box = 0 \/ disk[u].box \in gone)
                                    THEN [disk[u] EXCEPT !.mapped = FALSE, !.box = 0]
                                    ELSE disk[u]
    BY <1>1 DEF Reconciled
<1>3. Counted /\ count'.faults = count.faults + 1
    <2> DEFINE n == Cardinality(failed)
    <2>1. n \in Nat
        BY MappedFinite
    <2>2. count' = [count EXCEPT !.faults = @ + 1, !.errors = @ + n]
        BY <1>1
    <2> HIDE DEF n
    <2>3. count \in [Counts -> Nat] /\ {"faults", "errors", "boxes", "reads"} \subseteq Counts
        BY TypeParts DEF Counts
    <2>4. \A m \in Counts : count'[m] = IF m = "faults" THEN count[m] + 1
                                        ELSE IF m = "errors" THEN count[m] + n ELSE count[m]
        BY <2>2, <2>3
    <2>5. count' \in [Counts -> Nat]
        <3>1. count' = [m \in Counts |-> count'[m]]
            BY <2>2, <2>3
        <3>2. \A m \in Counts : count'[m] \in Nat
            BY <2>1, <2>3, <2>4
        <3> QED BY <3>1, <3>2
    <2>6. /\ count'.faults = count.faults + 1 /\ count'.boxes = count.boxes
          /\ count'.reads = count.reads
        BY <2>3, <2>4
    <2>7. count'.faults >= count.faults
        BY <2>6, TypeParts
    <2> QED BY <2>5, <2>6, <2>7 DEF Counted, Current
<1>4. boxes' = {b \in boxes : b.id \notin gone}
    BY <1>1
<1>5. /\ mem' = disk' /\ run' = [t \in Tasks |-> [c \in Conns |-> Idle]]
      /\ wire' = [t \in Tasks |-> disk[t].events]
      /\ dispatch_pending_commands(row, {}, Current, Tasks)
      /\ pending' = {} /\ asked' = {} /\ UNCHANGED <<seen, named, lost, detached>>
    BY DEF NodeRestart, Hello
<1>6. disk' \in [Tasks -> Store]
    BY <1>1, ConstantTypes, TypeParts DEF Reconciled, Store
<1>7. wire' \in [Tasks -> Seq(Events)] /\ run' \in [Tasks -> [Conns -> Exec]]
    BY <1>5, ConstantTypes, TypeParts DEF Store
<1>8. /\ row' = row /\ inbox' \subseteq Messages /\ dropped' \subseteq Tasks
      /\ \A m \in inbox' : m.conn = Current
    <2>2. PICK none : none = {}
        OBVIOUS
    <2>1. none \subseteq Messages /\ Current \in Conns /\ dropped \subseteq Tasks
        BY <2>2, TypeParts
    <2>3. dispatch_pending_commands(row, none, Current, Tasks)
        BY <1>5, <2>2
    <2>4. /\ row' = row /\ inbox' \subseteq Messages /\ dropped' \subseteq Tasks
          /\ \A m \in inbox' : m \in none \/ m.conn = Current
        BY <2>1, <2>3, DispatchEffect
    <2> QED BY <2>2, <2>4
<1> HIDE DEF gone
<1>9. ASSUME NEW u \in Tasks
      PROVE  /\ disk'[u].outcome = disk[u].outcome
             /\ disk[u].box # 0 /\ disk[u].box \notin gone => disk'[u] = disk[u]
    <2>1. disk[u] \in Store
        BY DEF TypeOK
    <2>2. [disk[u] EXCEPT !.mapped = FALSE, !.box = 0].outcome = disk[u].outcome
        BY <2>1 DEF Store
    <2> QED BY <1>2, <2>2
<1> QED BY <1>3, <1>4, <1>5, <1>6, <1>7, <1>8, <1>9

-----------------------------------------------------------------------------
(* The type invariant.                                                     *)
LEMMA TypeInit == Init => TypeOK
BY ConstantTypes DEF Init, TypeOK, Row, States, Cleanup, Counts, Current

(* A step of a run, as one of its effects.                                 *)
LEMMA WorkingMoved ==
    ASSUME TypeOK, StepInv, NEW t \in Tasks, NEW c \in Conns, Working(t, c)
    PROVE  Moved(t, c)
<1>1. CASE BeginRun(t, c) \/ ForgetRun(t, c) \/ PrepareRun(t, c)
    BY <1>1, BeginEffect, ForgetEffect, PrepareEffect
<1>2. CASE CreateSandbox(t, c)
    BY <1>2, CreateEffect
<1>3. CASE MapSandbox(t, c) \/ WaitReady(t, c) \/ RunCodex(t, c) \/ RunChecks(t, c)
    BY <1>3, MapEffect, WorkEffect
<1>4. CASE DeleteSandbox(t, c) \/ Unmap(t, c) \/ FinishRun(t, c)
    BY <1>4, DeleteEffect, UnmapEffect, FinishEffect
<1>5. CASE SaveOutcome(t, c)
    BY <1>5, SaveEffect
<1>6. CASE SendOutcome(t, c) \/ DropOutcome(t, c)
    BY <1>6, SendEffect
<1> QED BY <1>1, <1>2, <1>3, <1>4, <1>5, <1>6 DEF Working

(* The sandboxes a step of a run creates, deletes, names or replaces.      *)
LEMMA WorkingBoxes ==
    ASSUME TypeOK, StepInv, NumberInv, NEW t \in Tasks, NEW c \in Conns, Working(t, c)
    PROVE  /\ boxes' \subseteq [id : 1 .. MaxSandboxes, task : Tasks]
           /\ named' \subseteq 1 .. MaxSandboxes /\ lost' \subseteq Box
<1>1. /\ boxes \subseteq [id : 1 .. MaxSandboxes, task : Tasks]
      /\ named \subseteq 1 .. MaxSandboxes /\ lost \subseteq Box
      /\ mem[t].box \in Box /\ disk[t].box \in Box /\ run[t][c].box \in Box
    BY DEF TypeOK, Store, Exec
<1>2. CASE CreateSandbox(t, c)
    <2> DEFINE b == count.boxes + 1
    <2>1. /\ UNCHANGED <<named, lost>> /\ b \in 1 .. MaxSandboxes
          /\ boxes' = boxes \/ boxes' = boxes \cup {[id |-> b, task |-> t]}
        BY <1>2, CreateEffect
    <2> HIDE DEF b
    <2> QED BY <1>1, <2>1
<1>3. CASE MapSandbox(t, c)
    <2>1. /\ UNCHANGED <<boxes, lost>> /\ run[t][c].at = "map"
          /\ named' \subseteq named \cup {run[t][c].box}
        BY <1>3, MapEffect
    <2>2. run[t][c].box # 0
        BY <2>1 DEF NumberInv, NumberAt
    <2> QED BY <1>1, <2>1, <2>2, ConstantTypes DEF Box
<1>4. CASE PrepareRun(t, c)
    <2>1. UNCHANGED <<boxes, named>> /\ lost' \subseteq lost \cup {mem[t].box, disk[t].box}
        BY <1>4, PrepareEffect
    <2> QED BY <1>1, <2>1
<1>5. CASE \/ BeginRun(t, c) \/ ForgetRun(t, c) \/ WaitReady(t, c) \/ RunCodex(t, c)
           \/ RunChecks(t, c) \/ DeleteSandbox(t, c) \/ Unmap(t, c) \/ FinishRun(t, c)
           \/ SaveOutcome(t, c) \/ SendOutcome(t, c) \/ DropOutcome(t, c)
    <2>1. UNCHANGED <<named, lost>> /\ boxes' \subseteq boxes
        <3>1. CASE \/ BeginRun(t, c) \/ ForgetRun(t, c) \/ WaitReady(t, c) \/ RunCodex(t, c)
                   \/ RunChecks(t, c)
            BY <3>1, BeginEffect, ForgetEffect, WorkEffect
        <3>2. CASE DeleteSandbox(t, c)
            BY <3>2, DeleteEffect
        <3>3. CASE Unmap(t, c) \/ FinishRun(t, c)
            BY <3>3, UnmapEffect, FinishEffect
        <3>4. CASE SaveOutcome(t, c)
            BY <3>4, SaveEffect
        <3>5. CASE SendOutcome(t, c) \/ DropOutcome(t, c)
            BY <3>5, SendEffect
        <3> QED BY <1>5, <3>1, <3>2, <3>3, <3>4, <3>5
    <2> QED BY <1>1, <2>1
<1> QED BY <1>2, <1>3, <1>4, <1>5 DEF Working

(* Events that are replayed are frames.                                    *)
LEMMA ReplayType ==
    ASSUME wire' \in [Tasks -> Seq(Events)]
    PROVE  wire' \in [Tasks -> Seq(Frame)]
<1>1. \A t \in Tasks : wire'[t] \in Seq(Frame)
    BY EventsMonotonic, ConstantTypes
<1> QED BY <1>1

(* Every action keeps the type invariant.                                  *)
LEMMA TypeNext == TypeOK /\ StepInv /\ NumberInv /\ [Next]_vars => TypeOK'
<1> SUFFICES ASSUME TypeOK, StepInv, NumberInv, [Next]_vars PROVE TypeOK'
    OBVIOUS
<1>1. ASSUME NEW t \in Tasks, Requested(t) PROVE TypeOK'
    BY <1>1, RequestEffect DEF TypeOK, Current, Messages
<1>2. ASSUME NEW t \in Tasks, Received(t) PROVE TypeOK'
    BY <1>2, ReceiveEffect DEF TypeOK, Counted, Queued
<1>3. ASSUME NEW t \in Tasks, NEW c \in Conns, Working(t, c) PROVE TypeOK'
    <2>1. Moved(t, c)
        BY <1>3, WorkingMoved
    <2>2. /\ boxes' \subseteq [id : 1 .. MaxSandboxes, task : Tasks]
          /\ named' \subseteq 1 .. MaxSandboxes /\ lost' \subseteq Box
        BY <1>3, WorkingBoxes
    <2> QED BY <2>1, <2>2 DEF Moved, Ran, Saved, Queued, TypeOK
<1>4. ASSUME NEW t \in Tasks, NEW c \in Conns, SignalCancel(t, c) PROVE TypeOK'
    <2>1. pending' \subseteq Tasks \X Conns /\ asked' \subseteq Tasks \X Conns
        <3>1. pending' \subseteq pending \cup {<<t, c>>} /\ asked' \subseteq asked \cup {<<t, c>>}
            BY <1>4, SignalEffect
        <3>2. pending \subseteq Tasks \X Conns /\ asked \subseteq Tasks \X Conns
            BY DEF TypeOK
        <3>3. <<t, c>> \in Tasks \X Conns
            OBVIOUS
        <3> QED BY <3>1, <3>2, <3>3
    <2>2. /\ run' \in [Tasks -> [Conns -> Exec]] /\ inbox' \subseteq inbox
          /\ UNCHANGED <<row, seen, wire, mem, disk, boxes, named, lost, detached, dropped, count>>
        BY <1>4, SignalEffect DEF Ran
    <2> QED BY <2>1, <2>2 DEF TypeOK, Current
<1>5. ASSUME NEW t \in Tasks, NEW c \in Conns, AnswerCancel(t, c) PROVE TypeOK'
    BY <1>5, CancelEffect DEF TypeOK, Queued, Current
<1>6. CASE Redispatch
    BY <1>6, RedispatchEffect DEF TypeOK, Counted, Messages
<1>7. CASE ConnectionLost
    BY <1>7, LostEffect, ReplayType DEF TypeOK, Counted, Messages
<1>8. CASE ReadError
    BY <1>8, ErrorEffect, ReplayType DEF TypeOK, Messages
<1>9. CASE NodeRestart
    BY <1>9, RestartEffect, ReplayType DEF TypeOK, Counted, Messages
<1>10. CASE UNCHANGED vars
    BY <1>10 DEF vars, TypeOK, Current
<1> QED BY NextCases, <1>1, <1>2, <1>3, <1>4, <1>5, <1>6, <1>7, <1>8, <1>9, <1>10

-----------------------------------------------------------------------------
(* StepInv.                                                                *)
LEMMA StepInit == Init => StepInv
BY DEF Init, StepInv, StepAt, Idle

(* A step of a run leaves it with what the next step works with.           *)
LEMMA StepWorking ==
    ASSUME TypeOK, StepInv, NEW t \in Tasks, NEW c \in Conns, Working(t, c)
    PROVE  StepAt(run'[t][c])
<1>1. CASE BeginRun(t, c)
    BY <1>1, BeginEffect DEF StepAt
<1>2. CASE ForgetRun(t, c)
    BY <1>2, ForgetEffect DEF StepInv
<1>3. CASE PrepareRun(t, c)
    BY <1>3, PrepareEffect, ConstantTypes DEF StepAt
<1>4. CASE CreateSandbox(t, c) \/ MapSandbox(t, c)
    BY <1>4, CreateEffect, MapEffect DEF StepAt
<1>5. CASE WaitReady(t, c) \/ RunCodex(t, c) \/ RunChecks(t, c)
    BY <1>5, WorkEffect DEF StepAt
<1>6. CASE DeleteSandbox(t, c) \/ Unmap(t, c) \/ FinishRun(t, c)
    BY <1>6, DeleteEffect, UnmapEffect, FinishEffect DEF StepAt
<1>7. CASE SaveOutcome(t, c)
    <2>1. PICK p \in Package : run'[t][c] = Sending(p)
        BY <1>7, SaveEffect
    <2>2. Sending(p).at = "send" /\ Sending(p).answer = p
        BY SendingFields
    <2> QED BY <2>1, <2>2 DEF StepAt
<1>8. CASE SendOutcome(t, c) \/ DropOutcome(t, c)
    BY <1>8, SendEffect, SendingFields DEF StepAt
<1> QED BY <1>1, <1>2, <1>3, <1>4, <1>5, <1>6, <1>7, <1>8 DEF Working

(* Every action keeps StepInv.                                             *)
LEMMA StepNext == TypeOK /\ StepInv /\ [Next]_vars => StepInv'
<1> SUFFICES ASSUME TypeOK, StepInv, [Next]_vars PROVE StepInv'
    OBVIOUS
<1>1. ASSUME UNCHANGED run PROVE StepInv'
    BY <1>1 DEF StepInv
<1>2. ASSUME NEW t \in Tasks, Requested(t) \/ Received(t) PROVE StepInv'
    BY <1>1, <1>2, RequestEffect, ReceiveEffect
<1>3. ASSUME NEW t \in Tasks, NEW c \in Conns, Working(t, c) PROVE StepInv'
    BY <1>3, StepWorking, WorkingMoved DEF StepInv, Moved, Ran
<1>4. ASSUME NEW t \in Tasks, NEW c \in Conns, SignalCancel(t, c) PROVE StepInv'
    <2>1. /\ Ran(t, c)
          /\ run'[t][c].at = run[t][c].at /\ run'[t][c].answer = run[t][c].answer
          /\ UNCHANGED run \/ run[t][c].at # "idle"
        BY <1>4, SignalEffect
    <2>2. CASE run[t][c].at # "idle"
        <3>1. StepAt(run'[t][c])
            BY <2>1, <2>2 DEF StepInv, StepAt
        <3> QED BY <2>1, <3>1 DEF StepInv, Ran
    <2> QED BY <1>1, <2>1, <2>2
<1>5. ASSUME NEW t \in Tasks, NEW c \in Conns, AnswerCancel(t, c) PROVE StepInv'
    BY <1>1, <1>5, CancelEffect
<1>6. ASSUME Redispatch \/ ReadError PROVE StepInv'
    BY <1>1, <1>6, RedispatchEffect, ErrorEffect
<1>7. StepAt(Idle)
    BY DEF StepAt, Idle
<1>8. ASSUME ConnectionLost \/ NodeRestart PROVE StepInv'
    <2>1. \A u \in Tasks, d \in Conns : run'[u][d] = Idle \/ run'[u][d] = run[u][d]
        BY <1>8, LostEffect, RestartEffect
    <2> QED BY <1>7, <2>1 DEF StepInv
<1>9. ASSUME UNCHANGED vars PROVE StepInv'
    BY <1>1, <1>9 DEF vars
<1> QED BY NextCases, <1>2, <1>3, <1>4, <1>5, <1>6, <1>8, <1>9

-----------------------------------------------------------------------------
(* NumberInv.                                                              *)
LEMMA NumberInit == Init => NumberInv
BY DEF Init, NumberInv, NumberAt, Idle

(* A run that maps a sandbox was about to map it before, or has just       *)
(* created it.                                                             *)
Boxed(u, d) == /\ run'[u][d].box \in {0, run[u][d].box}
               /\ run'[u][d].at = "map" => /\ run[u][d].at = "map"
                                           /\ run'[u][d].box = run[u][d].box
(* Steps that create no sandbox keep the numbers.                          *)
LEMMA NumberKept ==
    ASSUME TypeOK, NumberInv, boxes' \subseteq boxes, count'.boxes = count.boxes,
           named' \subseteq 1 .. count.boxes, \A u \in Tasks, d \in Conns : Boxed(u, d)
    PROVE  NumberInv'
<1>1. ASSUME NEW u \in Tasks, NEW d \in Conns PROVE NumberAt(u, d)'
    <2>1. NumberAt(u, d) /\ count.boxes \in Nat
        BY TypeParts DEF NumberInv
    <2> QED BY <2>1 DEF NumberAt, Boxed
<1> QED BY <1>1 DEF NumberInv

(* The steps of a run that create no sandbox.                              *)
LEMMA NumberWorking ==
    ASSUME TypeOK, StepInv, NumberInv, NEW t \in Tasks, NEW c \in Conns, Working(t, c),
           ~CreateSandbox(t, c)
    PROVE  /\ boxes' \subseteq boxes /\ count'.boxes = count.boxes
           /\ named' \subseteq 1 .. count.boxes /\ Boxed(t, c)
<1>1. named \subseteq 1 .. count.boxes /\ run[t][c].box \in Nat
    BY TypeParts, ConstantTypes DEF NumberInv, Exec, Box
<1>2. CASE BeginRun(t, c) \/ ForgetRun(t, c)
    BY <1>1, <1>2, BeginEffect, ForgetEffect, SendingFields DEF Boxed
<1>3. CASE PrepareRun(t, c)
    BY <1>1, <1>3, PrepareEffect DEF Boxed
<1>4. CASE MapSandbox(t, c)
    <2>1. /\ boxes' = boxes /\ count'.boxes = count.boxes /\ run[t][c].at = "map"
          /\ named' \subseteq named \cup {run[t][c].box}
          /\ run'[t][c].box = run[t][c].box /\ run'[t][c].at # "map"
        BY <1>4, MapEffect DEF Same
    <2>2. run[t][c].box \in 1 .. count.boxes
        BY <1>1, <2>1, TypeParts DEF NumberInv, NumberAt
    <2> QED BY <1>1, <2>1, <2>2 DEF Boxed
<1>5. CASE WaitReady(t, c) \/ RunCodex(t, c) \/ RunChecks(t, c)
    BY <1>1, <1>5, WorkEffect DEF Boxed, Same
<1>6. CASE DeleteSandbox(t, c) \/ Unmap(t, c) \/ FinishRun(t, c)
    <2>1. CASE DeleteSandbox(t, c)
        <3>1. Same(t, c) /\ run'[t][c].at \in {"unmap", "finish"} /\ boxes' \subseteq boxes
              /\ named' = named /\ count'.boxes = count.boxes
            BY <2>1, DeleteEffect
        <3> QED BY <1>1, <3>1 DEF Boxed, Same
    <2>2. CASE Unmap(t, c)
        BY <1>1, <2>2, UnmapEffect DEF Boxed, Same
    <2>3. CASE FinishRun(t, c)
        BY <1>1, <2>3, FinishEffect DEF Boxed, Same
    <2> QED BY <1>6, <2>1, <2>2, <2>3
<1>7. CASE SaveOutcome(t, c)
    <2>1. PICK p \in Package : run'[t][c] = Sending(p)
        BY <1>7, SaveEffect
    <2>2. UNCHANGED <<boxes, named, count>>
        BY <1>7, SaveEffect
    <2>3. Sending(p).at = "send" /\ Sending(p).box = 0
        BY SendingFields
    <2> QED BY <1>1, <2>1, <2>2, <2>3 DEF Boxed
<1>8. CASE SendOutcome(t, c) \/ DropOutcome(t, c)
    BY <1>1, <1>8, SendEffect, SendingFields DEF Boxed
<1> QED BY <1>2, <1>3, <1>4, <1>5, <1>6, <1>7, <1>8 DEF Working

(* The step that does: the new sandbox has a number of its own.            *)
LEMMA NumberCreate ==
    ASSUME TypeOK, NumberInv, NEW t \in Tasks, NEW c \in Conns, CreateSandbox(t, c)
    PROVE  NumberInv'
<1>1. PICK b : b = count.boxes + 1
    OBVIOUS
<1>2. /\ Ran(t, c) /\ named' = named
      /\ \/ run'[t][c].at = "map" /\ run'[t][c].box = b
            /\ boxes' = boxes \cup {[id |-> b, task |-> t]} /\ count'.boxes = b
         \/ /\ run'[t][c].at = "unmap" /\ run'[t][c].box = run[t][c].box
            /\ \/ boxes' = boxes /\ count'.boxes = count.boxes
               \/ boxes' = boxes \cup {[id |-> b, task |-> t]} /\ count'.boxes = b
    BY <1>1, CreateEffect DEF Moved
<1>3. count.boxes \in Nat /\ b \in Nat /\ b > count.boxes
    BY <1>1, TypeParts
<1>4. \A x \in boxes : x.id \in Nat /\ x.id <= count.boxes
    BY ConstantTypes DEF NumberInv, TypeOK
<1>5. \A x \in boxes' : x \in boxes \/ (x.id = b /\ x.task = t /\ count'.boxes = b)
    BY <1>2
<1>6. count'.boxes \in {count.boxes, b}
    BY <1>2
<1>7. \A x \in boxes' : x.id <= count'.boxes
    BY <1>3, <1>4, <1>5, <1>6
<1>8. named' \subseteq 1 .. count'.boxes
    BY <1>2, <1>3, <1>6 DEF NumberInv
<1>9. ASSUME NEW u \in Tasks, NEW d \in Conns PROVE NumberAt(u, d)'
    <2>1. NumberAt(u, d) /\ run[u][d].box \in Nat
        BY TypeParts, ConstantTypes DEF NumberInv, Exec, Box
    <2>2. CASE run'[u][d] = run[u][d]
        <3>1. \A x \in boxes' : x.id = run[u][d].box => x \in boxes
            BY <1>3, <1>5, <2>1 DEF NumberAt
        <3> QED BY <1>3, <1>6, <2>1, <2>2, <3>1 DEF NumberAt
    <2>3. CASE u = t /\ d = c
        <3>1. CASE run'[t][c].at = "unmap" /\ run'[t][c].box = run[t][c].box
            BY <1>3, <1>6, <2>1, <2>3, <3>1 DEF NumberAt
        <3>2. CASE /\ run'[t][c].at = "map" /\ run'[t][c].box = b /\ count'.boxes = b
            BY <1>3, <1>4, <1>5, <2>3, <3>2 DEF NumberAt
        <3> QED BY <1>2, <3>1, <3>2
    <2> QED BY <1>2, <2>2, <2>3 DEF Ran
<1> QED BY <1>7, <1>8, <1>9 DEF NumberInv

(* Every action keeps NumberInv.                                           *)
LEMMA NumberNext == TypeOK /\ StepInv /\ NumberInv /\ [Next]_vars => NumberInv'
<1> SUFFICES ASSUME TypeOK, StepInv, NumberInv, [Next]_vars PROVE NumberInv'
    OBVIOUS
<1>1. named \subseteq 1 .. count.boxes
    BY DEF NumberInv
<1>2. ASSUME UNCHANGED <<boxes, named, run>>, count'.boxes = count.boxes PROVE NumberInv'
    BY <1>1, <1>2, NumberKept DEF Boxed
<1>3. ASSUME NEW t \in Tasks, Requested(t) \/ Received(t) PROVE NumberInv'
    BY <1>2, <1>3, RequestEffect, ReceiveEffect DEF Counted
<1>4. ASSUME NEW t \in Tasks, NEW c \in Conns, Working(t, c) PROVE NumberInv'
    <2>1. CASE CreateSandbox(t, c)
        BY <2>1, NumberCreate
    <2>2. CASE ~CreateSandbox(t, c)
        <3>1. /\ boxes' \subseteq boxes /\ count'.boxes = count.boxes
              /\ named' \subseteq 1 .. count.boxes /\ Boxed(t, c)
            BY <1>4, <2>2, NumberWorking
        <3>2. \A u \in Tasks, d \in Conns : Boxed(u, d)
            BY <1>4, <3>1, WorkingMoved DEF Moved, Ran, Boxed
        <3> QED BY <3>1, <3>2, NumberKept
    <2> QED BY <2>1, <2>2
<1>5. ASSUME NEW t \in Tasks, NEW c \in Conns, SignalCancel(t, c) PROVE NumberInv'
    <2>1. UNCHANGED <<boxes, named, count>> /\ Boxed(t, c) /\ Ran(t, c)
        BY <1>5, SignalEffect DEF Boxed
    <2>2. \A u \in Tasks, d \in Conns : Boxed(u, d)
        BY <2>1 DEF Ran, Boxed
    <2> QED BY <1>1, <2>1, <2>2, NumberKept
<1>6. ASSUME NEW t \in Tasks, NEW c \in Conns, AnswerCancel(t, c) PROVE NumberInv'
    BY <1>2, <1>6, CancelEffect
<1>7. ASSUME Redispatch \/ ReadError PROVE NumberInv'
    BY <1>2, <1>7, RedispatchEffect, ErrorEffect DEF Counted
<1>8. ASSUME ConnectionLost \/ NodeRestart PROVE NumberInv'
    <2>1. boxes' \subseteq boxes /\ named' = named /\ count'.boxes = count.boxes
        BY <1>8, LostEffect, RestartEffect DEF Counted
    <2>2. \A u \in Tasks, d \in Conns : run'[u][d] = Idle \/ run'[u][d] = run[u][d]
        BY <1>8, LostEffect, RestartEffect
    <2>3. \A u \in Tasks, d \in Conns : Boxed(u, d)
        BY <2>2, SendingFields DEF Boxed
    <2> QED BY <1>1, <2>1, <2>3, NumberKept
<1>9. ASSUME UNCHANGED vars PROVE NumberInv'
    BY <1>2, <1>9 DEF vars
<1> QED BY NextCases, <1>3, <1>4, <1>5, <1>6, <1>7, <1>8, <1>9

-----------------------------------------------------------------------------
(* Alone.                                                                  *)
LEMMA AloneInit == Init => Alone
BY DEF Init, Alone, Idle

(* What runs for a task that is not detached runs at the dispatcher in     *)
(* use.                                                                    *)
LEMMA WorksNow ==
    ASSUME TypeOK, Alone, NEW t \in Tasks, NEW c \in Conns, Working(t, c), t \notin detached
    PROVE  c = Current
<1>1. CASE Taken("run", t, c) \in inbox
    BY <1>1 DEF Alone, Taken
<1>2. CASE run[t][c].at # "idle"
    BY <1>2 DEF Alone
<1>3. \/ BeginRun(t, c) \/ ForgetRun(t, c) => Taken("run", t, c) \in inbox
    BY DEF BeginRun, ForgetRun, Take
<1>4. \/ BeginRun(t, c) \/ ForgetRun(t, c) \/ run[t][c].at # "idle"
    BY DEF Working, PrepareRun, CreateSandbox, MapSandbox, WaitReady, RunCodex, RunChecks,
       DeleteSandbox, Unmap, FinishRun, SaveOutcome, SendOutcome, DropOutcome, SendFrames
<1> QED BY <1>1, <1>2, <1>3, <1>4

(* Every action keeps Alone.                                               *)
LEMMA AloneNext == TypeOK /\ StepInv /\ Alone /\ [Next]_vars => Alone'
<1> SUFFICES ASSUME TypeOK, StepInv, Alone, [Next]_vars PROVE Alone'
    OBVIOUS
<1>1. ASSUME UNCHANGED detached, Current' = Current,
             \A m \in inbox' : m \in inbox \/ m.conn = Current,
             \A u \in Tasks \ detached, d \in Conns :
                \/ run'[u][d].at = "idle" \/ run'[u][d].at = run[u][d].at \/ d = Current
      PROVE  Alone'
    BY <1>1 DEF Alone, Current
<1>2. ASSUME NEW t \in Tasks, Requested(t) \/ Received(t) PROVE Alone'
    BY <1>1, <1>2, RequestEffect, ReceiveEffect DEF Counted, Current
<1>3. ASSUME NEW t \in Tasks, NEW c \in Conns, Working(t, c) PROVE Alone'
    BY <1>1, <1>3, WorkingMoved, WorksNow DEF Moved, Ran
<1>4. ASSUME NEW t \in Tasks, NEW c \in Conns, SignalCancel(t, c) PROVE Alone'
    <2>1. /\ \A m \in inbox' : m \in inbox
          /\ UNCHANGED <<detached, count>> /\ Ran(t, c) /\ run'[t][c].at = run[t][c].at
        BY <1>4, SignalEffect
    <2>2. \A u \in Tasks, d \in Conns : run'[u][d].at = run[u][d].at
        BY <2>1 DEF Ran
    <2> QED BY <1>1, <2>1, <2>2 DEF Current
<1>5. ASSUME NEW t \in Tasks, NEW c \in Conns, AnswerCancel(t, c) PROVE Alone'
    BY <1>1, <1>5, CancelEffect DEF Current
<1>6. ASSUME Redispatch PROVE Alone'
    BY <1>1, <1>6, RedispatchEffect DEF Counted
<1>7. ASSUME ConnectionLost PROVE Alone'
    <2>1. /\ UNCHANGED detached /\ Current' = Current
          /\ \A m \in inbox' : m \in inbox \/ m.conn = Current
          /\ \A u \in Tasks, d \in Conns : run'[u][d] = Idle \/ run'[u][d] = run[u][d]
        BY <1>7, LostEffect DEF Counted
    <2> QED BY <1>1, <2>1, SendingFields
<1>8. ASSUME ReadError PROVE Alone'
    <2>1. /\ \A u \in Tasks \ detached' : run[u][Current].at = "idle"
          /\ run' = run /\ detached \subseteq detached' /\ count'.reads # 0
          /\ \A m \in inbox' : \/ m.conn = Current' \/ m.task \in detached'
                               \/ m \in inbox /\ m.conn # Current
        BY <1>8, ErrorEffect
    <2> QED BY <2>1 DEF Alone
<1>9. ASSUME NodeRestart PROVE Alone'
    <2>1. /\ UNCHANGED detached /\ Current' = Current
          /\ \A m \in inbox' : m \in inbox \/ m.conn = Current
          /\ \A u \in Tasks, d \in Conns : run'[u][d] = Idle
        BY <1>9, RestartEffect DEF Counted
    <2> QED BY <1>1, <2>1, SendingFields
<1>10. ASSUME UNCHANGED vars PROVE Alone'
    BY <1>1, <1>10 DEF vars, Current
<1> QED BY NextCases, <1>2, <1>3, <1>4, <1>5, <1>6, <1>7, <1>8, <1>9, <1>10
-----------------------------------------------------------------------------
(* OutcomeInv.                                                             *)
LEMMA OutcomeInit == Init => OutcomeInv
BY ConstantTypes DEF Init, OutcomeInv, OutcomeAt, Now, Idle, EmptyStore, Nothing, Conns, Current

(* Events and answers to cancellations say nothing of the outcome, its own *)
(* result does, and nothing is said before there is one.                   *)
LEMMA AgreeingTypes ==
    ASSUME NEW t \in Tasks
    PROVE  /\ \A o : /\ Events \subseteq Agreeing(o) /\ CancelResult(t) \in Agreeing(o)
                     /\ Agreeing(Nothing) \subseteq Agreeing(o)
           /\ \A o \in Package : Result(t, o) \in Agreeing(o)
<1>1. \A o : Events \subseteq Agreeing(o) /\ CancelResult(t) \in Agreeing(o)
    BY ConstantTypes DEF Agreeing, Events
<1>2. \A o : Agreeing(Nothing) \subseteq Agreeing(o)
    BY DEF Agreeing, Tells
<1>3. ASSUME NEW o \in Package PROVE Result(t, o) \in Agreeing(o)
    <2>1. Result(t, o) \in Frame /\ o # Nothing
        BY ConstantTypes
    <2>2. Result(t, o).state = o.state /\ Result(t, o).cleanup = o.cleanup
        BY DEF Result
    <2> QED BY <2>1, <2>2 DEF Agreeing, Tells
<1> QED BY <1>1, <1>2, <1>3

(* A queue that takes an event goes on agreeing.                           *)
LEMMA AgreeingTold ==
    ASSUME NEW t \in Tasks, NEW o, wire[t] \in Seq(Agreeing(o)), Told(t) \/ UNCHANGED wire
    PROVE  wire'[t] \in Seq(Agreeing(o))
<1>1. wire'[t] = wire[t] \/ \E e \in Events : wire'[t] = Append(wire[t], e)
    BY DEF Told
<1>2. \A e \in Events : e \in Agreeing(o)
    BY AgreeingTypes
<1> QED BY <1>1, <1>2

(* The batch and the result that answer with the outcome agree with it.    *)
LEMMA AgreeingAnswer ==
    ASSUME NEW t \in Tasks, NEW o \in Package, NEW q \in Seq(Agreeing(o)),
           NEW answer \in {<<>>, <<Result(t, o)>>}
    PROVE  q \o EventsOf(t, o) \o answer \in Seq(Agreeing(o))
<1>1. Result(t, o) \in Agreeing(o) /\ Events \subseteq Agreeing(o)
    BY AgreeingTypes
<1>2. EventsOf(t, o) \in Seq(Agreeing(o))
    BY <1>1, EventTypes, EventsMonotonic
<1>3. <<>> \in Seq(Agreeing(o)) /\ <<Result(t, o)>> \in Seq(Agreeing(o))
    BY <1>1
<1>4. q \o EventsOf(t, o) \in Seq(Agreeing(o))
    BY <1>2, ConcatProperties
<1> QED BY <1>3, <1>4, ConcatProperties

(* What a step of a run does to the outcome of its task.                   *)
Saving(t, o) ==
    /\ mem'[t].outcome = o /\ disk'[t].outcome = o
    /\ o # Nothing => run'[t][Current].at \in {"idle", "send"}
    /\ run'[t][Current].at = "send" => run'[t][Current].answer = o
    /\ wire'[t] \in Seq(Agreeing(o))
(* It saves the first outcome, or leaves the one there is.                 *)
LEMMA OutcomeWorking ==
    ASSUME TypeOK, StepInv, NEW t \in Tasks, OutcomeAt(t), Working(t, Current)
    PROVE  \/ Saving(t, mem[t].outcome)
           \/ mem[t].outcome = Nothing /\ \E o \in Package : Saving(t, o)
                 /\ (o.cleanup = "none" => o = NoPackage)
<1> DEFINE o == mem[t].outcome
<1> DEFINE c == Current
<1>0. c \in Conns /\ run[t][c] \in Exec
    BY TypeParts
<1>1. /\ o # Nothing => run[t][c].at \in {"idle", "send"}
      /\ run[t][c].at = "send" => run[t][c].answer = o
      /\ disk[t].outcome = o /\ wire[t] \in Seq(Agreeing(o))
    BY DEF OutcomeAt, Now
<1>2. ASSUME mem'[t].outcome = o, disk'[t].outcome = o, Told(t) \/ UNCHANGED wire,
             o = Nothing, run'[t][c].at # "send"
      PROVE  Saving(t, o)
    BY <1>1, <1>2, AgreeingTold DEF Saving
<1> HIDE DEF o, c
<1>3. CASE BeginRun(t, c)
    <2>1. /\ UNCHANGED <<mem, disk>>
          /\ \/ run'[t][c].at = "prepare" /\ o = Nothing /\ Told(t)
             \/ run'[t][c].at = "send" /\ run'[t][c].answer = o /\ UNCHANGED wire
        BY <1>0, <1>3, BeginEffect DEF o
    <2>2. mem'[t].outcome = o /\ disk'[t].outcome = o
        BY <1>1, <2>1 DEF o
    <2> QED BY <1>1, <1>2, <2>1, <2>2 DEF Saving, o, c
<1>4. CASE ForgetRun(t, c)
    <2>1. UNCHANGED <<run, mem, disk, wire>>
        BY <1>0, <1>4, ForgetEffect
    <2> QED BY <1>1, <2>1 DEF Saving, o, c
<1>5. CASE PrepareRun(t, c)
    <2>1. /\ run[t][c].at = "prepare" /\ disk'[t] = mem'[t] /\ Told(t)
          /\ \/ mem'[t].outcome = o /\ run'[t][c].at \in {"create", "unmap"}
             \/ /\ mem'[t].outcome = NoPackage /\ run'[t][c].at = "send"
                /\ run'[t][c].answer = NoPackage
        BY <1>0, <1>5, PrepareEffect DEF o
    <2>2. o = Nothing
        BY <1>1, <2>1
    <2>3. CASE mem'[t].outcome = o /\ run'[t][c].at \in {"create", "unmap"}
        BY <1>2, <2>1, <2>2, <2>3 DEF o, c
    <2>4. CASE /\ mem'[t].outcome = NoPackage /\ run'[t][c].at = "send"
               /\ run'[t][c].answer = NoPackage
        <3>1. wire[t] \in Seq(Agreeing(NoPackage))
            BY <1>1, <2>2, AgreeingTypes, SeqMonotonic
        <3>2. wire'[t] \in Seq(Agreeing(NoPackage))
            BY <2>1, <3>1, AgreeingTold
        <3>3. Saving(t, NoPackage)
            BY <2>1, <2>4, <3>2 DEF Saving, c
        <3> QED BY <2>2, <3>3, ConstantTypes DEF o
    <2> QED BY <2>1, <2>3, <2>4
<1>6. CASE CreateSandbox(t, c)
    <2>1. UNCHANGED <<mem, disk, wire>> /\ run[t][c].at = "create"
          /\ run'[t][c].at \in {"map", "unmap"}
        BY <1>0, <1>6, CreateEffect
    <2> QED BY <1>1, <1>2, <2>1 DEF o, c
<1>7. CASE MapSandbox(t, c)
    <2>1. UNCHANGED wire /\ run[t][c].at = "map" /\ mem'[t].outcome = o
          /\ run'[t][c].at \in {"ready", "delete"} /\ disk'[t] \in {mem'[t], disk[t]}
        BY <1>0, <1>7, MapEffect DEF o
    <2>2. disk'[t].outcome = o
        BY <1>1, <2>1
    <2> QED BY <1>1, <1>2, <2>1, <2>2 DEF o, c
<1>8. CASE WaitReady(t, c) \/ RunCodex(t, c) \/ RunChecks(t, c)
    <2>1. UNCHANGED <<mem, disk>> /\ Told(t) /\ run[t][c].at \in {"ready", "codex", "checks"}
          /\ run'[t][c].at \in {"codex", "checks", "delete"}
        BY <1>0, <1>8, WorkEffect
    <2> QED BY <1>1, <1>2, <2>1 DEF o, c
<1>9. CASE DeleteSandbox(t, c)
    <2>1. UNCHANGED <<mem, disk, wire>> /\ run[t][c].at = "delete"
          /\ run'[t][c].at \in {"unmap", "finish"}
        BY <1>0, <1>9, DeleteEffect
    <2> QED BY <1>1, <1>2, <2>1 DEF o, c
<1>10. CASE Unmap(t, c)
    <2>1. UNCHANGED wire /\ run[t][c].at = "unmap" /\ mem'[t].outcome = o
          /\ run'[t][c].at = "finish" /\ disk'[t] \in {mem'[t], disk[t]}
        BY <1>0, <1>10, UnmapEffect DEF o
    <2>2. disk'[t].outcome = o
        BY <1>1, <2>1
    <2> QED BY <1>1, <1>2, <2>1, <2>2 DEF o, c
<1>11. CASE FinishRun(t, c)
    <2>1. UNCHANGED <<mem, disk>> /\ Told(t) /\ run[t][c].at = "finish" /\ run'[t][c].at = "save"
        BY <1>0, <1>11, FinishEffect
    <2> QED BY <1>1, <1>2, <2>1 DEF o, c
<1>12. CASE SaveOutcome(t, c)
    <2>1. PICK p \in Package : /\ p = run[t][c].answer /\ p.cleanup # "none"
                               /\ mem'[t].outcome = p /\ disk'[t] = mem'[t]
                               /\ run'[t][c] = Sending(p)
        BY <1>0, <1>12, SaveEffect
    <2>2. UNCHANGED wire /\ run[t][c].at = "save"
        BY <1>0, <1>12, SaveEffect
    <2>3. o = Nothing
        BY <1>1, <2>2
    <2>4. wire'[t] \in Seq(Agreeing(p))
        <3>1. wire[t] \in Seq(Agreeing(p))
            BY <1>1, <2>3, AgreeingTypes, SeqMonotonic
        <3> QED BY <2>2, <3>1
    <2>5. Sending(p).at = "send" /\ Sending(p).answer = p
        BY SendingFields
    <2>6. Saving(t, p)
        BY <2>1, <2>4, <2>5 DEF Saving, c
    <2> QED BY <2>1, <2>3, <2>6 DEF o
<1>13. CASE SendOutcome(t, c) \/ DropOutcome(t, c)
    <2>1. /\ UNCHANGED <<mem, disk>> /\ run[t][c].at = "send" /\ run'[t][c] = Idle
          /\ run[t][c].answer \in Package
          /\ \/ UNCHANGED wire
             \/ \E answer \in {<<>>, <<Result(t, run[t][c].answer)>>} :
                   wire'[t] = wire[t] \o EventsOf(t, run[t][c].answer) \o answer
        BY <1>0, <1>13, SendEffect
    <2>2. run[t][c].answer = o /\ o \in Package
        BY <1>1, <2>1
    <2>3. wire'[t] \in Seq(Agreeing(o))
        BY <1>1, <2>1, <2>2, AgreeingAnswer
    <2>4. run'[t][c].at = "idle"
        BY <2>1, SendingFields
    <2> QED BY <1>1, <2>1, <2>3, <2>4 DEF Saving, o, c
<1> QED BY <1>3, <1>4, <1>5, <1>6, <1>7, <1>8, <1>9, <1>10, <1>11, <1>12, <1>13
        DEF Working, c, o

(* A task whose frames agree with the outcome, and whose run and outcome   *)
(* are what they were.                                                     *)
LEMMA OutcomeKept ==
    ASSUME TypeOK, OutcomeInv, NEW u \in Tasks, u \notin detached, Current' = Current,
           mem'[u].outcome = mem[u].outcome, disk'[u].outcome = disk[u].outcome,
           \/ run'[u][Current].at = "idle"
           \/ /\ run'[u][Current].at = run[u][Current].at
              /\ run'[u][Current].answer = run[u][Current].answer,
           wire'[u] \in Seq(Agreeing(mem[u].outcome))
    PROVE  OutcomeAt(u)'
BY DEF OutcomeInv, OutcomeAt, Now

(* An outcome in memory stays, and the other tasks keep theirs.            *)
LEMMA OutcomeNext == TypeOK /\ StepInv /\ Alone /\ OutcomeInv /\ [Next]_vars => OutcomeInv'
<1> SUFFICES ASSUME TypeOK, StepInv, Alone, OutcomeInv, [Next]_vars, NEW u \in Tasks,
                    u \notin detached'
             PROVE  OutcomeAt(u)'
    BY DEF OutcomeInv
<1>1. /\ wire[u] \in Seq(Frame) /\ Current \in Conns
      /\ u \notin detached => wire[u] \in Seq(Agreeing(mem[u].outcome))
    BY TypeParts DEF OutcomeInv, OutcomeAt
<1>2. ASSUME u \notin detached, Current' = Current, wire'[u] = wire[u],
             run'[u][Current] = run[u][Current], mem'[u] = mem[u], disk'[u] = disk[u]
      PROVE  OutcomeAt(u)'
    BY <1>1, <1>2, OutcomeKept
<1>3. ASSUME NEW t \in Tasks, Requested(t) PROVE OutcomeAt(u)'
    BY <1>2, <1>3, RequestEffect DEF Current
<1>4. ASSUME NEW t \in Tasks, Received(t) PROVE OutcomeAt(u)'
    <2>1. /\ wire[t] # <<>> /\ wire'[t] = Tail(wire[t])
          /\ UNCHANGED <<run, mem, disk, detached>> /\ Current' = Current
          /\ t # u => wire'[u] = wire[u]
        BY <1>4, ReceiveEffect DEF Counted, Queued
    <2>2. u = t => wire'[u] \in Seq(Agreeing(mem[u].outcome))
        BY <1>1, <2>1, Receive
    <2> QED BY <1>2, <2>1, <2>2, OutcomeKept
<1>5. ASSUME NEW t \in Tasks, NEW c \in Conns, Working(t, c) PROVE OutcomeAt(u)'
    <2>1. Moved(t, c)
        BY <1>5, WorkingMoved
    <2>2. CASE u # t
        BY <1>1, <1>2, <2>1, <2>2 DEF Moved, Ran, Saved, Queued
    <2>3. CASE u = t
        <3>1. c = Current /\ OutcomeAt(u) /\ Current' = Current
            BY <1>5, <2>1, <2>3, WorksNow DEF OutcomeInv, Moved
        <3>2. PICK o : /\ Saving(u, o)
                       /\ o = mem[u].outcome \/ (o.cleanup = "none" => o = NoPackage)
            BY <1>5, <2>3, <3>1, OutcomeWorking
        <3> QED BY <3>1, <3>2 DEF Saving, OutcomeAt, Now
    <2> QED BY <2>2, <2>3
<1>6. ASSUME NEW t \in Tasks, NEW c \in Conns, SignalCancel(t, c) PROVE OutcomeAt(u)'
    <2>1. /\ Ran(t, c) /\ UNCHANGED <<wire, mem, disk, detached, count>>
          /\ run'[t][c].at = run[t][c].at /\ run'[t][c].answer = run[t][c].answer
        BY <1>6, SignalEffect
    <2>2. /\ run'[u][Current].at = run[u][Current].at
          /\ run'[u][Current].answer = run[u][Current].answer
        BY <1>1, <2>1 DEF Ran
    <2> QED BY <1>1, <2>1, <2>2, OutcomeKept DEF Current
<1>7. ASSUME NEW t \in Tasks, NEW c \in Conns, AnswerCancel(t, c) PROVE OutcomeAt(u)'
    <2>1. /\ UNCHANGED <<run, mem, disk, detached, count>>
          /\ t # u => wire'[u] = wire[u]
          /\ wire'[t] = wire[t] \/ wire'[t] = Append(wire[t], CancelResult(t))
        BY <1>7, CancelEffect DEF Queued
    <2>2. CancelResult(t) \in Agreeing(mem[u].outcome)
        BY AgreeingTypes
    <2>3. wire'[u] \in Seq(Agreeing(mem[u].outcome))
        BY <1>1, <2>1, <2>2
    <2> QED BY <2>1, <2>3, OutcomeKept DEF Current
<1>8. ASSUME Redispatch PROVE OutcomeAt(u)'
    BY <1>2, <1>8, RedispatchEffect DEF Counted
<1>9. ASSUME wire' \in [Tasks -> Seq(Events)] PROVE \A o : wire'[u] \in Seq(Agreeing(o))
    <2>1. \A o : Events \subseteq Agreeing(o)
        BY AgreeingTypes
    <2> QED BY <1>9, <2>1, EventsMonotonic
<1>10. Idle.at = "idle"
    BY SendingFields
<1>11. ASSUME ConnectionLost PROVE OutcomeAt(u)'
    <2>1. /\ run'[u][Current] = Idle /\ UNCHANGED <<mem, disk, detached>> /\ Current' = Current
          /\ wire' \in [Tasks -> Seq(Events)]
        BY <1>11, LostEffect DEF Counted
    <2> QED BY <1>9, <1>10, <2>1, OutcomeKept
<1>12. ASSUME ReadError PROVE OutcomeAt(u)'
    <2>1. /\ UNCHANGED <<run, mem, disk>> /\ wire' \in [Tasks -> Seq(Events)]
          /\ detached \subseteq detached' /\ Current' = Current + 1 /\ Current' \in Conns
        BY <1>12, ErrorEffect
    <2>2. u \notin detached /\ Current' # Current
        BY <2>1, TypeParts DEF Conns
    <2>3. run'[u][Current'].at = "idle"
        BY <2>1, <2>2 DEF Alone
    <2>4. \A o : wire'[u] \in Seq(Agreeing(o))
        BY <1>9, <2>1
    <2>5. OutcomeAt(u)
        BY <2>2 DEF OutcomeInv
    <2> QED BY <2>1, <2>3, <2>4, <2>5 DEF OutcomeAt, Now
<1>13. ASSUME NodeRestart PROVE OutcomeAt(u)'
    <2>1. /\ run'[u][Current] = Idle /\ UNCHANGED detached /\ Current' = Current
          /\ wire' \in [Tasks -> Seq(Events)] /\ mem' = disk'
          /\ disk'[u].outcome = disk[u].outcome
        BY <1>1, <1>13, RestartEffect DEF Counted
    <2>2. disk[u].outcome = mem[u].outcome
        BY <2>1 DEF OutcomeInv, OutcomeAt
    <2> QED BY <1>9, <1>10, <2>1, <2>2, OutcomeKept
<1>14. ASSUME UNCHANGED vars PROVE OutcomeAt(u)'
    BY <1>2, <1>14 DEF vars, Current
<1> QED BY NextCases, <1>3, <1>4, <1>5, <1>6, <1>7, <1>8, <1>11, <1>12, <1>13, <1>14

(* Once there is an outcome it stays.                                      *)
LEMMA OutcomeStays ==
    ASSUME TypeOK, StepInv, Alone, OutcomeInv, [Next]_vars, NEW u \in Tasks,
           u \notin detached', mem[u].outcome # Nothing
    PROVE  mem'[u].outcome = mem[u].outcome
<1>1. CASE UNCHANGED mem
    BY <1>1
<1>2. ASSUME NEW t \in Tasks, NEW c \in Conns, Working(t, c)
      PROVE  mem'[u].outcome = mem[u].outcome
    <2>1. Moved(t, c)
        BY <1>2, WorkingMoved
    <2>2. CASE u # t
        BY <2>1, <2>2 DEF Moved, Saved
    <2>3. CASE u = t
        <3>1. c = Current /\ OutcomeAt(u)
            BY <1>2, <2>1, <2>3, WorksNow DEF OutcomeInv, Moved
        <3> QED BY <1>2, <2>3, <3>1, OutcomeWorking DEF Saving
    <2> QED BY <2>2, <2>3
<1>3. CASE NodeRestart
    <2>1. mem' = disk' /\ disk'[u].outcome = disk[u].outcome /\ UNCHANGED detached
        BY <1>3, RestartEffect
    <2> QED BY <2>1 DEF OutcomeInv, OutcomeAt
<1>4. ASSUME NEW t \in Tasks, NEW c \in Conns, SignalCancel(t, c) \/ AnswerCancel(t, c)
      PROVE  UNCHANGED mem
    BY <1>4, SignalEffect, CancelEffect
<1>5. ASSUME NEW t \in Tasks, Requested(t) \/ Received(t) PROVE UNCHANGED mem
    BY <1>5, RequestEffect, ReceiveEffect
<1>6. Redispatch \/ ConnectionLost \/ ReadError => UNCHANGED mem
    BY RedispatchEffect, LostEffect, ErrorEffect
<1>7. UNCHANGED vars => UNCHANGED mem
    BY DEF vars
<1> QED BY NextCases, <1>1, <1>2, <1>3, <1>4, <1>5, <1>6, <1>7

-----------------------------------------------------------------------------
(* RowInv.                                                                 *)
LEMMA RowInit == Init => RowInv
BY DEF Init, RowInv, RowAt

(* A frame that Core takes leaves a row whose result was projected, and    *)
(* projects no other result than the Node's.                               *)
LEMMA RowReceived ==
    ASSUME TypeOK, OutcomeInv, RowInv, NEW t \in Tasks, t \notin detached, Received(t)
    PROVE  /\ RowAt(t)'
           /\ row[t].run = "done" =>
                 row'[t].state = row[t].state /\ row'[t].cleanup = row[t].cleanup
<1> DEFINE f == Head(wire[t])
<1> DEFINE o == mem[t].outcome
<1>1. Projected(t, f) /\ UNCHANGED mem /\ wire[t] # <<>>
    BY ReceiveEffect
<1>2. wire[t] \in Seq(Agreeing(o)) /\ RowAt(t) /\ OutcomeAt(t)
    BY DEF OutcomeInv, OutcomeAt, RowInv
<1>3. f \in Agreeing(o)
    BY <1>1, <1>2, Receive
<1>4. f.kind = "result" => o # Nothing /\ f.state = o.state /\ f.cleanup = o.cleanup
    BY <1>3 DEF Agreeing, Tells
<1>5. o \in Package \cup {Nothing}
    BY TypeParts DEF Store
<1> HIDE DEF f, o
<1>6. row[t].run = "done" =>
          /\ o # Nothing /\ row[t].state = o.state /\ o.state \in Terminal
          /\ o.cleanup # "none" => row[t].cleanup = o.cleanup
    BY <1>2, <1>5 DEF RowAt, o, Package
<1>7. mem'[t].outcome = o
    BY <1>1 DEF o
<1>8. CASE /\ row'[t].state = row[t].state /\ row'[t].cleanup = row[t].cleanup
           /\ row'[t].run = "done" => row[t].run = "done"
    BY <1>6, <1>7, <1>8 DEF RowAt
<1>9. CASE f.kind = "event" /\ row'[t].run = row[t].run /\ row[t].state \notin Terminal
    BY <1>6, <1>9 DEF RowAt
<1>10. CASE /\ f.kind = "result" /\ row'[t].state = f.state /\ row'[t].run = "done"
            /\ row'[t].cleanup = IF f.cleanup = "none" THEN row[t].cleanup ELSE f.cleanup
    BY <1>4, <1>6, <1>7, <1>10 DEF RowAt
<1> QED BY <1>1, <1>8, <1>9, <1>10 DEF Projected

(* Every action keeps RowInv.                                              *)
LEMMA RowNext ==
    TypeOK /\ StepInv /\ Alone /\ OutcomeInv /\ RowInv /\ [Next]_vars => RowInv'
<1> SUFFICES ASSUME TypeOK, StepInv, Alone, OutcomeInv, RowInv, [Next]_vars, NEW u \in Tasks,
                    u \notin detached'
             PROVE  RowAt(u)'
    BY DEF RowInv
<1>1. mem[u].outcome # Nothing => mem'[u].outcome = mem[u].outcome
    BY OutcomeStays
<1>2. ASSUME u \notin detached, row'[u] = row[u] PROVE RowAt(u)'
    BY <1>1, <1>2 DEF RowInv, RowAt
<1>3. ASSUME NEW t \in Tasks, Requested(t) PROVE RowAt(u)'
    <2>1. /\ UNCHANGED <<mem, detached>> /\ (t # u => row'[u] = row[u])
          /\ row'[t].run = "open" \/ (row[t].state \notin Terminal /\ row'[t].run = row[t].run)
        BY <1>3, RequestEffect
    <2>2. u \notin detached
        BY <1>3, RequestEffect
    <2>3. mem[u].outcome \in Package \cup {Nothing}
        BY TypeParts DEF Store
    <2>4. row[u].run = "done" => row[u].state \in Terminal
        BY <2>2, <2>3 DEF RowInv, RowAt, Package
    <2>5. CASE t = u
        <3>1. row'[u].run # "done"
            BY <2>1, <2>4, <2>5
        <3> QED BY <3>1 DEF RowAt
    <2>6. CASE t # u
        <3>1. row'[u] = row[u]
            BY <2>1, <2>6
        <3> QED BY <1>2, <2>2, <3>1
    <2> QED BY <2>5, <2>6
<1>4. ASSUME NEW t \in Tasks, Received(t) PROVE RowAt(u)'
    <2>1. UNCHANGED detached /\ (t # u => row'[u] = row[u])
        BY <1>4, ReceiveEffect
    <2> QED BY <1>2, <1>4, <2>1, RowReceived
<1>5. ASSUME NEW t \in Tasks, NEW c \in Conns, Working(t, c) PROVE RowAt(u)'
    BY <1>2, <1>5, WorkingMoved DEF Moved
<1>6. ASSUME NEW t \in Tasks, NEW c \in Conns, SignalCancel(t, c) \/ AnswerCancel(t, c)
      PROVE  RowAt(u)'
    BY <1>2, <1>6, SignalEffect, CancelEffect
<1>7. ASSUME Redispatch \/ ConnectionLost \/ ReadError \/ NodeRestart PROVE RowAt(u)'
    <2>1. UNCHANGED row /\ detached \subseteq detached'
        BY <1>7, RedispatchEffect, LostEffect, ErrorEffect, RestartEffect
    <2> QED BY <1>2, <2>1
<1>8. ASSUME UNCHANGED vars PROVE RowAt(u)'
    BY <1>2, <1>8 DEF vars
<1> QED BY NextCases, <1>3, <1>4, <1>5, <1>6, <1>7, <1>8
-----------------------------------------------------------------------------
(* BoxInv.                                                                 *)
LEMMA BoxInit == Init => BoxInv
<1> SUFFICES ASSUME Init PROVE BoxInv
    OBVIOUS
<1>1. \A t \in Tasks : Now(t) = Idle /\ mem[t].outcome = Nothing /\ boxes = {}
    BY ConstantTypes DEF Init, Now, Current, EmptyStore
<1>2. Nothing.cleanup = "none"
    BY DEF Nothing
<1>3. \A t \in Tasks : MappedAt(t) /\ CleanAt(t)
    BY <1>1, <1>2, SendingFields DEF MappedAt, CleanAt
<1> QED BY <1>3 DEF BoxInv, HeldInv, Init

(* What is owed of a task stays what it was, or gets less.                 *)
Kept(u) == \A b \in boxes' : b.task = u /\ b.id \in named' \ lost' => b \in boxes /\ b.id \in Owed
Holding(u) == \A b \in boxes : b.task = u /\ b.id \in Owed =>
                  Holds(mem[u], b.id) /\ Holds(disk[u], b.id)
Good(u) == Holding(u) /\ MappedAt(u) /\ CleanAt(u)
(* The invariant, task by task.                                            *)
LEMMA BoxParts ==
    ASSUME TypeOK
    PROVE  BoxInv <=> \A u \in Tasks \ detached : Good(u)
<1>1. \A b \in boxes : b.task \in Tasks
    BY DEF TypeOK
<1> QED BY <1>1 DEF BoxInv, HeldInv, Holding, Good

(* The same run, with the same saved mapping and outcome.                  *)
SameRun(u) == LET r == run'[u][Current]
                  s == run[u][Current]
              IN  r.at = s.at /\ r.box = s.box /\ r.clean = s.clean /\ r.answer = s.answer
(* Such a run keeps it.                                                    *)
LEMMA BoxKept ==
    ASSUME NEW u \in Tasks, Good(u), Current' = Current, SameRun(u) \/ run'[u][Current] = Idle,
           mem'[u] = mem[u], disk'[u] = disk[u], Kept(u)
    PROVE  Good(u)'
<1>1. Gone(u) => Gone(u)'
    BY DEF Gone, Kept, Owed
<1>2. Holding(u)'
    BY DEF Good, Holding, Kept, Owed
<1>3. CASE SameRun(u)
    <2>1. MappedAt(u)'
        BY <1>3 DEF Good, MappedAt, Now, SameRun
    <2>2. CleanAt(u)'
        BY <1>1, <1>3 DEF Good, CleanAt, Now, SameRun
    <2> QED BY <1>2, <2>1, <2>2 DEF Good
<1>4. CASE run'[u][Current] = Idle
    <2>1. Now(u)' = Idle
        BY <1>4 DEF Now
    <2>2. MappedAt(u)' /\ CleanAt(u)'
        BY <1>1, <2>1, SendingFields DEF Good, MappedAt, CleanAt
    <2> QED BY <1>2, <2>2 DEF Good
<1> QED BY <1>3, <1>4

(* Other tasks do not notice what a step of a run does to sandboxes.       *)
LEMMA BoxOthers ==
    ASSUME TypeOK, StepInv, NumberInv, NEW t \in Tasks, NEW c \in Conns, Working(t, c),
           NEW u \in Tasks, u # t
    PROVE  Kept(u)
<1>1. CASE UNCHANGED named /\ boxes' \subseteq boxes /\ lost \subseteq lost'
    BY <1>1 DEF Kept, Owed
<1>2. CASE CreateSandbox(t, c)
    <2>1. PICK b : boxes' = boxes \/ boxes' = boxes \cup {[id |-> b, task |-> t]}
        BY <1>2, CreateEffect
    <2>2. UNCHANGED <<named, lost>>
        BY <1>2, CreateEffect
    <2> QED BY <2>1, <2>2 DEF Kept, Owed
<1>3. CASE MapSandbox(t, c)
    <2>1. UNCHANGED <<boxes, lost>> /\ run[t][c].at = "map"
          /\ named' \subseteq named \cup {run[t][c].box}
        <3>1. UNCHANGED <<boxes, lost>> /\ run[t][c].at = "map"
            BY <1>3, MapEffect
        <3>2. named' = named \cup {run[t][c].box} \/ UNCHANGED named
            BY <1>3, MapEffect
        <3> QED BY <3>1, <3>2
    <2>2. \A b \in boxes : b.id = run[t][c].box => b.task = t
        BY <2>1 DEF NumberInv, NumberAt
    <2> QED BY <2>1, <2>2 DEF Kept, Owed
<1>4. CASE PrepareRun(t, c)
    <2>1. UNCHANGED <<boxes, named>>
        BY <1>4, PrepareEffect
    <2>2. lost' = lost \cup {mem[t].box, disk[t].box} \/ UNCHANGED lost
        BY <1>4, PrepareEffect
    <2> QED BY <1>1, <2>1, <2>2
<1>5. CASE BeginRun(t, c) \/ ForgetRun(t, c) \/ WaitReady(t, c) \/ RunCodex(t, c) \/ RunChecks(t, c)
    BY <1>1, <1>5, BeginEffect, ForgetEffect, WorkEffect
<1>6. CASE DeleteSandbox(t, c)
    BY <1>1, <1>6, DeleteEffect
<1>7. CASE Unmap(t, c) \/ FinishRun(t, c)
    BY <1>1, <1>7, UnmapEffect, FinishEffect
<1>8. CASE SaveOutcome(t, c)
    BY <1>1, <1>8, SaveEffect
<1>9. CASE SendOutcome(t, c) \/ DropOutcome(t, c)
    BY <1>1, <1>9, SendEffect
<1> QED BY <1>2, <1>3, <1>4, <1>5, <1>6, <1>7, <1>8, <1>9 DEF Working

(* The step of the run of a task that is not detached.                     *)
LEMMA BoxWorking ==
    ASSUME TypeOK, StepInv, NumberInv, NEW t \in Tasks, Good(t), OutcomeAt(t),
           Working(t, Current)
    PROVE  Good(t)'
<1> DEFINE c == Current
<1>0. /\ c \in Conns /\ run[t][c] \in Exec /\ Current' = Current
      /\ Now(t) = run[t][c] /\ Now(t)' = run'[t][c]
    <2>1. Current' = Current
        BY WorkingMoved, TypeParts DEF Moved
    <2> QED BY <2>1, TypeParts DEF Now
<1> DEFINE r == run[t][c]
<1> DEFINE x == run'[t][c]
<1> DEFINE m == mem[t]
<1> DEFINE y == mem'[t]
<1>1. Holding(t) /\ MappedAt(t) /\ CleanAt(t)
    BY DEF Good
<1>2. /\ r.at \in {"create", "map"} => m.box = 0
      /\ r.at \in {"ready", "codex", "checks", "delete"} => m.box = r.box
      /\ r.clean => r.at \in {"unmap", "finish", "save"} /\ Gone(t)
      /\ r.at = "unmap" => r.clean
      /\ r.at = "save" /\ r.answer.cleanup = "completed" => Gone(t)
      /\ m.outcome.cleanup = "completed" => Gone(t)
    BY <1>0, <1>1 DEF MappedAt, CleanAt
<1>3. \A b \in boxes : b.task = t /\ b.id \in Owed => m.box = b.id /\ disk[t].box = b.id /\ b.id # 0
    BY <1>1 DEF Holding, Holds, TypeOK
<1>4. ASSUME /\ x.at \in {"create", "map"} => y.box = 0
             /\ x.at \in {"ready", "codex", "checks", "delete"} => y.box = x.box,
             /\ x.clean => x.at \in {"unmap", "finish", "save"} /\ Gone(t)'
             /\ x.at = "unmap" => x.clean,
             /\ x.at = "save" /\ x.answer.cleanup = "completed" => Gone(t)'
             /\ y.outcome.cleanup = "completed" => Gone(t)',
             Holding(t)'
      PROVE  Good(t)'
    BY <1>0, <1>4 DEF Good, MappedAt, CleanAt
<1>5. /\ Kept(t) => (Gone(t) => Gone(t)')
      /\ Kept(t) /\ UNCHANGED <<mem, disk>> => Holding(t)'
      /\ Gone(t)' => Holding(t)'
    BY <1>1 DEF Kept, Gone, Holding, Owed
<1>6. /\ UNCHANGED <<boxes, named, lost>> => Kept(t)
      /\ UNCHANGED <<boxes, named>> /\ lost \subseteq lost' => Kept(t)
    BY DEF Kept, Owed
<1>7. m.outcome \in Package \cup {Nothing} /\ r.clean \in BOOLEAN
    BY <1>0, TypeParts DEF Store, Exec
<1> HIDE DEF c, r, x, m, y
<1>8. CASE BeginRun(t, c)
    <2>1. /\ UNCHANGED <<mem, disk, boxes, named, lost>>
          /\ x.at \in {"prepare", "send"} /\ x.clean = FALSE
        BY <1>0, <1>8, BeginEffect DEF x
    <2> QED BY <1>2, <1>4, <1>5, <1>6, <2>1 DEF m, y
<1>9. CASE ForgetRun(t, c)
    <2>1. UNCHANGED <<run, mem, disk, boxes, named, lost>>
        BY <1>0, <1>9, ForgetEffect
    <2> QED BY <1>2, <1>4, <1>5, <1>6, <2>1 DEF m, y, r, x
<1>10. CASE PrepareRun(t, c)
    <2>1. /\ UNCHANGED <<boxes, named>> /\ r.at = "prepare" /\ disk'[t] = y
          /\ \/ /\ y.outcome = m.outcome /\ y.box = 0
                /\ lost' = lost \cup {m.box, disk[t].box}
                /\ \/ x.at = "create" /\ x.clean = r.clean
                   \/ x.at = "unmap" /\ x.clean = TRUE
             \/ /\ y.outcome = NoPackage /\ x.at = "send" /\ x.clean = FALSE
                /\ \/ y.mapped = m.mapped /\ y.box = m.box /\ UNCHANGED lost
                   \/ lost' = lost \cup {m.box, disk[t].box}
        BY <1>0, <1>10, PrepareEffect DEF r, x, m, y
    <2>2. lost' = lost \cup {m.box, disk[t].box} => Gone(t)'
        BY <1>3, <2>1 DEF Gone, Owed
    <2>3. y.mapped = m.mapped /\ y.box = m.box /\ UNCHANGED lost => Holding(t)'
        BY <1>1, <2>1 DEF Holding, Holds, Owed, m, y
    <2>4. ~r.clean /\ NoPackage.cleanup = "none"
        BY <1>2, <2>1 DEF NoPackage
    <2> QED BY <1>4, <1>5, <2>1, <2>2, <2>3, <2>4
<1>11. CASE CreateSandbox(t, c)
    <2>1. PICK n : n = count.boxes + 1
        OBVIOUS
    <2>2. /\ UNCHANGED <<mem, disk, named, lost>> /\ r.at = "create"
          /\ boxes' = boxes \/ boxes' = boxes \cup {[id |-> n, task |-> t]}
          /\ \/ x.at = "map" /\ x.clean = r.clean
             \/ x.at = "unmap" /\ x.clean = TRUE
        BY <1>0, <1>11, <2>1, CreateEffect DEF r, x
    <2>3. n \notin named
        BY <2>1, TypeParts DEF NumberInv
    <2>4. Kept(t)
        BY <2>2, <2>3 DEF Kept, Owed
    <2>5. Gone(t)
        BY <1>2, <1>3, <2>2 DEF Gone
    <2> QED BY <1>2, <1>4, <1>5, <2>2, <2>4, <2>5 DEF m, y
<1>12. CASE MapSandbox(t, c)
    <2>1. /\ UNCHANGED <<boxes, lost>> /\ r.at = "map" /\ x.clean = r.clean
          /\ y.mapped = TRUE /\ y.box = r.box /\ x.box = r.box /\ y.outcome = m.outcome
          /\ \/ x.at = "ready" /\ disk'[t] = y /\ named' = named \cup {r.box}
             \/ x.at = "delete" /\ disk'[t] = disk[t] /\ UNCHANGED named
        BY <1>0, <1>12, MapEffect DEF r, x, m, y, Same
    <2>2. Gone(t) /\ m.box = 0 /\ ~r.clean
        BY <1>2, <1>3, <2>1 DEF Gone
    <2>3. m.outcome = Nothing /\ Nothing.cleanup = "none"
        BY <1>0, <2>1 DEF OutcomeAt, r, m, Nothing
    <2>4. Holding(t)'
        BY <2>1, <2>2 DEF Holding, Gone, Holds, Owed, y
    <2> QED BY <1>4, <2>1, <2>2, <2>3, <2>4
<1>13. CASE WaitReady(t, c) \/ RunCodex(t, c) \/ RunChecks(t, c)
    <2>1. /\ UNCHANGED <<mem, disk, boxes, named, lost>> /\ r.at \in {"ready", "codex", "checks"}
          /\ x.at \in {"codex", "checks", "delete"} /\ x.clean = r.clean /\ x.box = r.box
        BY <1>0, <1>13, WorkEffect DEF r, x, Same
    <2> QED BY <1>2, <1>4, <1>5, <1>6, <2>1 DEF m, y
<1>14. CASE DeleteSandbox(t, c)
    <2>1. /\ UNCHANGED <<mem, disk, named, lost>> /\ r.at = "delete"
          /\ \/ /\ x.at = "unmap" /\ x.clean = TRUE
                /\ boxes' = {b \in boxes : b.id # r.box}
             \/ x.at = "finish" /\ x.clean = r.clean /\ UNCHANGED boxes
        BY <1>0, <1>14, DeleteEffect DEF r, x
    <2>2. boxes' = {b \in boxes : b.id # r.box} => Gone(t)'
        BY <1>2, <1>3, <2>1 DEF Gone, Owed
    <2>3. Kept(t) /\ ~r.clean
        BY <1>2, <2>1 DEF Kept, Owed
    <2> QED BY <1>2, <1>4, <1>5, <2>1, <2>2, <2>3 DEF m, y
<1>15. CASE Unmap(t, c)
    <2>1. /\ UNCHANGED <<boxes, named, lost>> /\ r.at = "unmap" /\ x.at = "finish"
        BY <1>0, <1>15, UnmapEffect DEF r, x
    <2>2. Gone(t)'
        BY <1>2, <1>5, <1>6, <2>1
    <2> QED BY <1>4, <1>5, <2>1, <2>2
<1>16. CASE FinishRun(t, c)
    <2>1. /\ UNCHANGED <<mem, disk, boxes, named, lost>> /\ r.at = "finish" /\ x.at = "save"
          /\ x.clean = r.clean /\ (x.answer.cleanup = "completed" => r.clean)
        BY <1>0, <1>16, FinishEffect DEF r, x
    <2> QED BY <1>2, <1>4, <1>5, <1>6, <2>1 DEF m, y
<1>17. CASE SaveOutcome(t, c)
    <2>1. /\ UNCHANGED <<boxes, named, lost>> /\ r.at = "save" /\ y.outcome = r.answer
          /\ disk'[t] = y /\ y.mapped = m.mapped /\ y.box = m.box /\ x = Sending(r.answer)
        BY <1>0, <1>17, SaveEffect DEF r, x, m, y
    <2>2. x.at = "send" /\ x.clean = FALSE
        BY <2>1, SendingFields
    <2>3. Holding(t)'
        BY <1>1, <2>1 DEF Holding, Holds, Owed, m, y
    <2> QED BY <1>2, <1>4, <1>5, <1>6, <2>1, <2>2, <2>3
<1>18. CASE SendOutcome(t, c) \/ DropOutcome(t, c)
    <2>1. UNCHANGED <<mem, disk, boxes, named, lost>> /\ x = Idle
        BY <1>0, <1>18, SendEffect DEF x
    <2> QED BY <1>2, <1>4, <1>5, <1>6, <2>1, SendingFields DEF m, y
<1> QED BY <1>8, <1>9, <1>10, <1>11, <1>12, <1>13, <1>14, <1>15, <1>16, <1>17, <1>18
        DEF Working, c

(* Every action keeps BoxInv.                                              *)
LEMMA BoxNext ==
    TypeOK /\ TypeOK' /\ StepInv /\ NumberInv /\ Alone /\ OutcomeInv /\ BoxInv /\ [Next]_vars
        => BoxInv'
<1> SUFFICES ASSUME TypeOK, StepInv, NumberInv, Alone, OutcomeInv, BoxInv, [Next]_vars,
                    NEW u \in Tasks, u \notin detached'
             PROVE  Good(u)'
    <2>1. TypeOK' => \A b \in boxes' : b.task \in Tasks
        BY DEF TypeOK
    <2> QED BY <2>1 DEF BoxInv, HeldInv, Holding, Good
<1>1. u \notin detached => Good(u) /\ OutcomeAt(u)
    BY BoxParts DEF OutcomeInv
<1>2. UNCHANGED <<named, lost>> /\ boxes' \subseteq boxes => Kept(u)
    BY DEF Kept, Owed
<1>3. ASSUME u \notin detached, Current' = Current, run'[u][Current] = run[u][Current],
             mem'[u] = mem[u], disk'[u] = disk[u], Kept(u)
      PROVE  Good(u)'
    BY <1>1, <1>3, BoxKept DEF SameRun
<1>4. ASSUME NEW t \in Tasks, Requested(t) \/ Received(t) PROVE Good(u)'
    BY <1>2, <1>3, <1>4, RequestEffect, ReceiveEffect DEF Counted, Current
<1>5. ASSUME NEW t \in Tasks, NEW c \in Conns, Working(t, c) PROVE Good(u)'
    <2>1. Moved(t, c) /\ Current \in Conns
        BY <1>5, WorkingMoved, TypeParts
    <2>2. CASE u # t
        BY <1>3, <1>5, <2>1, <2>2, BoxOthers DEF Moved, Ran, Saved
    <2>3. CASE u = t
        <3>1. u \notin detached
            BY <2>1 DEF Moved
        <3>2. c = Current
            BY <1>5, <2>3, <3>1, WorksNow
        <3> QED BY <1>1, <1>5, <2>3, <3>1, <3>2, BoxWorking
    <2> QED BY <2>2, <2>3
<1>6. ASSUME NEW t \in Tasks, NEW c \in Conns, SignalCancel(t, c) PROVE Good(u)'
    <2>1. /\ Ran(t, c) /\ UNCHANGED <<mem, disk, boxes, named, lost, detached, count>>
          /\ run'[t][c].at = run[t][c].at /\ run'[t][c].box = run[t][c].box
          /\ run'[t][c].clean = run[t][c].clean /\ run'[t][c].answer = run[t][c].answer
        BY <1>6, SignalEffect
    <2>2. SameRun(u) /\ Current' = Current
        BY <2>1, TypeParts DEF Ran, SameRun, Current
    <2> QED BY <1>1, <1>2, <2>1, <2>2, BoxKept
<1>7. ASSUME NEW t \in Tasks, NEW c \in Conns, AnswerCancel(t, c) PROVE Good(u)'
    BY <1>2, <1>3, <1>7, CancelEffect DEF Current
<1>8. ASSUME Redispatch PROVE Good(u)'
    BY <1>2, <1>3, <1>8, RedispatchEffect DEF Counted
<1>9. ASSUME ConnectionLost PROVE Good(u)'
    <2>1. /\ run'[u][Current] = Idle /\ Current' = Current
          /\ UNCHANGED <<mem, disk, boxes, named, lost, detached>>
        BY <1>9, LostEffect DEF Counted
    <2> QED BY <1>1, <1>2, <2>1, BoxKept
<1>10. ASSUME ReadError PROVE Good(u)'
    <2>1. /\ UNCHANGED <<run, mem, disk, boxes, named, lost>>
          /\ detached \subseteq detached' /\ Current' = Current + 1 /\ Current' \in Conns
        BY <1>10, ErrorEffect
    <2>2. u \notin detached /\ Current' # Current
        BY <2>1, TypeParts DEF Conns
    <2>3. run[u][Current'].at = "idle"
        BY <2>1, <2>2 DEF Alone
    <2>4. run[u][Current'] = Idle
        BY <2>1, <2>3 DEF StepInv, StepAt
    <2>5. Now(u)' = Idle
        BY <2>1, <2>4 DEF Now
    <2>6. Holding(u)' /\ (Gone(u) => Gone(u)')
        BY <1>1, <2>1, <2>2 DEF Good, Holding, Gone, Owed
    <2>7. MappedAt(u)' /\ CleanAt(u)'
        BY <1>1, <2>1, <2>2, <2>5, <2>6, SendingFields DEF Good, MappedAt, CleanAt
    <2> QED BY <2>6, <2>7 DEF Good
<1>11. ASSUME NodeRestart PROVE Good(u)'
    <2>1. PICK gone : /\ boxes' = {b \in boxes : b.id \notin gone}
                      /\ disk'[u].outcome = disk[u].outcome
                      /\ disk[u].box # 0 /\ disk[u].box \notin gone => disk'[u] = disk[u]
        BY <1>11, RestartEffect
    <2>2. /\ run'[u][Current] = Idle /\ Current' = Current /\ mem' = disk'
          /\ UNCHANGED <<named, lost, detached>>
        BY <1>11, RestartEffect, TypeParts DEF Counted
    <2>3. Now(u)' = Idle
        BY <2>2 DEF Now
    <2>4. Good(u) /\ disk[u].outcome = mem[u].outcome
        BY <1>1, <2>2 DEF OutcomeAt
    <2>5. Gone(u) => Gone(u)'
        BY <2>1, <2>2 DEF Gone, Owed
    <2>6. \A b \in boxes : b.id # 0
        BY DEF TypeOK
    <2>7. Holding(u)'
        BY <2>1, <2>2, <2>4, <2>6 DEF Good, Holding, Holds, Owed
    <2>8. mem'[u].outcome = mem[u].outcome
        BY <2>1, <2>2, <2>4
    <2>9. MappedAt(u)' /\ CleanAt(u)'
        BY <2>3, <2>4, <2>5, <2>8, SendingFields DEF Good, MappedAt, CleanAt
    <2> QED BY <2>7, <2>9 DEF Good
<1>12. ASSUME UNCHANGED vars PROVE Good(u)'
    BY <1>2, <1>3, <1>12 DEF vars, Current
<1> QED BY NextCases, <1>4, <1>5, <1>6, <1>7, <1>8, <1>9, <1>10, <1>11, <1>12
-----------------------------------------------------------------------------
(* SignalInv.                                                              *)
LEMMA SignalInit == Init => SignalInv
<1>1. <<>> \in Seq(Uncancelled)
    OBVIOUS
<1> QED BY <1>1 DEF Init, SignalInv, SignalAt

(* Events are no answers to cancellations.                                 *)
LEMMA UncancelledTypes == Events \subseteq Uncancelled
BY ConstantTypes DEF Events, Uncancelled

(* A step of a run at the only dispatcher: a signal reaches the run that   *)
(* begins and stays with it, unless the run ends with its outcome.         *)
LEMMA SignalWorking ==
    ASSUME TypeOK, StepInv, NEW t \in Tasks, OutcomeAt(t), Current = 0, Working(t, 0),
           count'.faults = count.faults, mem'[t].outcome = Nothing
    PROVE  /\ Signalled(t) => Signalled(t)'
           /\ Told(t) \/ UNCHANGED wire
<1>0. 0 \in Conns /\ run[t][0] \in Exec /\ Now(t) = run[t][0] /\ count.faults \in Nat
    BY TypeParts, ConstantTypes DEF Now
<1>1. Nothing \notin Package /\ NoPackage # Nothing
    BY ConstantTypes
<1>2. CASE BeginRun(t, 0)
    <2>1. /\ run[t][0].at = "idle" /\ mem' = mem
          /\ \/ /\ run'[t][0].cut = (<<t, 0>> \in pending) /\ Told(t)
             \/ mem[t].outcome \in Package
        BY <1>0, <1>2, BeginEffect
    <2>2. run[t][0].cut = FALSE
        BY <1>0, <2>1, SendingFields DEF StepInv, StepAt
    <2> QED BY <1>1, <2>1, <2>2 DEF Signalled
<1>3. CASE ForgetRun(t, 0)
    <2>1. count'.faults = count.faults + 1
        BY <1>0, <1>3, ForgetEffect
    <2> QED BY <1>0, <2>1
<1>4. CASE PrepareRun(t, 0)
    <2>1. /\ Told(t) /\ UNCHANGED pending
          /\ run'[t][0].cut = run[t][0].cut \/ mem'[t].outcome = NoPackage
        BY <1>0, <1>4, PrepareEffect
    <2> QED BY <1>1, <2>1 DEF Signalled
<1>5. CASE CreateSandbox(t, 0)
    BY <1>0, <1>5, CreateEffect DEF Signalled
<1>6. CASE MapSandbox(t, 0)
    BY <1>0, <1>6, MapEffect DEF Signalled, Same
<1>7. CASE WaitReady(t, 0) \/ RunCodex(t, 0) \/ RunChecks(t, 0)
    BY <1>0, <1>7, WorkEffect DEF Signalled, Same
<1>8. CASE DeleteSandbox(t, 0)
    BY <1>0, <1>8, DeleteEffect DEF Signalled, Same
<1>9. CASE Unmap(t, 0)
    BY <1>0, <1>9, UnmapEffect DEF Signalled, Same
<1>10. CASE FinishRun(t, 0)
    BY <1>0, <1>10, FinishEffect DEF Signalled, Same
<1>11. CASE SaveOutcome(t, 0)
    BY <1>0, <1>1, <1>11, SaveEffect
<1>12. CASE SendOutcome(t, 0) \/ DropOutcome(t, 0)
    <2>1. run[t][0].at = "send" /\ run[t][0].answer \in Package /\ mem' = mem
        BY <1>0, <1>12, SendEffect
    <2> QED BY <1>0, <1>1, <2>1 DEF OutcomeAt
<1> QED BY <1>2, <1>3, <1>4, <1>5, <1>6, <1>7, <1>8, <1>9, <1>10, <1>11, <1>12 DEF Working

(* A signal that stays, and nothing that was answered since.               *)
LEMMA SignalKept ==
    ASSUME NEW u \in Tasks, SignalAt(u), Quiet' => Quiet,
           mem[u].outcome # Nothing => mem'[u].outcome = mem[u].outcome,
           Signalled(u) => Signalled(u)',
           asked' \subseteq asked, row'[u].cancel = "done" => row[u].cancel = "done",
           wire[u] \in Seq(Uncancelled) => wire'[u] \in Seq(Uncancelled)
    PROVE  SignalAt(u)'
BY DEF SignalAt

(* Every action keeps SignalInv.                                           *)
LEMMA SignalNext ==
    TypeOK /\ StepInv /\ Alone /\ Alone' /\ OutcomeInv /\ SignalInv /\ [Next]_vars => SignalInv'
<1> SUFFICES ASSUME TypeOK, StepInv, Alone, OutcomeInv, SignalInv, [Next]_vars,
                    NEW u \in Tasks, Quiet', detached' = {}
             PROVE  SignalAt(u)'
    BY DEF SignalInv, SignalAt, Quiet, Alone
<1>1. /\ SignalAt(u) /\ wire[u] \in Seq(Frame)
      /\ mem[u].outcome # Nothing => mem'[u].outcome = mem[u].outcome
    BY OutcomeStays, TypeParts DEF SignalInv
<1>2. count.faults \in Nat /\ 0 \in Conns /\ count'.faults = 0 /\ Current' = 0
    BY TypeParts, ConstantTypes DEF Quiet, Current
<1>3. ASSUME count'.faults >= count.faults, Current' = Current
      PROVE  Quiet /\ Current = 0
    BY <1>2, <1>3 DEF Quiet, Current
<1>4. ASSUME UNCHANGED <<pending, run>> \/ Signalled(u)' \/ ~Signalled(u),
             asked' \subseteq asked, count'.faults >= count.faults, Current' = Current,
             row'[u].cancel = "done" => row[u].cancel = "done",
             wire[u] \in Seq(Uncancelled) => wire'[u] \in Seq(Uncancelled)
      PROVE  SignalAt(u)'
    <2>1. Signalled(u) => Signalled(u)'
        BY <1>4 DEF Signalled
    <2> QED BY <1>1, <1>3, <1>4, <2>1, SignalKept
<1>5. ASSUME NEW t \in Tasks, Requested(t) PROVE SignalAt(u)'
    <2>1. /\ UNCHANGED <<pending, run, asked, wire, count>>
          /\ row'[u].cancel = "done" => row[u].cancel = "done"
        BY <1>5, RequestEffect
    <2> QED BY <1>2, <1>4, <2>1 DEF Current
<1>6. ASSUME NEW t \in Tasks, Received(t) PROVE SignalAt(u)'
    <2> DEFINE f == Head(wire[t])
    <2>1. /\ UNCHANGED <<pending, run, asked, mem>> /\ Counted
          /\ t # u => row'[u] = row[u] /\ wire'[u] = wire[u]
          /\ wire'[t] = Tail(wire[t]) /\ wire[t] # <<>>
          /\ row'[t].cancel = IF f.kind = "cancelled" THEN "done" ELSE row[t].cancel
        BY <1>6, ReceiveEffect DEF Queued
    <2>2. ASSUME wire[t] \in Seq(Uncancelled)
          PROVE  f.kind # "cancelled" /\ wire'[t] \in Seq(Uncancelled)
        <3>1. f \in Uncancelled /\ Tail(wire[t]) \in Seq(Uncancelled)
            BY <2>1, <2>2, Receive
        <3> QED BY <2>1, <3>1 DEF Uncancelled
    <2> HIDE DEF f
    <2>3. Quiet /\ Current = 0
        BY <1>3, <2>1 DEF Counted
    <2>4. Signalled(u) => Signalled(u)'
        BY <2>1 DEF Signalled
    <2> QED BY <1>1, <2>1, <2>2, <2>3, <2>4 DEF SignalAt
<1>7. ASSUME NEW t \in Tasks, NEW c \in Conns, Working(t, c) PROVE SignalAt(u)'
    <2>1. Moved(t, c)
        BY <1>7, WorkingMoved
    <2>2. /\ UNCHANGED <<row, asked, detached>> /\ Current' = Current
          /\ count'.faults >= count.faults
        BY <2>1 DEF Moved
    <2>3. CASE u # t
        <3>1. UNCHANGED <<row, asked>> /\ wire'[u] = wire[u]
              /\ (pending' = pending \/ pending' = pending \ {<<t, c>>})
              /\ run'[u][0] = run[u][0]
            BY <1>2, <2>1, <2>3 DEF Moved, Ran, Queued
        <3>2. Signalled(u) => Signalled(u)'
            BY <2>3, <3>1 DEF Signalled
        <3> QED BY <1>4, <2>2, <3>1, <3>2
    <2>4. CASE u = t
        <3>1. Quiet /\ Current = 0
            BY <1>3, <2>2
        <3>2. c = 0 /\ OutcomeAt(t)
            BY <1>7, <2>2, <3>1, WorksNow DEF OutcomeInv
        <3>3. count'.faults = count.faults
            BY <1>2, <3>1 DEF Quiet
        <3>4. CASE mem'[t].outcome # Nothing
            BY <2>4, <3>4 DEF SignalAt
        <3>5. CASE mem'[t].outcome = Nothing
            <4>1. (Signalled(t) => Signalled(t)') /\ (Told(t) \/ UNCHANGED wire)
                BY <1>7, <3>1, <3>2, <3>3, <3>5, SignalWorking
            <4>2. wire'[t] = wire[t] \/ \E e \in Events : wire'[t] = Append(wire[t], e)
                BY <4>1 DEF Told
            <4>3. wire[t] \in Seq(Uncancelled) => wire'[t] \in Seq(Uncancelled)
                BY <4>2, UncancelledTypes
            <4> QED BY <1>4, <2>2, <2>4, <4>1, <4>3
        <3> QED BY <3>4, <3>5
    <2> QED BY <2>3, <2>4
<1>8. ASSUME NEW t \in Tasks, NEW c \in Conns, SignalCancel(t, c) PROVE SignalAt(u)'
    <2>1. /\ Ran(t, c) /\ UNCHANGED <<row, wire, mem, count>>
          /\ \/ UNCHANGED run /\ pending' = pending \cup {<<t, c>>}
             \/ run'[t][c].cut = TRUE /\ UNCHANGED pending
          /\ asked' = asked \cup {<<t, c>>}
        BY <1>8, SignalEffect
    <2>2. Quiet /\ Current = 0
        BY <1>2, <1>3, <2>1 DEF Current
    <2>3. CASE u = t /\ c = 0
        <3>1. Signalled(u)'
            BY <2>1, <2>3 DEF Signalled
        <3> QED BY <3>1 DEF SignalAt
    <2>4. CASE u # t \/ c # 0
        <3>1. run'[u][0] = run[u][0]
            BY <1>2, <2>1, <2>4 DEF Ran
        <3>2. <<u, 0>> # <<t, c>>
            BY <2>4
        <3>3. Signalled(u) => Signalled(u)'
            BY <2>1, <3>1 DEF Signalled
        <3>4. <<u, 0>> \in asked' => <<u, 0>> \in asked
            BY <2>1, <3>2
        <3> QED BY <1>1, <2>1, <2>2, <3>3, <3>4 DEF SignalAt
    <2> QED BY <2>3, <2>4
<1>9. ASSUME NEW t \in Tasks, NEW c \in Conns, AnswerCancel(t, c) PROVE SignalAt(u)'
    <2>1. /\ <<t, c>> \in asked /\ asked' \subseteq asked
          /\ UNCHANGED <<row, run, pending, mem, count>>
          /\ u # t => wire'[u] = wire[u]
          /\ wire' = wire \/ c = Current
        BY <1>9, CancelEffect DEF Queued
    <2>2. Quiet /\ Current = 0
        BY <1>2, <1>3, <2>1 DEF Current
    <2>3. CASE u = t /\ c = Current
        <3>1. mem'[u].outcome = Nothing => Signalled(u)
            BY <1>1, <2>1, <2>2, <2>3 DEF SignalAt
        <3>2. Signalled(u) => Signalled(u)'
            BY <2>1 DEF Signalled
        <3> QED BY <3>1, <3>2 DEF SignalAt
    <2>4. CASE wire'[u] = wire[u]
        BY <1>2, <1>4, <2>1, <2>4 DEF Current
    <2> QED BY <2>1, <2>3, <2>4
<1>10. ASSUME Redispatch PROVE SignalAt(u)'
    <2>1. UNCHANGED <<pending, run, asked, wire, row>> /\ Counted
        BY <1>10, RedispatchEffect
    <2> QED BY <1>4, <2>1 DEF Counted
<1>11. ~ConnectionLost /\ ~NodeRestart
    BY <1>2, LostEffect, RestartEffect
<1>12. ~ReadError
    BY <1>2, ErrorEffect DEF Current
<1>13. ASSUME UNCHANGED vars PROVE SignalAt(u)'
    <2>1. UNCHANGED <<pending, run, asked, wire, row, count>>
        BY <1>13 DEF vars
    <2> QED BY <1>2, <1>4, <2>1 DEF Current
<1> QED BY NextCases, <1>5, <1>6, <1>7, <1>8, <1>9, <1>10, <1>11, <1>12, <1>13
-----------------------------------------------------------------------------
(* The inductive invariant.                                                *)
LEMMA TaskInvInit == Init => TaskInv
BY TypeInit, StepInit, NumberInit, AloneInit, OutcomeInit, RowInit, BoxInit, SignalInit DEF TaskInv

(* Every action keeps it.                                                  *)
LEMMA TaskInvNext == TaskInv /\ [Next]_vars => TaskInv'
<1> SUFFICES ASSUME TaskInv, [Next]_vars PROVE TaskInv'
    OBVIOUS
<1>1. TypeOK' /\ StepInv' /\ NumberInv'
    BY TypeNext, StepNext, NumberNext DEF TaskInv
<1>2. Alone' /\ OutcomeInv' /\ RowInv'
    BY AloneNext, OutcomeNext, RowNext DEF TaskInv
<1>3. BoxInv' /\ SignalInv'
    BY <1>1, <1>2, BoxNext, SignalNext DEF TaskInv
<1> QED BY <1>1, <1>2, <1>3 DEF TaskInv

(* The inductive invariant holds in every reachable state.                 *)
LEMMA TaskInvariant == Spec => []TaskInv
BY TaskInvInit, TaskInvNext, PTL DEF Spec

(* Every variable has its type in every reachable state.                   *)
THEOREM TypeCorrect == Spec => []TypeOK
BY TaskInvariant, PTL DEF TaskInv

(* SandboxesAccounted, for every set of tasks and every bound: outside the *)
(* tasks a read error left a run of, no sandbox that was recorded is       *)
(* forgotten, and none is left behind a cleanup reported as completed, by  *)
(* the Node or by the row of Core, whatever connections, restarts, errors, *)
(* commands and cancellations do (execute_task, remove_task_mapping,       *)
(* project_task_command_result).                                           *)
THEOREM Accounted == Spec => []SandboxesAccounted
<1>1. TaskInv => SandboxesAccounted
    <2> SUFFICES ASSUME TaskInv PROVE SandboxesAccounted
        OBVIOUS
    <2>1. \A b \in boxes : b.task \in Tasks
        BY DEF TaskInv, TypeOK
    <2>2. RecordedUntilDeleted
        BY <2>1 DEF TaskInv, BoxInv, HeldInv, Holds, Owed, RecordedUntilDeleted
    <2>3. ASSUME NEW t \in Tasks \ detached PROVE CleanAt(t) /\ RowAt(t) /\ OutcomeAt(t)
        BY <2>3 DEF TaskInv, BoxInv, RowInv, OutcomeInv
    <2>4. ASSUME NEW t \in Tasks \ detached, row[t].run = "done", row[t].cleanup = "completed",
                 mem[t].outcome # NoPackage
          PROVE  mem[t].outcome.cleanup = "completed"
        BY <2>3, <2>4 DEF RowAt, OutcomeAt
    <2>5. CleanupIsTrue
        BY <2>3, <2>4 DEF CleanupIsTrue, CleanAt, Gone, Owed
    <2> QED BY <2>2, <2>5 DEF SandboxesAccounted
<1> QED BY <1>1, TaskInvariant, PTL

(* CancelHonoured, for every set of tasks and every bound.                 *)
THEOREM Honoured == Spec => []CancelHonoured
<1>1. TaskInv => CancelHonoured
    BY DEF TaskInv, SignalInv, SignalAt, Signalled, Quiet, CancelHonoured
<1> QED BY <1>1, TaskInvariant, PTL

(* RowMoves: the row of a task that was not detached stays as its result   *)
(* was projected, and a cancellation of a row only ends it.                *)
LEMMA MovesStep == TaskInv /\ [Next]_vars => \A t \in Tasks :
          /\ row[t].run = "done" /\ t \notin detached =>
                row'[t].state = row[t].state /\ row'[t].cleanup = row[t].cleanup
          /\ row[t].state = "cancelling" =>
                row'[t].state \in Terminal \cup {"cancelling"}
<1> SUFFICES ASSUME TaskInv, [Next]_vars, NEW t \in Tasks
             PROVE  /\ row[t].run = "done" /\ t \notin detached =>
                          row'[t].state = row[t].state /\ row'[t].cleanup = row[t].cleanup
                    /\ row[t].state = "cancelling" =>
                          row'[t].state \in Terminal \cup {"cancelling"}
    OBVIOUS
<1>1. TypeOK /\ StepInv /\ OutcomeInv /\ RowInv
    BY DEF TaskInv
<1>2. CASE row'[t] = row[t]
    BY <1>2
<1>3. ASSUME NEW u \in Tasks, Requested(u), u = t
      PROVE  /\ row[t].run = "done" /\ t \notin detached =>
                   row'[t].state = row[t].state /\ row'[t].cleanup = row[t].cleanup
             /\ row[t].state = "cancelling" =>
                   row'[t].state \in Terminal \cup {"cancelling"}
    <2>1. \/ row[t].state = "absent" /\ row'[t].state = "queued"
          \/ row[t].state \notin Terminal /\ row'[t].state = "cancelling"
        BY <1>1, <1>3, RequestEffect
    <2>2. ASSUME row[t].run = "done", t \notin detached PROVE row[t].state \in Terminal
        <3>1. mem[t].outcome # Nothing /\ row[t].state = mem[t].outcome.state
            BY <1>1, <2>2 DEF RowInv, RowAt
        <3>2. mem[t].outcome \in Package
            BY <1>1, <3>1, TypeParts DEF Store
        <3> QED BY <3>1, <3>2 DEF Package
    <2>3. "absent" \notin Terminal
        BY DEF Terminal
    <2> QED BY <2>1, <2>2, <2>3
<1>4. ASSUME NEW u \in Tasks, Received(u), u = t
      PROVE  /\ row[t].run = "done" /\ t \notin detached =>
                   row'[t].state = row[t].state /\ row'[t].cleanup = row[t].cleanup
             /\ row[t].state = "cancelling" =>
                   row'[t].state \in Terminal \cup {"cancelling"}
    <2> DEFINE f == Head(wire[t])
    <2>1. Projected(t, f) /\ f \in Frame
        BY <1>1, <1>4, ReceiveEffect
    <2>2. f.kind = "result" => f.state \in Terminal
        BY <2>1 DEF Frame, Events
    <2> HIDE DEF f
    <2>3. row[t].state = "cancelling" => row'[t].state \in Terminal \cup {"cancelling"}
        BY <2>1, <2>2 DEF Projected
    <2> QED BY <1>1, <1>4, <2>3, RowReceived
<1>5. ASSUME NEW u \in Tasks, Requested(u) \/ Received(u), u # t PROVE row'[t] = row[t]
    <2>1. \A v \in Tasks : v # u => row'[v] = row[v]
        BY <1>1, <1>5, RequestEffect, ReceiveEffect
    <2> QED BY <1>5, <2>1
<1>6. ASSUME NEW u \in Tasks, NEW c \in Conns,
             Working(u, c) \/ SignalCancel(u, c) \/ AnswerCancel(u, c)
      PROVE  row'[t] = row[t]
    BY <1>1, <1>6, WorkingMoved, SignalEffect, CancelEffect DEF Moved
<1>7. Redispatch \/ ConnectionLost \/ ReadError \/ NodeRestart => row'[t] = row[t]
    BY <1>1, RedispatchEffect, LostEffect, ErrorEffect, RestartEffect
<1>8. UNCHANGED vars => row'[t] = row[t]
    BY DEF vars
<1> QED BY NextCases, <1>2, <1>3, <1>4, <1>5, <1>6, <1>7, <1>8

(* Once the result was projected no event or result changes the row of a   *)
(* task that was not detached, and a row that is being cancelled only      *)
(* ends.                                                                   *)
THEOREM Moves == Spec => RowMoves
<1>1. TaskInv /\ [Next]_vars => [\A t \in Tasks :
          /\ row[t].run = "done" /\ t \notin detached =>
                row'[t].state = row[t].state /\ row'[t].cleanup = row[t].cleanup
          /\ row[t].state = "cancelling" =>
                row'[t].state \in Terminal \cup {"cancelling"}]_vars
    BY MovesStep
<1> QED BY <1>1, TaskInvariant, PTL DEF Spec, RowMoves

-----------------------------------------------------------------------------
(* NodeAdmission: enrollments, the rows of the nodes and their requests.    *)

Statuses == Admission!Unclaimed \cup {"none", "expired", "registered", "deleted"}
NodeRow == [from : Admission!Enrollments,
            presence : {"offline", "reachable", "revoked", "deleted"},
            credential : {"claimed", "rotated", "none"}]
Requests == [kind : {"claim", "beat"}, of : Admission!Enrollments \cup Nat,
             at : {"read", "commit", "upsert", "workspaces", "place"}, mine : BOOLEAN]

TypeInv ==
    /\ enroll \in [Admission!Enrollments -> [status : Statuses, late : BOOLEAN, node : Nat]]
    /\ nodes \in Seq(NodeRow)
    /\ requests \in Seq(Requests)
    /\ local \in [attempt : Admission!Enrollments \cup {0}, id : Nat]

(* What a request and the Node itself speak of exists at Core: a claim is  *)
(* of an enrollment, an identity is the number of a node row.              *)
KnownInv ==
    /\ \A i \in DOMAIN requests :
          IF requests[i].kind = "claim" THEN requests[i].of \in Admission!Enrollments
          ELSE requests[i].of \in DOMAIN nodes
    /\ local.id # 0 => local.id \in DOMAIN nodes

(* A row and the enrollment it was made from name each other, whatever     *)
(* becomes of either: this is what makes a second row impossible.          *)
NamedInv == \A r \in DOMAIN nodes : enroll[nodes[r].from].node = r

AdmissionInv == TypeInv /\ KnownInv /\ NamedInv

-----------------------------------------------------------------------------
(* Initially there are neither rows nor requests.                          *)
LEMMA AdmissionInit == Admission!Init => AdmissionInv
<1> SUFFICES ASSUME Admission!Init PROVE AdmissionInv
    OBVIOUS
<1>1. nodes = <<>> /\ requests = <<>> /\ DOMAIN nodes = {} /\ DOMAIN requests = {}
    BY DEF Admission!Init
<1>2. TypeInv
    BY <1>1 DEF Admission!Init, TypeInv, Statuses, Admission!Unclaimed
<1>3. KnownInv /\ NamedInv
    BY <1>1 DEF Admission!Init, KnownInv, NamedInv
<1> QED BY <1>2, <1>3 DEF AdmissionInv

(* A removed request leaves the others as they were.                       *)
LEMMA WithoutOne ==
    ASSUME TypeInv, NEW i \in DOMAIN requests
    PROVE  /\ Admission!Without(i) \in Seq(Requests)
           /\ \A j \in DOMAIN Admission!Without(i) :
                 \E k \in DOMAIN requests : Admission!Without(i)[j] = requests[k]
<1>1. /\ requests \in Seq(Requests) /\ Len(requests) \in Nat
      /\ DOMAIN requests = 1 .. Len(requests) /\ i \in 1 .. Len(requests)
    BY DEF TypeInv
<1>2. \A j \in 1 .. Len(requests) - 1 :
         (IF j < i THEN j ELSE j + 1) \in 1 .. Len(requests)
    BY <1>1
<1>3. \A j \in 1 .. Len(requests) - 1 : Admission!Without(i)[j] \in Requests
    BY <1>1, <1>2 DEF Admission!Without
<1>4. Admission!Without(i) \in [1 .. Len(requests) - 1 -> Requests] /\ Len(requests) - 1 \in Nat
    BY <1>1, <1>3 DEF Admission!Without
<1>5. Admission!Without(i) \in Seq(Requests)
    BY <1>4
<1> QED BY <1>1, <1>2, <1>5 DEF Admission!Without

(* An answer, which names a known row if it registers the Node, removes    *)
(* the request and keeps what is known known.                              *)
LEMMA AnswerEffect ==
    ASSUME AdmissionInv, NEW i \in DOMAIN requests, NEW a, NEW r, Admission!Answer(i, a, r),
           a \in {"ok", "failed", "pending", "replayed", "refused", "unauthorized", "registered"},
           nodes' \in Seq(NodeRow), DOMAIN nodes \subseteq DOMAIN nodes',
           a = "registered" => r \in Nat /\ r \in DOMAIN nodes'
    PROVE  /\ requests' \in Seq(Requests)
           /\ local' \in [attempt : Admission!Enrollments \cup {0}, id : Nat]
           /\ KnownInv'
<1>a. TypeInv /\ KnownInv
    BY DEF AdmissionInv
<1>1. requests' = Admission!Without(i)
    BY DEF Admission!Answer
<1>2. /\ requests' \in Seq(Requests)
      /\ \A j \in DOMAIN requests' : \E k \in DOMAIN requests : requests'[j] = requests[k]
    BY <1>1, <1>a, WithoutOne
<1>4. local \in [attempt : Admission!Enrollments \cup {0}, id : Nat]
    BY <1>a DEF TypeInv
<1>3. \/ local' = local
      \/ a = "registered" /\ local' = [local EXCEPT !.id = r]
      \/ local' = [local EXCEPT !.attempt = 0] \/ local' = [attempt |-> 0, id |-> 0]
    <2>0. local' = local \/ local' = Admission!Answered(a, r)
        BY DEF Admission!Answer
    <2>1. CASE a = "registered"
        <3>1. Admission!Answered(a, r) = [local EXCEPT !.id = r]
            BY <2>1, Zenon DEF Admission!Answered
        <3> QED BY <2>1, <2>0, <3>1, Zenon
    <2>2. CASE a = "refused"
        <3>1. Admission!Answered(a, r) = [local EXCEPT !.attempt = 0]
            BY <2>2, Zenon DEF Admission!Answered
        <3> QED BY <2>2, <2>0, <3>1, Zenon
    <2>3. CASE a = "unauthorized"
        <3>1. Admission!Answered(a, r) = [attempt |-> 0, id |-> 0]
            BY <2>3, Zenon DEF Admission!Answered
        <3> QED BY <2>3, <2>0, <3>1, Zenon
    <2>4. CASE a \in {"ok", "failed", "pending", "replayed"}
        <3>1. Admission!Answered(a, r) = local
            BY <2>4, Zenon DEF Admission!Answered
        <3> QED BY <2>4, <2>0, <3>1, Zenon
    <2> QED BY <2>1, <2>2, <2>3, <2>4
<1>5. /\ local' \in [attempt : Admission!Enrollments \cup {0}, id : Nat]
      /\ local'.id = local.id \/ local'.id = 0 \/ (a = "registered" /\ local'.id = r)
    BY <1>3, <1>4
<1>6. KnownInv'
    BY <1>2, <1>5, <1>a DEF KnownInv
<1> QED BY <1>2, <1>5, <1>6

(* A handler that goes on changes only where it is.                        *)
LEMMA GoOnEffect ==
    ASSUME AdmissionInv, NEW i \in DOMAIN requests,
           NEW s \in {"commit", "upsert", "workspaces", "place"}, Admission!GoOn(i, s),
           DOMAIN nodes' = DOMAIN nodes
    PROVE  /\ requests' \in Seq(Requests)
           /\ local' \in [attempt : Admission!Enrollments \cup {0}, id : Nat]
           /\ KnownInv'
<1>a. TypeInv /\ KnownInv
    BY DEF AdmissionInv
<1>0. requests \in Seq(Requests)
    BY <1>a DEF TypeInv
<1>1. requests' = [requests EXCEPT ![i] = [requests[i] EXCEPT !.at = s]] /\ local' = local
    BY DEF Admission!GoOn
<1>2. requests[i] \in Requests
    BY <1>0
<1>3. /\ [requests[i] EXCEPT !.at = s] \in Requests
      /\ [requests[i] EXCEPT !.at = s].kind = requests[i].kind
      /\ [requests[i] EXCEPT !.at = s].of = requests[i].of
    BY <1>2 DEF Requests
<1>4. requests' \in Seq(Requests) /\ DOMAIN requests' = DOMAIN requests
    BY <1>0, <1>1, <1>3, ExceptSeq
<1>5. \A j \in DOMAIN requests : requests'[j].kind = requests[j].kind /\ requests'[j].of = requests[j].of
    BY <1>1, <1>3, <1>4
<1>6. local' \in [attempt : Admission!Enrollments \cup {0}, id : Nat]
    BY <1>1, <1>a DEF TypeInv
<1> QED BY <1>1, <1>4, <1>5, <1>6, <1>a DEF KnownInv

-----------------------------------------------------------------------------
(* Enrollments are created, approved and expired, rows and requests left   *)
(* alone: no enrollment changes the row it names.                          *)
LEMMA EnrollmentSteps ==
    ASSUME AdmissionInv,
           \/ Admission!RequestEnrollment
           \/ \E e \in Admission!Enrollments :
                 \/ Admission!Approve(e)
                 \/ Admission!LapseUnawaited(e) \/ Admission!LapseAwaited(e)
    PROVE  AdmissionInv'
<1>a. TypeInv /\ KnownInv /\ NamedInv
    BY DEF AdmissionInv
<1>b. enroll \in [Admission!Enrollments -> [status : Statuses, late : BOOLEAN, node : Nat]]
    BY <1>a DEF TypeInv
<1>c. Statuses = {"pending_user_approval", "approved", "none", "expired", "registered", "deleted"}
    BY DEF Statuses, Admission!Unclaimed
<1>1. SUFFICES /\ enroll' \in [Admission!Enrollments -> [status : Statuses, late : BOOLEAN, node : Nat]]
               /\ \A e \in Admission!Enrollments : enroll'[e].node = enroll[e].node
               /\ nodes' = nodes /\ requests' = requests
               /\ local' \in [attempt : Admission!Enrollments \cup {0}, id : Nat] /\ local'.id = local.id
    <2>1. \A r \in DOMAIN nodes : nodes[r].from \in Admission!Enrollments
        <3>1. nodes \in Seq(NodeRow)
            BY <1>a DEF TypeInv
        <3>2. \A r \in DOMAIN nodes : nodes[r] \in NodeRow
            BY <3>1
        <3> QED BY <3>2 DEF NodeRow
    <2> QED BY <1>1, <1>a, <2>1 DEF AdmissionInv, TypeInv, KnownInv, NamedInv
<1>2. CASE Admission!RequestEnrollment
    <2>1. /\ Admission!Swept \in [Admission!Enrollments -> [status : Statuses, late : BOOLEAN, node : Nat]]
          /\ \A e \in Admission!Enrollments : Admission!Swept[e].node = enroll[e].node
        BY <1>b, <1>c DEF Admission!Swept
    <2>2. nodes' = nodes /\ requests' = requests
        BY <1>2 DEF Admission!RequestEnrollment
    <2>3. local \in [attempt : Admission!Enrollments \cup {0}, id : Nat]
        BY <1>a DEF TypeInv
    <2>4. CASE enroll' = Admission!Swept /\ local' = local
        BY <2>1, <2>2, <2>3, <2>4
    <2>5. CASE ~(enroll' = Admission!Swept /\ local' = local)
        <3>1. /\ \E e \in Admission!Enrollments : enroll[e].status = "none"
              /\ enroll' = Admission!create_enrollment
              /\ local' = [local EXCEPT !.attempt = Admission!Fresh] \/ local' = local
            BY <1>2, <2>5, Zenon DEF Admission!RequestEnrollment
        <3>2. Admission!Fresh \in Admission!Enrollments
            BY <3>1 DEF Admission!Fresh
        <3>3. PICK v \in {"approved", "pending_user_approval"} :
                 Admission!create_enrollment = [Admission!Swept EXCEPT ![Admission!Fresh].status = v]
            BY Zenon DEF Admission!create_enrollment
        <3>4. /\ enroll' \in [Admission!Enrollments -> [status : Statuses, late : BOOLEAN, node : Nat]]
              /\ \A e \in Admission!Enrollments : enroll'[e].node = enroll[e].node
            BY <1>c, <2>1, <3>1, <3>2, <3>3
        <3>5. local' \in [attempt : Admission!Enrollments \cup {0}, id : Nat] /\ local'.id = local.id
            BY <2>3, <3>1, <3>2
        <3> QED BY <2>2, <3>4, <3>5
    <2> QED BY <2>4, <2>5
<1>3. CASE \E e \in Admission!Enrollments :
            Admission!Approve(e) \/ Admission!LapseUnawaited(e) \/ Admission!LapseAwaited(e)
    <2>1. PICK e \in Admission!Enrollments : Admission!Approve(e) \/ Admission!Lapse(e)
        BY <1>3 DEF Admission!LapseUnawaited, Admission!LapseAwaited
    <2>2. nodes' = nodes /\ requests' = requests /\ local' = local
        BY <2>1 DEF Admission!Approve, Admission!Lapse
    <2>3. \/ enroll' = [enroll EXCEPT ![e].status = "approved"]
          \/ enroll' = [enroll EXCEPT ![e].late = TRUE]
        BY <2>1 DEF Admission!Approve, Admission!Lapse
    <2>4. /\ enroll' \in [Admission!Enrollments -> [status : Statuses, late : BOOLEAN, node : Nat]]
          /\ \A x \in Admission!Enrollments : enroll'[x].node = enroll[x].node
        <3>1. CASE enroll' = [enroll EXCEPT ![e].status = "approved"]
            BY <1>b, <1>c, <3>1
        <3>2. CASE enroll' = [enroll EXCEPT ![e].late = TRUE]
            BY <1>b, <1>c, <3>2
        <3> QED BY <2>3, <3>1, <3>2
    <2> QED BY <2>2, <2>4, <1>a DEF TypeInv
<1> QED BY <1>2, <1>3

(* The Node starts, sends a request or stops waiting: a request it sends   *)
(* is of the enrollment it holds, or of its identity.                      *)
LEMMA NodeSteps ==
    ASSUME AdmissionInv, Admission!StartNode \/ Admission!SendClaim \/ Admission!SendBeat \/ Admission!GiveUp
    PROVE  AdmissionInv'
<1>a. TypeInv /\ KnownInv /\ NamedInv
    BY DEF AdmissionInv
<1>b. /\ requests \in Seq(Requests) /\ Len(requests) \in Nat
      /\ DOMAIN requests = 1 .. Len(requests)
      /\ local \in [attempt : Admission!Enrollments \cup {0}, id : Nat]
    BY <1>a DEF TypeInv
<1>1. nodes' = nodes /\ enroll' = enroll /\ local' = local
    BY DEF Admission!StartNode, Admission!SendClaim, Admission!SendBeat,
       Admission!SendRequest, Admission!GiveUp
<1>2. SUFFICES /\ requests' \in Seq(Requests)
               /\ \A i \in DOMAIN requests' :
                     \/ /\ i \in DOMAIN requests /\ requests'[i].kind = requests[i].kind
                        /\ requests'[i].of = requests[i].of
                     \/ requests'[i].kind = "claim" /\ requests'[i].of \in Admission!Enrollments
                     \/ requests'[i].kind = "beat" /\ requests'[i].of \in DOMAIN nodes
    BY <1>1, <1>2, <1>a DEF AdmissionInv, TypeInv, KnownInv, NamedInv
<1>3. CASE Admission!StartNode
    BY <1>3, <1>b DEF Admission!StartNode
<1>4. CASE Admission!SendClaim \/ Admission!SendBeat
    <2>1. PICK kind \in {"claim", "beat"}, of \in Admission!Enrollments \cup Nat :
             /\ requests' = Append(requests, Admission!Request(kind, of))
             /\ kind = "claim" => of \in Admission!Enrollments
             /\ kind = "beat" => of \in DOMAIN nodes
        <3>1. CASE Admission!SendClaim
            BY <3>1, <1>b DEF Admission!SendClaim, Admission!SendRequest
        <3>2. CASE Admission!SendBeat
            BY <3>2, <1>a, <1>b DEF Admission!SendBeat, Admission!SendRequest, KnownInv
        <3> QED BY <1>4, <3>1, <3>2
    <2>2. /\ Admission!Request(kind, of) \in Requests
          /\ Admission!Request(kind, of).kind = kind /\ Admission!Request(kind, of).of = of
        BY DEF Admission!Request, Requests
    <2> QED BY <1>b, <2>1, <2>2, AppendProperties
<1>5. CASE Admission!GiveUp
    <2>1. requests' = [i \in DOMAIN requests |-> [requests[i] EXCEPT !.mine = FALSE]]
        BY <1>5 DEF Admission!GiveUp
    <2>2. \A i \in DOMAIN requests :
             /\ [requests[i] EXCEPT !.mine = FALSE] \in Requests
             /\ [requests[i] EXCEPT !.mine = FALSE].kind = requests[i].kind
             /\ [requests[i] EXCEPT !.mine = FALSE].of = requests[i].of
        <3>1. \A i \in DOMAIN requests : requests[i] \in Requests
            BY <1>b
        <3> QED BY <3>1 DEF Requests
    <2>3. requests' \in Seq(Requests) /\ DOMAIN requests' = DOMAIN requests
        BY <1>b, <2>1, <2>2
    <2> QED BY <2>1, <2>2, <2>3
<1> QED BY <1>3, <1>4, <1>5

(* A step of claim_enrollment: only the conditional update makes a row, of *)
(* an enrollment that names none, and the two name each other from then on.*)
LEMMA ClaimSteps ==
    ASSUME AdmissionInv, NEW i \in DOMAIN requests, Admission!ReadClaim(i) \/ Admission!CommitClaim(i)
    PROVE  AdmissionInv'
<1>a. TypeInv /\ KnownInv /\ NamedInv
    BY DEF AdmissionInv
<1>b. /\ enroll \in [Admission!Enrollments -> [status : Statuses, late : BOOLEAN, node : Nat]]
      /\ nodes \in Seq(NodeRow) /\ Len(nodes) \in Nat /\ DOMAIN nodes = 1 .. Len(nodes)
    BY <1>a DEF TypeInv
<1>c. Statuses = {"pending_user_approval", "approved", "none", "expired", "registered", "deleted"}
    BY DEF Statuses, Admission!Unclaimed
<1>d. \A r \in DOMAIN nodes : nodes[r].from \in Admission!Enrollments
    <2>1. \A r \in DOMAIN nodes : nodes[r] \in NodeRow
        BY <1>b
    <2> QED BY <2>1 DEF NodeRow
<1> DEFINE e == requests[i].of
<1>e. e \in Admission!Enrollments
    BY <1>a DEF Admission!ReadClaim, Admission!CommitClaim, KnownInv
<1>1. CASE Admission!ReadClaim(i)
    <2>1. /\ enroll' \in [Admission!Enrollments -> [status : Statuses, late : BOOLEAN, node : Nat]]
          /\ \A x \in Admission!Enrollments : enroll'[x].node = enroll[x].node
        <3>1. enroll' = [enroll EXCEPT ![e].status = "expired"] \/ enroll' = enroll
            BY <1>1 DEF Admission!ReadClaim
        <3>2. CASE enroll' = [enroll EXCEPT ![e].status = "expired"]
            <4> HIDE DEF e
            <4> QED BY <1>b, <1>c, <3>2
        <3>3. CASE enroll' = enroll
            BY <1>b, <3>3
        <3> QED BY <3>1, <3>2, <3>3
    <2>2. nodes' = nodes
        BY <1>1 DEF Admission!ReadClaim
    <2>3. /\ requests' \in Seq(Requests)
          /\ local' \in [attempt : Admission!Enrollments \cup {0}, id : Nat]
          /\ KnownInv'
        <3> DEFINE v == Admission!ClaimVerdict(enroll[e])
        <3>1. v \in {"go", "refused", "replayed", "pending"}
            BY Zenon DEF Admission!ClaimVerdict
        <3>2. IF v = "go" THEN Admission!GoOn(i, "commit") ELSE Admission!Answer(i, v, 0)
            BY <1>1 DEF Admission!ReadClaim
        <3> HIDE DEF v
        <3>3. CASE v = "go"
            BY <2>2, <3>2, <3>3, GoOnEffect
        <3>4. CASE v # "go"
            <4>1. Admission!Answer(i, v, 0) /\ v \in {"refused", "replayed", "pending"}
                BY <3>1, <3>2, <3>4
            <4> QED BY <1>b, <2>2, <4>1, AnswerEffect
        <3> QED BY <3>3, <3>4
    <2> QED BY <1>a, <1>d, <2>1, <2>2, <2>3 DEF AdmissionInv, TypeInv, NamedInv
<1>2. CASE Admission!CommitClaim(i) /\ ~Admission!StillUnclaimed(e)
    <2>1. nodes' = nodes /\ enroll' = enroll
        BY <1>2 DEF Admission!CommitClaim
    <2>2. PICK a \in {"replayed", "refused"} : Admission!Answer(i, a, 0)
        BY <1>2 DEF Admission!CommitClaim
    <2>3. /\ requests' \in Seq(Requests)
          /\ local' \in [attempt : Admission!Enrollments \cup {0}, id : Nat]
          /\ KnownInv'
        BY <1>b, <2>1, <2>2, AnswerEffect
    <2> QED BY <1>a, <2>1, <2>3 DEF AdmissionInv, TypeInv, NamedInv
<1>3. CASE Admission!CommitClaim(i) /\ Admission!StillUnclaimed(e)
    <2> DEFINE r == Len(nodes) + 1
    <2>1. /\ nodes' = Append(nodes, Admission!Row(e))
          /\ enroll' = [enroll EXCEPT ![e].status = "registered", ![e].node = r]
          /\ Admission!Answer(i, "registered", r)
        BY <1>3 DEF Admission!CommitClaim
    <2>2. Admission!Row(e) \in NodeRow /\ Admission!Row(e).from = e
        BY <1>e DEF Admission!Row, NodeRow
    <2>3. /\ nodes' \in Seq(NodeRow) /\ DOMAIN nodes' = 1 .. r
          /\ \A q \in DOMAIN nodes : nodes'[q] = nodes[q]
          /\ nodes'[r] = Admission!Row(e)
        BY <1>b, <2>1, <2>2, AppendProperties
    <2>4. enroll' = [enroll EXCEPT ![e] = [enroll[e] EXCEPT !.status = "registered", !.node = r]]
        BY <1>b, <1>e, <2>1
    <2>5. enroll[e] \in [status : Statuses, late : BOOLEAN, node : Nat] /\ r \in Nat
        BY <1>b, <1>e
    <2>6. /\ [enroll[e] EXCEPT !.status = "registered", !.node = r] \in
                [status : Statuses, late : BOOLEAN, node : Nat]
          /\ [enroll[e] EXCEPT !.status = "registered", !.node = r].node = r
        BY <1>c, <2>5
    <2>7. /\ enroll' \in [Admission!Enrollments -> [status : Statuses, late : BOOLEAN, node : Nat]]
          /\ \A x \in Admission!Enrollments : enroll'[x].node = IF x = e THEN r ELSE enroll[x].node
        BY <1>b, <1>e, <2>4, <2>6
    <2>8. \A q \in DOMAIN nodes : nodes[q].from # e
        BY <1>3, <1>a, <1>b DEF Admission!StillUnclaimed, NamedInv
    <2>9. NamedInv'
        <3> SUFFICES ASSUME NEW q \in DOMAIN nodes' PROVE enroll'[nodes'[q].from].node = q
            BY DEF NamedInv
        <3>1. q \in DOMAIN nodes \/ q = r
            BY <1>b, <2>3
        <3>2. CASE q = r
            BY <1>e, <2>2, <2>3, <2>7, <3>2
        <3>3. CASE q \in DOMAIN nodes
            BY <1>a, <1>d, <2>3, <2>7, <2>8, <3>3 DEF NamedInv
        <3> QED BY <3>1, <3>2, <3>3
    <2>10. /\ requests' \in Seq(Requests)
           /\ local' \in [attempt : Admission!Enrollments \cup {0}, id : Nat]
           /\ KnownInv'
        <3>1. DOMAIN nodes \subseteq DOMAIN nodes' /\ r \in Nat /\ r \in DOMAIN nodes'
            BY <1>b, <2>3
        <3> HIDE DEF r
        <3> QED BY <2>1, <2>3, <3>1, AnswerEffect
    <2> QED BY <2>3, <2>7, <2>9, <2>10 DEF AdmissionInv, TypeInv
<1> QED BY <1>1, <1>2, <1>3

(* A heartbeat and an administrator change what a row says of the Node,    *)
(* never which enrollment it was made from; no row goes.                   *)
SameOrigins ==
    /\ nodes' \in Seq(NodeRow) /\ DOMAIN nodes' = DOMAIN nodes
    /\ \A r \in DOMAIN nodes : nodes'[r].from = nodes[r].from

(* A change of what a row says keeps where it came from.                   *)
LEMMA RowChange ==
    ASSUME AdmissionInv, NEW r \in DOMAIN nodes,
           NEW p \in {"reachable", "revoked", "deleted"}, NEW c \in {"claimed", "rotated", "none"},
           \/ nodes' = [nodes EXCEPT ![r].presence = p, ![r].credential = c]
           \/ nodes' = [nodes EXCEPT ![r].credential = c]
    PROVE  SameOrigins
<1>1. nodes \in Seq(NodeRow) /\ Len(nodes) \in Nat /\ DOMAIN nodes = 1 .. Len(nodes)
    BY DEF AdmissionInv, TypeInv
<1>2. nodes[r] \in NodeRow
    BY <1>1
<1>3. \/ nodes' = [nodes EXCEPT ![r] = [nodes[r] EXCEPT !.presence = p, !.credential = c]]
      \/ nodes' = [nodes EXCEPT ![r] = [nodes[r] EXCEPT !.credential = c]]
    BY <1>1
<1>4. \A n \in {[nodes[r] EXCEPT !.presence = p, !.credential = c],
                 [nodes[r] EXCEPT !.credential = c]} : n \in NodeRow /\ n.from = nodes[r].from
    BY <1>2 DEF NodeRow
<1>5. PICK n \in NodeRow : nodes' = [nodes EXCEPT ![r] = n] /\ n.from = nodes[r].from
    BY <1>3, <1>4
<1> QED BY <1>1, <1>5, ExceptSeq DEF SameOrigins

(* A step of node_heartbeat keeps the invariant.                           *)
LEMMA BeatSteps ==
    ASSUME AdmissionInv, NEW i \in DOMAIN requests,
           \/ Admission!VerifyBeat(i) \/ Admission!UpsertNode(i)
           \/ Admission!CheckWorkspace(i) \/ Admission!PlaceWorkspace(i)
    PROVE  AdmissionInv'
<1>a. TypeInv /\ KnownInv /\ NamedInv
    BY DEF AdmissionInv
<1>b. requests[i].of \in DOMAIN nodes /\ nodes \in Seq(NodeRow)
    BY <1>a DEF Admission!VerifyBeat, Admission!UpsertNode,
       Admission!CheckWorkspace, Admission!PlaceWorkspace, KnownInv, TypeInv
<1>1. enroll' = enroll
    BY DEF Admission!VerifyBeat, Admission!UpsertNode,
       Admission!CheckWorkspace, Admission!PlaceWorkspace
<1>2. SameOrigins
    <2>1. CASE Admission!UpsertNode(i)
        <3> DEFINE r == requests[i].of
        <3>1. PICK c \in {"claimed", "rotated", "none"} :
                 nodes' = [nodes EXCEPT ![r].presence = "reachable", ![r].credential = c]
            <4>1. nodes[r] \in NodeRow
                BY <1>b
            <4>2. nodes[r].credential \in {"claimed", "rotated", "none"}
                BY <4>1 DEF NodeRow
            <4> DEFINE c == IF Admission!Exists(r) THEN nodes[r].credential ELSE "none"
            <4>3. nodes' = [nodes EXCEPT ![r].presence = "reachable", ![r].credential = c]
                BY <2>1 DEF Admission!UpsertNode
            <4>4. c \in {"claimed", "rotated", "none"}
                BY <4>2
            <4> QED BY <4>3, <4>4
        <3> HIDE DEF r
        <3>2. r \in DOMAIN nodes
            BY <1>b DEF r
        <3> QED BY <3>1, <3>2, RowChange
    <2>2. CASE nodes' = nodes
        BY <1>b, <2>2 DEF SameOrigins
    <2> QED BY <2>1, <2>2 DEF Admission!VerifyBeat, Admission!CheckWorkspace, Admission!PlaceWorkspace
<1>3. PICK s \in {"upsert", "workspaces", "place"}, a \in {"unauthorized", "ok", "failed"} :
         Admission!GoOn(i, s) \/ Admission!Answer(i, a, 0)
    BY DEF Admission!VerifyBeat, Admission!UpsertNode,
       Admission!CheckWorkspace, Admission!PlaceWorkspace
<1>4. /\ requests' \in Seq(Requests)
      /\ local' \in [attempt : Admission!Enrollments \cup {0}, id : Nat]
      /\ KnownInv'
    <2>1. CASE Admission!GoOn(i, s)
        BY <1>2, <2>1, GoOnEffect DEF SameOrigins
    <2>2. CASE Admission!Answer(i, a, 0)
        BY <1>2, <2>2, AnswerEffect DEF SameOrigins
    <2> QED BY <1>3, <2>1, <2>2
<1> QED BY <1>a, <1>1, <1>2, <1>4 DEF AdmissionInv, TypeInv, NamedInv, SameOrigins

(* An administrator revokes, rotates, deletes and registers: no row goes,  *)
(* and none changes its origin.                                            *)
LEMMA AdministratorSteps ==
    ASSUME AdmissionInv, NEW r \in DOMAIN nodes, Admission!Administer(r)
    PROVE  AdmissionInv'
<1>a. TypeInv /\ KnownInv /\ NamedInv
    BY DEF AdmissionInv
<1>b. /\ enroll \in [Admission!Enrollments -> [status : Statuses, late : BOOLEAN, node : Nat]]
      /\ nodes \in Seq(NodeRow)
    BY <1>a DEF TypeInv
<1>1. requests' = requests /\ local' = local
    BY DEF Admission!Administer
<1>2. SameOrigins
    <2>1. \/ nodes' = nodes
          \/ nodes' = [nodes EXCEPT ![r].presence = "revoked", ![r].credential = "none"]
          \/ nodes' = [nodes EXCEPT ![r].presence = "deleted", ![r].credential = "none"]
          \/ nodes' = [nodes EXCEPT ![r].credential = "rotated"]
        BY DEF Admission!Administer, Admission!revoke_node, Admission!rotate_node_credential,
           Admission!delete_node, Admission!delete_placement,
           Admission!validate_placement
    <2>2. CASE nodes' = nodes
        BY <1>b, <2>2 DEF SameOrigins
    <2> QED BY <2>1, <2>2, RowChange
<1>3. /\ enroll' \in [Admission!Enrollments -> [status : Statuses, late : BOOLEAN, node : Nat]]
      /\ \A e \in Admission!Enrollments : enroll'[e].node = enroll[e].node
    <2>1. \/ enroll' = enroll
          \/ enroll' = [e \in Admission!Enrollments |-> IF enroll[e].node = r
                     THEN [enroll[e] EXCEPT !.status = "deleted"] ELSE enroll[e]]
        BY DEF Admission!Administer, Admission!revoke_node, Admission!rotate_node_credential,
           Admission!delete_node, Admission!delete_placement,
           Admission!validate_placement
    <2>2. "deleted" \in Statuses
        BY DEF Statuses
    <2> QED BY <1>b, <2>1, <2>2
<1>4. \A q \in DOMAIN nodes : nodes[q].from \in Admission!Enrollments
    <2>1. \A q \in DOMAIN nodes : nodes[q] \in NodeRow
        BY <1>b
    <2> QED BY <2>1 DEF NodeRow
<1> QED BY <1>a, <1>1, <1>2, <1>3, <1>4 DEF AdmissionInv, TypeInv, KnownInv, NamedInv, SameOrigins

-----------------------------------------------------------------------------
(* The inductive invariant holds throughout.                               *)
LEMMA AdmissionInvariant == Admission!Spec => []AdmissionInv
<1>1. AdmissionInv /\ [Admission!Next]_Admission!vars => AdmissionInv'
    <2> SUFFICES ASSUME AdmissionInv, [Admission!Next]_Admission!vars PROVE AdmissionInv'
        OBVIOUS
    <2>1. CASE Admission!StartNode \/ Admission!NodeLoop \/ Admission!GiveUp
        BY <2>1, EnrollmentSteps, NodeSteps DEF Admission!NodeLoop
    <2>2. CASE \E e \in Admission!Enrollments :
            Admission!Approve(e) \/ Admission!LapseUnawaited(e) \/ Admission!LapseAwaited(e)
        BY <2>2, EnrollmentSteps
    <2>3. CASE \E i \in DOMAIN requests : Admission!Handle(i)
        BY <2>3, ClaimSteps, BeatSteps DEF Admission!Handle
    <2>4. CASE \E r \in DOMAIN nodes : Admission!Administer(r)
        BY <2>4, AdministratorSteps
    <2>5. CASE UNCHANGED Admission!vars
        BY <2>5 DEF Admission!vars, AdmissionInv, TypeInv, KnownInv, NamedInv
    <2> QED BY <2>1, <2>2, <2>3, <2>4, <2>5 DEF Admission!Next
<1> QED BY <1>1, AdmissionInit, PTL DEF Admission!Spec

(* The Node's admission beside its tasks: a step of the two together is a  *)
(* step of NodeAdmission or leaves its variables alone.                    *)
LEMMA AdmissionRuns == MCSpec => Admission!Spec
<1>1. MCInit => Admission!Init
    BY DEF MCInit
<1>2. [MCNext]_<<vars, admission>> => [Admission!Next]_Admission!vars
    BY DEF MCNext, admission, Admission!vars
<1> QED BY <1>1, <1>2, PTL DEF MCSpec, Admission!Spec

(* One enrollment makes one node row, for every number of enrollments,     *)
(* requests, faults and acts of an administrator: the row and the          *)
(* enrollment name each other (claim_enrollment's conditional update).     *)
THEOREM OneRowEach == MCSpec => []ClaimedOnce
<1>1. AdmissionInv => ClaimedOnce
    BY DEF AdmissionInv, NamedInv, ClaimedOnce, Admission!ClaimedOnce
<1> QED BY <1>1, AdmissionInvariant, AdmissionRuns, PTL

(* What the Node takes for its identity is the number of a row at Core,    *)
(* and so is the identity of every heartbeat: an answer that registers the *)
(* Node names the row that was inserted, and rows are marked, never taken  *)
(* away (claim_enrollment, delete_node).                                   *)
THEOREM IdentitiesKnown == Admission!Spec => []KnownInv
    BY AdmissionInvariant, PTL DEF AdmissionInv

=====
