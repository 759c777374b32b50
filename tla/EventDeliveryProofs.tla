------------------------- MODULE EventDeliveryProofs -------------------------
(***************************************************************************)
(* Proofs about EventDelivery, for every set of commands and every bound.  *)
(***************************************************************************)
EXTENDS EventDelivery, OutboxProofs

(* The invariant.                                                          *)

(* The events there are.                                                   *)
Made == 1 .. Len(born)

(* A frame brings events of S only, and a result is one of a command.      *)
Sound(f, S) == Range(f.ids) \subseteq S /\ (f.kind = "result" => f.cmd \in Commands)
Carry(q, S) == \A p \in DOMAIN q : Sound(q[p], S)

(* Whatever holds an event holds one that was generated; the outbox holds  *)
(* only what was saved.                                                    *)
KnownAt(g) ==
    /\ Range(job[g].old) \subseteq Made /\ Range(job[g].evs) \subseteq Made
    /\ Range(replay[g]) \subseteq Made /\ Range(ingest[g].rest) \subseteq Made
    /\ Carry(n2c[g], Made)
    /\ job[g].pc # "none" => job[g].cmd \in Commands
KnownInv ==
    /\ Len(born) <= MaxEvents
    /\ Range(store.outbox) \subseteq kept /\ kept \subseteq Made
    /\ Range(log) \subseteq Made
    /\ \A g \in Conns : KnownAt(g)

(* A running command's events are its own, and nobody has saved them.      *)
RunInv ==
    \A g \in Conns : job[g].pc = "run" =>
        /\ Range(job[g].evs) \cap kept = {}
        /\ \A h \in Conns \ {g} :
              job[h].pc = "run" => Range(job[g].evs) \cap Range(job[h].evs) = {}

(* What Core acknowledges, it has.                                         *)
AckAt(g) ==
    /\ ingest[g].busy => ingest[g].all \subseteq Range(ingest[g].rest) \cup Range(log)
    /\ \A p \in DOMAIN c2n[g] : c2n[g][p] \subseteq Range(log)
AckInv == \A g \in Conns : AckAt(g)

EventInv == TypeOK /\ KnownInv /\ RunInv /\ AckInv /\ StoredOnce /\ KeptOrStored

(* No fault so far.                                                        *)
Clean == \A f \in Counters \ {"dispatch"} : count[f] = 0

(* One connection is open at a time, the latest, and only its task is at   *)
(* work.                                                                   *)
OneChannel ==
    /\ \A g \in Conns : /\ nodeEnd[g] # "detached"
                        /\ nodeEnd[g] = "open" => g = opened
                        /\ nodeEnd[g] # "open" => job[g].pc = "none"
                        /\ g > opened => ~coreEnd[g]

(* Events are numbered as they are generated; the task at work has         *)
(* generated the ones the store has not counted.                           *)
NumberInv ==
    /\ \A i \in Made : born[i].seq = i
    /\ \A g \in Conns : job[g].pc = "run" =>
          job[g].from = store.seq /\ Len(born) = store.seq + Len(job[g].evs)
    /\ (\A g \in Conns : job[g].pc # "run") => Len(born) = store.seq

(* The results of queue q are of commands in D.                            *)
Results(q, D) == \A p \in DOMAIN q : q[p].kind = "result" => q[p].cmd \in D

(* Only a command whose end is saved has saved events or a result.         *)
DoneInv ==
    /\ \A i \in kept : born[i].cmd \in store.done \cup {NoCommand}
    /\ resolved \subseteq store.done
    /\ \A g \in Conns :
          /\ job[g].pc = "run" =>
                /\ job[g].cmd \notin store.done
                /\ \A i \in Range(job[g].evs) : born[i].cmd = job[g].cmd
          /\ job[g].pc = "send" => job[g].cmd \in store.done
          /\ Results(n2c[g], store.done)

(* Core will listen to what connection g brings.                           *)
Heard(g) ==
    /\ coreEnd[g]
    /\ active = g \/ (1 \in DOMAIN n2c[g] /\ n2c[g][1].kind = "hello")

(* Event i is in one of the first n frames of queue q.                     *)
OnWay(q, n, i) == \E p \in DOMAIN q : p <= n /\ i \in Range(q[p].ids)

(* A connection begins with Hello, and only batches bring events.          *)
Framed(q) ==
    \A p \in DOMAIN q : /\ q[p].kind = "hello" => p = 1
                        /\ q[p].kind # "batch" => q[p].ids = <<>>

(* What Core has taken of connection g, with the batch it is storing.      *)
Taken(g) == Range(log) \cup (IF ingest[g].busy THEN Range(ingest[g].rest) ELSE {})

(* The saved events K of a command travel in queue q before its result,    *)
(* unless they arrived, T; B says whose an event is.                       *)
Ahead(q, T, K, B) ==
    \A p \in DOMAIN q : q[p].kind = "result" =>
        \A i \in K : B[i].cmd = q[p].cmd => i \in T \/ OnWay(q, p, i)

(* A task has sent what it has not still to send.                          *)
SentAt(g) ==
    job[g].pc = "send" =>
        \A i \in kept : born[i].cmd = job[g].cmd =>
            i \in Range(job[g].evs) \cup Taken(g) \/ OnWay(n2c[g], Len(n2c[g]), i)

AheadAt(g) ==
    /\ Framed(n2c[g])
    /\ Heard(g) => Ahead(n2c[g], Taken(g), kept, born) /\ SentAt(g)
AheadInv == \A g \in Conns : AheadAt(g)

ResolvedInv == \A i \in kept : born[i].cmd \in resolved => i \in Range(log)

(* Everything is in order.                                                 *)
Calm == OneChannel /\ NumberInv /\ DoneInv /\ AheadInv /\ ResolvedInv
CleanInv == Clean => Calm

-----------------------------------------------------------------------------
(* Pieces of sequences.                                                    *)

(* A batch and what is left are the whole.                                 *)
LEMMA ChunkRest ==
    ASSUME NEW S, NEW ids \in Seq(S)
    PROVE  /\ Chunk(ids) \in Seq(S) /\ Rest(ids) \in Seq(S)
           /\ Range(ids) = Range(Chunk(ids)) \cup Range(Rest(ids))
           /\ ids = <<>> => Range(Rest(ids)) = {}
<1> DEFINE k == IF Len(ids) < BatchSize THEN Len(ids) ELSE BatchSize
<1>1. DOMAIN ids = 1 .. Len(ids) /\ Len(ids) \in Nat /\ k \in 0 .. Len(ids)
    BY EventAssumption
<1>2. PICK c : c = SubSeq(ids, 1, k)
    OBVIOUS
<1>3. PICK r : r = SubSeq(ids, k + 1, Len(ids))
    OBVIOUS
<1>4. c \in Seq(S) /\ DOMAIN c = 1 .. k /\ (\A i \in 1 .. k : c[i] = ids[i]) /\ Len(c) = k
    BY <1>1, <1>2
<1>5. /\ r \in Seq(S) /\ DOMAIN r = 1 .. Len(ids) - k
      /\ \A i \in 1 .. Len(ids) - k : r[i] = ids[i + k]
    BY <1>1, <1>3
<1>6. Chunk(ids) = c /\ Rest(ids) = r
    BY <1>2, <1>3, <1>4 DEF Chunk, Rest
<1> HIDE DEF k
<1>7. \A x \in Range(c) \cup Range(r) : x \in Range(ids)
    <2>1. \A i \in DOMAIN c : i \in DOMAIN ids /\ c[i] = ids[i]
        BY <1>1, <1>4
    <2>2. \A i \in DOMAIN r : i + k \in DOMAIN ids /\ r[i] = ids[i + k]
        BY <1>1, <1>5
    <2> QED BY <2>1, <2>2 DEF Range
<1>8. ASSUME NEW i \in DOMAIN ids PROVE ids[i] \in Range(c) \cup Range(r)
    <2>1. CASE i <= k
        <3>1. i \in DOMAIN c /\ c[i] = ids[i]
            BY <1>1, <1>4, <2>1
        <3> QED BY <3>1 DEF Range
    <2>2. CASE ~(i <= k)
        <3>1. i - k \in DOMAIN r /\ r[i - k] = ids[i]
            BY <1>1, <1>5, <2>2
        <3> QED BY <3>1 DEF Range
    <2> QED BY <2>1, <2>2
<1>9. \A x \in Range(ids) : x \in Range(c) \cup Range(r)
    BY <1>8 DEF Range
<1>10. ids = <<>> => Range(ids) = {}
    BY RangeShort
<1> QED BY <1>4, <1>5, <1>6, <1>7, <1>9, <1>10

(* What the retention leaves.                                              *)
LEMMA LastOfKeeps ==
    ASSUME NEW S, NEW ids \in Seq(S), NEW n \in Nat, n <= Len(ids)
    PROVE  LastOf(ids, n) \in Seq(S) /\ Range(LastOf(ids, n)) \subseteq Range(ids)
<1>1. DOMAIN ids = 1 .. Len(ids) /\ Len(ids) \in Nat
    OBVIOUS
<1>2. PICK r : r = SubSeq(ids, Len(ids) - n + 1, Len(ids))
    OBVIOUS
<1>3. /\ r \in Seq(S) /\ DOMAIN r = 1 .. n
      /\ \A i \in 1 .. n : r[i] = ids[i + Len(ids) - n]
    BY <1>1, <1>2
<1>4. \A i \in DOMAIN r : i + Len(ids) - n \in DOMAIN ids
    BY <1>1, <1>3
<1>5. \A i \in DOMAIN r : r[i] \in Range(ids)
    BY <1>3, <1>4 DEF Range
<1> QED BY <1>2, <1>3, <1>5 DEF LastOf, Range

-----------------------------------------------------------------------------
(* Types.                                                                  *)

(* The records of the model.                                               *)
LEMMA Records ==
    /\ NoJob \in Job /\ NoJob.pc = "none" /\ NoJob.old = <<>> /\ NoJob.evs = <<>>
    /\ \A c \in Commands : \A s \in Seq(Ids) :
          Sending(c, s) \in Job /\ Sending(c, s).pc = "send" /\ Sending(c, s).cmd = c
          /\ Sending(c, s).old = <<>> /\ Sending(c, s).evs = s
    /\ Hello \in Frame /\ Hello.kind = "hello" /\ Hello.ids = <<>>
    /\ \A s \in Seq(Ids) : Batch(s) \in Frame /\ Batch(s).kind = "batch" /\ Batch(s).ids = s
    /\ \A c \in Commands \cup {NoCommand} :
          Result(c) \in Frame /\ Result(c).kind = "result" /\ Result(c).ids = <<>> /\ Result(c).cmd = c
    /\ Idle \in [busy : BOOLEAN, rest : Seq(Ids), all : SUBSET Ids] /\ ~Idle.busy
    /\ Idle.rest = <<>>
    /\ \A s \in Seq(Ids) :
          /\ Storing(s) \in [busy : BOOLEAN, rest : Seq(Ids), all : SUBSET Ids]
          /\ Storing(s).busy /\ Storing(s).rest = s /\ Storing(s).all = Range(s)
<1>1. <<>> \in Seq(Ids) /\ \A s \in Seq(Ids) : Range(s) \subseteq Ids
    BY RangeOf
<1> QED BY <1>1 DEF NoJob, Job, Sending, Hello, Batch, Result, Frame, Idle, Storing

(* A task's record when its events change.                                 *)
LEMMA JobChanged ==
    ASSUME NEW j \in Job, NEW s \in Seq(Ids)
    PROVE  /\ [j EXCEPT !.evs = s] \in Job
           /\ [j EXCEPT !.evs = s].evs = s /\ [j EXCEPT !.evs = s].pc = j.pc
           /\ [j EXCEPT !.evs = s].old = j.old /\ [j EXCEPT !.evs = s].cmd = j.cmd
           /\ [j EXCEPT !.evs = s].from = j.from
<1>1. j \in [pc : {"none", "run", "send"}, cmd : Commands \cup {NoCommand},
             old : Seq(Ids), from : Nat, evs : Seq(Ids)]
    BY DEF Job
<1> QED BY <1>1 DEF Job

(* A batch that is being stored.                                           *)
LEMMA IngestChanged ==
    ASSUME NEW b \in [busy : BOOLEAN, rest : Seq(Ids), all : SUBSET Ids], NEW s \in Seq(Ids)
    PROVE  /\ [b EXCEPT !.rest = s] \in [busy : BOOLEAN, rest : Seq(Ids), all : SUBSET Ids]
           /\ [b EXCEPT !.rest = s].rest = s /\ [b EXCEPT !.rest = s].busy = b.busy
           /\ [b EXCEPT !.rest = s].all = b.all
OBVIOUS

(* What the state is made of.                                              *)
LEMMA Parts ==
    ASSUME TypeOK
    PROVE  /\ born \in Seq(Event) /\ Len(born) \in Nat /\ DOMAIN born = Made
           /\ \A i \in Made : /\ born[i] \in Event /\ born[i].seq \in Nat
                              /\ born[i].cmd \in Commands \cup {NoCommand}
           /\ store.seq \in Nat /\ store.outbox \in Seq(Ids) /\ store.done \in SUBSET Commands
           /\ \A g \in Conns :
                 /\ job[g] \in Job /\ job[g].evs \in Seq(Ids) /\ job[g].old \in Seq(Ids)
                 /\ job[g].from \in Nat /\ job[g].pc \in {"none", "run", "send"}
                 /\ job[g].cmd \in Commands \cup {NoCommand}
                 /\ replay[g] \in Seq(Ids) /\ n2c[g] \in Seq(Frame) /\ c2n[g] \in Seq(SUBSET Ids)
                 /\ ingest[g] \in [busy : BOOLEAN, rest : Seq(Ids), all : SUBSET Ids]
                 /\ ingest[g].rest \in Seq(Ids)
           /\ \A f \in Frame : f.ids \in Seq(Ids) /\ f.cmd \in Commands \cup {NoCommand}
           /\ log \in Seq(Ids)
<1>1. born \in Seq(Event) /\ Len(born) \in Nat /\ DOMAIN born = Made
    BY DEF TypeOK, Made
<1>2. \A i \in Made : born[i] \in Event
    BY <1>1
<1>3. \A e \in Event : e.seq \in Nat /\ e.cmd \in Commands \cup {NoCommand}
    BY DEF Event
<1>4. store.seq \in Nat /\ store.outbox \in Seq(Ids) /\ store.done \in SUBSET Commands
    BY DEF TypeOK, Store
<1>5. ASSUME NEW g \in Conns
      PROVE  /\ job[g] \in Job /\ replay[g] \in Seq(Ids) /\ n2c[g] \in Seq(Frame)
             /\ c2n[g] \in Seq(SUBSET Ids)
             /\ ingest[g] \in [busy : BOOLEAN, rest : Seq(Ids), all : SUBSET Ids]
    BY DEF TypeOK
<1>6. \A j \in Job : /\ j.evs \in Seq(Ids) /\ j.old \in Seq(Ids) /\ j.from \in Nat
                     /\ j.pc \in {"none", "run", "send"} /\ j.cmd \in Commands \cup {NoCommand}
    BY DEF Job
<1>7. \A f \in Frame : f.ids \in Seq(Ids) /\ f.cmd \in Commands \cup {NoCommand}
    BY DEF Frame
<1>8. \A b \in [busy : BOOLEAN, rest : Seq(Ids), all : SUBSET Ids] : b.rest \in Seq(Ids)
    OBVIOUS
<1>9. log \in Seq(Ids)
    BY DEF TypeOK
<1> QED BY <1>1, <1>2, <1>3, <1>4, <1>5, <1>6, <1>7, <1>8, <1>9

(* A frame is queued.                                                      *)
LEMMA QueueEffect ==
    ASSUME TypeOK, NEW g \in Conns, NEW f \in Frame, Queue(g, f)
    PROVE  /\ n2c' \in [Conns -> Seq(Frame)] /\ coreEnd[g]
           /\ n2c'[g] = Append(n2c[g], f)
           /\ \A h \in Conns : h # g => n2c'[h] = n2c[h]
<1>1. n2c \in [Conns -> Seq(Frame)] /\ n2c' = [n2c EXCEPT ![g] = Append(n2c[g], f)] /\ coreEnd[g]
    BY DEF TypeOK, Queue, Fits
<1>2. Append(n2c[g], f) \in Seq(Frame)
    BY <1>1, RangeAppend
<1> QED BY <1>1, <1>2

(* A frame is taken.                                                       *)
LEMMA TakeEffect ==
    ASSUME TypeOK, NEW g \in Conns, NEW kind, Receiving(g, kind), Consume(g)
    PROVE  /\ n2c' \in [Conns -> Seq(Frame)] /\ coreEnd[g] /\ ~ingest[g].busy
           /\ n2c[g] # <<>> /\ n2c'[g] = Tail(n2c[g]) /\ Head(n2c[g]) = n2c[g][1]
           /\ n2c[g][1] \in Frame /\ n2c[g][1].kind = kind /\ 1 \in DOMAIN n2c[g]
           /\ \A h \in Conns : h # g => n2c'[h] = n2c[h]
<1>1. n2c \in [Conns -> Seq(Frame)] /\ n2c' = [n2c EXCEPT ![g] = Tail(n2c[g])] /\ n2c[g] # <<>>
    BY DEF TypeOK, Consume, Receiving
<1>2. Tail(n2c[g]) \in Seq(Frame) /\ Head(n2c[g]) = n2c[g][1] /\ n2c[g][1] \in Frame /\ 1 \in DOMAIN n2c[g]
    BY <1>1, RangeTail, RangeOf
<1> QED BY <1>1, <1>2 DEF Receiving

(* The store a command's end leaves.                                       *)
LEMMA MergeEffect ==
    ASSUME TypeOK, NEW j \in Job, j.cmd \in Commands, NEW ids \in Seq(Ids), NEW last \in Nat
    PROVE  /\ Merge(j, ids, last) \in Store
           /\ Merge(j, ids, last).done = store.done \cup {j.cmd}
           /\ Merge(j, ids, last).seq = IF last # j.from /\ last > store.seq THEN last ELSE store.seq
           /\ Range(Merge(j, ids, last).outbox) =
                Range(store.outbox) \cup (Range(ids) \ Range(j.old))
<1>0. store.seq \in Nat /\ store.outbox \in Seq(Ids) /\ store.done \in SUBSET Commands
    BY Parts
<1>1. PICK w \in Seq(Ids) : /\ w = Without(ids, Range(j.old) \cup Range(store.outbox))
                            /\ Range(w) = Range(ids) \ (Range(j.old) \cup Range(store.outbox))
    BY WithoutRange
<1>2. PICK q \in Seq(Ids) : q = store.outbox \o w /\ Range(q) = Range(store.outbox) \cup Range(w)
    <2>1. store.outbox \o w \in Seq(Ids)
        BY <1>0, <1>1, RangeConcat
    <2>2. Range(store.outbox \o w) = Range(store.outbox) \cup Range(w)
        BY <1>0, <1>1, RangeConcat
    <2> QED BY <2>1, <2>2
<1>3. PICK n \in Nat : n = IF last # j.from /\ last > store.seq THEN last ELSE store.seq
    BY <1>0
<1>4. Merge(j, ids, last) = [seq |-> n, outbox |-> q, done |-> store.done \cup {j.cmd}]
    BY <1>1, <1>2, <1>3 DEF Merge
<1>5. /\ Merge(j, ids, last) \in Store /\ Merge(j, ids, last).outbox = q
      /\ Merge(j, ids, last).done = store.done \cup {j.cmd} /\ Merge(j, ids, last).seq = n
    BY <1>0, <1>4 DEF Store
<1>6. Range(q) = Range(store.outbox) \cup (Range(ids) \ Range(j.old))
    BY <1>1, <1>2
<1> QED BY <1>3, <1>5, <1>6

-----------------------------------------------------------------------------
(* Nothing saved is lost, nothing stored is stored again.                  *)

(* The queue of frames grows or shrinks.                                   *)
LEMMA CarryMoves ==
    ASSUME NEW S, NEW q \in Seq(Frame), Carry(q, S)
    PROVE  /\ \A f \in Frame : Sound(f, S) => Carry(Append(q, f), S)
           /\ q # <<>> => Carry(Tail(q), S) /\ Sound(q[1], S)
           /\ \A T : S \subseteq T => Carry(q, T)
<1>1. ASSUME NEW f \in Frame, Sound(f, S) PROVE Carry(Append(q, f), S)
    <2>1. PICK r : r = Append(q, f)
        OBVIOUS
    <2>2. /\ DOMAIN r = DOMAIN q \cup {Len(q) + 1} /\ r[Len(q) + 1] = f
          /\ \A i \in DOMAIN q : r[i] = q[i]
        BY <2>1, RangeAppend
    <2>3. Carry(r, S)
        BY <1>1, <2>2 DEF Carry
    <2> QED BY <2>1, <2>3
<1>2. ASSUME q # <<>> PROVE Carry(Tail(q), S) /\ Sound(q[1], S)
    <2>1. PICK r : r = Tail(q)
        OBVIOUS
    <2>2. \A i \in DOMAIN r : i + 1 \in DOMAIN q /\ r[i] = q[i + 1]
        BY <1>2, <2>1, RangeTail
    <2>3. Carry(r, S)
        BY <2>2 DEF Carry
    <2>4. 1 \in DOMAIN q
        BY <1>2, RangeOf
    <2> QED BY <2>1, <2>3, <2>4 DEF Carry
<1>3. \A T : S \subseteq T => Carry(q, T)
    BY DEF Carry, Sound
<1> QED BY <1>1, <1>2, <1>3

(* What a step may do to the outbox.                                       *)
NothingReturns == \A i \in kept : i \notin Range(store.outbox) => i \notin Range(store'.outbox)

(* A step that leaves what is generated, saved and stored alone.           *)
SameRun(g) ==
    job'[g].pc = "run" =>
        \/ job[g].pc = "run" /\ job'[g].evs = job[g].evs
        \/ job'[g].evs = <<>>

(* Such a step keeps the invariant, if the connections keep theirs.        *)
LEMMA StoresRest ==
    ASSUME EventInv, TypeOK', UNCHANGED <<born, store, log, kept>>,
           \A g \in Conns : KnownAt(g)' /\ AckAt(g)' /\ SameRun(g)
    PROVE  EventInv' /\ NothingReturns
<1>1. KnownInv'
    BY DEF EventInv, KnownInv, Made
<1>2. AckInv'
    BY DEF AckInv
<1>3. ASSUME NEW g \in Conns, job'[g].pc = "run"
      PROVE  Range(job'[g].evs) = {} \/ (job[g].pc = "run" /\ job'[g].evs = job[g].evs)
    <2>1. Range(<<>>) = {}
        BY RangeShort
    <2> QED BY <1>3, <2>1 DEF SameRun
<1>4. ASSUME NEW g \in Conns, job'[g].pc = "run"
      PROVE  /\ Range(job'[g].evs) \cap kept' = {}
             /\ \A h \in Conns \ {g} : job'[h].pc = "run" => Range(job'[g].evs) \cap Range(job'[h].evs) = {}
    <2>1. Range(job'[g].evs) \cap kept' = {}
        BY <1>3, <1>4 DEF EventInv, RunInv
    <2>2. ASSUME NEW h \in Conns \ {g}, job'[h].pc = "run"
          PROVE  Range(job'[g].evs) \cap Range(job'[h].evs) = {}
        BY <1>3, <1>4, <2>2 DEF EventInv, RunInv
    <2> QED BY <2>1, <2>2
<1>5. RunInv'
    BY <1>4 DEF RunInv
<1>6. StoredOnce' /\ KeptOrStored' /\ NothingReturns
    BY DEF EventInv, StoredOnce, KeptOrStored, NothingReturns
<1> QED BY <1>1, <1>2, <1>5, <1>6 DEF EventInv

(* A connection the step does not touch.                                   *)
Untouched(g) ==
    /\ job'[g] = job[g] /\ replay'[g] = replay[g] /\ ingest'[g] = ingest[g]
    /\ n2c'[g] = n2c[g] /\ c2n'[g] = c2n[g]

(* It keeps its part of the invariant.                                     *)
LEMMA OthersRest ==
    ASSUME EventInv, NEW g \in Conns, UNCHANGED <<born, log>>, Untouched(g)
    PROVE  KnownAt(g)' /\ AckAt(g)' /\ SameRun(g)
<1>1. KnownAt(g)'
    BY DEF EventInv, KnownInv, KnownAt, Untouched, Made
<1>2. AckAt(g)'
    BY DEF EventInv, AckInv, AckAt, Untouched
<1> QED BY <1>1, <1>2 DEF SameRun, Untouched

(* What the invariant says of connection g.                                *)
LEMMA AtG ==
    ASSUME EventInv, NEW g \in Conns
    PROVE  TypeOK /\ KnownInv /\ KnownAt(g) /\ AckAt(g)
BY DEF EventInv, KnownInv, AckInv

(* A command reaches the dispatcher.                                       *)
LEMMA DispatchSafe ==
    ASSUME EventInv, NEW g \in Conns, NEW c \in Commands, Dispatch(g, c)
    PROVE  EventInv' /\ NothingReturns
<1>0. TypeOK /\ KnownInv /\ KnownAt(g) /\ AckAt(g)
    BY AtG
<1>1. UNCHANGED <<born, store, log, kept, replay, ingest, n2c, c2n, opened, nodeEnd, coreEnd,
                  active, resolved>>
    BY DEF Dispatch, linkVars, coreVars
<1>2. OfCommand(store.outbox, c) \in Seq(Ids) /\ Range(OfCommand(store.outbox, c)) \subseteq Range(store.outbox)
    BY <1>0, Parts, WithoutRange DEF OfCommand
<1>3. PICK j : /\ job' = [job EXCEPT ![g] = j] /\ j \in Job
               /\ Range(j.old) \subseteq Made /\ Range(j.evs) \subseteq Made
               /\ j.pc = "run" => j.evs = <<>>
               /\ j.cmd = c
    <2>1. CASE c \in store.done
        <3>1. PICK j \in Job : j = Sending(c, OfCommand(store.outbox, c)) /\ j.pc = "send" /\ j.cmd = c
                               /\ j.old = <<>> /\ j.evs = OfCommand(store.outbox, c)
            BY <1>2, Records
        <3>2. job' = [job EXCEPT ![g] = j]
            BY <2>1, <3>1 DEF Dispatch
        <3>3. Range(j.old) \subseteq Made /\ Range(j.evs) \subseteq Made
            BY <1>0, <1>2, <3>1, RangeShort DEF KnownInv
        <3> QED BY <3>1, <3>2, <3>3
    <2>2. CASE c \notin store.done
        <3>1. PICK j : j = [pc |-> "run", cmd |-> c, old |-> store.outbox,
                            from |-> store.seq, evs |-> <<>>]
            OBVIOUS
        <3>2. job' = [job EXCEPT ![g] = j]
            BY <2>2, <3>1 DEF Dispatch
        <3>3. j \in Job
            BY <1>0, <3>1, Parts, RangeShort DEF Job
        <3>4. Range(j.old) \subseteq Made /\ Range(j.evs) \subseteq Made /\ j.cmd = c /\ j.evs = <<>>
            <4>1. j.old = store.outbox /\ j.evs = <<>> /\ j.cmd = c
                BY <3>1
            <4>2. Range(store.outbox) \subseteq Made /\ Range(<<>>) = {}
                BY <1>0, RangeShort DEF KnownInv
            <4> QED BY <4>1, <4>2
        <3> QED BY <3>1, <3>2, <3>3, <3>4
    <2> QED BY <2>1, <2>2
<1>4. job' \in [Conns -> Job] /\ job'[g] = j /\ \A h \in Conns : h # g => job'[h] = job[h]
    BY <1>0, <1>3 DEF TypeOK
<1>5. TypeOK'
    <2>1. count' \in [Counters -> Nat]
        BY <1>0 DEF Dispatch, TypeOK, Counters
    <2> QED BY <1>0, <1>1, <1>4, <2>1 DEF TypeOK
<1>6. KnownAt(g)' /\ AckAt(g)' /\ SameRun(g)
    BY <1>0, <1>1, <1>3, <1>4 DEF KnownAt, AckAt, SameRun, Made
<1>7. \A h \in Conns : h # g => KnownAt(h)' /\ AckAt(h)' /\ SameRun(h)
    <2>1. \A h \in Conns : h # g => Untouched(h)
        BY <1>1, <1>4 DEF Untouched
    <2> QED BY <1>1, <2>1, OthersRest
<1> QED BY <1>1, <1>5, <1>6, <1>7, StoresRest

(* A batch or a result is sent.                                            *)
LEMMA SendSafe ==
    ASSUME EventInv, NEW g \in Conns, SendBatch(g) \/ SendResult(g)
    PROVE  EventInv' /\ NothingReturns
<1>0. TypeOK /\ KnownInv /\ KnownAt(g) /\ AckAt(g)
    BY AtG
<1>1. UNCHANGED <<born, store, log, kept, replay, ingest, c2n, opened, nodeEnd, coreEnd,
                  active, resolved, count>>
    BY DEF SendBatch, SendResult, linkVars, coreVars
<1>2. /\ job[g].evs \in Seq(Ids) /\ Chunk(job[g].evs) \in Seq(Ids) /\ Rest(job[g].evs) \in Seq(Ids)
      /\ Range(Chunk(job[g].evs)) \subseteq Made /\ Range(Rest(job[g].evs)) \subseteq Made
    <2>1. job[g].evs \in Seq(Ids)
        BY <1>0, Parts
    <2> QED BY <1>0, <2>1, ChunkRest DEF KnownAt
<1>3. PICK j \in Job : /\ job' = [job EXCEPT ![g] = j] /\ j.pc # "run"
                       /\ j.pc = "none" \/ j.cmd \in Commands
                       /\ Range(j.old) \subseteq Made /\ Range(j.evs) \subseteq Made
    <2>1. CASE job' = [job EXCEPT ![g] = NoJob]
        BY <2>1, Records, RangeShort
    <2>2. CASE SendBatch(g) /\ job' = [job EXCEPT ![g].evs = Rest(@)]
        <3>1. PICK j : j = [job[g] EXCEPT !.evs = Rest(job[g].evs)]
            OBVIOUS
        <3>2. job' = [job EXCEPT ![g] = j] /\ job[g] \in Job /\ job[g].pc = "send"
            BY <1>0, <2>2, <3>1, Parts DEF SendBatch
        <3>3. j \in Job /\ j.evs = Rest(job[g].evs) /\ j.old = job[g].old /\ j.pc = "send"
              /\ j.cmd = job[g].cmd
            BY <1>2, <3>1, <3>2, JobChanged
        <3> QED BY <1>0, <1>2, <3>2, <3>3 DEF KnownAt
    <2> QED BY <2>1, <2>2 DEF SendBatch, SendResult
<1>4. job' \in [Conns -> Job] /\ job'[g] = j /\ \A h \in Conns : h # g => job'[h] = job[h]
    BY <1>0, <1>3 DEF TypeOK
<1>5. \/ n2c' = n2c
      \/ \E f \in Frame : Queue(g, f) /\ Sound(f, Made)
    <2>1. CASE SendBatch(g)
        <3>1. Batch(Chunk(job[g].evs)) \in Frame /\ Batch(Chunk(job[g].evs)).ids = Chunk(job[g].evs)
              /\ Batch(Chunk(job[g].evs)).kind = "batch"
            BY <1>2, Records
        <3> QED BY <1>2, <2>1, <3>1 DEF SendBatch, Sound
    <2>2. CASE SendResult(g)
        <3>1. job[g].cmd \in Commands
            BY <1>0, <2>2 DEF SendResult, KnownAt
        <3>2. /\ Result(job[g].cmd) \in Frame /\ Range(Result(job[g].cmd).ids) = {}
              /\ Result(job[g].cmd).cmd = job[g].cmd
            BY <3>1, Records, RangeShort
        <3> QED BY <2>2, <3>1, <3>2 DEF SendResult, Offer, Sound
    <2> QED BY <2>1, <2>2
<1>6. /\ n2c' \in [Conns -> Seq(Frame)] /\ Carry(n2c'[g], Made)
      /\ \A h \in Conns : h # g => n2c'[h] = n2c[h]
    <2>0. n2c \in [Conns -> Seq(Frame)] /\ n2c[g] \in Seq(Frame) /\ Carry(n2c[g], Made)
        BY <1>0 DEF TypeOK, KnownAt
    <2>1. CASE n2c' = n2c
        BY <2>0, <2>1
    <2>2. CASE n2c' # n2c
        <3>1. PICK f \in Frame : Queue(g, f) /\ Sound(f, Made)
            BY <1>5, <2>2
        <3>2. n2c' \in [Conns -> Seq(Frame)] /\ n2c'[g] = Append(n2c[g], f)
              /\ \A h \in Conns : h # g => n2c'[h] = n2c[h]
            BY <1>0, <3>1, QueueEffect
        <3>3. Carry(Append(n2c[g], f), Made)
            BY <2>0, <3>1, CarryMoves
        <3> QED BY <3>2, <3>3
    <2> QED BY <2>1, <2>2
<1>7. TypeOK'
    BY <1>0, <1>1, <1>4, <1>6 DEF TypeOK
<1>8. KnownAt(g)' /\ AckAt(g)' /\ SameRun(g)
    BY <1>0, <1>1, <1>3, <1>4, <1>6 DEF KnownAt, AckAt, SameRun, Made
<1>9. \A h \in Conns : h # g => KnownAt(h)' /\ AckAt(h)' /\ SameRun(h)
    <2>1. \A h \in Conns : h # g => Untouched(h)
        BY <1>1, <1>4, <1>6 DEF Untouched
    <2> QED BY <1>1, <2>1, OthersRest
<1> QED BY <1>1, <1>7, <1>8, <1>9, StoresRest

(* The channel opens.                                                      *)
LEMMA ConnectSafe == ASSUME EventInv, Connect PROVE EventInv' /\ NothingReturns
<1>0. PICK g \in Conns : g = opened + 1 /\ g \in 1 .. MaxConns
    BY EventAssumption DEF Connect, EventInv, TypeOK, Conns
<1>1. TypeOK /\ KnownInv /\ KnownAt(g) /\ AckAt(g)
    BY <1>0, AtG
<1>2. UNCHANGED <<born, store, log, kept, job, ingest, c2n, active, resolved, count>>
    BY DEF Connect, coreVars
<1>3. /\ n2c' = [n2c EXCEPT ![g] = <<Hello>>] /\ replay' = [replay EXCEPT ![g] = store.outbox]
      /\ nodeEnd' = [nodeEnd EXCEPT ![g] = "open"] /\ coreEnd' = [coreEnd EXCEPT ![g] = TRUE]
      /\ opened' = g
    BY <1>0 DEF Connect
<1>4. <<Hello>> \in Seq(Frame) /\ Carry(<<Hello>>, Made)
    <2>1. Hello \in Frame /\ Range(Hello.ids) = {} /\ Hello.kind = "hello"
        BY Records, RangeShort
    <2> QED BY <2>1, RangeShort DEF Carry, Sound
<1>5. /\ n2c' \in [Conns -> Seq(Frame)] /\ n2c'[g] = <<Hello>>
      /\ replay' \in [Conns -> Seq(Ids)] /\ replay'[g] = store.outbox
      /\ \A h \in Conns : h # g => n2c'[h] = n2c[h] /\ replay'[h] = replay[h]
    BY <1>0, <1>1, <1>3, <1>4, Parts DEF TypeOK
<1>6. TypeOK'
    <2>1. opened' \in 0 .. MaxConns
        BY <1>0, <1>3
    <2>2. nodeEnd' \in [Conns -> {"open", "detached", "closed"}] /\ coreEnd' \in [Conns -> BOOLEAN]
        BY <1>1, <1>3 DEF TypeOK
    <2> QED BY <1>1, <1>2, <1>5, <2>1, <2>2 DEF TypeOK
<1>7. KnownAt(g)' /\ AckAt(g)' /\ SameRun(g)
    <2>1. Range(replay'[g]) \subseteq Made /\ Carry(n2c'[g], Made)
        BY <1>1, <1>4, <1>5 DEF KnownInv
    <2> QED BY <1>1, <1>2, <2>1 DEF KnownAt, AckAt, SameRun, Made
<1>8. \A h \in Conns : h # g => KnownAt(h)' /\ AckAt(h)' /\ SameRun(h)
    <2>1. \A h \in Conns : h # g => Untouched(h)
        BY <1>2, <1>5 DEF Untouched
    <2> QED BY <1>2, <2>1, OthersRest
<1> QED BY <1>2, <1>6, <1>7, <1>8, StoresRest

(* It replays the outbox.                                                  *)
LEMMA ReplaySafe ==
    ASSUME EventInv, NEW g \in Conns, Replay(g)
    PROVE  EventInv' /\ NothingReturns
<1>0. TypeOK /\ KnownInv /\ KnownAt(g) /\ AckAt(g)
    BY AtG
<1>1. UNCHANGED <<born, store, log, kept, job, ingest, c2n, opened, nodeEnd, coreEnd,
                  active, resolved, count>>
    BY DEF Replay, linkVars, coreVars
<1>2. /\ replay[g] \in Seq(Ids) /\ Chunk(replay[g]) \in Seq(Ids) /\ Rest(replay[g]) \in Seq(Ids)
      /\ Range(Chunk(replay[g])) \subseteq Made /\ Range(Rest(replay[g])) \subseteq Made
    <2>1. replay[g] \in Seq(Ids)
        BY <1>0, Parts
    <2> QED BY <1>0, <2>1, ChunkRest DEF KnownAt
<1>3. /\ replay' \in [Conns -> Seq(Ids)] /\ replay'[g] = Rest(replay[g])
      /\ \A h \in Conns : h # g => replay'[h] = replay[h]
    BY <1>0, <1>2 DEF Replay, TypeOK
<1>4. /\ n2c' \in [Conns -> Seq(Frame)] /\ Carry(n2c'[g], Made)
      /\ \A h \in Conns : h # g => n2c'[h] = n2c[h]
    <2>0. n2c \in [Conns -> Seq(Frame)] /\ n2c[g] \in Seq(Frame) /\ Carry(n2c[g], Made)
        BY <1>0 DEF TypeOK, KnownAt
    <2>1. CASE n2c' = n2c
        BY <2>0, <2>1
    <2>2. CASE n2c' # n2c
        <3>1. PICK f \in Frame : f = Batch(Chunk(replay[g])) /\ f.ids = Chunk(replay[g]) /\ f.kind = "batch"
            BY <1>2, Records
        <3>2. n2c' \in [Conns -> Seq(Frame)] /\ n2c'[g] = Append(n2c[g], f)
              /\ \A h \in Conns : h # g => n2c'[h] = n2c[h]
            BY <1>0, <2>2, <3>1, QueueEffect DEF Replay
        <3>3. Carry(Append(n2c[g], f), Made)
            BY <1>2, <2>0, <3>1, CarryMoves DEF Sound
        <3> QED BY <3>2, <3>3
    <2> QED BY <2>1, <2>2
<1>5. TypeOK'
    BY <1>0, <1>1, <1>3, <1>4 DEF TypeOK
<1>6. KnownAt(g)' /\ AckAt(g)' /\ SameRun(g)
    BY <1>0, <1>1, <1>2, <1>3, <1>4 DEF KnownAt, AckAt, SameRun, Made
<1>7. \A h \in Conns : h # g => KnownAt(h)' /\ AckAt(h)' /\ SameRun(h)
    <2>1. \A h \in Conns : h # g => Untouched(h)
        BY <1>1, <1>3, <1>4 DEF Untouched
    <2> QED BY <1>1, <2>1, OthersRest
<1> QED BY <1>1, <1>5, <1>6, <1>7, StoresRest

(* It ends.                                                                *)
LEMMA CloseSafe ==
    ASSUME EventInv, NEW g \in Conns, CloseChannel(g) \/ ReadError(g)
    PROVE  EventInv' /\ NothingReturns
<1>0. TypeOK /\ KnownInv /\ KnownAt(g) /\ AckAt(g)
    BY AtG
<1>1. UNCHANGED <<born, store, log, kept, ingest, n2c, opened, coreEnd, active, resolved>>
    BY DEF CloseChannel, ReadError, coreVars
<1>2. /\ replay' \in [Conns -> Seq(Ids)] /\ c2n' \in [Conns -> Seq(SUBSET Ids)]
      /\ replay'[g] = <<>> /\ c2n'[g] = <<>>
      /\ \A h \in Conns : h # g => replay'[h] = replay[h] /\ c2n'[h] = c2n[h]
    <2>1. replay' = [replay EXCEPT ![g] = <<>>] /\ c2n' = [c2n EXCEPT ![g] = <<>>]
        BY DEF CloseChannel, ReadError
    <2> QED BY <1>0, <2>1, RangeShort DEF TypeOK
<1>3. /\ job' \in [Conns -> Job] /\ job'[g] \in {job[g], NoJob}
      /\ \A h \in Conns : h # g => job'[h] = job[h]
    <2>1. job' = job \/ job' = [job EXCEPT ![g] = NoJob]
        BY DEF CloseChannel, ReadError
    <2>2. job \in [Conns -> Job] /\ NoJob \in Job
        BY <1>0, Records DEF TypeOK
    <2> QED BY <2>1, <2>2
<1>4. TypeOK'
    <2>1. nodeEnd' \in [Conns -> {"open", "detached", "closed"}]
        BY <1>0 DEF CloseChannel, ReadError, TypeOK
    <2>2. count' \in [Counters -> Nat]
        BY <1>0 DEF CloseChannel, ReadError, TypeOK, Counters
    <2> QED BY <1>0, <1>1, <1>2, <1>3, <2>1, <2>2 DEF TypeOK
<1>5. KnownAt(g)' /\ AckAt(g)' /\ SameRun(g)
    <2>1. Range(NoJob.old) = {} /\ Range(NoJob.evs) = {} /\ NoJob.pc = "none"
        BY Records, RangeShort
    <2>2. Range(replay'[g]) = {} /\ DOMAIN c2n'[g] = {}
        BY <1>2, RangeShort
    <2> QED BY <1>0, <1>1, <1>3, <2>1, <2>2 DEF KnownAt, AckAt, SameRun, Made
<1>6. \A h \in Conns : h # g => KnownAt(h)' /\ AckAt(h)' /\ SameRun(h)
    <2>1. \A h \in Conns : h # g => Untouched(h)
        BY <1>1, <1>2, <1>3 DEF Untouched
    <2> QED BY <1>1, <2>1, OthersRest
<1> QED BY <1>1, <1>4, <1>5, <1>6, StoresRest

(* One more event is generated.                                            *)
LEMMA Generated ==
    ASSUME TypeOK, KnownInv, NEW e \in Event, Len(born) < MaxEvents, born' = Append(born, e)
    PROVE  /\ born' \in Seq(Event) /\ Len(born') = Len(born) + 1 /\ Len(born') <= MaxEvents
           /\ Made' = Made \cup {Len(born) + 1} /\ Len(born) + 1 \in Ids \ Made
           /\ born'[Len(born) + 1] = e
           /\ \A i \in Made : born'[i] = born[i]
<1>1. born \in Seq(Event) /\ Len(born) \in Nat
    BY DEF TypeOK
<1>2. born' \in Seq(Event) /\ Len(born') = Len(born) + 1 /\ born'[Len(born) + 1] = e
      /\ \A i \in 1 .. Len(born) : born'[i] = born[i]
    BY <1>1, AppendProperties
<1>3. Made' = Made \cup {Len(born) + 1} /\ Len(born) + 1 \in Ids \ Made /\ Len(born') <= MaxEvents
    BY <1>1, <1>2, EventAssumption DEF Made, Ids
<1> QED BY <1>2, <1>3 DEF Made

(* The table speaks of the events it has.                                  *)
LEMMA TableStays ==
    ASSUME EventInv, log' = log, \A i \in Made : born'[i] = born[i]
    PROVE  StoredOnce'
<1>1. \A m \in DOMAIN log : log[m] \in Made
    BY DEF EventInv, KnownInv, Range
<1> QED BY <1>1 DEF EventInv, StoredOnce

(* An event is generated and offered to the live queue.                    *)
LEMMA EmitSafe ==
    ASSUME EventInv, NEW g \in Conns, Emit(g)
    PROVE  EventInv' /\ NothingReturns
<1>0. TypeOK /\ KnownInv /\ KnownAt(g) /\ AckAt(g)
    BY AtG
<1>1. UNCHANGED <<store, log, kept, replay, ingest, c2n, opened, nodeEnd, coreEnd,
                  active, resolved, count>>
    BY DEF Emit, linkVars, coreVars
<1>2. PICK n : n = Len(born) + 1
    OBVIOUS
<1>3. PICK e \in Event : born' = Append(born, e)
    <2>1. job[g].cmd \in Commands \cup {NoCommand} /\ job[g].from + Len(job[g].evs) + 1 \in Nat
        BY <1>0, Parts
    <2>2. [cmd |-> job[g].cmd, seq |-> job[g].from + Len(job[g].evs) + 1] \in Event
        BY <2>1 DEF Event
    <2> QED BY <2>2 DEF Emit
<1>4. /\ born' \in Seq(Event) /\ Len(born') = n /\ n <= MaxEvents
      /\ Made' = Made \cup {n} /\ n \in Ids /\ n \notin Made
      /\ \A i \in Made : born'[i] = born[i]
    BY <1>0, <1>2, <1>3, Generated DEF Emit
<1>5. /\ job[g].evs \in Seq(Ids) /\ Append(job[g].evs, n) \in Seq(Ids)
      /\ Range(Append(job[g].evs, n)) = Range(job[g].evs) \cup {n}
    <2>1. job[g].evs \in Seq(Ids)
        BY <1>0, Parts
    <2> QED BY <1>4, <2>1, RangeAppend
<1>6. /\ job' \in [Conns -> Job] /\ job'[g].evs = Append(job[g].evs, n)
      /\ job'[g].pc = "run" /\ job[g].pc = "run" /\ job'[g].old = job[g].old
      /\ job'[g].cmd = job[g].cmd
      /\ \A h \in Conns : h # g => job'[h] = job[h]
    <2>1. PICK j : j = [job[g] EXCEPT !.evs = Append(job[g].evs, n)]
        OBVIOUS
    <2>2. job' = [job EXCEPT ![g] = j] /\ job[g] \in Job /\ job[g].pc = "run"
        BY <1>0, <1>2, <2>1, Parts DEF Emit
    <2>3. j \in Job /\ j.evs = Append(job[g].evs, n) /\ j.old = job[g].old /\ j.pc = "run"
          /\ j.cmd = job[g].cmd
        BY <1>5, <2>1, <2>2, JobChanged
    <2> QED BY <1>0, <2>2, <2>3 DEF TypeOK
<1>7. /\ n2c' \in [Conns -> Seq(Frame)] /\ Carry(n2c'[g], Made')
      /\ \A h \in Conns : h # g => n2c'[h] = n2c[h]
    <2>0. n2c \in [Conns -> Seq(Frame)] /\ n2c[g] \in Seq(Frame) /\ Carry(n2c[g], Made')
        <3>1. n2c \in [Conns -> Seq(Frame)] /\ n2c[g] \in Seq(Frame) /\ Carry(n2c[g], Made)
            BY <1>0 DEF TypeOK, KnownAt
        <3> QED BY <1>4, <3>1, CarryMoves
    <2>1. CASE n2c' = n2c
        BY <2>0, <2>1
    <2>2. CASE n2c' # n2c
        <3>1. PICK f \in Frame : f = Batch(<<n>>) /\ f.ids = <<n>> /\ f.kind = "batch"
            <4>1. PICK s \in Seq(Ids) : s = <<n>>
                BY <1>4, RangeShort
            <4>2. Batch(s) \in Frame /\ Batch(s).kind = "batch" /\ Batch(s).ids = s
                BY Records
            <4> QED BY <4>1, <4>2
        <3>2. n2c' \in [Conns -> Seq(Frame)] /\ n2c'[g] = Append(n2c[g], f)
              /\ \A h \in Conns : h # g => n2c'[h] = n2c[h]
            BY <1>0, <1>2, <2>2, <3>1, QueueEffect DEF Emit, Offer
        <3>3. Sound(f, Made')
            BY <1>4, <3>1, RangeShort DEF Sound
        <3>4. Carry(Append(n2c[g], f), Made')
            BY <2>0, <3>3, CarryMoves
        <3> QED BY <3>2, <3>4
    <2> QED BY <2>1, <2>2
<1>8. TypeOK'
    BY <1>0, <1>1, <1>4, <1>6, <1>7 DEF TypeOK
<1>9. KnownInv'
    <2>1. KnownAt(g)'
        BY <1>0, <1>1, <1>4, <1>5, <1>6, <1>7 DEF KnownAt
    <2>2. ASSUME NEW h \in Conns, h # g PROVE KnownAt(h)'
        <3>1. KnownAt(h) /\ n2c[h] \in Seq(Frame)
            BY <1>0 DEF KnownInv, TypeOK
        <3>2. Carry(n2c[h], Made')
            BY <1>4, <3>1, CarryMoves DEF KnownAt
        <3> QED BY <1>1, <1>4, <1>6, <1>7, <2>2, <3>1, <3>2 DEF KnownAt
    <2> QED BY <1>0, <1>1, <1>4, <2>1, <2>2 DEF KnownInv
<1>10. RunInv'
    <2>1. n \notin kept /\ \A h \in Conns : n \notin Range(job[h].evs)
        BY <1>0, <1>4 DEF KnownInv, KnownAt
    <2>2. Range(job'[g].evs) = Range(job[g].evs) \cup {n}
        BY <1>5, <1>6
    <2>3. ASSUME NEW h \in Conns, job'[h].pc = "run"
          PROVE  /\ job[h].pc = "run"
                 /\ Range(job'[h].evs) \subseteq Range(job[h].evs) \cup {n}
                 /\ h # g => Range(job'[h].evs) = Range(job[h].evs)
        BY <1>6, <2>2, <2>3
    <2>4. ASSUME NEW h \in Conns, job'[h].pc = "run"
          PROVE  Range(job'[h].evs) \cap kept' = {}
        BY <1>1, <2>1, <2>3, <2>4 DEF EventInv, RunInv
    <2>5. ASSUME NEW h \in Conns, job'[h].pc = "run", NEW k \in Conns \ {h}, job'[k].pc = "run"
          PROVE  Range(job'[h].evs) \cap Range(job'[k].evs) = {}
        <3>1. Range(job[h].evs) \cap Range(job[k].evs) = {}
            BY <2>3, <2>5 DEF EventInv, RunInv
        <3> QED BY <2>1, <2>3, <2>5, <3>1
    <2> QED BY <2>4, <2>5 DEF RunInv
<1>11. AckInv'
    BY <1>1 DEF EventInv, AckInv, AckAt
<1>12. StoredOnce'
    BY <1>1, <1>4, TableStays
<1>13. KeptOrStored' /\ NothingReturns
    BY <1>1 DEF EventInv, KeptOrStored, NothingReturns
<1> QED BY <1>8, <1>9, <1>10, <1>11, <1>12, <1>13 DEF EventInv

(* The end of a command saves events of its own, ids, and sends s: with a  *)
(* notice of its own, N, where the retention dropped some.                 *)
FinishDoes(g, ids, s, N) ==
    /\ store' \in Store
    /\ store'.done = store.done \cup {job[g].cmd}
    /\ Range(store'.outbox) = Range(store.outbox) \cup (Range(ids) \ Range(job[g].old))
    /\ Range(ids) \subseteq Range(job[g].old) \cup Range(job[g].evs) \cup N
    /\ s \in Seq(Ids) /\ Range(s) = Range(job[g].evs) \cup N
    /\ job' = [job EXCEPT ![g] = Sending(job[g].cmd, s)]
    /\ LET last == job[g].from + Len(job[g].evs)
       IN  \/ /\ N = {} /\ born' = born
              /\ store'.seq = IF last # job[g].from /\ last > store.seq THEN last ELSE store.seq
           \/ /\ N = {Len(born) + 1} /\ Len(born) < MaxEvents
              /\ born' = Append(born, [cmd |-> NoCommand, seq |-> last + 1])
              /\ store'.seq = IF last + 1 > store.seq THEN last + 1 ELSE store.seq

(* That is what it does.                                                   *)
LEMMA FinishEffect ==
    ASSUME EventInv, NEW g \in Conns, Finish(g)
    PROVE  \E ids, s, N : FinishDoes(g, ids, s, N)
<1>0. TypeOK /\ KnownInv
    BY AtG
<1>1. PICK j : j = job[g]
    OBVIOUS
<1>2. j \in Job /\ j.cmd \in Commands /\ j.old \in Seq(Ids) /\ j.evs \in Seq(Ids)
      /\ j.from \in Nat /\ job[g].pc = "run"
    BY <1>0, <1>1, Parts DEF Finish, KnownInv, KnownAt
<1>3. PICK all \in Seq(Ids) : all = j.old \o j.evs /\ Range(all) = Range(j.old) \cup Range(j.evs)
    <2>1. j.old \o j.evs \in Seq(Ids)
        BY <1>2, RangeConcat
    <2>2. Range(j.old \o j.evs) = Range(j.old) \cup Range(j.evs)
        BY <1>2, RangeConcat
    <2> QED BY <2>1, <2>2
<1>4. PICK last \in Nat : last = j.from + Len(j.evs) /\ last >= j.from
    BY <1>2
<1>5. CASE /\ store' = Merge(j, all, last) /\ born' = born
           /\ job' = [job EXCEPT ![g] = Sending(j.cmd, j.evs)]
    <2>1. /\ Merge(j, all, last) \in Store
          /\ Merge(j, all, last).done = store.done \cup {j.cmd}
          /\ Merge(j, all, last).seq = IF last # j.from /\ last > store.seq THEN last ELSE store.seq
          /\ Range(Merge(j, all, last).outbox) =
                Range(store.outbox) \cup (Range(all) \ Range(j.old))
        BY <1>0, <1>2, MergeEffect
    <2>2. FinishDoes(g, all, j.evs, {})
        BY <1>1, <1>2, <1>3, <1>4, <1>5, <2>1 DEF FinishDoes
    <2> QED BY <2>2
<1>6. ASSUME NEW note, note = Len(born) + 1, Len(born) < MaxEvents, Len(all) > MaxOutbox,
             born' = Append(born, [cmd |-> NoCommand, seq |-> last + 1]),
             store' = Merge(j, LastOf(Append(all, note), MaxOutbox), last + 1),
             job' = [job EXCEPT ![g] = Sending(j.cmd, Append(j.evs, note))]
      PROVE  \E ids, s, N : FinishDoes(g, ids, s, N)
    <2>1. note \in Ids /\ last + 1 \in Nat /\ last + 1 # j.from /\ last + 1 > j.from
        <3>1. Len(born) \in Nat /\ MaxEvents \in Nat
            BY <1>0, Parts, EventAssumption
        <3>2. note \in Ids
            BY <1>6, <3>1 DEF Ids
        <3> QED BY <1>2, <1>4, <3>2
    <2>2. PICK more \in Seq(Ids) : /\ more = Append(all, note) /\ Len(more) = Len(all) + 1
                                   /\ Range(more) = Range(all) \cup {note}
        <3>1. Append(all, note) \in Seq(Ids)
            BY <2>1, RangeAppend
        <3>2. /\ Len(Append(all, note)) = Len(all) + 1
              /\ Range(Append(all, note)) = Range(all) \cup {note}
            BY <2>1, RangeAppend
        <3> QED BY <3>1, <3>2
    <2>3. PICK ids \in Seq(Ids) : ids = LastOf(more, MaxOutbox) /\ Range(ids) \subseteq Range(more)
        <3>1. MaxOutbox \in Nat /\ MaxOutbox <= Len(more)
            <4>1. Len(all) \in Nat /\ MaxOutbox \in Nat
                BY EventAssumption
            <4> QED BY <1>6, <2>2, <4>1
        <3> QED BY <3>1, LastOfKeeps
    <2>4. PICK s \in Seq(Ids) : s = Append(j.evs, note) /\ Range(s) = Range(j.evs) \cup {note}
        <3>1. Append(j.evs, note) \in Seq(Ids)
            BY <1>2, <2>1, RangeAppend
        <3>2. Range(Append(j.evs, note)) = Range(j.evs) \cup {note}
            BY <1>2, <2>1, RangeAppend
        <3> QED BY <3>1, <3>2
    <2>5. /\ Merge(j, ids, last + 1) \in Store
          /\ Merge(j, ids, last + 1).done = store.done \cup {j.cmd}
          /\ Merge(j, ids, last + 1).seq = IF last + 1 # j.from /\ last + 1 > store.seq THEN last + 1 ELSE store.seq
          /\ Range(Merge(j, ids, last + 1).outbox) =
                Range(store.outbox) \cup (Range(ids) \ Range(j.old))
        BY <1>0, <1>2, <2>1, MergeEffect
    <2>6. store' = Merge(j, ids, last + 1)
        BY <1>6, <2>2, <2>3
    <2>7. Range(ids) \subseteq Range(j.old) \cup Range(j.evs) \cup {note}
        BY <1>3, <2>2, <2>3
    <2>8. job' = [job EXCEPT ![g] = Sending(job[g].cmd, s)]
        BY <1>1, <1>6, <2>4
    <2>9. FinishDoes(g, ids, s, {note})
        BY <1>1, <1>4, <1>6, <2>1, <2>4, <2>5, <2>6, <2>7, <2>8 DEF FinishDoes
    <2> QED BY <2>9
<1> QED BY <1>1, <1>3, <1>4, <1>5, <1>6 DEF Finish

(* The command has ended.                                                  *)
LEMMA FinishSafe ==
    ASSUME EventInv, NEW g \in Conns, Finish(g)
    PROVE  EventInv' /\ NothingReturns
<1>0. TypeOK /\ KnownInv /\ KnownAt(g) /\ AckAt(g)
    BY AtG
<1>1. UNCHANGED <<log, replay, n2c, ingest, c2n, opened, nodeEnd, coreEnd,
                  active, resolved, count>>
      /\ kept' = kept \cup Range(store'.outbox) /\ job[g].pc = "run"
    BY DEF Finish, linkVars, coreVars
<1>2. PICK ids, s, N : FinishDoes(g, ids, s, N)
    BY FinishEffect
<1>3. /\ born' \in Seq(Event) /\ Len(born') <= MaxEvents /\ Made' = Made \cup N
      /\ N \cap Made = {} /\ N \subseteq Ids /\ \A i \in Made : born'[i] = born[i]
    <2>1. CASE N = {} /\ born' = born
        BY <1>0, <2>1 DEF KnownInv, TypeOK, Made
    <2>2. CASE /\ N = {Len(born) + 1} /\ Len(born) < MaxEvents
               /\ \E e \in Event : born' = Append(born, e)
        BY <1>0, <2>2, Generated
    <2>3. [cmd |-> NoCommand, seq |-> job[g].from + Len(job[g].evs) + 1] \in Event
        <3>1. job[g].from + Len(job[g].evs) + 1 \in Nat
            BY <1>0, Parts
        <3> QED BY <3>1 DEF Event
    <2> QED BY <1>2, <2>1, <2>2, <2>3 DEF FinishDoes
<1>4. /\ job' \in [Conns -> Job] /\ job'[g].pc = "send" /\ job'[g].old = <<>> /\ job'[g].evs = s
      /\ job'[g].cmd \in Commands
      /\ \A h \in Conns : h # g => job'[h] = job[h]
    <2>1. job[g].cmd \in Commands /\ s \in Seq(Ids)
        BY <1>0, <1>1, <1>2 DEF KnownAt, FinishDoes
    <2>2. PICK j : j = Sending(job[g].cmd, s)
        OBVIOUS
    <2>3. j \in Job /\ j.pc = "send" /\ j.old = <<>> /\ j.evs = s /\ j.cmd = job[g].cmd
        BY <2>1, <2>2, Records
    <2>4. job \in [Conns -> Job] /\ job' = [job EXCEPT ![g] = j]
        BY <1>0, <1>2, <2>2 DEF TypeOK, FinishDoes
    <2> QED BY <2>1, <2>3, <2>4
<1>5. PICK F : F = Range(ids) \ Range(job[g].old)
    OBVIOUS
<1>6. /\ F \subseteq Range(job[g].evs) \cup N /\ Range(store'.outbox) = Range(store.outbox) \cup F
      /\ kept' = kept \cup F /\ store' \in Store /\ Range(s) = Range(job[g].evs) \cup N
    BY <1>0, <1>1, <1>2, <1>5 DEF FinishDoes, KnownInv
<1>7. Range(job[g].evs) \subseteq Made /\ kept \subseteq Made
    BY <1>0 DEF KnownInv, KnownAt
<1>8. TypeOK'
    <2>1. Made \subseteq Ids
        BY <1>0, EventAssumption DEF KnownInv, Made, Ids, TypeOK
    <2>2. kept' \subseteq Ids
        BY <1>3, <1>6, <1>7, <2>1
    <2> QED BY <1>0, <1>1, <1>3, <1>4, <1>6, <2>2 DEF TypeOK
<1>9. KnownInv'
    <2>1. ASSUME NEW h \in Conns PROVE KnownAt(h)'
        <3>1. KnownAt(h) /\ n2c[h] \in Seq(Frame)
            BY <1>0 DEF KnownInv, TypeOK
        <3>2. Carry(n2c[h], Made')
            BY <1>3, <3>1, CarryMoves DEF KnownAt
        <3>3. Range(job'[h].old) \subseteq Made' /\ Range(job'[h].evs) \subseteq Made'
            BY <1>3, <1>4, <1>6, <1>7, <3>1, RangeShort DEF KnownAt
        <3> QED BY <1>1, <1>3, <1>4, <3>1, <3>2, <3>3 DEF KnownAt
    <2>2. Range(store'.outbox) \subseteq kept' /\ kept' \subseteq Made'
        BY <1>0, <1>3, <1>6, <1>7 DEF KnownInv
    <2>3. Range(log') \subseteq Made'
        BY <1>0, <1>1, <1>3 DEF KnownInv
    <2> QED BY <1>3, <2>1, <2>2, <2>3 DEF KnownInv
<1>10. F \cap kept = {} /\ \A h \in Conns \ {g} : job[h].pc = "run" => F \cap Range(job[h].evs) = {}
    BY <1>0, <1>1, <1>3, <1>6, <1>7 DEF EventInv, RunInv, KnownInv, KnownAt
<1>11. RunInv'
    BY <1>4, <1>6, <1>10 DEF EventInv, RunInv
<1>12. AckInv'
    BY <1>1 DEF EventInv, AckInv, AckAt
<1>13. StoredOnce'
    BY <1>1, <1>3, TableStays
<1>14. KeptOrStored' /\ NothingReturns
    BY <1>1, <1>6, <1>10 DEF EventInv, KeptOrStored, NothingReturns
<1> QED BY <1>8, <1>9, <1>11, <1>12, <1>13, <1>14 DEF EventInv

(* An acknowledgement is read.                                             *)
LEMMA AckSafe ==
    ASSUME EventInv, NEW g \in Conns, ReceiveAck(g)
    PROVE  EventInv' /\ NothingReturns
<1>0. TypeOK /\ KnownInv /\ KnownAt(g) /\ AckAt(g)
    BY AtG
<1>1. UNCHANGED <<born, log, kept, job, replay, n2c, ingest, opened, nodeEnd, coreEnd,
                  active, resolved, count>>
    BY DEF ReceiveAck, linkVars, coreVars
<1>2. PICK q : q = c2n[g]
    OBVIOUS
<1>3. /\ q \in Seq(SUBSET Ids) /\ q # <<>> /\ Tail(q) \in Seq(SUBSET Ids) /\ Head(q) = q[1]
      /\ 1 \in DOMAIN q /\ \A i \in DOMAIN Tail(q) : i + 1 \in DOMAIN q /\ Tail(q)[i] = q[i + 1]
    BY <1>0, <1>2, RangeTail, RangeOf DEF TypeOK, ReceiveAck
<1>4. c2n' \in [Conns -> Seq(SUBSET Ids)] /\ c2n'[g] = Tail(q)
      /\ \A h \in Conns : h # g => c2n'[h] = c2n[h]
    BY <1>0, <1>2, <1>3 DEF TypeOK, ReceiveAck
<1>5. PICK D : D = q[1]
    OBVIOUS
<1>6. D \subseteq Range(log)
    BY <1>0, <1>2, <1>3, <1>5 DEF AckAt
<1>7. /\ Without(store.outbox, D) \in Seq(Ids)
      /\ Range(Without(store.outbox, D)) = Range(store.outbox) \ D
    BY <1>0, Parts, WithoutRange
<1>8. store' \in Store /\ Range(store'.outbox) = Range(store.outbox) \ D
    <2>1. store' = [store EXCEPT !.outbox = Without(store.outbox, D)]
        BY <1>2, <1>3, <1>5 DEF ReceiveAck
    <2> QED BY <1>0, <1>7, <2>1 DEF TypeOK, Store
<1>9. TypeOK'
    BY <1>0, <1>1, <1>4, <1>8 DEF TypeOK
<1>10. KnownInv' /\ RunInv'
    BY <1>0, <1>1, <1>8 DEF EventInv, KnownInv, KnownAt, Made, RunInv
<1>11. AckInv'
    <2>1. AckAt(g)'
        BY <1>0, <1>1, <1>2, <1>3, <1>4 DEF AckAt
    <2>2. \A h \in Conns : h # g => AckAt(h)'
        BY <1>1, <1>4 DEF EventInv, AckInv, AckAt
    <2> QED BY <2>1, <2>2 DEF AckInv
<1>12. StoredOnce'
    BY <1>1, TableStays
<1>13. KeptOrStored' /\ NothingReturns
    BY <1>1, <1>6, <1>8 DEF EventInv, KeptOrStored, NothingReturns
<1> QED BY <1>9, <1>10, <1>11, <1>12, <1>13 DEF EventInv

(* Core reads a frame.                                                     *)
LEMMA ReadSafe ==
    ASSUME EventInv, NEW g \in Conns, ReceiveHello(g) \/ ReceiveResult(g) \/ BeginBatch(g)
    PROVE  EventInv' /\ NothingReturns
<1>0. TypeOK /\ KnownInv /\ KnownAt(g) /\ AckAt(g)
    BY AtG
<1>1. UNCHANGED <<born, store, log, kept, job, replay, c2n, opened, nodeEnd, coreEnd, count>>
    BY DEF ReceiveHello, ReceiveResult, BeginBatch, linkVars
<1>2. \E kind : Receiving(g, kind) /\ Consume(g)
    BY DEF ReceiveHello, ReceiveResult, BeginBatch
<1>3. /\ n2c' \in [Conns -> Seq(Frame)] /\ n2c[g] # <<>> /\ n2c'[g] = Tail(n2c[g])
      /\ Head(n2c[g]) = n2c[g][1] /\ n2c[g][1] \in Frame
      /\ \A h \in Conns : h # g => n2c'[h] = n2c[h]
    BY <1>0, <1>2, TakeEffect
<1>4. Carry(n2c'[g], Made) /\ Sound(n2c[g][1], Made)
    <2>1. n2c[g] \in Seq(Frame) /\ Carry(n2c[g], Made)
        BY <1>0 DEF TypeOK, KnownAt
    <2> QED BY <1>3, <2>1, CarryMoves
<1>5. PICK b : b = Storing(n2c[g][1].ids)
    OBVIOUS
<1>6. /\ b \in [busy : BOOLEAN, rest : Seq(Ids), all : SUBSET Ids]
      /\ b.rest = n2c[g][1].ids /\ b.all = Range(n2c[g][1].ids)
    BY <1>0, <1>3, <1>5, Parts, Records
<1>7. /\ ingest' \in [Conns -> [busy : BOOLEAN, rest : Seq(Ids), all : SUBSET Ids]]
      /\ ingest'[g] \in {ingest[g], b}
      /\ \A h \in Conns : h # g => ingest'[h] = ingest[h]
    <2>1. ingest' = ingest \/ ingest' = [ingest EXCEPT ![g] = b]
        BY <1>3, <1>5 DEF ReceiveHello, ReceiveResult, BeginBatch
    <2>2. ingest \in [Conns -> [busy : BOOLEAN, rest : Seq(Ids), all : SUBSET Ids]]
        BY <1>0 DEF TypeOK
    <2> QED BY <1>6, <2>1, <2>2
<1>8. TypeOK'
    <2>1. active' \in 0 .. MaxConns
        BY <1>0 DEF ReceiveHello, ReceiveResult, BeginBatch, TypeOK, Conns
    <2>2. resolved' \subseteq Commands
        <3>1. CASE ReceiveResult(g)
            <4>1. n2c[g][1].cmd \in Commands
                BY <1>3, <1>4, <3>1 DEF ReceiveResult, Receiving, Sound
            <4> QED BY <1>0, <1>3, <3>1, <4>1 DEF ReceiveResult, TypeOK
        <3>2. CASE ~ReceiveResult(g)
            BY <1>0, <3>2 DEF ReceiveHello, BeginBatch, TypeOK
        <3> QED BY <3>1, <3>2
    <2> QED BY <1>0, <1>1, <1>3, <1>7, <2>1, <2>2 DEF TypeOK
<1>9. KnownAt(g)' /\ AckAt(g)' /\ SameRun(g)
    BY <1>0, <1>1, <1>4, <1>6, <1>7 DEF KnownAt, AckAt, SameRun, Made, Sound
<1>10. \A h \in Conns : h # g => KnownAt(h)' /\ AckAt(h)' /\ SameRun(h)
    <2>1. \A h \in Conns : h # g => Untouched(h)
        BY <1>1, <1>3, <1>7 DEF Untouched
    <2> QED BY <1>1, <2>1, OthersRest
<1> QED BY <1>1, <1>8, <1>9, <1>10, StoresRest

(* An event that is new by id and by number joins the table.               *)
LEMMA TableGrows ==
    ASSUME EventInv, born' = born, NEW i \in Made, ~Stored(i), ~Conflict(i), log' = Append(log, i)
    PROVE  /\ log' \in Seq(Ids) /\ Range(log') = Range(log) \cup {i} /\ StoredOnce'
           /\ Range(log') \subseteq Made
<1>0. /\ log \in Seq(Ids) /\ i \in Ids /\ Range(log) \subseteq Made
      /\ DOMAIN log = 1 .. Len(log) /\ Len(log) \in Nat
    BY EventAssumption DEF EventInv, KnownInv, TypeOK, Made, Ids
<1>1. PICK L : L = Append(log, i)
    OBVIOUS
<1>2. /\ L \in Seq(Ids) /\ Range(L) = Range(log) \cup {i}
      /\ DOMAIN L = DOMAIN log \cup {Len(log) + 1} /\ L[Len(log) + 1] = i
      /\ \A m \in DOMAIN log : L[m] = log[m]
    BY <1>0, <1>1, RangeAppend
<1>3. ASSUME NEW m \in DOMAIN log PROVE log[m] # i /\ born[log[m]].seq # born[i].seq
    <2>1. log[m] \in Range(log)
        BY DEF Range
    <2> QED BY <2>1 DEF Stored, Conflict
<1>4. ASSUME NEW m \in DOMAIN L, NEW n \in DOMAIN L,
             L[m] = L[n] \/ born[L[m]].seq = born[L[n]].seq
      PROVE  m = n
    <2>1. CASE m \in DOMAIN log /\ n \in DOMAIN log
        BY <1>2, <1>4, <2>1 DEF EventInv, StoredOnce
    <2>2. CASE m = Len(log) + 1 /\ n \in DOMAIN log
        BY <1>2, <1>3, <1>4, <2>2
    <2>3. CASE n = Len(log) + 1 /\ m \in DOMAIN log
        BY <1>2, <1>3, <1>4, <2>3
    <2> QED BY <1>2, <2>1, <2>2, <2>3
<1>5. StoredOnce'
    BY <1>1, <1>4 DEF StoredOnce
<1> QED BY <1>0, <1>1, <1>2, <1>5

(* What Core's socket does with an event of a batch.                       *)
StoreDoes(g, rest, i, L) ==
    /\ i \in Made /\ Range(ingest[g].rest) = {i} \cup Range(rest) /\ rest \in Seq(Ids)
    /\ \/ log' = log
       \/ ~Stored(i) /\ ~Conflict(i) /\ log' = Append(log, i)
    /\ L = Range(log')
    /\ \/ /\ ingest' = [ingest EXCEPT ![g].rest = rest]
          /\ i \in L
       \/ ingest' = [ingest EXCEPT ![g] = Idle]
    /\ Range(log) \subseteq L

(* That is what it does, and the table is still in order.                  *)
LEMMA StoreEffect ==
    ASSUME EventInv, NEW g \in Conns, AcceptEvent(g) \/ IngestError(g)
    PROVE  /\ born' = born /\ ingest[g].busy
           /\ \E rest, i, L : StoreDoes(g, rest, i, L)
           /\ log' \in Seq(Ids) /\ Range(log') \subseteq Made /\ StoredOnce'
<1>0. TypeOK /\ KnownInv /\ KnownAt(g)
    BY AtG
<1>1. born' = born /\ ingest[g].busy /\ ingest[g].rest # <<>>
    BY DEF AcceptEvent, IngestError
<1>2. PICK r : r = ingest[g].rest
    OBVIOUS
<1>3. /\ r \in Seq(Ids) /\ r # <<>> /\ Tail(r) \in Seq(Ids) /\ Head(r) = r[1]
      /\ Range(r) = {r[1]} \cup Range(Tail(r))
    BY <1>0, <1>1, <1>2, RangeTail, Parts
<1>4. PICK i : i = r[1]
    OBVIOUS
<1>5. i \in Made
    BY <1>0, <1>2, <1>3, <1>4 DEF KnownAt
<1>6. log' = log \/ (~Stored(i) /\ ~Conflict(i) /\ log' = Append(log, i))
    BY <1>2, <1>3, <1>4 DEF AcceptEvent, IngestError
<1>7. /\ log' \in Seq(Ids) /\ Range(log') \subseteq Made /\ StoredOnce'
      /\ log' # log => Range(log') = Range(log) \cup {i}
    <2>1. CASE log' = log
        BY <1>0, <1>1, <2>1, TableStays DEF TypeOK, KnownInv
    <2>2. CASE ~Stored(i) /\ ~Conflict(i) /\ log' = Append(log, i)
        BY <1>1, <1>5, <2>2, TableGrows
    <2> QED BY <1>6, <2>1, <2>2
<1>8. \/ ingest' = [ingest EXCEPT ![g].rest = Tail(r)] /\ i \in Range(log')
      \/ ingest' = [ingest EXCEPT ![g] = Idle]
    <2>1. CASE IngestError(g)
        BY <2>1 DEF IngestError
    <2>2. CASE AcceptEvent(g) /\ Stored(i) /\ log' = log /\ ingest' = [ingest EXCEPT ![g].rest = Tail(r)]
        BY <2>2 DEF Stored
    <2>3. CASE AcceptEvent(g) /\ ~Stored(i) /\ ~Conflict(i)
        <3>1. log' = Append(log, i) /\ ingest' = [ingest EXCEPT ![g].rest = Tail(r)]
            BY <1>2, <1>3, <1>4, <2>3 DEF AcceptEvent
        <3>2. Range(log') = Range(log) \cup {i}
            BY <1>1, <1>5, <2>3, <3>1, TableGrows
        <3> QED BY <3>1, <3>2
    <2>4. CASE AcceptEvent(g) /\ Conflict(i) /\ ingest' = [ingest EXCEPT ![g] = Idle]
        BY <2>4
    <2> QED BY <1>2, <1>3, <1>4, <2>1, <2>2, <2>3, <2>4 DEF AcceptEvent
<1>9. Range(log) \subseteq Range(log')
    BY <1>7
<1>10. StoreDoes(g, Tail(r), i, Range(log'))
    BY <1>2, <1>3, <1>4, <1>5, <1>6, <1>8, <1>9 DEF StoreDoes
<1> QED BY <1>1, <1>7, <1>10

(* An event of a batch is stored, is there, or ends the batch.             *)
LEMMA StoreSafe ==
    ASSUME EventInv, NEW g \in Conns, AcceptEvent(g) \/ IngestError(g)
    PROVE  EventInv' /\ NothingReturns
<1>0. TypeOK /\ KnownInv /\ KnownAt(g) /\ AckAt(g)
    BY AtG
<1>1. UNCHANGED <<born, store, kept, job, replay, n2c, c2n, opened, nodeEnd, coreEnd,
                  active, resolved>>
    BY DEF AcceptEvent, IngestError, linkVars
<1>2. PICK rest, i, L : StoreDoes(g, rest, i, L)
    BY StoreEffect
<1>3. log' \in Seq(Ids) /\ Range(log') \subseteq Made /\ StoredOnce' /\ Range(log) \subseteq Range(log')
    BY <1>2, StoreEffect DEF StoreDoes
<1>4. /\ ingest' \in [Conns -> [busy : BOOLEAN, rest : Seq(Ids), all : SUBSET Ids]]
      /\ \A h \in Conns : h # g => ingest'[h] = ingest[h]
      /\ \/ /\ ingest'[g].rest = rest /\ ingest'[g].all = ingest[g].all
            /\ i \in Range(log')
         \/ ingest'[g] = Idle
    <2>0. ingest \in [Conns -> [busy : BOOLEAN, rest : Seq(Ids), all : SUBSET Ids]]
        BY <1>0 DEF TypeOK
    <2>1. CASE ingest' = [ingest EXCEPT ![g].rest = rest] /\ i \in Range(log')
        <3>1. PICK b : b = [ingest[g] EXCEPT !.rest = rest]
            OBVIOUS
        <3>2. ingest' = [ingest EXCEPT ![g] = b]
            BY <2>1, <3>1
        <3>3. rest \in Seq(Ids)
            BY <1>2 DEF StoreDoes
        <3>4. /\ b \in [busy : BOOLEAN, rest : Seq(Ids), all : SUBSET Ids]
              /\ b.rest = rest /\ b.all = ingest[g].all
            BY <2>0, <3>1, <3>3, IngestChanged
        <3> QED BY <2>0, <2>1, <3>2, <3>4
    <2>2. CASE ingest' = [ingest EXCEPT ![g] = Idle]
        BY <2>0, <2>2, Records
    <2> QED BY <1>2, <2>1, <2>2 DEF StoreDoes
<1>5. TypeOK'
    <2>1. count' \in [Counters -> Nat]
        <3>1. count' = count \/ count' = [count EXCEPT !["ingest"] = count["ingest"] + 1]
            BY DEF AcceptEvent, IngestError
        <3> QED BY <1>0, <3>1 DEF TypeOK, Counters
    <2> QED BY <1>0, <1>1, <1>3, <1>4, <2>1 DEF TypeOK
<1>6. Range(ingest[g].rest) = {i} \cup Range(rest) /\ ingest[g].busy
    BY <1>2, StoreEffect DEF StoreDoes
<1>7. AckAt(g)' /\ KnownAt(g)'
    <2>1. ~Idle.busy /\ Range(Idle.rest) = {}
        BY Records, RangeShort
    <2>2. ingest'[g].busy => ingest'[g].all \subseteq Range(ingest'[g].rest) \cup Range(log')
        BY <1>0, <1>3, <1>4, <1>6, <2>1 DEF AckAt
    <2>3. Range(ingest'[g].rest) \subseteq Made
        BY <1>0, <1>4, <1>6, <2>1 DEF KnownAt
    <2> QED BY <1>0, <1>1, <1>3, <2>2, <2>3 DEF AckAt, KnownAt, Made
<1>8. \A h \in Conns : h # g => AckAt(h)' /\ KnownAt(h)'
    BY <1>1, <1>3, <1>4 DEF EventInv, AckInv, AckAt, KnownInv, KnownAt, Made
<1>9. KnownInv' /\ AckInv'
    BY <1>0, <1>1, <1>3, <1>7, <1>8 DEF KnownInv, AckInv, Made
<1>10. RunInv'
    BY <1>1 DEF EventInv, RunInv
<1>11. KeptOrStored' /\ NothingReturns
    BY <1>1, <1>3 DEF EventInv, KeptOrStored, NothingReturns
<1> QED BY <1>3, <1>5, <1>9, <1>10, <1>11 DEF EventInv

(* The batch is acknowledged.                                              *)
LEMMA AckBatchSafe ==
    ASSUME EventInv, NEW g \in Conns, AckBatch(g)
    PROVE  EventInv' /\ NothingReturns
<1>0. TypeOK /\ KnownInv /\ KnownAt(g) /\ AckAt(g)
    BY AtG
<1>1. UNCHANGED <<born, store, log, kept, job, replay, n2c, opened, nodeEnd, coreEnd,
                  active, resolved, count>>
    BY DEF AckBatch, linkVars
<1>2. PICK D : D = ingest[g].all
    OBVIOUS
<1>3. D \in SUBSET Ids /\ D \subseteq Range(log)
    BY <1>0, <1>2, Parts, RangeShort DEF AckBatch, AckAt
<1>4. /\ ingest' \in [Conns -> [busy : BOOLEAN, rest : Seq(Ids), all : SUBSET Ids]]
      /\ ingest'[g] = Idle
      /\ \A h \in Conns : h # g => ingest'[h] = ingest[h]
    BY <1>0, Records DEF AckBatch, TypeOK
<1>5. c2n' \in [Conns -> Seq(SUBSET Ids)] /\ \A h \in Conns : \A p \in DOMAIN c2n'[h] : c2n'[h][p] \subseteq Range(log)
    <2>0. c2n \in [Conns -> Seq(SUBSET Ids)] /\ \A h \in Conns : \A p \in DOMAIN c2n[h] : c2n[h][p] \subseteq Range(log)
        BY <1>0 DEF TypeOK, EventInv, AckInv, AckAt
    <2>1. CASE c2n' = c2n
        BY <2>0, <2>1
    <2>2. CASE active \in Conns /\ c2n' = [c2n EXCEPT ![active] = Append(c2n[active], D)]
        <3>1. PICK q : q = Append(c2n[active], D)
            OBVIOUS
        <3>2. /\ q \in Seq(SUBSET Ids) /\ DOMAIN q = DOMAIN c2n[active] \cup {Len(c2n[active]) + 1}
              /\ q[Len(c2n[active]) + 1] = D /\ \A p \in DOMAIN c2n[active] : q[p] = c2n[active][p]
            BY <1>3, <2>0, <2>2, <3>1, RangeAppend
        <3>3. \A p \in DOMAIN q : q[p] \subseteq Range(log)
            BY <1>3, <2>0, <2>2, <3>2
        <3>4. c2n' = [c2n EXCEPT ![active] = q]
            BY <2>2, <3>1
        <3> QED BY <2>0, <2>2, <3>2, <3>3, <3>4
    <2>3. active # 0 => active \in Conns
        BY <1>0, EventAssumption DEF TypeOK, Conns
    <2> QED BY <1>2, <2>1, <2>2, <2>3 DEF AckBatch
<1>6. TypeOK'
    BY <1>0, <1>1, <1>4, <1>5 DEF TypeOK
<1>7. ASSUME NEW h \in Conns PROVE KnownAt(h)' /\ AckAt(h)' /\ SameRun(h)
    <2>1. ~Idle.busy /\ Range(Idle.rest) = {} /\ KnownAt(h) /\ AckAt(h)
        BY AtG, Records, RangeShort
    <2>2. ingest'[h] = Idle \/ ingest'[h] = ingest[h]
        BY <1>4
    <2> QED BY <1>1, <1>5, <2>1, <2>2 DEF KnownAt, AckAt, SameRun, Made
<1> QED BY <1>1, <1>6, <1>7, StoresRest

(* Core's end is gone.                                                     *)
LEMMA EndSafe ==
    ASSUME EventInv, CoreRestart \/ \E g \in Conns : SocketEnd(g)
    PROVE  EventInv' /\ NothingReturns
<1>0. TypeOK /\ KnownInv
    BY DEF EventInv
<1>1. UNCHANGED <<born, store, log, kept, job, replay, c2n, opened, nodeEnd, resolved, count>>
    BY DEF CoreRestart, SocketEnd
<1>2. /\ n2c' \in [Conns -> Seq(Frame)] /\ coreEnd' \in [Conns -> BOOLEAN]
      /\ ingest' \in [Conns -> [busy : BOOLEAN, rest : Seq(Ids), all : SUBSET Ids]]
      /\ active' \in 0 .. MaxConns
      /\ \A h \in Conns : /\ n2c'[h] = n2c[h] \/ n2c'[h] = <<>>
                          /\ ingest'[h] = ingest[h] \/ ingest'[h] = Idle
    <2>0. <<>> \in Seq(Frame) /\ Idle \in [busy : BOOLEAN, rest : Seq(Ids), all : SUBSET Ids]
          /\ 0 \in 0 .. MaxConns
        BY Records, RangeShort, EventAssumption
    <2>1. CASE CoreRestart
        BY <1>0, <2>0, <2>1 DEF CoreRestart, TypeOK
    <2>2. CASE \E g \in Conns : SocketEnd(g)
        <3>1. PICK g \in Conns : SocketEnd(g)
            BY <2>2
        <3> QED BY <1>0, <2>0, <3>1 DEF SocketEnd, TypeOK
    <2> QED BY <2>1, <2>2
<1>3. TypeOK'
    BY <1>0, <1>1, <1>2 DEF TypeOK
<1>4. ASSUME NEW h \in Conns PROVE KnownAt(h)' /\ AckAt(h)' /\ SameRun(h)
    <2>1. ~Idle.busy /\ Range(Idle.rest) = {} /\ KnownAt(h) /\ AckAt(h)
        BY AtG, Records, RangeShort
    <2>2. Carry(<<>>, Made)
        BY RangeShort DEF Carry
    <2> QED BY <1>1, <1>2, <2>1, <2>2 DEF KnownAt, AckAt, SameRun, Made
<1> QED BY <1>1, <1>3, <1>4, StoresRest

(* The first state.                                                        *)
LEMMA EventStarts == Init => EventInv
<1> SUFFICES ASSUME Init PROVE EventInv
    OBVIOUS
<1>1. /\ born = <<>> /\ log = <<>> /\ kept = {} /\ store = [seq |-> 0, outbox |-> <<>>, done |-> {}]
      /\ Range(<<>>) = {} /\ Len(<<>>) = 0 /\ DOMAIN <<>> = {}
      /\ \A S : <<>> \in Seq(S)
    BY RangeShort DEF Init
<1>2. \A g \in Conns : /\ job[g] = NoJob /\ replay[g] = <<>> /\ n2c[g] = <<>> /\ c2n[g] = <<>>
                       /\ ingest[g] = Idle
    BY DEF Init
<1>3. /\ NoJob \in Job /\ NoJob.pc = "none" /\ NoJob.old = <<>> /\ NoJob.evs = <<>>
      /\ Idle \in [busy : BOOLEAN, rest : Seq(Ids), all : SUBSET Ids]
      /\ ~Idle.busy /\ Idle.rest = <<>>
    BY Records
<1>4. TypeOK
    <2>1. store \in Store /\ 0 \in 0 .. MaxConns
        BY <1>1, EventAssumption DEF Store
    <2> QED BY <1>1, <1>3, <2>1 DEF TypeOK, Init
<1>5. KnownInv /\ RunInv /\ AckInv /\ StoredOnce /\ KeptOrStored
    <2>1. ASSUME NEW g \in Conns PROVE KnownAt(g) /\ AckAt(g)
        BY <1>1, <1>2, <1>3 DEF KnownAt, AckAt, Carry
    <2> QED BY <1>1, <1>2, <1>3, <2>1, EventAssumption
            DEF KnownInv, RunInv, AckInv, StoredOnce, KeptOrStored, Made
<1> QED BY <1>4, <1>5 DEF EventInv

(* Every step.                                                             *)
LEMMA EventSteps == EventInv /\ [Next]_vars => EventInv' /\ NothingReturns
<1> SUFFICES ASSUME EventInv, [Next]_vars PROVE EventInv' /\ NothingReturns
    OBVIOUS
<1>1. ASSUME NEW g \in Conns, TaskStep(g) PROVE EventInv' /\ NothingReturns
    BY <1>1, EmitSafe, FinishSafe, SendSafe DEF TaskStep
<1>2. ASSUME NEW g \in Conns, ReadStep(g) PROVE EventInv' /\ NothingReturns
    BY <1>2, ReplaySafe, AckSafe DEF ReadStep
<1>3. ASSUME NEW g \in Conns, SocketStep(g) PROVE EventInv' /\ NothingReturns
    BY <1>3, ReadSafe, StoreSafe, AckBatchSafe DEF SocketStep
<1>4. ASSUME NEW g \in Conns, CloseChannel(g) \/ ReadError(g) \/ IngestError(g) \/ SocketEnd(g)
      PROVE EventInv' /\ NothingReturns
    BY <1>4, CloseSafe, StoreSafe, EndSafe
<1>5. ASSUME NEW g \in Conns, NEW c \in Commands, Dispatch(g, c) PROVE EventInv' /\ NothingReturns
    BY <1>5, DispatchSafe
<1>6. CASE Connect \/ CoreRestart
    BY <1>6, ConnectSafe, EndSafe
<1>7. CASE UNCHANGED vars
    <2>1. UNCHANGED <<born, store, job, replay, opened, nodeEnd, coreEnd, active, n2c, c2n,
                      ingest, log, resolved, kept, count>>
        BY <1>7 DEF vars
    <2>2. TypeOK'
        BY <2>1 DEF TypeOK, EventInv
    <2>3. \A g \in Conns : KnownAt(g)' /\ AckAt(g)' /\ SameRun(g)
        BY <2>1, OthersRest DEF Untouched
    <2> QED BY <2>1, <2>2, <2>3, StoresRest
<1> QED BY <1>1, <1>2, <1>3, <1>4, <1>5, <1>6, <1>7 DEF Next

(* The invariant of the transport: it holds whatever is lost, restarted or *)
(* sent again (accept_node_event, merge_command_state_from).               *)
THEOREM EventSafe == Spec => []EventInv
<1>1. EventInv /\ [Next]_vars => EventInv'
    BY EventSteps
<1> QED BY <1>1, EventStarts, PTL DEF Spec


(* KeptOrStored: an event that was saved in the Node's outbox is still     *)
(* there or in Core's table, whatever is lost, restarted or acknowledged   *)
(* meanwhile (persist_event_ack, an EventBatchAck after a batch that       *)
(* failed half-way).                                                       *)
THEOREM NothingSavedIsLost == Spec => []KeptOrStored
BY EventSafe, PTL DEF EventInv

(* StoredOnce: Core's table holds an id once and a sequence number once,   *)
(* also when two runs of a command used the same numbers                   *)
(* (accept_node_event, event.seq_conflict).                                *)
THEOREM NothingStoredTwice == Spec => []StoredOnce
BY EventSafe, PTL DEF EventInv

(* AckedStaysGone: an entry that left the outbox stays out, although every *)
(* command's task merges its own, older copy of the outbox into the store  *)
(* (merge_command_state_from).                                             *)
THEOREM AckedIsGone == Spec => AckedStaysGone
<1>1. EventInv /\ [Next]_vars => [NothingReturns]_vars
    BY EventSteps
<1>2. [NothingReturns]_vars => [\A i \in kept : i \notin Range(store.outbox) => i \notin Range(store'.outbox)]_vars
    BY DEF NothingReturns
<1> QED BY <1>1, <1>2, EventSafe, PTL DEF Spec, AckedStaysGone

-----------------------------------------------------------------------------
(* Without a fault, the events of a command arrive before its result.      *)

(* The events of a result f have been taken, or are in queue q.            *)
Answers(f, q, T, K, B) ==
    f.kind = "result" => \A i \in K : B[i].cmd = f.cmd => i \in T \/ OnWay(q, Len(q), i)

(* A frame is queued.                                                      *)
LEMMA AheadAppend ==
    ASSUME NEW q \in Seq(Frame), NEW f \in Frame, NEW r, r = Append(q, f), Framed(q),
           f.kind # "hello", f.kind # "batch" => f.ids = <<>>
    PROVE  /\ Framed(r) /\ Len(r) = Len(q) + 1
           /\ \A i : OnWay(q, Len(q), i) \/ i \in Range(f.ids) => OnWay(r, Len(r), i)
           /\ (1 \in DOMAIN r /\ r[1].kind = "hello") => (1 \in DOMAIN q /\ q[1].kind = "hello")
           /\ \A T, K, B : Ahead(q, T, K, B) /\ Answers(f, q, T, K, B) => Ahead(r, T, K, B)
<1>1. /\ Len(r) = Len(q) + 1 /\ DOMAIN r = DOMAIN q \cup {Len(q) + 1} /\ r[Len(q) + 1] = f
      /\ \A p \in DOMAIN q : r[p] = q[p]
    BY RangeAppend
<1>2. DOMAIN q = 1 .. Len(q) /\ Len(q) \in Nat
    OBVIOUS
<1>3. Framed(r)
    BY <1>1 DEF Framed
<1>4. ASSUME NEW p \in DOMAIN q, NEW i, OnWay(q, p, i) PROVE OnWay(r, p, i)
    BY <1>1, <1>4 DEF OnWay
<1>5. ASSUME NEW i, OnWay(q, Len(q), i) \/ i \in Range(f.ids) PROVE OnWay(r, Len(r), i)
    <2>1. CASE i \in Range(f.ids)
        BY <1>1, <1>2, <2>1 DEF OnWay
    <2>2. CASE OnWay(q, Len(q), i)
        BY <1>1, <1>2, <2>2 DEF OnWay
    <2> QED BY <1>5, <2>1, <2>2
<1>6. ASSUME 1 \in DOMAIN r, r[1].kind = "hello" PROVE 1 \in DOMAIN q /\ q[1].kind = "hello"
    <2>1. 1 \in DOMAIN q
        BY <1>1, <1>6
    <2> QED BY <1>1, <1>6, <2>1
<1>7. ASSUME NEW T, NEW K, NEW B, Ahead(q, T, K, B), Answers(f, q, T, K, B)
      PROVE  Ahead(r, T, K, B)
    <2> SUFFICES ASSUME NEW p \in DOMAIN r, r[p].kind = "result",
                        NEW i \in K, B[i].cmd = r[p].cmd, i \notin T
                 PROVE  OnWay(r, p, i)
        BY DEF Ahead
    <2>1. CASE p \in DOMAIN q
        <3>1. OnWay(q, p, i)
            BY <1>1, <1>7, <2>1 DEF Ahead
        <3> QED BY <1>4, <2>1, <3>1
    <2>2. CASE p = Len(q) + 1
        <3>1. OnWay(q, Len(q), i)
            BY <1>1, <1>7, <2>2 DEF Answers
        <3> QED BY <1>1, <1>5, <2>2, <3>1
    <2> QED BY <1>1, <2>1, <2>2
<1> QED BY <1>1, <1>3, <1>5, <1>6, <1>7

(* The first frame is taken.                                               *)
LEMMA AheadTail ==
    ASSUME NEW q \in Seq(Frame), q # <<>>, NEW r, r = Tail(q), Framed(q)
    PROVE  /\ Framed(r) /\ ~(1 \in DOMAIN r /\ r[1].kind = "hello")
           /\ \A i : OnWay(q, Len(q), i) => i \in Range(q[1].ids) \/ OnWay(r, Len(r), i)
           /\ \A T, U, K, B :
                 Ahead(q, T, K, B) /\ T \cup Range(q[1].ids) \subseteq U => Ahead(r, U, K, B)
           /\ \A T, K, B :
                 Ahead(q, T, K, B) /\ q[1].kind = "result"
                     => \A i \in K : B[i].cmd = q[1].cmd => i \in T
<1>1. /\ r \in Seq(Frame) /\ Len(r) = Len(q) - 1 /\ 1 \in DOMAIN q
      /\ \A p \in DOMAIN r : p + 1 \in DOMAIN q /\ r[p] = q[p + 1]
    BY RangeTail, RangeOf
<1>2. /\ DOMAIN q = 1 .. Len(q) /\ Len(q) \in Nat /\ DOMAIN r = 1 .. Len(r) /\ Len(r) \in Nat
    BY <1>1
<1>3. \A p \in DOMAIN r : r[p].kind # "hello" /\ (r[p].kind # "batch" => r[p].ids = <<>>)
    <2>1. \A p \in DOMAIN r : p + 1 # 1
        BY <1>2
    <2> QED BY <1>1, <2>1 DEF Framed
<1>4. Framed(r) /\ ~(1 \in DOMAIN r /\ r[1].kind = "hello")
    BY <1>3 DEF Framed
<1>5. ASSUME NEW n \in Nat, NEW i, OnWay(q, n + 1, i)
      PROVE  i \in Range(q[1].ids) \/ OnWay(r, n, i)
    <2>1. PICK p \in DOMAIN q : p <= n + 1 /\ i \in Range(q[p].ids)
        BY <1>5 DEF OnWay
    <2>2. CASE p # 1
        <3>1. p - 1 \in DOMAIN r /\ p - 1 <= n /\ (p - 1) + 1 = p
            BY <1>1, <1>2, <2>1, <2>2
        <3>2. r[p - 1] = q[p]
            BY <1>1, <3>1
        <3> QED BY <2>1, <3>1, <3>2 DEF OnWay
    <2> QED BY <2>1, <2>2
<1>6. ASSUME NEW i, OnWay(q, Len(q), i) PROVE i \in Range(q[1].ids) \/ OnWay(r, Len(r), i)
    <2>1. Len(q) = Len(r) + 1
        BY <1>1, <1>2
    <2> QED BY <1>2, <1>5, <1>6, <2>1
<1>7. ASSUME NEW T, NEW U, NEW K, NEW B, Ahead(q, T, K, B), T \cup Range(q[1].ids) \subseteq U
      PROVE  Ahead(r, U, K, B)
    <2> SUFFICES ASSUME NEW p \in DOMAIN r, r[p].kind = "result",
                        NEW i \in K, B[i].cmd = r[p].cmd, i \notin U
                 PROVE  OnWay(r, p, i)
        BY DEF Ahead
    <2>1. OnWay(q, p + 1, i)
        BY <1>1, <1>7 DEF Ahead
    <2> QED BY <1>2, <1>5, <1>7, <2>1
<1>8. ASSUME NEW T, NEW K, NEW B, Ahead(q, T, K, B), q[1].kind = "result",
             NEW i \in K, B[i].cmd = q[1].cmd
      PROVE  i \in T
    <2>1. i \in T \/ OnWay(q, 1, i)
        BY <1>1, <1>8 DEF Ahead
    <2>2. ASSUME OnWay(q, 1, i) PROVE FALSE
        <3>1. PICK p \in DOMAIN q : p <= 1 /\ i \in Range(q[p].ids)
            BY <2>2 DEF OnWay
        <3>2. p = 1
            BY <1>2, <3>1
        <3>3. Range(q[1].ids) = {}
            BY <1>1, <1>8, RangeShort DEF Framed
        <3> QED BY <3>1, <3>2, <3>3
    <2> QED BY <2>1, <2>2
<1> QED BY <1>4, <1>6, <1>7, <1>8

(* A connection the step leaves alone: more may arrive meanwhile.          *)
LEMMA AheadRests ==
    ASSUME NEW g \in Conns, AheadAt(g), n2c'[g] = n2c[g], Heard(g)' => Heard(g),
           Taken(g) \subseteq Taken(g)', kept' = kept, \A i \in kept : born'[i] = born[i],
           job'[g] = job[g] \/ job'[g].pc # "send"
    PROVE  AheadAt(g)'
<1>1. Framed(n2c'[g])
    BY DEF AheadAt
<1>2. ASSUME Heard(g) PROVE Ahead(n2c'[g], Taken(g)', kept', born')
    BY <1>2 DEF AheadAt, Ahead
<1>3. ASSUME Heard(g) PROVE SentAt(g)'
    BY <1>3 DEF AheadAt, SentAt
<1> QED BY <1>1, <1>2, <1>3 DEF AheadAt

(* A connection that is not heard.                                         *)
LEMMA Unheard ==
    ASSUME NEW g \in Conns, Framed(n2c'[g]), ~Heard(g)'
    PROVE  AheadAt(g)'
BY DEF AheadAt

(* The results that travel.                                                *)
LEMMA ResultsMove ==
    ASSUME NEW D, NEW q \in Seq(Frame), Results(q, D)
    PROVE  /\ \A f \in Frame : (f.kind = "result" => f.cmd \in D) => Results(Append(q, f), D)
           /\ q # <<>> => Results(Tail(q), D) /\ (q[1].kind = "result" => q[1].cmd \in D)
           /\ \A E : D \subseteq E => Results(q, E)
<1>1. ASSUME NEW f \in Frame, f.kind = "result" => f.cmd \in D PROVE Results(Append(q, f), D)
    <2>1. PICK r : r = Append(q, f)
        OBVIOUS
    <2>2. /\ DOMAIN r = DOMAIN q \cup {Len(q) + 1} /\ r[Len(q) + 1] = f
          /\ \A i \in DOMAIN q : r[i] = q[i]
        BY <2>1, RangeAppend
    <2>3. Results(r, D)
        BY <1>1, <2>2 DEF Results
    <2> QED BY <2>1, <2>3
<1>2. ASSUME q # <<>> PROVE Results(Tail(q), D) /\ (q[1].kind = "result" => q[1].cmd \in D)
    <2>1. PICK r : r = Tail(q)
        OBVIOUS
    <2>2. 1 \in DOMAIN q /\ \A i \in DOMAIN r : i + 1 \in DOMAIN q /\ r[i] = q[i + 1]
        BY <1>2, <2>1, RangeTail, RangeOf
    <2>3. Results(r, D)
        BY <2>2 DEF Results
    <2> QED BY <2>1, <2>2, <2>3 DEF Results
<1>3. \A E : D \subseteq E => Results(q, E)
    BY DEF Results
<1> QED BY <1>1, <1>2, <1>3

(* Only one task is at work.                                               *)
LEMMA OneTask ==
    ASSUME OneChannel, NEW g \in Conns, job[g].pc # "none"
    PROVE  /\ nodeEnd[g] = "open" /\ g = opened
           /\ \A h \in Conns : h # g => job[h].pc = "none" /\ nodeEnd[h] # "open"
BY DEF OneChannel

(* A fault is no longer undone.                                            *)
LEMMA FaultCounts ==
    ASSUME TypeOK, NEW f \in Counters \ {"dispatch"},
           count' = [count EXCEPT ![f] = count[f] + 1]
    PROVE  ~Clean'
<1>1. count \in [Counters -> Nat]
    BY DEF TypeOK
<1>2. count'[f] = count[f] + 1 /\ count[f] \in Nat
    BY <1>1
<1>3. count'[f] # 0
    BY <1>2
<1> QED BY <1>3 DEF Clean

(* What Core does changes nothing at the Node.                             *)
LEMMA CalmAtCore ==
    ASSUME EventInv, Calm, UNCHANGED <<born, store, job, opened, nodeEnd, kept>>,
           \A g \in Conns : (coreEnd'[g] => coreEnd[g]) /\ Results(n2c'[g], store.done),
           resolved' \subseteq store.done, AheadInv', ResolvedInv'
    PROVE  Calm'
<1>1. OneChannel'
    BY DEF Calm, OneChannel
<1>2. NumberInv'
    BY DEF Calm, NumberInv, Made
<1>3. DoneInv'
    BY DEF Calm, DoneInv
<1> QED BY <1>1, <1>2, <1>3 DEF Calm

(* Core reads a frame.                                                     *)
LEMMA ReadCalm ==
    ASSUME EventInv, Calm, NEW g \in Conns, ReceiveHello(g) \/ ReceiveResult(g) \/ BeginBatch(g)
    PROVE  Calm'
<1>0. TypeOK /\ n2c[g] \in Seq(Frame)
    BY DEF EventInv, TypeOK
<1>1. UNCHANGED <<born, store, log, kept, job, replay, c2n, opened, nodeEnd, coreEnd, count>>
    BY DEF ReceiveHello, ReceiveResult, BeginBatch, linkVars
<1>2. PICK kind : Receiving(g, kind) /\ Consume(g)
    BY DEF ReceiveHello, ReceiveResult, BeginBatch
<1>3. /\ n2c[g] # <<>> /\ n2c'[g] = Tail(n2c[g]) /\ coreEnd[g] /\ ~ingest[g].busy
      /\ Head(n2c[g]) = n2c[g][1] /\ n2c[g][1] \in Frame /\ n2c[g][1].kind = kind
      /\ 1 \in DOMAIN n2c[g]
      /\ \A h \in Conns : h # g => n2c'[h] = n2c[h]
    BY <1>0, <1>2, TakeEffect
<1>4. PICK f : f = n2c[g][1]
    OBVIOUS
<1>5. /\ Framed(n2c'[g]) /\ ~(1 \in DOMAIN n2c'[g] /\ n2c'[g][1].kind = "hello")
      /\ \A i : OnWay(n2c[g], Len(n2c[g]), i) => i \in Range(f.ids) \/ OnWay(n2c'[g], Len(n2c'[g]), i)
      /\ \A T, U, K, B : Ahead(n2c[g], T, K, B) /\ T \cup Range(f.ids) \subseteq U => Ahead(n2c'[g], U, K, B)
      /\ \A T, K, B : Ahead(n2c[g], T, K, B) /\ f.kind = "result"
                          => \A i \in K : B[i].cmd = f.cmd => i \in T
    <2>1. Framed(n2c[g])
        BY DEF Calm, AheadInv, AheadAt
    <2> QED BY <1>0, <1>3, <1>4, <2>1, AheadTail
<1>6. /\ f.kind # "batch" => Range(f.ids) = {}
      /\ Heard(g)' => active' = g
    <2>1. f.kind # "batch" => f.ids = <<>>
        BY <1>3, <1>4 DEF Calm, AheadInv, AheadAt, Framed
    <2> QED BY <1>5, <2>1, RangeShort DEF Heard
<1>7. ASSUME Heard(g)'
      PROVE  Heard(g) /\ Taken(g) \cup Range(f.ids) \subseteq Taken(g)'
    <2>1. CASE ReceiveHello(g)
        <3>1. Heard(g) /\ f.kind = "hello" /\ ingest' = ingest
            BY <1>3, <1>4, <2>1 DEF Heard, ReceiveHello, Receiving
        <3> QED BY <1>1, <1>6, <3>1 DEF Taken
    <2>2. CASE ReceiveResult(g)
        <3>1. f.kind = "result" /\ ingest' = ingest /\ active' = active
            BY <1>3, <1>4, <2>2 DEF ReceiveResult, Receiving
        <3> QED BY <1>1, <1>3, <1>6, <1>7, <3>1 DEF Taken, Heard
    <2>3. CASE BeginBatch(g)
        <3>1. active' = active /\ active = g
            BY <1>6, <1>7, <2>3 DEF BeginBatch
        <3>2. ingest' = [ingest EXCEPT ![g] = Storing(f.ids)] /\ f.ids \in Seq(Ids)
            BY <1>0, <1>3, <1>4, <2>3, <3>1, Parts DEF BeginBatch
        <3>3. ingest'[g].busy /\ ingest'[g].rest = f.ids
            BY <1>0, <3>2, Records DEF TypeOK
        <3> QED BY <1>1, <1>3, <3>1, <3>3 DEF Taken, Heard
    <2> QED BY <2>1, <2>2, <2>3
<1>8. AheadAt(g)'
    <2>1. CASE Heard(g)'
        <3>1. Ahead(n2c[g], Taken(g), kept, born) /\ SentAt(g)
            BY <1>7, <2>1 DEF Calm, AheadInv, AheadAt
        <3>2. Ahead(n2c'[g], Taken(g)', kept', born')
            BY <1>1, <1>5, <1>7, <2>1, <3>1
        <3>3. SentAt(g)'
            BY <1>1, <1>5, <1>7, <2>1, <3>1 DEF SentAt
        <3> QED BY <1>5, <3>2, <3>3 DEF AheadAt
    <2> QED BY <1>5, <2>1, Unheard
<1>9. \A h \in Conns : h # g => AheadAt(h)'
    <2> SUFFICES ASSUME NEW h \in Conns, h # g PROVE AheadAt(h)'
        OBVIOUS
    <2>0. h # g
        OBVIOUS
    <2>1. ingest'[h] = ingest[h] /\ (active' = h => active = h)
        BY <1>0, <2>0 DEF ReceiveHello, ReceiveResult, BeginBatch, TypeOK
    <2> QED BY <1>1, <1>3, <2>1, AheadRests DEF Calm, AheadInv, Heard, Taken
<1>10. /\ \A h \in Conns : Results(n2c'[h], store.done)
       /\ f.kind = "result" => f.cmd \in store.done
    <2>1. Results(n2c'[g], store.done) /\ (f.kind = "result" => f.cmd \in store.done)
        <3>1. Results(n2c[g], store.done)
            BY DEF Calm, DoneInv
        <3> QED BY <1>0, <1>3, <1>4, <3>1, ResultsMove
    <2> QED BY <1>3, <2>1 DEF Calm, DoneInv
<1>11. resolved' \subseteq store.done /\ ResolvedInv'
    <2>1. CASE resolved' = resolved
        BY <1>1, <2>1 DEF Calm, DoneInv, ResolvedInv
    <2>2. CASE ReceiveResult(g) /\ active = g
        <3>1. f.kind = "result" /\ resolved' = resolved \cup {f.cmd} /\ Heard(g)
            BY <1>3, <1>4, <2>2 DEF ReceiveResult, Receiving, Heard
        <3>2. \A i \in kept : born[i].cmd = f.cmd => i \in Range(log)
            BY <1>3, <1>5, <3>1 DEF Calm, AheadInv, AheadAt, Taken
        <3> QED BY <1>1, <1>10, <3>1, <3>2 DEF Calm, DoneInv, ResolvedInv
    <2> QED BY <2>1, <2>2 DEF ReceiveHello, ReceiveResult, BeginBatch
<1> QED BY <1>1, <1>8, <1>9, <1>10, <1>11, CalmAtCore DEF AheadInv

(* An event of a batch is stored or is there: without a fault no two have  *)
(* the same number.                                                        *)
LEMMA AcceptCalm ==
    ASSUME EventInv, Calm, NEW g \in Conns, AcceptEvent(g)
    PROVE  Calm'
<1>0. TypeOK /\ KnownInv
    BY DEF EventInv
<1>1. UNCHANGED <<born, store, kept, job, replay, n2c, c2n, opened, nodeEnd, coreEnd,
                  active, resolved>>
    BY DEF AcceptEvent, linkVars
<1>2. PICK rest, i, L : StoreDoes(g, rest, i, L)
    BY StoreEffect
<1>3. \A k \in Made : ~Conflict(k)
    BY <1>0 DEF Conflict, KnownInv, Calm, NumberInv
<1>4. /\ ingest' = [ingest EXCEPT ![g].rest = Tail(ingest[g].rest)]
      /\ ingest[g].busy /\ ingest[g].rest # <<>> /\ Head(ingest[g].rest) \in Range(log')
      /\ Range(log) \subseteq Range(log')
    <2>1. PICK r : r = ingest[g].rest
        OBVIOUS
    <2>2. r \in Seq(Ids) /\ r # <<>> /\ ingest[g].busy
        BY <1>0, <2>1, Parts DEF AcceptEvent
    <2>3. Head(r) = r[1] /\ Range(r) = {r[1]} \cup Range(Tail(r))
        BY <2>2, RangeTail
    <2>4. Head(r) \in Made
        BY <1>0, <2>1, <2>3 DEF KnownInv, KnownAt
    <2>5. Stored(Head(r)) \/ log' = Append(log, Head(r))
        BY <1>3, <2>1, <2>4 DEF AcceptEvent
    <2>6. ingest' = [ingest EXCEPT ![g].rest = Tail(r)]
        BY <1>3, <2>1, <2>4 DEF AcceptEvent
    <2>7. Range(log) \subseteq Range(log')
        BY <1>2 DEF StoreDoes
    <2>8. CASE log' = Append(log, Head(r)) /\ ~Stored(Head(r))
        BY <1>1, <1>3, <2>1, <2>2, <2>4, <2>6, <2>7, <2>8, TableGrows
    <2> QED BY <2>1, <2>2, <2>5, <2>6, <2>7, <2>8 DEF Stored
<1>5. /\ \A h \in Conns : h # g => ingest'[h] = ingest[h]
      /\ Taken(g) \subseteq Taken(g)'
    <2>1. PICK r : r = ingest[g].rest
        OBVIOUS
    <2>2. r \in Seq(Ids) /\ r # <<>>
        BY <1>0, <1>4, <2>1, Parts
    <2>3. Head(r) = r[1] /\ Range(r) = {r[1]} \cup Range(Tail(r)) /\ Tail(r) \in Seq(Ids)
        BY <2>2, RangeTail
    <2>4. PICK b : b = [ingest[g] EXCEPT !.rest = Tail(r)]
        OBVIOUS
    <2>5. b.rest = Tail(r) /\ b.busy = ingest[g].busy
        BY <1>0, <2>3, <2>4, Parts, IngestChanged
    <2>6. ingest' = [ingest EXCEPT ![g] = b]
        BY <1>4, <2>1, <2>4
    <2>7. ingest'[g] = b /\ \A h \in Conns : h # g => ingest'[h] = ingest[h]
        BY <1>0, <2>6 DEF TypeOK
    <2> QED BY <1>4, <2>1, <2>3, <2>5, <2>7 DEF Taken
<1>6. \A h \in Conns : Taken(h) \subseteq Taken(h)'
    BY <1>4, <1>5 DEF Taken
<1>7. AheadInv'
    BY <1>1, <1>6, AheadRests DEF Calm, AheadInv, Heard
<1>8. ResolvedInv'
    BY <1>1, <1>4 DEF Calm, ResolvedInv
<1>9. resolved' \subseteq store.done /\ \A h \in Conns : Results(n2c'[h], store.done)
    BY <1>1 DEF Calm, DoneInv
<1> QED BY <1>1, <1>7, <1>8, <1>9, CalmAtCore

(* A batch is over.                                                        *)
LEMMA AckBatchCalm == ASSUME EventInv, Calm, NEW g \in Conns, AckBatch(g) PROVE Calm'
<1>1. UNCHANGED <<born, store, log, kept, job, replay, n2c, opened, nodeEnd, coreEnd,
                  active, resolved, count>>
    BY DEF AckBatch, linkVars
<1>2. ingest' = [ingest EXCEPT ![g] = Idle] /\ ingest[g].rest = <<>>
    BY DEF AckBatch
<1>3. \A h \in Conns : Taken(h) \subseteq Taken(h)'
    <2>1. \A h \in Conns : h # g => ingest'[h] = ingest[h]
        BY <1>2 DEF EventInv, TypeOK
    <2>2. Range(ingest[g].rest) = {}
        BY <1>2, RangeShort
    <2> QED BY <1>1, <2>1, <2>2 DEF Taken
<1>4. AheadInv'
    BY <1>1, <1>3, AheadRests DEF Calm, AheadInv, Heard
<1>5. ResolvedInv' /\ resolved' \subseteq store.done /\ \A h \in Conns : Results(n2c'[h], store.done)
    BY <1>1 DEF Calm, ResolvedInv, DoneInv
<1> QED BY <1>1, <1>4, <1>5, CalmAtCore

(* Core's end is gone: what was under way is not heard.                    *)
LEMMA EndCalm ==
    ASSUME EventInv, Calm, CoreRestart \/ \E g \in Conns : SocketEnd(g)
    PROVE  Calm'
<1>1. UNCHANGED <<born, store, log, kept, job, replay, c2n, opened, nodeEnd, resolved, count>>
    BY DEF CoreRestart, SocketEnd
<1>2. \A h \in Conns :
         \/ ~coreEnd'[h] /\ n2c'[h] = <<>>
         \/ /\ n2c'[h] = n2c[h] /\ ingest'[h] = ingest[h] /\ coreEnd'[h] = coreEnd[h]
            /\ active' = h => active = h
    <2>1. CASE CoreRestart
        BY <2>1 DEF CoreRestart
    <2>2. CASE \E g \in Conns : SocketEnd(g)
        <3>1. PICK g \in Conns : SocketEnd(g)
            BY <2>2
        <3>2. \A h \in Conns : h # 0
            BY DEF Conns
        <3> QED BY <3>1, <3>2 DEF SocketEnd, EventInv, TypeOK
    <2> QED BY <2>1, <2>2
<1>3. ASSUME NEW h \in Conns PROVE AheadAt(h)' /\ Results(n2c'[h], store.done)
    <2>1. CASE ~coreEnd'[h] /\ n2c'[h] = <<>>
        <3>1. Framed(<<>>) /\ Results(<<>>, store.done)
            BY RangeShort DEF Framed, Results
        <3> QED BY <2>1, <3>1, Unheard DEF Heard
    <2>2. CASE /\ n2c'[h] = n2c[h] /\ ingest'[h] = ingest[h] /\ coreEnd'[h] = coreEnd[h]
               /\ active' = h => active = h
        BY <1>1, <2>2, AheadRests DEF Calm, AheadInv, Heard, Taken, DoneInv
    <2> QED BY <1>2, <2>1, <2>2
<1>4. ResolvedInv' /\ resolved' \subseteq store.done /\ AheadInv'
    BY <1>1, <1>3 DEF Calm, ResolvedInv, DoneInv, AheadInv
<1>5. \A h \in Conns : coreEnd'[h] => coreEnd[h]
    BY <1>2
<1> QED BY <1>1, <1>3, <1>4, <1>5, CalmAtCore

(* The task at work, when it stays at work: what the calm says of Core's   *)
(* end and of the connections.                                             *)
LEMMA ChannelStays ==
    ASSUME OneChannel, nodeEnd' = nodeEnd, opened' = opened, coreEnd' = coreEnd,
           \A h \in Conns : job'[h].pc # "none" => job[h].pc # "none" \/ nodeEnd[h] = "open"
    PROVE  OneChannel'
BY DEF OneChannel

(* A command reaches the dispatcher.                                       *)
LEMMA DispatchCalm ==
    ASSUME EventInv, Calm, NEW g \in Conns, NEW c \in Commands, Dispatch(g, c)
    PROVE  Calm'
<1>0. TypeOK /\ KnownInv /\ OneChannel
    BY DEF EventInv, Calm
<1>1. UNCHANGED <<born, store, log, kept, replay, ingest, n2c, c2n, opened, nodeEnd, coreEnd,
                  active, resolved>>
    BY DEF Dispatch, linkVars, coreVars
<1>2. nodeEnd[g] = "open" /\ \A h \in Conns : job[h].pc = "none"
    BY <1>0 DEF Dispatch, Reading, OneChannel
<1>3. PICK S : S = {i \in Range(store.outbox) : born[i].cmd # c}
    OBVIOUS
<1>4. OfCommand(store.outbox, c) \in Seq(Ids) /\ Range(OfCommand(store.outbox, c)) = Range(store.outbox) \ S
    BY <1>0, <1>3, Parts, WithoutRange DEF OfCommand
<1>5. PICK s \in Seq(Ids) : s = OfCommand(store.outbox, c)
    BY <1>4
<1>6. \/ /\ c \in store.done /\ job' = [job EXCEPT ![g] = Sending(c, s)]
      \/ /\ c \notin store.done
         /\ job' = [job EXCEPT ![g] = [pc |-> "run", cmd |-> c, old |-> store.outbox,
                                       from |-> store.seq, evs |-> <<>>]]
    BY <1>5 DEF Dispatch
<1>7. /\ \A h \in Conns : h # g => job'[h] = job[h]
      /\ \/ c \in store.done /\ job'[g].pc = "send" /\ job'[g].cmd = c /\ job'[g].evs = s
         \/ /\ c \notin store.done /\ job'[g].pc = "run" /\ job'[g].cmd = c /\ job'[g].evs = <<>>
            /\ job'[g].from = store.seq
    BY <1>0, <1>6, Records DEF TypeOK
<1>8. OneChannel'
    BY <1>0, <1>1, <1>2, <1>7, ChannelStays
<1>9. NumberInv'
    <2>1. Len(born) = store.seq /\ store.seq \in Nat
        BY <1>0, <1>2, Parts DEF Calm, NumberInv
    <2>2. \A h \in Conns : job'[h].pc = "run" =>
             job'[h].from = store.seq /\ Len(born) = store.seq + Len(job'[h].evs)
        BY <1>2, <1>7, <2>1, RangeShort
    <2> QED BY <1>1, <2>1, <2>2 DEF Calm, NumberInv, Made
<1>10. DoneInv'
    BY <1>1, <1>2, <1>7, RangeShort DEF Calm, DoneInv
<1>11. AheadInv'
    <2>1. ASSUME c \in store.done, NEW i \in kept, born[i].cmd = c
          PROVE  i \in Range(s) \cup Taken(g)
        BY <1>3, <1>4, <1>5, <2>1 DEF EventInv, KeptOrStored, Taken
    <2>2. AheadAt(g)'
        <3>1. SentAt(g)'
            BY <1>1, <1>7, <2>1 DEF SentAt, Taken
        <3> QED BY <1>1, <3>1 DEF Calm, AheadInv, AheadAt, Heard, Taken
    <2>3. \A h \in Conns : h # g => AheadAt(h)'
        BY <1>1, <1>7, AheadRests DEF Calm, AheadInv, Heard, Taken
    <2> QED BY <2>2, <2>3 DEF AheadInv
<1>12. ResolvedInv'
    BY <1>1 DEF Calm, ResolvedInv
<1> QED BY <1>8, <1>9, <1>10, <1>11, <1>12 DEF Calm

(* A frame of connection g is queued: a result, when the events of its     *)
(* command are taken or before it.                                         *)
LEMMA QueuedAhead ==
    ASSUME EventInv, Calm, NEW g \in Conns, NEW f \in Frame, Queue(g, f),
           f.kind # "hello", f.kind # "batch" => f.ids = <<>>,
           f.kind = "result" => f.cmd \in store.done,
           Heard(g) => Answers(f, n2c[g], Taken(g), kept, born),
           UNCHANGED <<active, coreEnd, log, ingest, kept>>, \A i \in kept : born'[i] = born[i],
           \A h \in Conns : h # g => job'[h] = job[h],
           job'[g].pc = "send" =>
               /\ job[g].pc = "send" /\ job'[g].cmd = job[g].cmd
               /\ Range(job[g].evs) \subseteq Range(job'[g].evs) \cup Range(f.ids)
    PROVE  AheadInv' /\ \A h \in Conns : Results(n2c'[h], store.done)
<1>0. TypeOK /\ n2c[g] \in Seq(Frame) /\ Framed(n2c[g]) /\ Results(n2c[g], store.done)
    BY DEF EventInv, TypeOK, Calm, AheadInv, AheadAt, DoneInv
<1>1. n2c'[g] = Append(n2c[g], f) /\ \A h \in Conns : h # g => n2c'[h] = n2c[h]
    BY <1>0, QueueEffect
<1>2. PICK r : r = Append(n2c[g], f)
    OBVIOUS
<1>3. /\ Framed(r) /\ Len(r) = Len(n2c[g]) + 1
      /\ \A i : OnWay(n2c[g], Len(n2c[g]), i) \/ i \in Range(f.ids) => OnWay(r, Len(r), i)
      /\ (1 \in DOMAIN r /\ r[1].kind = "hello") => (1 \in DOMAIN n2c[g] /\ n2c[g][1].kind = "hello")
    BY <1>0, <1>2, AheadAppend
<1>4. Heard(g)' => Heard(g)
    BY <1>1, <1>2, <1>3 DEF Heard
<1>5. ASSUME Heard(g) PROVE Ahead(r, Taken(g), kept, born)
    <2>1. Ahead(n2c[g], Taken(g), kept, born)
        BY <1>5 DEF Calm, AheadInv, AheadAt
    <2>2. Answers(f, n2c[g], Taken(g), kept, born)
        BY <1>5
    <2> QED BY <1>0, <1>2, <2>1, <2>2, AheadAppend
<1>6. ASSUME Heard(g) PROVE Ahead(n2c'[g], Taken(g)', kept', born')
    <2>1. Taken(g)' = Taken(g)
        BY DEF Taken
    <2> QED BY <1>1, <1>2, <1>5, <1>6, <2>1 DEF Ahead
<1>7. ASSUME Heard(g) PROVE SentAt(g)'
    <2>1. Taken(g)' = Taken(g)
        BY DEF Taken
    <2>2. SentAt(g)
        BY <1>7 DEF Calm, AheadInv, AheadAt
    <2> QED BY <1>1, <1>2, <1>3, <2>1, <2>2 DEF SentAt
<1>8. AheadAt(g)'
    BY <1>1, <1>2, <1>3, <1>4, <1>6, <1>7 DEF AheadAt
<1>9. \A h \in Conns : h # g => AheadAt(h)'
    BY <1>1, AheadRests DEF Calm, AheadInv, Heard, Taken
<1>10. Results(n2c'[g], store.done)
    <2>1. Results(Append(n2c[g], f), store.done)
        BY <1>0, ResultsMove
    <2> QED BY <1>1, <2>1
<1> QED BY <1>1, <1>8, <1>9, <1>10 DEF Calm, DoneInv, AheadInv

(* Nothing is queued: Core's end is gone, or nothing had to be.            *)
LEMMA UnqueuedAhead ==
    ASSUME EventInv, Calm, NEW g \in Conns, n2c' = n2c,
           UNCHANGED <<active, coreEnd, log, ingest, kept>>, \A i \in kept : born'[i] = born[i],
           \A h \in Conns : h # g => job'[h] = job[h],
           ~coreEnd[g] \/ job'[g].pc # "send" \/ job'[g] = job[g]
    PROVE  AheadInv' /\ \A h \in Conns : Results(n2c'[h], store.done)
<1>1. \A h \in Conns : h # g => AheadAt(h)'
    BY AheadRests DEF Calm, AheadInv, Heard, Taken
<1>2. AheadAt(g)'
    <2>1. CASE ~coreEnd[g]
        BY <2>1, Unheard DEF Calm, AheadInv, AheadAt, Heard
    <2>2. CASE job'[g].pc # "send" \/ job'[g] = job[g]
        BY <2>2, AheadRests DEF Calm, AheadInv, Heard, Taken
    <2> QED BY <2>1, <2>2
<1> QED BY <1>1, <1>2 DEF Calm, DoneInv, AheadInv

(* An event is generated.                                                  *)
LEMMA EmitCalm == ASSUME EventInv, Calm, NEW g \in Conns, Emit(g) PROVE Calm'
<1>0. TypeOK /\ KnownInv /\ OneChannel /\ job[g] \in Job
    BY Parts DEF EventInv, Calm
<1>1. UNCHANGED <<store, log, kept, replay, ingest, c2n, opened, nodeEnd, coreEnd,
                  active, resolved, count>>
      /\ job[g].pc = "run"
    BY DEF Emit, linkVars, coreVars
<1>2. PICK n : n = Len(born) + 1
    OBVIOUS
<1>3. PICK e : e = [cmd |-> job[g].cmd, seq |-> job[g].from + Len(job[g].evs) + 1]
    OBVIOUS
<1>4. /\ Len(born') = n /\ Made' = Made \cup {n} /\ n \in Ids /\ n \notin Made
      /\ \A i \in Made : born'[i] = born[i]
      /\ born'[n] = e
    <2>1. e \in Event
        BY <1>0, <1>3, Parts DEF Event
    <2> QED BY <1>0, <1>2, <1>3, <2>1, Generated DEF Emit
<1>5. /\ job[g].evs \in Seq(Ids) /\ Append(job[g].evs, n) \in Seq(Ids)
      /\ Range(Append(job[g].evs, n)) = Range(job[g].evs) \cup {n}
      /\ Len(Append(job[g].evs, n)) = Len(job[g].evs) + 1
    <2>1. job[g].evs \in Seq(Ids)
        BY <1>0, Parts
    <2> QED BY <1>4, <2>1, RangeAppend
<1>6. /\ job'[g].evs = Append(job[g].evs, n) /\ job'[g].pc = "run" /\ job'[g].cmd = job[g].cmd
      /\ job'[g].from = job[g].from
      /\ \A h \in Conns : h # g => job'[h] = job[h]
    <2>1. PICK j : j = [job[g] EXCEPT !.evs = Append(job[g].evs, n)]
        OBVIOUS
    <2>2. job' = [job EXCEPT ![g] = j]
        BY <1>2, <2>1 DEF Emit
    <2>3. j.evs = Append(job[g].evs, n) /\ j.pc = "run" /\ j.cmd = job[g].cmd /\ j.from = job[g].from
        BY <1>0, <1>1, <1>5, <2>1, JobChanged
    <2> QED BY <1>0, <2>2, <2>3 DEF TypeOK
<1>7. OneChannel'
    BY <1>0, <1>1, <1>6, ChannelStays
<1>8. \A h \in Conns : h # g => job[h].pc = "none"
    BY <1>0, <1>1, OneTask
<1>9. NumberInv'
    <2>1. /\ job[g].from = store.seq /\ Len(born) = store.seq + Len(job[g].evs)
          /\ store.seq \in Nat /\ Len(job[g].evs) \in Nat
        BY <1>0, <1>1, <1>5, Parts DEF Calm, NumberInv
    <2>2. e.seq = n
        BY <1>2, <1>3, <2>1
    <2>3. \A i \in Made' : born'[i].seq = i
        BY <1>4, <2>2 DEF Calm, NumberInv
    <2>4. Len(born') = store.seq + Len(job'[g].evs)
        BY <1>2, <1>4, <1>5, <1>6, <2>1
    <2> QED BY <1>1, <1>6, <1>8, <2>1, <2>3, <2>4 DEF NumberInv
<1>10. kept \subseteq Made /\ Range(job[g].evs) \subseteq Made
    BY <1>0 DEF KnownInv, KnownAt
<1>11. AheadInv' /\ \A h \in Conns : Results(n2c'[h], store.done)
    <2>1. CASE n2c' = n2c
        BY <1>1, <1>4, <1>6, <1>10, <2>1, UnqueuedAhead
    <2>2. CASE n2c' # n2c
        <3>1. PICK f \in Frame : f = Batch(<<n>>) /\ f.kind = "batch"
            <4>1. PICK s \in Seq(Ids) : s = <<n>>
                BY <1>4, RangeShort
            <4>2. Batch(s) \in Frame /\ Batch(s).kind = "batch" /\ Batch(s).ids = s
                BY Records
            <4> QED BY <4>1, <4>2
        <3>2. Queue(g, f)
            BY <1>2, <2>2, <3>1 DEF Emit, Offer
        <3>3. Answers(f, n2c[g], Taken(g), kept, born)
            BY <3>1 DEF Answers
        <3> QED BY <1>1, <1>4, <1>6, <1>10, <3>1, <3>2, <3>3, QueuedAhead
    <2> QED BY <2>1, <2>2
<1>12. DoneInv'
    <2>1. \A i \in Range(job'[g].evs) : born'[i].cmd = job'[g].cmd
        BY <1>1, <1>3, <1>4, <1>5, <1>6, <1>10 DEF Calm, DoneInv
    <2> QED BY <1>1, <1>4, <1>6, <1>8, <1>10, <1>11, <2>1 DEF Calm, DoneInv
<1>13. ResolvedInv'
    BY <1>1, <1>4, <1>10 DEF Calm, ResolvedInv
<1> QED BY <1>7, <1>9, <1>11, <1>12, <1>13 DEF Calm

(* A batch or a result is sent.                                            *)
LEMMA SendCalm ==
    ASSUME EventInv, Calm, NEW g \in Conns, SendBatch(g) \/ SendResult(g)
    PROVE  Calm'
<1>0. TypeOK /\ KnownInv /\ OneChannel /\ job[g] \in Job /\ job[g].evs \in Seq(Ids)
    BY Parts DEF EventInv, Calm
<1>1. UNCHANGED <<born, store, log, kept, replay, ingest, c2n, opened, nodeEnd, coreEnd,
                  active, resolved, count>>
      /\ job[g].pc = "send"
    BY DEF SendBatch, SendResult, linkVars, coreVars
<1>2. nodeEnd[g] = "open" /\ (Broken(g) => ~coreEnd[g])
    BY <1>0, <1>1, OneTask DEF Broken
<1>3. /\ Chunk(job[g].evs) \in Seq(Ids) /\ Rest(job[g].evs) \in Seq(Ids)
      /\ Range(job[g].evs) = Range(Chunk(job[g].evs)) \cup Range(Rest(job[g].evs))
    BY <1>0, ChunkRest
<1>4. /\ \A h \in Conns : h # g => job'[h] = job[h]
      /\ \/ job'[g].pc = "none"
         \/ /\ job'[g].pc = "send" /\ job'[g].cmd = job[g].cmd
            /\ job'[g].evs = Rest(job[g].evs) /\ SendBatch(g)
    <2>1. CASE job' = [job EXCEPT ![g] = NoJob]
        BY <1>0, <2>1, Records DEF TypeOK
    <2>2. CASE SendBatch(g) /\ job' = [job EXCEPT ![g].evs = Rest(@)]
        <3>1. PICK j : j = [job[g] EXCEPT !.evs = Rest(job[g].evs)]
            OBVIOUS
        <3>2. job' = [job EXCEPT ![g] = j]
            BY <2>2, <3>1
        <3>3. j.evs = Rest(job[g].evs) /\ j.pc = "send" /\ j.cmd = job[g].cmd
            BY <1>0, <1>1, <1>3, <3>1, JobChanged
        <3> QED BY <1>0, <2>2, <3>2, <3>3 DEF TypeOK
    <2> QED BY <2>1, <2>2 DEF SendBatch, SendResult
<1>5. OneChannel'
    BY <1>0, <1>1, <1>2, <1>4, ChannelStays
<1>6. NumberInv'
    <2>1. \A h \in Conns : h # g => job[h].pc = "none"
        BY <1>0, <1>1, OneTask
    <2>2. Len(born) = store.seq
        BY <1>1, <2>1 DEF Calm, NumberInv
    <2>3. \A h \in Conns : job'[h].pc # "run"
        BY <1>4, <2>1
    <2> QED BY <1>1, <2>2, <2>3 DEF Calm, NumberInv, Made
<1>7. AheadInv' /\ \A h \in Conns : Results(n2c'[h], store.done)
    <2>1. CASE n2c' = n2c /\ (~coreEnd[g] \/ job'[g].pc # "send")
        BY <1>1, <1>4, <2>1, UnqueuedAhead
    <2>2. CASE SendBatch(g) /\ Queue(g, Batch(Chunk(job[g].evs)))
        <3>1. PICK f \in Frame : /\ f = Batch(Chunk(job[g].evs)) /\ f.kind = "batch"
                                 /\ f.ids = Chunk(job[g].evs)
            BY <1>3, Records
        <3>2. Queue(g, f)
            BY <2>2, <3>1
        <3>3. Answers(f, n2c[g], Taken(g), kept, born)
            BY <3>1 DEF Answers
        <3>4. job'[g].pc = "send" => Range(job[g].evs) \subseteq Range(job'[g].evs) \cup Range(f.ids)
            BY <1>3, <1>4, <3>1
        <3> QED BY <1>1, <1>4, <3>1, <3>2, <3>3, <3>4, QueuedAhead
    <2>3. CASE SendResult(g) /\ Queue(g, Result(job[g].cmd))
        <3>1. job[g].cmd \in Commands /\ job[g].cmd \in store.done /\ job[g].evs = <<>>
            BY <1>0, <1>1, <2>3 DEF KnownInv, KnownAt, Calm, DoneInv, SendResult
        <3>2. PICK f \in Frame : /\ f = Result(job[g].cmd) /\ f.kind = "result" /\ f.ids = <<>>
                                 /\ f.cmd = job[g].cmd
            BY <3>1, Records
        <3>3. Queue(g, f)
            BY <2>3, <3>2
        <3>4. Heard(g) => Answers(f, n2c[g], Taken(g), kept, born)
            <4>1. Heard(g) => SentAt(g)
                BY DEF Calm, AheadInv, AheadAt
            <4>2. Range(job[g].evs) = {}
                BY <3>1, RangeShort
            <4> QED BY <1>1, <3>2, <4>1, <4>2 DEF Answers, SentAt
        <3>5. job'[g].pc # "send"
            BY <1>1, <1>4, <2>3, <3>1, <3>3 DEF SendBatch
        <3> QED BY <1>1, <1>4, <3>1, <3>2, <3>3, <3>4, <3>5, QueuedAhead
    <2>4. SendResult(g) => job'[g].pc # "send"
        BY <1>1, <1>4 DEF SendResult, SendBatch
    <2> QED BY <1>2, <2>1, <2>2, <2>3, <2>4 DEF SendBatch, SendResult, Offer
<1>8. DoneInv'
    <2>1. \A h \in Conns : h # g => job[h].pc = "none"
        BY <1>0, <1>1, OneTask
    <2> QED BY <1>1, <1>4, <1>7, <2>1 DEF Calm, DoneInv
<1>9. ResolvedInv'
    BY <1>1 DEF Calm, ResolvedInv
<1> QED BY <1>5, <1>6, <1>7, <1>8, <1>9 DEF Calm

(* A command ends: only its own events are saved, and nobody spoke of it.  *)
LEMMA FinishCalm == ASSUME EventInv, Calm, NEW g \in Conns, Finish(g) PROVE Calm'
<1>0. TypeOK /\ KnownInv /\ OneChannel /\ job[g] \in Job /\ job[g].evs \in Seq(Ids)
    BY Parts DEF EventInv, Calm
<1>1. UNCHANGED <<log, replay, n2c, ingest, c2n, opened, nodeEnd, coreEnd,
                  active, resolved, count>>
      /\ kept' = kept \cup Range(store'.outbox) /\ job[g].pc = "run"
    BY DEF Finish, linkVars, coreVars
<1>2. PICK c : c = job[g].cmd
    OBVIOUS
<1>3. c \in Commands /\ c \notin store.done /\ c # NoCommand
    BY <1>0, <1>1, <1>2, EventAssumption DEF KnownInv, KnownAt, Calm, DoneInv
<1>4. PICK ids, s, N : FinishDoes(g, ids, s, N)
    BY FinishEffect
<1>5. \A h \in Conns : h # g => job[h].pc = "none"
    BY <1>0, <1>1, OneTask
<1>6. /\ job'[g].pc = "send" /\ job'[g].evs = s /\ job'[g].cmd = c
      /\ \A h \in Conns : h # g => job'[h] = job[h]
    <2>1. s \in Seq(Ids)
        BY <1>4 DEF FinishDoes
    <2> QED BY <1>0, <1>2, <1>3, <1>4, <2>1, Records DEF TypeOK, FinishDoes
<1>7. PICK F : F = Range(ids) \ Range(job[g].old)
    OBVIOUS
<1>8. /\ F \subseteq Range(s) /\ kept' = kept \cup F /\ store'.done = store.done \cup {c}
      /\ Range(s) = Range(job[g].evs) \cup N /\ Range(job[g].evs) \subseteq Made /\ kept \subseteq Made
    BY <1>0, <1>1, <1>2, <1>4, <1>7 DEF FinishDoes, KnownInv, KnownAt
<1>9. PICK last \in Nat : last = job[g].from + Len(job[g].evs)
    BY <1>0, Parts
<1>10. last = Len(born) /\ job[g].from = store.seq /\ store.seq \in Nat /\ Len(job[g].evs) \in Nat
    BY <1>0, <1>1, <1>9, Parts DEF Calm, NumberInv
<1>11. /\ \A i \in Made : born'[i] = born[i]
       /\ \A i \in Made' : born'[i].seq = i
       /\ \A i \in N : born'[i].cmd = NoCommand
       /\ Len(born') = store'.seq /\ N \cap Made = {}
    <2>1. CASE N = {} /\ born' = born
        <3>1. store'.seq = Len(born)
            <4>1. store'.seq = IF last # job[g].from /\ last > store.seq THEN last ELSE store.seq
                BY <1>4, <1>9, <2>1 DEF FinishDoes
            <4>2. last >= store.seq
                BY <1>9, <1>10
            <4> QED BY <1>9, <1>10, <4>1, <4>2
        <3> QED BY <2>1, <3>1 DEF Calm, NumberInv, Made
    <2>2. CASE N # {}
        <3>1. PICK e : e = [cmd |-> NoCommand, seq |-> last + 1]
            OBVIOUS
        <3>2. /\ N = {Len(born) + 1} /\ Len(born) < MaxEvents /\ born' = Append(born, e)
              /\ store'.seq = IF last + 1 > store.seq THEN last + 1 ELSE store.seq
            BY <1>4, <1>9, <2>2, <3>1 DEF FinishDoes
        <3>3. e \in Event /\ e.seq = last + 1 /\ e.cmd = NoCommand
            BY <1>9, <3>1 DEF Event
        <3>4. /\ Len(born') = Len(born) + 1 /\ Made' = Made \cup N /\ N \cap Made = {}
              /\ born'[Len(born) + 1] = e /\ \A i \in Made : born'[i] = born[i]
            BY <1>0, <3>2, <3>3, Generated
        <3>5. Len(born) \in Nat /\ last + 1 > store.seq
            BY <1>0, <1>9, <1>10, Parts
        <3>6. store'.seq = Len(born')
            BY <1>10, <3>2, <3>4, <3>5
        <3>7. \A i \in Made' : born'[i].seq = i
            BY <1>10, <3>2, <3>3, <3>4 DEF Calm, NumberInv
        <3> QED BY <3>2, <3>3, <3>4, <3>6, <3>7
    <2> QED BY <1>4, <2>1, <2>2 DEF FinishDoes
<1>12. OneChannel'
    BY <1>0, <1>1, <1>6, ChannelStays
<1>13. NumberInv'
    BY <1>5, <1>6, <1>11 DEF NumberInv
<1>14. \A i \in F : born'[i].cmd \in {c, NoCommand}
    <2>1. \A i \in Range(job[g].evs) : born[i].cmd = c
        BY <1>1, <1>2 DEF Calm, DoneInv
    <2> QED BY <1>8, <1>11, <2>1
<1>15. DoneInv'
    <2>1. \A h \in Conns : Results(n2c'[h], store'.done)
        <3>1. \A h \in Conns : n2c[h] \in Seq(Frame) /\ Results(n2c[h], store.done)
            BY <1>0 DEF TypeOK, Calm, DoneInv
        <3> QED BY <1>1, <1>8, <3>1, ResultsMove
    <2>2. \A i \in kept' : born'[i].cmd \in store'.done \cup {NoCommand}
        BY <1>8, <1>11, <1>14 DEF Calm, DoneInv
    <2> QED BY <1>1, <1>5, <1>6, <1>8, <2>1, <2>2 DEF Calm, DoneInv
<1>16. ASSUME NEW D \in SUBSET Commands, c \notin D, NEW i \in kept', born'[i].cmd \in D
       PROVE  i \in kept /\ born[i].cmd = born'[i].cmd
    BY <1>8, <1>11, <1>14, <1>16, EventAssumption
<1>17. store.done \in SUBSET Commands
    BY <1>0, Parts
<1>18. ResolvedInv'
    BY <1>1, <1>3, <1>16, <1>17 DEF Calm, ResolvedInv, DoneInv
<1>19. ASSUME NEW h \in Conns PROVE AheadAt(h)'
    <2>1. Taken(h)' = Taken(h) /\ (Heard(h)' => Heard(h)) /\ n2c'[h] = n2c[h]
        BY <1>1 DEF Taken, Heard
    <2>2. ASSUME Heard(h) PROVE Ahead(n2c'[h], Taken(h)', kept', born')
        <3>1. Ahead(n2c[h], Taken(h), kept, born) /\ Results(n2c[h], store.done)
            BY <2>2 DEF Calm, AheadInv, AheadAt, DoneInv
        <3>2. ASSUME NEW p \in DOMAIN n2c[h], n2c[h][p].kind = "result",
                     NEW i \in kept', born'[i].cmd = n2c[h][p].cmd
              PROVE  i \in Taken(h) \/ OnWay(n2c[h], p, i)
            <4>1. i \in kept /\ born[i].cmd = n2c[h][p].cmd
                BY <1>3, <1>16, <1>17, <3>1, <3>2 DEF Results
            <4> QED BY <3>1, <3>2, <4>1 DEF Ahead
        <3> QED BY <2>1, <3>2 DEF Ahead
    <2>3. SentAt(h)'
        <3>1. CASE h = g
            <4>1. ASSUME NEW i \in kept', born'[i].cmd = c PROVE i \in Range(s)
                <5>1. i \in kept => FALSE
                    BY <1>3, <1>8, <1>11, <4>1 DEF Calm, DoneInv
                <5> QED BY <1>8, <5>1
            <4> QED BY <1>6, <3>1, <4>1 DEF SentAt
        <3>2. CASE h # g
            BY <1>5, <1>6, <3>2 DEF SentAt
        <3> QED BY <3>1, <3>2
    <2>4. Framed(n2c'[h])
        BY <2>1 DEF Calm, AheadInv, AheadAt
    <2> QED BY <2>1, <2>2, <2>3, <2>4 DEF AheadAt
<1> QED BY <1>12, <1>13, <1>15, <1>18, <1>19 DEF Calm, AheadInv

(* The channel opens.                                                      *)
LEMMA ConnectCalm == ASSUME EventInv, Calm, Connect PROVE Calm'
<1>0. PICK g \in Conns : g = opened + 1 /\ opened \in Nat
    BY EventAssumption DEF Connect, EventInv, TypeOK, Conns
<1>1. TypeOK /\ OneChannel
    BY DEF EventInv, Calm
<1>2. UNCHANGED <<born, store, log, kept, job, ingest, c2n, active, resolved, count>>
    BY DEF Connect, coreVars
<1>3. /\ opened' = g /\ n2c' = [n2c EXCEPT ![g] = <<Hello>>]
      /\ nodeEnd' = [nodeEnd EXCEPT ![g] = "open"] /\ coreEnd' = [coreEnd EXCEPT ![g] = TRUE]
      /\ \A h \in Conns : nodeEnd[h] # "open"
    BY <1>0 DEF Connect
<1>4. /\ n2c'[g] = <<Hello>> /\ nodeEnd'[g] = "open"
      /\ \A h \in Conns : h # g => /\ n2c'[h] = n2c[h] /\ nodeEnd'[h] = nodeEnd[h]
                                   /\ coreEnd'[h] = coreEnd[h]
    BY <1>1, <1>3 DEF TypeOK
<1>5. \A h \in Conns : job[h].pc = "none"
    BY <1>1, <1>3 DEF OneChannel
<1>6. OneChannel'
    <2>1. \A h \in Conns : h \in Nat
        BY DEF Conns
    <2> QED BY <1>0, <1>1, <1>2, <1>3, <1>4, <1>5, <2>1 DEF OneChannel
<1>7. NumberInv' /\ ResolvedInv'
    BY <1>2 DEF Calm, NumberInv, ResolvedInv, Made
<1>8. PICK q : q = <<Hello>>
    OBVIOUS
<1>9. DOMAIN q = {1} /\ q[1].kind = "hello" /\ q[1].ids = <<>>
    BY <1>8, Records, RangeShort
<1>10. AheadAt(g)'
    <2>1. Framed(q) /\ \A T, K, B : Ahead(q, T, K, B)
        BY <1>9 DEF Framed, Ahead
    <2>2. SentAt(g)'
        BY <1>2, <1>5 DEF SentAt
    <2> QED BY <1>4, <1>8, <2>1, <2>2 DEF AheadAt
<1>11. \A h \in Conns : h # g => AheadAt(h)'
    BY <1>2, <1>4, AheadRests DEF Calm, AheadInv, Heard, Taken
<1>12. DoneInv'
    <2>1. Results(q, store.done)
        BY <1>9 DEF Results
    <2> QED BY <1>2, <1>4, <1>8, <2>1 DEF Calm, DoneInv
<1> QED BY <1>6, <1>7, <1>10, <1>11, <1>12 DEF Calm, AheadInv

(* It replays the outbox.                                                  *)
LEMMA ReplayCalm == ASSUME EventInv, Calm, NEW g \in Conns, Replay(g) PROVE Calm'
<1>0. TypeOK /\ KnownInv /\ OneChannel /\ replay[g] \in Seq(Ids)
    BY Parts DEF EventInv, Calm
<1>1. UNCHANGED <<born, store, log, kept, job, ingest, c2n, opened, nodeEnd, coreEnd,
                  active, resolved, count>>
    BY DEF Replay, linkVars, coreVars
<1>2. AheadInv' /\ \A h \in Conns : Results(n2c'[h], store.done)
    <2>1. CASE n2c' = n2c
        BY <1>1, <2>1, UnqueuedAhead
    <2>2. CASE Queue(g, Batch(Chunk(replay[g])))
        <3>1. PICK f \in Frame : f = Batch(Chunk(replay[g])) /\ f.kind = "batch"
            BY <1>0, ChunkRest, Records
        <3>2. Answers(f, n2c[g], Taken(g), kept, born)
            BY <3>1 DEF Answers
        <3> QED BY <1>1, <2>2, <3>1, <3>2, QueuedAhead
    <2> QED BY <2>1, <2>2 DEF Replay
<1>3. OneChannel' /\ NumberInv' /\ ResolvedInv'
    BY <1>1 DEF Calm, OneChannel, NumberInv, ResolvedInv, Made
<1>4. DoneInv'
    BY <1>1, <1>2 DEF Calm, DoneInv
<1> QED BY <1>2, <1>3, <1>4 DEF Calm

(* It hears of what Core has.                                              *)
LEMMA AckCalm == ASSUME EventInv, Calm, NEW g \in Conns, ReceiveAck(g) PROVE Calm'
<1>1. UNCHANGED <<born, log, kept, job, replay, n2c, ingest, opened, nodeEnd, coreEnd,
                  active, resolved, count>>
    BY DEF ReceiveAck, linkVars, coreVars
<1>2. store'.seq = store.seq /\ store'.done = store.done
    BY DEF ReceiveAck, EventInv, TypeOK, Store
<1>3. AheadInv'
    BY <1>1, AheadRests DEF Calm, AheadInv, Heard, Taken
<1>4. OneChannel' /\ NumberInv' /\ ResolvedInv' /\ DoneInv'
    BY <1>1, <1>2 DEF Calm, OneChannel, NumberInv, ResolvedInv, DoneInv, Made
<1> QED BY <1>3, <1>4 DEF Calm

(* It ends.                                                                *)
LEMMA CloseCalm ==
    ASSUME EventInv, Calm, NEW g \in Conns, CloseChannel(g), Clean'
    PROVE  Calm'
<1>0. TypeOK /\ OneChannel
    BY DEF EventInv, Calm
<1>1. /\ UNCHANGED <<born, store, log, kept, ingest, n2c, opened, coreEnd, active, resolved>>
      /\ nodeEnd' = [nodeEnd EXCEPT ![g] = "closed"] /\ job' = [job EXCEPT ![g] = NoJob]
    BY DEF CloseChannel, coreVars
<1>2. ~Torn(g)
    <2>1. Torn(g) => count' = [count EXCEPT !["torn"] = count["torn"] + 1]
        BY DEF CloseChannel
    <2> QED BY <1>0, <2>1, FaultCounts DEF Counters
<1>3. /\ nodeEnd'[g] = "closed" /\ job'[g].pc = "none"
      /\ \A h \in Conns : h # g => nodeEnd'[h] = nodeEnd[h] /\ job'[h] = job[h]
    BY <1>0, <1>1, Records DEF TypeOK
<1>4. OneChannel'
    BY <1>0, <1>1, <1>3 DEF OneChannel
<1>5. NumberInv'
    <2>1. job[g].pc = "run" => Len(born) = store.seq
        <3>1. job[g].pc = "run" => Len(job[g].evs) = 0
            BY <1>2, RangeShort DEF Torn
        <3>2. job[g].pc = "run" => Len(born) = store.seq + Len(job[g].evs)
            BY DEF Calm, NumberInv
        <3> QED BY <1>0, <3>1, <3>2, Parts
    <2>2. (\A h \in Conns : job'[h].pc # "run") => Len(born) = store.seq
        BY <1>3, <2>1 DEF Calm, NumberInv
    <2> QED BY <1>1, <1>3, <2>2 DEF Calm, NumberInv, Made
<1>6. AheadInv'
    <2>1. \A h \in Conns : job'[h] = job[h] \/ job'[h].pc # "send"
        BY <1>3
    <2> QED BY <1>1, <2>1, AheadRests DEF Calm, AheadInv, Heard, Taken
<1>7. DoneInv' /\ ResolvedInv'
    BY <1>1, <1>3 DEF Calm, DoneInv, ResolvedInv
<1> QED BY <1>4, <1>5, <1>6, <1>7 DEF Calm

(* The first state.                                                        *)
LEMMA CalmStarts == Init => Calm
<1> SUFFICES ASSUME Init PROVE Calm
    OBVIOUS
<1>1. /\ born = <<>> /\ log = <<>> /\ kept = {} /\ store = [seq |-> 0, outbox |-> <<>>, done |-> {}]
      /\ Range(<<>>) = {} /\ Len(<<>>) = 0 /\ DOMAIN <<>> = {} /\ resolved = {} /\ opened = 0
    BY RangeShort DEF Init
<1>2. \A g \in Conns : /\ job[g].pc = "none" /\ n2c[g] = <<>> /\ ~coreEnd[g]
                       /\ nodeEnd[g] = "closed"
    BY Records DEF Init
<1>3. OneChannel
    BY <1>2 DEF OneChannel
<1>4. NumberInv /\ DoneInv /\ ResolvedInv
    BY <1>1, <1>2 DEF NumberInv, DoneInv, ResolvedInv, Made, Results
<1>5. AheadInv
    BY <1>1, <1>2 DEF AheadInv, AheadAt, Framed, Heard
<1> QED BY <1>3, <1>4, <1>5 DEF Calm

(* Faults are not undone.                                                  *)
LEMMA CleanBefore == ASSUME EventInv, [Next]_vars, Clean' PROVE Clean
<1>0. count \in [Counters -> Nat]
    BY DEF EventInv, TypeOK
<1> DEFINE Up == \/ count' = count
                  \/ \E f \in Counters : count' = [count EXCEPT ![f] = count[f] + 1]
<1>1. Up
    <2>1. ASSUME NEW g \in Conns, TaskStep(g) \/ ReadStep(g) PROVE count' = count
        BY <2>1 DEF TaskStep, ReadStep, Emit, Finish, SendBatch, SendResult, Replay, ReceiveAck
    <2>2. ASSUME NEW g \in Conns, SocketStep(g) \/ SocketEnd(g) PROVE count' = count
        BY <2>2 DEF SocketStep, ReceiveHello, ReceiveResult, BeginBatch, AcceptEvent, AckBatch, SocketEnd
    <2>3. ASSUME NEW g \in Conns, CloseChannel(g) \/ ReadError(g) \/ IngestError(g)
          PROVE  Up
        BY <2>3 DEF CloseChannel, ReadError, IngestError, Counters
    <2>4. ASSUME NEW g \in Conns, NEW c \in Commands, Dispatch(g, c) PROVE Up
        BY <2>4 DEF Dispatch, Counters
    <2>5. CASE Connect \/ CoreRestart \/ UNCHANGED vars
        BY <2>5 DEF Connect, CoreRestart, vars
    <2> QED BY <2>1, <2>2, <2>3, <2>4, <2>5 DEF Next
<1>2. \A f \in Counters : count[f] \in Nat /\ count'[f] >= count[f]
    BY <1>0, <1>1
<1> QED BY <1>2 DEF Clean

(* Every step.                                                             *)
LEMMA CalmSteps == EventInv /\ CleanInv /\ [Next]_vars => CleanInv'
<1> SUFFICES ASSUME EventInv, CleanInv, [Next]_vars, Clean' PROVE Calm'
    BY DEF CleanInv
<1>0. Calm /\ TypeOK
    BY CleanBefore DEF CleanInv, EventInv
<1>1. ASSUME NEW g \in Conns, TaskStep(g) PROVE Calm'
    BY <1>0, <1>1, EmitCalm, FinishCalm, SendCalm DEF TaskStep
<1>2. ASSUME NEW g \in Conns, ReadStep(g) PROVE Calm'
    BY <1>0, <1>2, ReplayCalm, AckCalm DEF ReadStep
<1>3. ASSUME NEW g \in Conns, SocketStep(g) PROVE Calm'
    BY <1>0, <1>3, ReadCalm, AcceptCalm, AckBatchCalm DEF SocketStep
<1>4. ASSUME NEW g \in Conns, CloseChannel(g) \/ SocketEnd(g) PROVE Calm'
    BY <1>0, <1>4, CloseCalm, EndCalm
<1>5. ASSUME NEW g \in Conns, ReadError(g) \/ IngestError(g) PROVE FALSE
    <2>1. \/ count' = [count EXCEPT !["read"] = count["read"] + 1]
          \/ count' = [count EXCEPT !["ingest"] = count["ingest"] + 1]
        BY <1>5 DEF ReadError, IngestError
    <2> QED BY <1>0, <2>1, FaultCounts DEF Counters
<1>6. ASSUME NEW g \in Conns, NEW c \in Commands, Dispatch(g, c) PROVE Calm'
    BY <1>0, <1>6, DispatchCalm
<1>7. CASE Connect \/ CoreRestart
    BY <1>0, <1>7, ConnectCalm, EndCalm
<1>8. CASE UNCHANGED vars
    <2>1. UNCHANGED <<born, store, job, replay, opened, nodeEnd, coreEnd, active, n2c, c2n,
                      ingest, log, resolved, kept, count>>
        BY <1>8 DEF vars
    <2>2. AheadInv'
        BY <1>0, <2>1, AheadRests DEF Calm, AheadInv, Heard, Taken
    <2>3. OneChannel' /\ NumberInv' /\ DoneInv' /\ ResolvedInv'
        BY <1>0, <2>1 DEF Calm, OneChannel, NumberInv, DoneInv, ResolvedInv, Made
    <2> QED BY <2>2, <2>3 DEF Calm
<1> QED BY <1>1, <1>2, <1>3, <1>4, <1>5, <1>6, <1>7, <1>8 DEF Next

(* EventsBeforeResult: unless a run was torn, a read loop or an ingest     *)
(* failed, Core has the saved events of a command when it has its result,  *)
(* for they travel before it on the same connection (send_event_batches,   *)
(* send_command_result).                                                   *)
THEOREM EventsComeFirst == Spec => []EventsBeforeResult
<1>1. Init => CleanInv
    BY CalmStarts DEF CleanInv
<1>2. Spec => [](EventInv /\ CleanInv)
    BY <1>1, EventSafe, CalmSteps, PTL DEF Spec
<1>3. CleanInv => EventsBeforeResult
    BY DEF CleanInv, Calm, Clean, ResolvedInv, EventsBeforeResult, Stored
<1> QED BY <1>2, <1>3, PTL
=============================================================================
