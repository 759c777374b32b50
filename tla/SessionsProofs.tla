--------------------------- MODULE SessionsProofs ----------------------------
(* What a client of Core is shown, for every number of turns, followers,    *)
(* viewers and deductions, and every bound: the session stream is complete, *)
(* a terminal's viewer misses nothing it is not told of, and what ended     *)
(* stays.                                                                   *)
EXTENDS MCSessions, OutboxProofs

(* SessionStream counts rows as everybody does.                            *)
LEMMA SameCount == \A S : Stream!Cardinality(S) = Cardinality(S)
BY DEF Cardinality, Stream!Cardinality

(* A member of a sequence.                                                 *)
Holds(s, n) == \E i \in DOMAIN s : s[i] = n

-----------------------------------------------------------------------------
(* Ends of sequences.                                                      *)
LEMMA TailHolds ==
    ASSUME NEW S, NEW s \in Seq(S), s # <<>>
    PROVE  /\ Tail(s) \in Seq(S) /\ s[1] \in S /\ 1 \in DOMAIN s /\ Head(s) = s[1]
           /\ \A i \in DOMAIN Tail(s) : i + 1 \in DOMAIN s /\ Tail(s)[i] = s[i + 1]
           /\ \A n : Holds(s, n) => n = s[1] \/ Holds(Tail(s), n)
           /\ \A n : Holds(Tail(s), n) => Holds(s, n)
<1>1. PICK r \in Seq(S) : r = Tail(s)
    BY HeadTailProperties
<1>2. Len(r) = Len(s) - 1 /\ (\A k \in 1 .. Len(r) : r[k] = s[k + 1]) /\ Len(s) \in Nat
    BY <1>1, HeadTailProperties
<1>3. DOMAIN r = 1 .. Len(r) /\ DOMAIN s = 1 .. Len(s) /\ Len(r) \in Nat
    BY <1>1
<1>4. \A i \in DOMAIN r : i + 1 \in DOMAIN s /\ r[i] = s[i + 1]
    BY <1>2, <1>3
<1>5. ASSUME NEW n, NEW i \in DOMAIN s, s[i] = n, i # 1 PROVE Holds(r, n)
    <2>1. i - 1 \in DOMAIN r /\ r[i - 1] = n
        BY <1>2, <1>3, <1>5
    <2> QED BY <2>1 DEF Holds
<1>6. 1 \in DOMAIN s /\ s[1] \in S /\ Head(s) = s[1]
    BY <1>3, EmptySeq
<1>7. \A n : Holds(s, n) => n = s[1] \/ Holds(r, n)
    BY <1>5 DEF Holds
<1>8. \A n : Holds(r, n) => Holds(s, n)
    BY <1>4 DEF Holds
<1> QED BY <1>1, <1>4, <1>6, <1>7, <1>8

(* What follows when one more is queued.                                   *)
LEMMA AppendHolds ==
    ASSUME NEW S, NEW s \in Seq(S), NEW k \in S
    PROVE  /\ Append(s, k) \in Seq(S)
           /\ \A n : Holds(s, n) \/ n = k => Holds(Append(s, k), n)
           /\ Append(s, k) # <<>>
           /\ \A i \in DOMAIN Append(s, k) :
                \/ i \in DOMAIN s /\ Append(s, k)[i] = s[i]
                \/ i = Len(s) + 1 /\ Append(s, k)[i] = k
<1>1. PICK r \in Seq(S) : r = Append(s, k)
    BY AppendProperties
<1>2. Len(r) = Len(s) + 1 /\ r[Len(s) + 1] = k /\ \A i \in 1 .. Len(s) : r[i] = s[i]
    BY <1>1
<1>3. DOMAIN r = 1 .. Len(s) + 1 /\ DOMAIN s = 1 .. Len(s) /\ Len(s) \in Nat
    BY <1>1, <1>2
<1>4. \A n : Holds(s, n) \/ n = k => Holds(r, n)
    BY <1>2, <1>3 DEF Holds
<1>5. \A i \in DOMAIN r : \/ i \in DOMAIN s /\ r[i] = s[i]
                          \/ i = Len(s) + 1 /\ r[i] = k
    BY <1>2, <1>3
<1>6. r # <<>>
    BY <1>2, <1>3
<1> QED BY <1>1, <1>4, <1>5, <1>6

(* What follows holds what either holds.                                   *)
LEMMA ConcatHolds ==
    ASSUME NEW S, NEW s \in Seq(S), NEW t \in Seq(S)
    PROVE  /\ s \o t \in Seq(S)
           /\ \A n : Holds(s \o t, n) <=> Holds(s, n) \/ Holds(t, n)
<1>1. PICK r \in Seq(S) : r = s \o t
    BY ConcatProperties
<1>2. /\ DOMAIN r = 1 .. Len(s) + Len(t) /\ DOMAIN s = 1 .. Len(s) /\ DOMAIN t = 1 .. Len(t)
      /\ Len(s) \in Nat /\ Len(t) \in Nat
      /\ \A i \in DOMAIN r : r[i] = IF i <= Len(s) THEN s[i] ELSE t[i - Len(s)]
    BY <1>1, ConcatProperties
<1>3. ASSUME NEW n, Holds(s, n) PROVE Holds(r, n)
    BY <1>2, <1>3 DEF Holds
<1>4. ASSUME NEW n, Holds(t, n) PROVE Holds(r, n)
    <2>1. PICK i \in DOMAIN t : t[i] = n
        BY <1>4 DEF Holds
    <2>2. i + Len(s) \in DOMAIN r /\ r[i + Len(s)] = n
        BY <1>2, <2>1
    <2> QED BY <2>2 DEF Holds
<1>5. ASSUME NEW n, Holds(r, n) PROVE Holds(s, n) \/ Holds(t, n)
    <2>1. PICK i \in DOMAIN r : r[i] = n
        BY <1>5 DEF Holds
    <2>2. CASE i <= Len(s)
        BY <1>2, <2>1, <2>2 DEF Holds
    <2>3. CASE ~(i <= Len(s))
        <3>1. i - Len(s) \in DOMAIN t /\ t[i - Len(s)] = n
            BY <1>2, <2>1, <2>3
        <3> QED BY <3>1 DEF Holds
    <2> QED BY <2>2, <2>3
<1> QED BY <1>1, <1>3, <1>4, <1>5

(* Short sequences.                                                        *)
LEMMA ShortHolds ==
    /\ \A S : <<>> \in Seq(S)
    /\ \A n : ~Holds(<<>>, n)
    /\ \A S : \A m \in S : <<m>> \in Seq(S)
    /\ \A m, n : Holds(<<m>>, n) <=> n = m
BY DEF Holds

-----------------------------------------------------------------------------
(* SessionStream: the published events and the streams of the clients.     *)

StreamRecord == [at : {"closed", "open", "live"}, last : Nat, got : SUBSET Nat,
                 queue : Seq(Nat), lagged : BOOLEAN]

StreamType ==
    /\ clocks \in Seq(Nat) /\ rows \subseteq 1 .. Len(clocks)
    /\ task \in [Stream!Tasks -> {"idle", "insert", "drain", "load"}]
    /\ drain \in [by : Stream!Tasks \cup {"nobody"}, list : Seq(Nat)]
    /\ stream \in [Followers -> StreamRecord]

(* The publish lock is held by a task that drains; a client whose request  *)
(* opens a stream has subscribed.                                          *)
LockInv ==
    /\ drain.by = "nobody" => drain.list = <<>>
    /\ drain.by # "nobody" => task[drain.by] = "drain"
    /\ \A i \in DOMAIN drain.list : drain.list[i] \in 1 .. Len(clocks)
    /\ \A f \in Followers : task[f] \in {"drain", "load"} => stream[f].at = "open"

(* As long as somebody listens, a row that is not published has somebody   *)
(* who will publish it.                                                    *)
RowsCovered ==
    Stream!Subscribed # {} =>
        \A n \in rows : \/ Holds(drain.list, n)
                        \/ \E p \in Stream!Tasks : task[p] = "drain" /\ p # drain.by

(* A stream s, when R of the n events are not published and those of O     *)
(* were overtaken.  What the channel holds for it is published, and in     *)
(* order but for overtaken events.  Up to the last cursor it passed on, it *)
(* lacks only events that were, or will be, overtaken; after it, a live    *)
(* stream has everything published in its queue.                           *)
QueueGood(s, R, n, O) ==
    /\ \A i \in DOMAIN s.queue : s.queue[i] \in (1 .. n) \ R
    /\ \A i, j \in DOMAIN s.queue :
          i < j /\ s.queue[i] > s.queue[j] => s.queue[j] \in O
    /\ s.lagged => s.queue # <<>>
PassedGood(s, R, n, O) ==
    /\ s.last <= n
    /\ \A k \in 1 .. s.last :
          k \in s.got \cup O \/ (k \in R /\ \E m \in k + 1 .. n : m \notin R)
AheadGood(s, R, n) ==
    s.at = "live" /\ ~s.lagged =>
        \A k \in s.last + 1 .. n : k \in R \/ Holds(s.queue, k)
Good(s, R, n, O) == QueueGood(s, R, n, O) /\ PassedGood(s, R, n, O) /\ AheadGood(s, R, n)

StreamInv ==
    /\ StreamType /\ LockInv /\ RowsCovered
    /\ \A f \in Followers : Good(stream[f], rows, Len(clocks), overtaken)

-----------------------------------------------------------------------------
(* What a stream may do.                                                   *)

(* A changed stream is a stream.                                           *)
LEMMA StreamChanged ==
    ASSUME NEW s \in StreamRecord, NEW q \in Seq(Nat), NEW n \in Nat, NEW G \in SUBSET Nat
    PROVE  /\ [s EXCEPT !.queue = q] \in StreamRecord
           /\ [s EXCEPT !.queue = q, !.lagged = TRUE] \in StreamRecord
           /\ [s EXCEPT !.queue = q, !.last = n, !.got = G] \in StreamRecord
           /\ [s EXCEPT !.at = "live", !.got = G, !.last = n] \in StreamRecord
           /\ \A a \in {"open", "closed"} :
                 [s EXCEPT !.at = a, !.queue = <<>>, !.lagged = FALSE] \in StreamRecord
           /\ [Stream!Closed EXCEPT !.last = n, !.got = G] \in StreamRecord
<1>1. s \in [at : {"closed", "open", "live"}, last : Nat, got : SUBSET Nat,
             queue : Seq(Nat), lagged : BOOLEAN]
    BY DEF StreamRecord
<1>2. /\ [s EXCEPT !.queue = q] \in StreamRecord
      /\ [s EXCEPT !.queue = q, !.lagged = TRUE] \in StreamRecord
    BY <1>1 DEF StreamRecord
<1>3. /\ [s EXCEPT !.queue = q, !.last = n, !.got = G] \in StreamRecord
      /\ [s EXCEPT !.at = "live", !.got = G, !.last = n] \in StreamRecord
    BY <1>1 DEF StreamRecord
<1>4. <<>> \in Seq(Nat)
    OBVIOUS
<1>5. \A a \in {"open", "closed"} :
         [s EXCEPT !.at = a, !.queue = <<>>, !.lagged = FALSE] \in StreamRecord
    BY <1>1, <1>4 DEF StreamRecord
<1>6. PICK c \in StreamRecord : c = Stream!Closed
    BY <1>4 DEF StreamRecord, Stream!Closed
<1>7. [c EXCEPT !.last = n, !.got = G] \in StreamRecord
    BY DEF StreamRecord
<1>8. [Stream!Closed EXCEPT !.last = n, !.got = G] \in StreamRecord
    BY <1>6, <1>7
<1> QED BY <1>2, <1>3, <1>5, <1>8

(* A new event: nobody can have had it.                                    *)
LEMMA GoodInsert ==
    ASSUME NEW s \in StreamRecord, NEW n \in Nat, NEW R \in SUBSET (1 .. n), NEW O,
           Good(s, R, n, O)
    PROVE  Good(s, R \cup {n + 1}, n + 1, O)
<1>0. s.last \in Nat /\ s.queue \in Seq(Nat)
    BY DEF StreamRecord
<1>1. QueueGood(s, R \cup {n + 1}, n + 1, O)
    BY DEF Good, QueueGood
<1>2. PassedGood(s, R \cup {n + 1}, n + 1, O)
    BY <1>0 DEF Good, PassedGood
<1>3. AheadGood(s, R \cup {n + 1}, n + 1)
    BY <1>0 DEF Good, AheadGood
<1> QED BY <1>1, <1>2, <1>3 DEF Good

(* An event is published.                                                  *)
LEMMA GoodQueued ==
    ASSUME NEW s \in StreamRecord, NEW n \in Nat, NEW R \in SUBSET (1 .. n), NEW O,
           Good(s, R, n, O), NEW k \in 1 .. n, NEW P,
           P = IF \E m \in k + 1 .. n : m \notin R THEN O \cup {k} ELSE O
    PROVE  Stream!Queued(s, k) \in StreamRecord /\ Good(Stream!Queued(s, k), R \ {k}, n, P)
<1>0. /\ s.last \in Nat /\ s.queue \in Seq(Nat) /\ k \in Nat /\ Len(s.queue) \in Nat
      /\ Capacity \in Nat \ {0} /\ O \subseteq P
    BY StreamAssumption DEF StreamRecord
<1>1. ASSUME NEW t \in StreamRecord, t.last = s.last, t.got = s.got
      PROVE  PassedGood(t, R \ {k}, n, P)
    BY <1>0, <1>1 DEF Good, PassedGood
<1>2. ASSUME NEW q \in Seq(Nat), NEW t \in StreamRecord, t.queue = Append(q, k),
             \A i \in DOMAIN q : q[i] \in (1 .. n) \ R,
             \A i, j \in DOMAIN q : i < j /\ q[i] > q[j] => q[j] \in O
      PROVE  QueueGood(t, R \ {k}, n, P)
    <2>1. /\ \A i \in DOMAIN Append(q, k) :
                \/ i \in DOMAIN q /\ Append(q, k)[i] = q[i]
                \/ i = Len(q) + 1 /\ Append(q, k)[i] = k
          /\ Append(q, k) # <<>>
        BY <1>0, AppendHolds
    <2>2. \A i \in DOMAIN t.queue : t.queue[i] \in (1 .. n) \ (R \ {k})
        BY <1>2, <2>1
    <2>3. ASSUME NEW i \in DOMAIN t.queue, NEW j \in DOMAIN t.queue, i < j,
                 t.queue[i] > t.queue[j]
          PROVE  t.queue[j] \in P
        <3>1. i \in DOMAIN q /\ t.queue[i] = q[i] /\ q[i] \in (1 .. n) \ R
            <4>1. DOMAIN q = 1 .. Len(q) /\ Len(q) \in Nat
                OBVIOUS
            <4>2. j \in 1 .. Len(q) + 1
                BY <1>2, <2>1, <2>3, <4>1
            <4> QED BY <1>2, <2>1, <2>3, <4>1, <4>2
        <3>2. CASE j \in DOMAIN q /\ t.queue[j] = q[j]
            BY <1>0, <1>2, <2>3, <3>1, <3>2
        <3>3. CASE t.queue[j] = k
            <4>1. q[i] \in k + 1 .. n
                BY <1>0, <2>3, <3>1, <3>3
            <4> QED BY <3>1, <3>3, <4>1
        <3> QED BY <1>2, <2>1, <3>2, <3>3
    <2> QED BY <1>2, <2>1, <2>2, <2>3 DEF QueueGood
<1>3. CASE s.at = "closed"
    <2>1. Stream!Queued(s, k) = s
        BY <1>3 DEF Stream!Queued
    <2>2. QueueGood(s, R \ {k}, n, P)
        BY <1>0 DEF Good, QueueGood
    <2>3. AheadGood(s, R \ {k}, n)
        BY <1>3 DEF AheadGood
    <2> QED BY <1>1, <2>1, <2>2, <2>3 DEF Good
<1>4. CASE s.at # "closed" /\ Len(s.queue) < Capacity
    <2>1. PICK t : t = [s EXCEPT !.queue = Append(s.queue, k)]
        OBVIOUS
    <2>2. /\ t \in StreamRecord /\ t.queue = Append(s.queue, k) /\ t.last = s.last
          /\ t.got = s.got /\ t.at = s.at /\ t.lagged = s.lagged
        <3>1. t \in StreamRecord
            BY <1>0, <2>1, AppendHolds, StreamChanged
        <3> QED BY <2>1, <3>1 DEF StreamRecord
    <2>3. Stream!Queued(s, k) = t
        BY <1>4, <2>1 DEF Stream!Queued
    <2>4. QueueGood(t, R \ {k}, n, P)
        BY <1>0, <1>2, <2>2 DEF Good, QueueGood
    <2>5. AheadGood(t, R \ {k}, n)
        BY SMTT(20), <1>0, <2>2, AppendHolds DEF Good, AheadGood
    <2> QED BY <1>1, <2>2, <2>3, <2>4, <2>5 DEF Good
<1>5. CASE s.at # "closed" /\ ~(Len(s.queue) < Capacity)
    <2>1. PICK t : t = [s EXCEPT !.queue = Append(Tail(s.queue), k), !.lagged = TRUE]
        OBVIOUS
    <2>2. s.queue # <<>>
        BY <1>0, <1>5
    <2>3. /\ Tail(s.queue) \in Seq(Nat)
          /\ \A i \in DOMAIN Tail(s.queue) :
                i + 1 \in DOMAIN s.queue /\ Tail(s.queue)[i] = s.queue[i + 1]
        BY <1>0, <2>2, TailHolds
    <2>4. /\ t \in StreamRecord /\ t.queue = Append(Tail(s.queue), k) /\ t.last = s.last
          /\ t.got = s.got /\ t.lagged
        <3>1. t \in StreamRecord
            BY <1>0, <2>1, <2>3, AppendHolds, StreamChanged
        <3> QED BY <2>1, <3>1 DEF StreamRecord
    <2>5. Stream!Queued(s, k) = t
        BY <1>5, <2>1 DEF Stream!Queued
    <2>6. \A i \in DOMAIN Tail(s.queue) : Tail(s.queue)[i] \in (1 .. n) \ R
        BY <2>3 DEF Good, QueueGood
    <2>7. ASSUME NEW i \in DOMAIN Tail(s.queue), NEW j \in DOMAIN Tail(s.queue),
                 i < j, Tail(s.queue)[i] > Tail(s.queue)[j]
          PROVE  Tail(s.queue)[j] \in O
        <3>1. i + 1 < j + 1
            BY <2>3, <2>7
        <3> QED BY <2>3, <2>7, <3>1 DEF Good, QueueGood
    <2>8. QueueGood(t, R \ {k}, n, P)
        BY <1>2, <2>3, <2>4, <2>6, <2>7
    <2>9. AheadGood(t, R \ {k}, n)
        BY <2>4 DEF AheadGood
    <2> QED BY <1>1, <2>4, <2>5, <2>8, <2>9 DEF Good
<1> QED BY <1>3, <1>4, <1>5

(* A stream that opens or closes keeps what it passed on.                  *)
LEMMA GoodFresh ==
    ASSUME NEW s \in StreamRecord, NEW t \in StreamRecord, NEW n, NEW R, NEW O,
           Good(s, R, n, O), t.last = s.last, t.got = s.got, t.queue = <<>>, ~t.lagged,
           t.at # "live"
    PROVE  Good(t, R, n, O)
BY DEF Good, QueueGood, PassedGood, AheadGood

(* The history.                                                            *)
LEMMA GoodLoaded ==
    ASSUME NEW s \in StreamRecord, NEW t \in StreamRecord, NEW n \in Nat, NEW R, NEW O,
           Good(s, R, n, O), t.queue = s.queue, t.lagged = s.lagged,
           t.got = s.got \cup (s.last + 1 .. n), t.last = IF n > s.last THEN n ELSE s.last
    PROVE  Good(t, R, n, O)
<1>0. s.last \in Nat /\ s.last <= n
    BY DEF StreamRecord, Good, PassedGood
<1>1. t.last = n
    BY <1>0
<1>2. PassedGood(t, R, n, O)
    BY <1>0, <1>1 DEF Good, PassedGood
<1>3. AheadGood(t, R, n)
    BY <1>1 DEF AheadGood
<1> QED BY <1>2, <1>3 DEF Good, QueueGood

(* An event of the channel is taken.                                       *)
LEMMA GoodTaken ==
    ASSUME NEW s \in StreamRecord, NEW t \in StreamRecord, NEW n \in Nat,
           NEW R \in SUBSET (1 .. n), NEW O,
           Good(s, R, n, O), s.queue # <<>>, s.at = "live", ~s.lagged, ~t.lagged,
           t.queue = Tail(s.queue),
           IF s.queue[1] > s.last THEN t.last = s.queue[1] /\ t.got = s.got \cup {s.queue[1]}
                                  ELSE t.last = s.last /\ t.got = s.got
    PROVE  Good(t, R, n, O)
<1> DEFINE h == s.queue[1]
<1>0. s.last \in Nat /\ s.queue \in Seq(Nat) /\ s.last <= n
    BY DEF StreamRecord, Good, PassedGood
<1>1. /\ h \in Nat /\ 1 \in DOMAIN s.queue
      /\ \A i \in DOMAIN t.queue : i + 1 \in DOMAIN s.queue /\ t.queue[i] = s.queue[i + 1]
      /\ \A k : Holds(s.queue, k) => k = h \/ Holds(t.queue, k)
    BY <1>0, TailHolds
<1>2. h \in (1 .. n) \ R
    BY <1>1 DEF Good, QueueGood
<1>a. t.queue \in Seq(Nat)
    BY <1>0, TailHolds
<1>3. QueueGood(t, R, n, O)
    <2>1. \A i \in DOMAIN t.queue : t.queue[i] \in (1 .. n) \ R
        BY <1>1 DEF Good, QueueGood
    <2>2. ASSUME NEW i \in DOMAIN t.queue, NEW j \in DOMAIN t.queue, i < j,
                 t.queue[i] > t.queue[j]
          PROVE  t.queue[j] \in O
        <3>1. i + 1 < j + 1
            BY <1>a, <2>2
        <3> QED BY <1>1, <2>2, <3>1 DEF Good, QueueGood
    <2> QED BY <2>1, <2>2 DEF QueueGood
<1>4. CASE h > s.last
    <2>1. ASSUME NEW k \in s.last + 1 .. h - 1, k \notin R PROVE k \in O
        <3>1. Holds(s.queue, k)
            BY <1>0, <1>2, <2>1 DEF Good, AheadGood
        <3>2. PICK i \in DOMAIN s.queue : s.queue[i] = k
            BY <3>1 DEF Holds
        <3>3. 1 < i
            <4>1. i # 1 /\ i \in 1 .. Len(s.queue)
                BY SMTT(20), <1>0, <1>1, <2>1, <3>2
            <4> QED BY <4>1
        <3>4. h > k
            BY <1>0, <1>1, <2>1
        <3> QED BY <1>1, <3>2, <3>3, <3>4 DEF Good, QueueGood
    <2>2. ASSUME NEW k \in 1 .. h
          PROVE  k \in t.got \cup O \/ (k \in R /\ \E m \in k + 1 .. n : m \notin R)
        <3>1. CASE k <= s.last
            <4>1. k \in 1 .. s.last
                BY <1>0, <3>1
            <4> QED BY <1>4, <4>1 DEF Good, PassedGood
        <3>2. CASE k = h
            BY <1>4, <3>2
        <3>3. CASE k > s.last /\ k # h
            <4>1. k \in s.last + 1 .. h - 1 /\ h \in k + 1 .. n
                BY <1>0, <1>1, <1>2, <3>3
            <4> QED BY <1>2, <2>1, <4>1
        <3> QED BY <1>0, <3>1, <3>2, <3>3
    <2>3. PassedGood(t, R, n, O)
        BY <1>2, <1>4, <2>2 DEF PassedGood
    <2>4. AheadGood(t, R, n)
        <3> SUFFICES ASSUME NEW k \in h + 1 .. n PROVE k \in R \/ Holds(t.queue, k)
            BY <1>4 DEF AheadGood
        <3>1. k \in s.last + 1 .. n /\ k # h
            BY <1>0, <1>1, <1>4
        <3> QED BY <1>1, <3>1 DEF Good, AheadGood
    <2> QED BY <1>3, <2>3, <2>4 DEF Good
<1>5. CASE ~(h > s.last)
    <2>1. t.last = s.last /\ t.got = s.got
        BY <1>5
    <2>2. PassedGood(t, R, n, O)
        BY <2>1 DEF Good, PassedGood
    <2>3. AheadGood(t, R, n)
        <3> SUFFICES ASSUME NEW k \in s.last + 1 .. n PROVE k \in R \/ Holds(t.queue, k)
            BY <2>1 DEF AheadGood
        <3>1. k # h
            BY <1>0, <1>1, <1>5
        <3> QED BY <1>1, <3>1 DEF Good, AheadGood
    <2> QED BY <1>3, <2>2, <2>3 DEF Good
<1> QED BY <1>4, <1>5

-----------------------------------------------------------------------------
(* Initially there is no event and no stream.                              *)
LEMMA StreamStarts == Stream!StreamInit => StreamInv
<1> SUFFICES ASSUME Stream!StreamInit PROVE StreamInv
    OBVIOUS
<1>1. <<>> \in Seq(Nat) /\ Len(<<>>) = 0 /\ DOMAIN <<>> = {}
    OBVIOUS
<1>2. Stream!Closed \in StreamRecord /\ Stream!Closed.at = "closed" /\ Stream!Closed.last = 0
      /\ Stream!Closed.queue = <<>> /\ ~Stream!Closed.lagged
    BY <1>1 DEF Stream!Closed, StreamRecord
<1>3. StreamType
    BY <1>1, <1>2 DEF Stream!StreamInit, StreamType, Stream!NoDrain, Stream!Tasks
<1>4. LockInv /\ RowsCovered
    BY <1>1, <1>2, StreamAssumption DEF Stream!StreamInit, LockInv, Stream!NoDrain, Stream!Tasks, RowsCovered
<1>5. Good(Stream!Closed, {}, 0, {})
    BY <1>2, <1>1 DEF Good, QueueGood, PassedGood, AheadGood
<1> QED BY <1>1, <1>3, <1>4, <1>5 DEF StreamInv, Stream!StreamInit

(* What the invariant needs of a step that leaves the streams open.        *)
LEMMA TasksMove ==
    ASSUME StreamInv, NEW p \in Stream!Tasks, NEW t \in {"idle", "insert", "drain"},
           task' = [task EXCEPT ![p] = t], task[p] \in {"idle", "insert"}, p \notin Followers,
           UNCHANGED <<drain, stream>>,
           \/ UNCHANGED <<clocks, rows, overtaken>>
           \/ /\ \E time \in 1 .. 2 : Stream!Insert(time)
              /\ UNCHANGED overtaken /\ t = "drain"
    PROVE  StreamInv'
<1>0. StreamType /\ Len(clocks) \in Nat /\ p # drain.by
    <2>1. StreamType /\ Len(clocks) \in Nat /\ "nobody" \notin Stream!Tasks
        BY StreamAssumption DEF StreamInv, StreamType, Stream!Tasks
    <2>2. drain.by # "nobody" => task[drain.by] = "drain"
        BY DEF StreamInv, LockInv
    <2> QED BY <2>1, <2>2
<1>1. \/ UNCHANGED <<clocks, rows>>
      \/ /\ clocks' \in Seq(Nat) /\ Len(clocks') = Len(clocks) + 1
         /\ rows' = rows \cup {Len(clocks) + 1} /\ t = "drain"
    <2>1. ASSUME NEW time \in 1 .. 2, Stream!Insert(time)
          PROVE  /\ clocks' \in Seq(Nat) /\ Len(clocks') = Len(clocks) + 1
                 /\ rows' = rows \cup {Len(clocks) + 1}
        <3>1. clocks' = Append(clocks, time) /\ clocks \in Seq(Nat) /\ time \in Nat
            BY <1>0, <2>1 DEF Stream!Insert, StreamType
        <3>2. clocks' \in Seq(Nat) /\ Len(clocks') = Len(clocks) + 1
            BY <3>1, AppendProperties
        <3> QED BY <2>1, <3>2 DEF Stream!Insert
    <2> QED BY <2>1
<1>2. \A q \in Stream!Tasks : task'[q] = IF q = p THEN t ELSE task[q]
    BY <1>0 DEF StreamType
<1>3. StreamType'
    <2>1. task' \in [Stream!Tasks -> {"idle", "insert", "drain", "load"}]
        BY <1>0 DEF StreamType
    <2>2. clocks' \in Seq(Nat) /\ rows' \subseteq 1 .. Len(clocks')
        <3>1. clocks \in Seq(Nat) /\ rows \subseteq 1 .. Len(clocks)
            BY <1>0 DEF StreamType
        <3>2. CASE UNCHANGED <<clocks, rows>>
            BY <3>1, <3>2
        <3>3. CASE /\ clocks' \in Seq(Nat) /\ Len(clocks') = Len(clocks) + 1
                   /\ rows' = rows \cup {Len(clocks) + 1}
            <4> DEFINE n == Len(clocks)
            <4>1. n \in Nat /\ (\A k \in rows : k \in 1 .. n) /\ Len(clocks') = n + 1
                BY <1>0, <3>1, <3>3
            <4> HIDE DEF n
            <4>2. \A k \in rows : k \in 1 .. n + 1
                BY <4>1
            <4>3. n + 1 \in 1 .. n + 1 /\ rows' = rows \cup {n + 1}
                BY <3>3, <4>1 DEF n
            <4> QED BY <3>3, <4>1, <4>2, <4>3
        <3> QED BY <1>1, <3>2, <3>3
    <2> QED BY <1>0, <2>1, <2>2 DEF StreamType
<1>4. LockInv'
    <2>1. \A i \in DOMAIN drain.list : drain.list[i] \in 1 .. Len(clocks')
        BY <1>0, <1>1 DEF StreamInv, LockInv, StreamType
    <2>2. drain.by \in Stream!Tasks \cup {"nobody"}
        BY <1>0 DEF StreamType
    <2>3. \A f \in Followers : task'[f] = task[f]
        BY <1>2 DEF Stream!Tasks
    <2>4. drain.by # "nobody" => task'[drain.by] = "drain"
        BY <1>0, <1>2, <2>2 DEF StreamInv, LockInv
    <2> QED BY <2>1, <2>3, <2>4 DEF StreamInv, LockInv
<1>5. RowsCovered'
    <2>1. Stream!Subscribed' = Stream!Subscribed
        BY DEF Stream!Subscribed
    <2>2. \A q \in Stream!Tasks : task[q] = "drain" => task'[q] = "drain"
        BY <1>2
    <2>3. \A n \in rows' : n \in rows \/ task'[p] = "drain"
        BY <1>1, <1>2
    <2> QED BY <1>0, <2>1, <2>2, <2>3 DEF StreamInv, RowsCovered
<1>6. ASSUME NEW f \in Followers PROVE Good(stream'[f], rows', Len(clocks'), overtaken')
    <2>1. stream[f] \in StreamRecord /\ Good(stream[f], rows, Len(clocks), overtaken)
          /\ rows \in SUBSET (1 .. Len(clocks))
        BY <1>0 DEF StreamInv, StreamType
    <2>2. Good(stream[f], rows \cup {Len(clocks) + 1}, Len(clocks) + 1, overtaken)
        BY <1>0, <2>1, GoodInsert
    <2> QED BY <1>1, <2>1, <2>2
<1> QED BY <1>3, <1>4, <1>5, <1>6 DEF StreamInv

(* The tasks that store an event.                                          *)
LEMMA StoreSteps ==
    ASSUME StreamInv,
           Stream!StoreNodeEvent \/ Stream!StoreAgain \/ Stream!ReadCursor \/ Stream!StoreAcknowledgement
    PROVE  StreamInv'
<1>1. "ingest" \in Stream!Tasks \ Followers /\ "acknowledge" \in Stream!Tasks \ Followers
    BY StreamAssumption DEF Stream!Tasks
<1>2. CASE Stream!StoreNodeEvent
    BY <1>1, <1>2, TasksMove DEF Stream!StoreNodeEvent
<1>3. CASE Stream!StoreAgain
    BY <1>1, <1>3, TasksMove DEF Stream!StoreAgain
<1>4. CASE Stream!ReadCursor
    BY <1>1, <1>4, TasksMove DEF Stream!ReadCursor
<1>5. CASE Stream!StoreAcknowledgement
    BY <1>1, <1>5, TasksMove DEF Stream!StoreAcknowledgement
<1> QED BY <1>2, <1>3, <1>4, <1>5

(* The rows are selected: the list holds them all.                         *)
LEMMA SelectStep ==
    ASSUME StreamInv, NEW p \in Stream!Tasks, Stream!SelectRows(p)
    PROVE  StreamInv'
<1>0. StreamType /\ Len(clocks) \in Nat /\ "nobody" \notin Stream!Tasks
    BY StreamAssumption DEF StreamInv, StreamType, Stream!Tasks
<1>1. Stream!Cardinality(rows) \in Nat
    <2>1. IsFiniteSet(1 .. Len(clocks))
        BY <1>0, FS_Interval
    <2> QED BY <1>0, <2>1, FS_Subset, FS_CardinalityType, SameCount DEF StreamType
<1>2. PICK list \in [1 .. Stream!Cardinality(rows) -> rows] :
          {list[i] : i \in DOMAIN list} = rows /\ drain' = [by |-> p, list |-> list]
    BY DEF Stream!SelectRows
<1>3. list \in Seq(Nat) /\ \A i \in DOMAIN list : list[i] \in 1 .. Len(clocks)
    <2>1. rows \subseteq 1 .. Len(clocks) /\ rows \subseteq Nat
        BY <1>0 DEF StreamType
    <2>2. \A i \in 1 .. Stream!Cardinality(rows) : list[i] \in rows
        BY <1>2
    <2>3. list \in [1 .. Stream!Cardinality(rows) -> Nat]
        BY <2>1
    <2>4. list \in Seq(Nat)
        BY <1>1, <2>3
    <2> QED BY <2>1, <2>2, <2>4
<1>4. \A n \in rows : Holds(list, n)
    BY <1>2 DEF Holds
<1>5. UNCHANGED <<clocks, rows, task, stream, overtaken>> /\ task[p] = "drain"
      /\ drain'.by = p /\ drain'.list = list
    BY <1>2 DEF Stream!SelectRows
<1>6. StreamType'
    BY <1>0, <1>2, <1>3, <1>5 DEF StreamType
<1>7. LockInv' /\ RowsCovered'
    BY <1>0, <1>3, <1>4, <1>5 DEF StreamInv, LockInv, RowsCovered
<1> QED BY <1>5, <1>6, <1>7 DEF StreamInv

(* One event is sent to every stream there is, or to none.                 *)
LEMMA PublishStep == ASSUME StreamInv, Stream!Publish PROVE StreamInv'
<1>0. StreamType /\ Len(clocks) \in Nat /\ drain.list \in Seq(Nat) /\ drain.list # <<>>
    BY DEF StreamInv, StreamType, Stream!Publish
<1> DEFINE n == drain.list[1]
<1>1. /\ Tail(drain.list) \in Seq(Nat) /\ n \in 1 .. Len(clocks)
      /\ \A i \in DOMAIN Tail(drain.list) :
            i + 1 \in DOMAIN drain.list /\ Tail(drain.list)[i] = drain.list[i + 1]
      /\ \A m : Holds(drain.list, m) => m = n \/ Holds(Tail(drain.list), m)
    BY <1>0, TailHolds DEF StreamInv, LockInv
<1>2. drain' = [drain EXCEPT !.list = Tail(drain.list)] /\ UNCHANGED <<clocks, task>>
    BY DEF Stream!Publish
<1>3. /\ drain' \in [by : Stream!Tasks \cup {"nobody"}, list : Seq(Nat)]
      /\ drain'.by = drain.by /\ drain'.list = Tail(drain.list)
    BY <1>0, <1>1, <1>2 DEF StreamType
<1>4. drain.by # "nobody"
    BY <1>0 DEF StreamInv, LockInv
<1>5. CASE Stream!Subscribed = {}
    <2>1. UNCHANGED <<rows, stream, overtaken>>
        BY <1>5 DEF Stream!Publish
    <2>2. Stream!Subscribed' = {}
        BY <1>5, <2>1 DEF Stream!Subscribed
    <2>3. StreamType' /\ LockInv' /\ RowsCovered'
        BY <1>0, <1>1, <1>2, <1>3, <1>4, <2>1, <2>2 DEF StreamType, StreamInv, LockInv, RowsCovered
    <2> QED BY <1>2, <2>1, <2>3 DEF StreamInv
<1>6. CASE Stream!Subscribed # {}
    <2>1. /\ rows' = rows \ {n}
          /\ stream' = [f \in Followers |-> Stream!Queued(stream[f], n)]
          /\ overtaken' = IF \E m \in n + 1 .. Len(clocks) : m \notin rows
                          THEN overtaken \cup {n} ELSE overtaken
        BY <1>6 DEF Stream!Publish
    <2>2. ASSUME NEW f \in Followers
          PROVE  /\ Stream!Queued(stream[f], n) \in StreamRecord
                 /\ Good(Stream!Queued(stream[f], n), rows', Len(clocks), overtaken')
        <3>1. stream[f] \in StreamRecord /\ Good(stream[f], rows, Len(clocks), overtaken)
              /\ rows \in SUBSET (1 .. Len(clocks))
            BY <1>0 DEF StreamInv, StreamType
        <3> HIDE DEF n
        <3> QED BY <1>0, <1>1, <2>1, <3>1, GoodQueued
    <2>3. \A f \in Followers : stream'[f].at = stream[f].at
        <3> SUFFICES ASSUME NEW f \in Followers PROVE Stream!Queued(stream[f], n).at = stream[f].at
            BY <2>1
        <3>1. stream[f] \in StreamRecord
            BY <1>0 DEF StreamType
        <3> HIDE DEF n
        <3> QED BY <3>1 DEF Stream!Queued, StreamRecord
    <2>4. StreamType'
        BY <1>0, <1>2, <1>3, <2>1, <2>2 DEF StreamType
    <2>5. LockInv'
        BY <1>1, <1>2, <1>3, <1>4, <2>3 DEF StreamInv, LockInv
    <2>6. RowsCovered'
        BY <1>1, <1>2, <1>3, <1>6, <2>1 DEF StreamInv, RowsCovered
    <2> QED BY <1>2, <2>1, <2>2, <2>4, <2>5, <2>6 DEF StreamInv
<1> QED BY <1>5, <1>6

(* The lock is given up: what is left has somebody else.                   *)
LEMMA EndStep == ASSUME StreamInv, Stream!EndDrain PROVE StreamInv'
<1>0. StreamType /\ drain.list = <<>> /\ drain' = Stream!NoDrain
      /\ UNCHANGED <<clocks, rows, stream, overtaken>>
    BY DEF Stream!EndDrain, StreamInv
<1>1. drain.by # "nobody"
    <2> SUFFICES ASSUME drain.by = "nobody" PROVE FALSE
        OBVIOUS
    <2>1. drain = [by |-> drain.by, list |-> drain.list]
        BY <1>0 DEF StreamType
    <2> QED BY <1>0, <2>1 DEF Stream!EndDrain, Stream!NoDrain
<1>2. drain.by \in Stream!Tasks /\ task[drain.by] = "drain"
    BY <1>0, <1>1 DEF StreamInv, StreamType, LockInv
<1>3. \A p \in Stream!Tasks : task'[p] = IF p # drain.by THEN task[p]
                                  ELSE IF p \in Followers THEN "load" ELSE "idle"
    BY <1>0, <1>2 DEF Stream!EndDrain, StreamType
<1>4. Stream!NoDrain.by = "nobody" /\ Stream!NoDrain.list = <<>> /\ Stream!NoDrain.list \in Seq(Nat)
      /\ Stream!NoDrain \in [by : Stream!Tasks \cup {"nobody"}, list : Seq(Nat)] /\ DOMAIN Stream!NoDrain.list = {}
    BY DEF Stream!NoDrain
<1>5. StreamType'
    BY <1>0, <1>2, <1>4 DEF Stream!EndDrain, StreamType
<1>6. LockInv'
    BY <1>0, <1>2, <1>3, <1>4 DEF StreamInv, LockInv, Stream!Tasks
<1>7. RowsCovered'
    <2>1. Stream!Subscribed' = Stream!Subscribed
        BY <1>0 DEF Stream!Subscribed
    <2>2. \A n : ~Holds(drain.list, n)
        BY <1>0 DEF Holds
    <2>3. "nobody" \notin Stream!Tasks
        BY StreamAssumption DEF Stream!Tasks
    <2> QED BY <1>0, <1>2, <1>3, <1>4, <2>1, <2>2, <2>3 DEF StreamInv, RowsCovered
<1> QED BY <1>0, <1>5, <1>6, <1>7 DEF StreamInv

(* One stream changes, and with it at most the task that opens it.         *)
LEMMA OneStream ==
    ASSUME StreamInv, NEW f \in Followers, NEW s \in StreamRecord, NEW t,
           stream' = [stream EXCEPT ![f] = s],
           task' = [task EXCEPT ![f] = t], t \in {"idle", "insert", "drain", "load"},
           UNCHANGED <<clocks, rows, drain, overtaken>>,
           Good(s, rows, Len(clocks), overtaken),
           t \in {"drain", "load"} => s.at = "open",
           \/ task[f] # "drain" /\ drain.by # f
           \/ task[f] = t,
           \/ t = "drain" /\ task[f] # "drain" /\ drain.by # f
           \/ s.at # "closed" => stream[f].at # "closed"
    PROVE  StreamInv'
<1>0. StreamType /\ f \in Stream!Tasks
    BY DEF StreamInv, Stream!Tasks
<1>1. \A p \in Stream!Tasks : task'[p] = IF p = f THEN t ELSE task[p]
    BY <1>0 DEF StreamType
<1>2. \A g \in Followers : stream'[g] = IF g = f THEN s ELSE stream[g]
    BY <1>0 DEF StreamType
<1>3. StreamType'
    BY <1>0 DEF StreamType
<1>4. LockInv'
    BY <1>0, <1>1, <1>2 DEF StreamInv, LockInv, StreamType, Stream!Tasks
<1>5. RowsCovered'
    <2>1. CASE t = "drain" /\ task[f] # "drain" /\ drain.by # f
        BY <1>0, <1>1, <2>1 DEF RowsCovered
    <2>2. CASE s.at # "closed" => stream[f].at # "closed"
        <3>1. Stream!Subscribed' # {} => Stream!Subscribed # {}
            BY <1>2, <2>2 DEF Stream!Subscribed
        <3>2. \A p \in Stream!Tasks : task[p] = "drain" /\ p # drain.by => task'[p] = "drain"
            BY <1>1
        <3> QED BY <3>1, <3>2 DEF StreamInv, RowsCovered
    <2> QED BY <2>1, <2>2
<1> QED BY <1>2, <1>3, <1>4, <1>5 DEF StreamInv

(* A client subscribes, reads the history, receives, goes away.            *)
LEMMA FollowerSteps ==
    ASSUME StreamInv, NEW f \in Followers,
           Stream!Subscribe(f) \/ Stream!LoadHistory(f) \/ Stream!Receive(f) \/ Stream!Leave(f)
    PROVE  StreamInv'
<1> DEFINE s == stream[f]
<1>0. /\ StreamType /\ f \in Stream!Tasks /\ Len(clocks) \in Nat /\ "nobody" \notin Stream!Tasks
      /\ s \in StreamRecord /\ Good(s, rows, Len(clocks), overtaken)
      /\ rows \in SUBSET (1 .. Len(clocks))
    BY StreamAssumption DEF StreamInv, StreamType, Stream!Tasks
<1>1. s.last \in Nat /\ s.got \in SUBSET Nat /\ s.queue \in Seq(Nat) /\ s.last <= Len(clocks)
    BY <1>0 DEF StreamRecord, Good, PassedGood
<1>2. task[f] \in {"idle", "insert", "drain", "load"}
    BY <1>0 DEF StreamType
<1>3. drain.by = f => task[f] = "drain"
    BY <1>0 DEF StreamInv, LockInv
<1>4. task[f] \in {"drain", "load"} => s.at = "open"
    BY DEF StreamInv, LockInv
<1>5. CASE Stream!Subscribe(f)
    <2>1. PICK t : t = [s EXCEPT !.at = "open", !.queue = <<>>, !.lagged = FALSE]
        OBVIOUS
    <2>2. t \in StreamRecord
        BY <1>0, <1>1, <2>1, StreamChanged
    <2>3. /\ t.at = "open" /\ t.last = s.last /\ t.got = s.got /\ t.queue = <<>>
          /\ ~t.lagged
        BY <1>0, <2>1 DEF StreamRecord
    <2>4. Good(t, rows, Len(clocks), overtaken)
        BY <1>0, <2>2, <2>3, GoodFresh
    <2>5. stream' = [stream EXCEPT ![f] = t]
        BY <1>0, <1>5, <2>1 DEF Stream!Subscribe, StreamType
    <2>6. task' = [task EXCEPT ![f] = "drain"] /\ UNCHANGED <<clocks, rows, drain, overtaken>>
          /\ task[f] = "idle" /\ drain.by # f
        BY <1>3, <1>5 DEF Stream!Subscribe
    <2> QED BY <2>2, <2>3, <2>4, <2>5, <2>6, OneStream
<1>6. CASE Stream!LoadHistory(f)
    <2>1. PICK n \in Nat : n = IF Len(clocks) > s.last THEN Len(clocks) ELSE s.last
        BY <1>0, <1>1
    <2>2. PICK G \in SUBSET Nat : G = s.got \cup (s.last + 1 .. Len(clocks))
        <3>1. s.last + 1 .. Len(clocks) \subseteq Nat
            BY <1>0, <1>1
        <3>2. s.got \cup (s.last + 1 .. Len(clocks)) \in SUBSET Nat
            BY <1>1, <3>1
        <3> QED BY <3>2
    <2>3. PICK t : t = [s EXCEPT !.at = "live", !.got = G, !.last = n]
        OBVIOUS
    <2>4. t \in StreamRecord
        BY <1>0, <1>1, <2>3, StreamChanged
    <2>5. /\ t.at = "live" /\ t.last = n /\ t.got = G /\ t.queue = s.queue
          /\ t.lagged = s.lagged
        BY <1>0, <2>3 DEF StreamRecord
    <2>6. Good(t, rows, Len(clocks), overtaken)
        BY <1>0, <2>1, <2>2, <2>4, <2>5, GoodLoaded
    <2>7. stream' = [stream EXCEPT ![f] = t]
        BY <1>0, <1>6, <2>1, <2>2, <2>3 DEF Stream!LoadHistory, StreamType
    <2>8. task' = [task EXCEPT ![f] = "idle"] /\ UNCHANGED <<clocks, rows, drain, overtaken>>
          /\ task[f] = "load" /\ drain.by # f /\ s.at = "open"
        BY <1>3, <1>4, <1>6 DEF Stream!LoadHistory
    <2> QED BY <2>4, <2>5, <2>6, <2>7, <2>8, OneStream
<1>7. CASE Stream!Receive(f)
    <2>0. /\ s.at = "live" /\ s.queue # <<>> /\ task[f] \notin {"drain", "load"}
          /\ UNCHANGED <<clocks, rows, task, drain, overtaken>>
        BY <1>4, <1>7 DEF Stream!Receive
    <2>1. task' = [task EXCEPT ![f] = task[f]] /\ drain.by # f
        BY <1>0, <1>3, <2>0 DEF StreamType
    <2>2. CASE s.lagged
        <3>1. PICK t : t = [Stream!Closed EXCEPT !.last = s.last, !.got = s.got]
            OBVIOUS
        <3>2. t \in StreamRecord
            BY <1>0, <1>1, <3>1, StreamChanged
        <3>3. /\ t.at = "closed" /\ t.last = s.last /\ t.got = s.got /\ t.queue = <<>>
              /\ ~t.lagged
            BY <3>1 DEF Stream!Closed
        <3>4. Good(t, rows, Len(clocks), overtaken)
            BY <1>0, <3>2, <3>3, GoodFresh
        <3>5. stream' = [stream EXCEPT ![f] = t]
            BY <1>7, <2>2, <3>1 DEF Stream!Receive
        <3> QED BY <1>2, <2>0, <2>1, <3>2, <3>3, <3>4, <3>5, OneStream
    <2>3. CASE ~s.lagged
        <3>1. Tail(s.queue) \in Seq(Nat) /\ s.queue[1] \in Nat
            BY <1>1, <2>0, TailHolds
        <3>2. PICK n \in Nat : n = IF s.queue[1] > s.last THEN s.queue[1] ELSE s.last
            BY <1>1, <3>1
        <3>3. PICK G \in SUBSET Nat : G = IF s.queue[1] > s.last THEN s.got \cup {s.queue[1]}
                                                               ELSE s.got
            BY <1>1, <3>1
        <3>4. PICK t : t = [s EXCEPT !.queue = Tail(s.queue), !.last = n, !.got = G]
            OBVIOUS
        <3>5. t \in StreamRecord
            BY <1>0, <3>1, <3>4, StreamChanged
        <3>6. /\ t.at = s.at /\ t.last = n /\ t.got = G /\ t.queue = Tail(s.queue)
              /\ t.lagged = s.lagged
            BY <1>0, <3>4 DEF StreamRecord
        <3>7. Good(t, rows, Len(clocks), overtaken)
            BY <1>0, <2>0, <2>3, <3>2, <3>3, <3>5, <3>6, GoodTaken
        <3>8. t = IF s.queue[1] > s.last
                  THEN [s EXCEPT !.queue = Tail(@), !.last = s.queue[1], !.got = @ \cup {s.queue[1]}]
                  ELSE [s EXCEPT !.queue = Tail(@)]
            BY <1>0, <3>2, <3>3, <3>4 DEF StreamRecord
        <3>9. stream' = [stream EXCEPT ![f] = t]
            BY <1>7, <2>3, <3>8 DEF Stream!Receive
        <3> QED BY <1>2, <2>0, <2>1, <3>5, <3>6, <3>7, <3>9, OneStream
    <2> QED BY <2>2, <2>3
<1>8. CASE Stream!Leave(f)
    <2>0. /\ s.at = "live" /\ task[f] \notin {"drain", "load"}
          /\ UNCHANGED <<clocks, rows, task, drain, overtaken>>
        BY <1>4, <1>8 DEF Stream!Leave
    <2>1. task' = [task EXCEPT ![f] = task[f]] /\ drain.by # f
        BY <1>0, <1>3, <2>0 DEF StreamType
    <2>2. PICK t : t = [s EXCEPT !.at = "closed", !.queue = <<>>, !.lagged = FALSE]
        OBVIOUS
    <2>3. t \in StreamRecord
        BY <1>0, <1>1, <2>2, StreamChanged
    <2>4. /\ t.at = "closed" /\ t.last = s.last /\ t.got = s.got /\ t.queue = <<>>
          /\ ~t.lagged
        BY <1>0, <2>2 DEF StreamRecord
    <2>5. Good(t, rows, Len(clocks), overtaken)
        BY <1>0, <2>3, <2>4, GoodFresh
    <2>6. stream' = [stream EXCEPT ![f] = t]
        BY <1>0, <1>8, <2>2 DEF Stream!Leave, StreamType
    <2> QED BY <1>2, <2>0, <2>1, <2>3, <2>4, <2>5, <2>6, OneStream
<1> QED BY <1>5, <1>6, <1>7, <1>8

(* Core stops: nobody listens.                                             *)
LEMMA CoreStops == ASSUME StreamInv, Stream!StopCore PROVE StreamInv'
<1>0. StreamType /\ UNCHANGED <<clocks, rows, overtaken>> /\ drain' = Stream!NoDrain
      /\ task' = [p \in Stream!Tasks |-> "idle"]
    BY DEF StreamInv, Stream!StopCore
<1>1. ASSUME NEW f \in Followers
      PROVE  stream'[f] \in StreamRecord /\ stream'[f].at = "closed"
             /\ Good(stream'[f], rows, Len(clocks), overtaken)
    <2>1. stream[f] \in StreamRecord /\ Good(stream[f], rows, Len(clocks), overtaken)
        BY <1>0 DEF StreamInv, StreamType
    <2>2. PICK t : t = [Stream!Closed EXCEPT !.last = stream[f].last, !.got = stream[f].got]
        OBVIOUS
    <2>3. stream[f].last \in Nat /\ stream[f].got \in SUBSET Nat
        BY <2>1 DEF StreamRecord
    <2>4. t \in StreamRecord
        BY <2>1, <2>2, <2>3, StreamChanged, EmptySeq
    <2>5. /\ t.at = "closed" /\ t.last = stream[f].last /\ t.got = stream[f].got
          /\ t.queue = <<>> /\ ~t.lagged
        BY <2>2 DEF Stream!Closed
    <2>6. stream'[f] = t
        BY <2>2 DEF Stream!StopCore
    <2>7. Good(t, rows, Len(clocks), overtaken)
        BY <2>1, <2>4, <2>5, GoodFresh
    <2> QED BY <2>4, <2>5, <2>6, <2>7
<1>2. stream' \in [Followers -> StreamRecord]
    BY <1>1 DEF Stream!StopCore
<1>3. Stream!NoDrain.by = "nobody" /\ Stream!NoDrain.list = <<>> /\ <<>> \in Seq(Nat)
      /\ Stream!NoDrain \in [by : Stream!Tasks \cup {"nobody"}, list : Seq(Nat)] /\ DOMAIN <<>> = {}
    BY DEF Stream!NoDrain
<1>4. StreamType'
    BY <1>0, <1>2, <1>3 DEF StreamType
<1>5. LockInv'
    BY <1>0, <1>3 DEF LockInv, Stream!Tasks
<1>6. RowsCovered'
    BY <1>1 DEF RowsCovered, Stream!Subscribed
<1> QED BY <1>0, <1>1, <1>4, <1>5, <1>6 DEF StreamInv

(* The invariant says nothing of the other variables.                      *)
LEMMA StreamRests == ASSUME StreamInv, UNCHANGED Stream!streamVars PROVE StreamInv'
<1>1. UNCHANGED <<clocks, rows, task, drain, stream, overtaken>>
    BY DEF Stream!streamVars
<1>2. StreamType' /\ LockInv' /\ RowsCovered'
    BY <1>1 DEF StreamInv, StreamType, LockInv, RowsCovered, Stream!Subscribed
<1> QED BY <1>1, <1>2 DEF StreamInv

(* The invariant holds in every state.                                     *)
THEOREM StreamSafe == Stream!StreamSpec => []StreamInv
<1>1. ASSUME StreamInv, [Stream!StreamNext]_Stream!streamVars PROVE StreamInv'
    <2>1. CASE UNCHANGED Stream!streamVars
        BY <1>1, <2>1, StreamRests
    <2>2. CASE Stream!StreamNext
        BY <1>1, <2>2, StoreSteps, SelectStep, PublishStep, EndStep, FollowerSteps, CoreStops
           DEF Stream!StreamNext
    <2> QED BY <1>1, <2>1, <2>2
<1>2. StreamInv /\ [Stream!StreamNext]_Stream!streamVars => StreamInv'
    BY <1>1
<1> QED BY StreamStarts, <1>2, PTL DEF Stream!StreamSpec

(* At rest the lock is free, so no row is left and no queue is behind.     *)
LEMMA StreamsAreComplete == StreamInv => Stream!StreamComplete
<1> SUFFICES ASSUME StreamInv, NEW f \in Followers,
                    stream[f].at = "live", stream[f].queue = <<>>,
                    \A p \in Stream!Tasks : task[p] = "idle"
             PROVE  1 .. Len(clocks) \subseteq stream[f].got \cup overtaken
    BY DEF Stream!StreamComplete
<1>1. drain.by = "nobody" /\ drain.list = <<>>
    BY DEF StreamInv, StreamType, LockInv
<1>2. rows = {}
    <2>1. Stream!Subscribed # {}
        BY DEF Stream!Subscribed
    <2>2. \A n : ~Holds(drain.list, n)
        BY <1>1 DEF Holds
    <2> QED BY <2>1, <2>2 DEF StreamInv, RowsCovered
<1>3. /\ Good(stream[f], {}, Len(clocks), overtaken) /\ stream[f] \in StreamRecord
      /\ Len(clocks) \in Nat
    BY <1>2 DEF StreamInv, StreamType
<1>4. \A n : ~Holds(stream[f].queue, n)
    BY DEF Holds
<1>5. ~stream[f].lagged /\ stream[f].last \in Nat
    BY <1>3 DEF Good, QueueGood, StreamRecord
<1>6. ASSUME NEW k \in 1 .. Len(clocks) PROVE k \in 1 .. stream[f].last
    BY <1>3, <1>4, <1>5 DEF Good, AheadGood
<1> QED BY <1>3, <1>6 DEF Good, PassedGood

(* SessionStream's StreamComplete, for any streams, events and places.     *)
THEOREM StreamsComplete == Stream!StreamSpec => []Stream!StreamComplete
BY StreamSafe, StreamsAreComplete, PTL

-----------------------------------------------------------------------------
(* Terminals: a shell, its replay and those who watch it.                  *)

States == {"running", "exited", "closed", "detached", "error"}
Frame == {Terminal!Output(n) : n \in Nat} \cup {Terminal!Status(s) : s \in States}
ViewRecord == [at : {"closed", "subscribed", "open"}, seen : SUBSET Nat,
               told : BOOLEAN, cut : BOOLEAN]

TermType ==
    /\ pty \in {"none", "running", "exited", "closed"}
    /\ seq \in Nat /\ unsent \in BOOLEAN /\ replay \in Seq(Nat) /\ route \in BOOLEAN
    /\ toNode \in Seq({"attach", "close"}) /\ toCore \in Seq(Frame)
    /\ listed \in {"none", "opening"} \cup States
    /\ view \in [Viewers -> ViewRecord]

(* What the Node has of the terminal: the replay is the end of the output. *)
ReplayInv ==
    /\ pty = "none" => seq = 0
    /\ unsent => pty = "running" /\ seq > 0
    /\ pty \notin {"running", "exited"} => replay = <<>>
    /\ Len(replay) <= seq
    /\ \A i \in DOMAIN replay : replay[i] = seq - Len(replay) + i
    /\ pty \in {"running", "exited"} /\ seq > 0 => replay # <<>>

(* Without a route nothing is under way and no open stream was spared;     *)
(* a stream is of a terminal that is listed, which was opened.             *)
RouteInv ==
    /\ ~route => /\ toNode = <<>> /\ toCore = <<>>
                 /\ \A v \in Viewers : view[v].at = "open" => view[v].cut
    /\ \A v \in Viewers : view[v].at # "closed" => Terminal!Listed
    /\ Terminal!Listed => pty # "none"

(* Only output that was produced is under way or passed on.                *)
OutputInv ==
    /\ \A n \in Nat : Holds(toCore, Terminal!Output(n)) => n \in 1 .. seq
    /\ \A v \in Viewers : view[v].seen \subseteq 1 .. seq

(* What is still to come for a stream w that held: the answer to an        *)
(* attach, a word that output is missing, or all output it lacks.          *)
Coming(w) ==
    \/ Holds(toNode, "attach")
    \/ \E s \in States \ {"running"} : Holds(toCore, Terminal!Status(s))
    \/ \A n \in 1 .. seq : n \in w.seen \/ Holds(toCore, Terminal!Output(n)) \/ (n = seq /\ unsent)
ViewInv ==
    \A v \in Viewers : view[v].at = "open" /\ ~view[v].cut /\ ~view[v].told => Coming(view[v])

TermInv == TermType /\ ReplayInv /\ RouteInv /\ OutputInv /\ ViewInv

-----------------------------------------------------------------------------
(* Frames and views.                                                       *)

(* A frame is output or a word on the terminal.                            *)
LEMMA FrameKinds ==
    /\ \A n : Terminal!Output(n).kind = "output" /\ Terminal!Output(n).value = n
    /\ \A s : Terminal!Status(s).kind = "status" /\ Terminal!Status(s).value = s
    /\ \A n, m : Terminal!Output(n) = Terminal!Output(m) => n = m
    /\ \A n, m : Terminal!Status(n) = Terminal!Status(m) => n = m
    /\ \A n, s : Terminal!Output(n) # Terminal!Status(s)
<1>1. /\ \A n : Terminal!Output(n).kind = "output" /\ Terminal!Output(n).value = n
      /\ \A s : Terminal!Status(s).kind = "status" /\ Terminal!Status(s).value = s
    BY DEF Terminal!Output, Terminal!Status
<1>2. \A n, s : Terminal!Output(n) # Terminal!Status(s)
    <2> SUFFICES ASSUME NEW n, NEW s, Terminal!Output(n) = Terminal!Status(s) PROVE FALSE
        OBVIOUS
    <2>1. Terminal!Output(n).kind = "output" /\ Terminal!Status(s).kind = "status"
        BY <1>1
    <2> QED BY <2>1
<1>3. \A n, m : Terminal!Output(n) = Terminal!Output(m) => n = m
    <2> SUFFICES ASSUME NEW n, NEW m, Terminal!Output(n) = Terminal!Output(m) PROVE n = m
        OBVIOUS
    <2>1. Terminal!Output(n).value = n /\ Terminal!Output(m).value = m
        BY <1>1
    <2> QED BY <2>1
<1>4. \A n, m : Terminal!Status(n) = Terminal!Status(m) => n = m
    <2> SUFFICES ASSUME NEW n, NEW m, Terminal!Status(n) = Terminal!Status(m) PROVE n = m
        OBVIOUS
    <2>1. Terminal!Status(n).value = n /\ Terminal!Status(m).value = m
        BY <1>1
    <2> QED BY <2>1
<1> QED BY <1>1, <1>2, <1>3, <1>4

(* What is sent goes behind what is under way, or nowhere.                 *)
LEMMA SentHolds ==
    ASSUME TermType, NEW frames \in Seq(Frame), Terminal!Sent(frames)
    PROVE  /\ toCore' \in Seq(Frame)
           /\ \A f : Holds(toCore, f) => Holds(toCore', f)
           /\ \A f : Holds(toCore', f) => Holds(toCore, f) \/ Holds(frames, f)
           /\ route => \A f : Holds(frames, f) => Holds(toCore', f)
           /\ ~route => toCore' = toCore
<1>1. toCore \in Seq(Frame)
    BY DEF TermType
<1>2. CASE route
    BY <1>1, <1>2, ConcatHolds DEF Terminal!Sent
<1>3. CASE ~route
    BY <1>1, <1>3 DEF Terminal!Sent
<1> QED BY <1>2, <1>3

(* A changed view is a view.                                               *)
LEMMA ViewChanged ==
    ASSUME NEW w \in ViewRecord
    PROVE  /\ Terminal!Closed \in ViewRecord /\ Terminal!Closed.at = "closed" /\ Terminal!Closed.seen = {}
           /\ [Terminal!Closed EXCEPT !.at = "subscribed"] \in ViewRecord
           /\ [Terminal!Closed EXCEPT !.at = "subscribed"].at = "subscribed"
           /\ [Terminal!Closed EXCEPT !.at = "subscribed"].seen = {}
           /\ [w EXCEPT !.at = "open"] \in ViewRecord
           /\ [w EXCEPT !.at = "open"].at = "open"
           /\ [w EXCEPT !.at = "open"].seen = w.seen
           /\ [w EXCEPT !.told = TRUE] \in ViewRecord
           /\ [w EXCEPT !.told = TRUE].at = w.at
           /\ [w EXCEPT !.told = TRUE].seen = w.seen
           /\ [w EXCEPT !.told = TRUE].told
           /\ [w EXCEPT !.told = TRUE].cut = w.cut
<1>1. PICK c \in ViewRecord : c = Terminal!Closed
    BY DEF ViewRecord, Terminal!Closed
<1>2. Terminal!Closed \in ViewRecord /\ Terminal!Closed.at = "closed" /\ Terminal!Closed.seen = {}
    BY <1>1 DEF Terminal!Closed
<1>3. /\ [c EXCEPT !.at = "subscribed"] \in ViewRecord
      /\ [c EXCEPT !.at = "subscribed"].at = "subscribed"
      /\ [c EXCEPT !.at = "subscribed"].seen = c.seen
    BY DEF ViewRecord
<1>4. /\ [w EXCEPT !.at = "open"] \in ViewRecord
      /\ [w EXCEPT !.at = "open"].at = "open"
      /\ [w EXCEPT !.at = "open"].seen = w.seen
    BY DEF ViewRecord
<1>5. /\ [w EXCEPT !.told = TRUE] \in ViewRecord
      /\ [w EXCEPT !.told = TRUE].at = w.at
      /\ [w EXCEPT !.told = TRUE].seen = w.seen
      /\ [w EXCEPT !.told = TRUE].told
      /\ [w EXCEPT !.told = TRUE].cut = w.cut
    BY DEF ViewRecord
<1> QED BY <1>1, <1>2, <1>3, <1>4, <1>5

(* View u is what is left of view w when frame f has passed.               *)
PassedRight(u, f, w) ==
    /\ u \in ViewRecord /\ u.at = w.at /\ u.cut = w.cut /\ (w.told => u.told)
    /\ \A n \in Nat : f = Terminal!Output(n) =>
          u.seen = IF w.at = "closed" THEN w.seen ELSE w.seen \cup {n}
    /\ \A s \in States : f = Terminal!Status(s) =>
          u.seen = w.seen /\ (w.at # "closed" /\ s # "running" => u.told)

(* What a frame does to a view.                                            *)
LEMMA PassedView ==
    ASSUME NEW w \in ViewRecord, NEW f \in Frame
    PROVE  PassedRight(Terminal!Passed(f, w), f, w)
<1>1. CASE w.at = "closed"
    <2>1. Terminal!Passed(f, w) = w
        BY <1>1 DEF Terminal!Passed
    <2> QED BY <1>1, <2>1 DEF PassedRight
<1>2. CASE w.at # "closed" /\ \E n \in Nat : f = Terminal!Output(n)
    <2>1. PICK n \in Nat : f = Terminal!Output(n)
        BY <1>2
    <2>2. Terminal!Passed(f, w) = [w EXCEPT !.seen = @ \cup {n}]
        BY <1>2, <2>1, FrameKinds DEF Terminal!Passed
    <2>3. /\ [w EXCEPT !.seen = @ \cup {n}] \in ViewRecord
          /\ [w EXCEPT !.seen = @ \cup {n}].at = w.at /\ [w EXCEPT !.seen = @ \cup {n}].cut = w.cut
          /\ [w EXCEPT !.seen = @ \cup {n}].told = w.told
          /\ [w EXCEPT !.seen = @ \cup {n}].seen = w.seen \cup {n}
        BY DEF ViewRecord
    <2>4. \A m : f = Terminal!Output(m) => m = n
        BY <2>1, FrameKinds
    <2>5. \A s : f # Terminal!Status(s)
        BY <2>1, FrameKinds
    <2>6. PICK u : u = [w EXCEPT !.seen = @ \cup {n}]
        OBVIOUS
    <2>7. PassedRight(u, f, w)
        BY <1>2, <2>3, <2>4, <2>5, <2>6 DEF PassedRight
    <2> QED BY <2>2, <2>6, <2>7
<1>3. CASE w.at # "closed" /\ \E s \in States : f = Terminal!Status(s)
    <2>1. PICK s \in States : f = Terminal!Status(s)
        BY <1>3
    <2>2. PICK t \in BOOLEAN : t = (w.told \/ s # "running")
        OBVIOUS
    <2>3. Terminal!Passed(f, w) = [w EXCEPT !.told = t]
        BY <1>3, <2>1, <2>2, FrameKinds DEF Terminal!Passed
    <2>4. /\ [w EXCEPT !.told = t] \in ViewRecord
          /\ [w EXCEPT !.told = t].at = w.at /\ [w EXCEPT !.told = t].cut = w.cut
          /\ [w EXCEPT !.told = t].told = t /\ [w EXCEPT !.told = t].seen = w.seen
        BY DEF ViewRecord
    <2>5. \A r \in States : f = Terminal!Status(r) => r = s
        BY <2>1, FrameKinds
    <2>6. \A n : f # Terminal!Output(n)
        BY <2>1, FrameKinds
    <2>7. PICK u : u = [w EXCEPT !.told = t]
        OBVIOUS
    <2>8. PassedRight(u, f, w)
        BY <2>1, <2>2, <2>4, <2>5, <2>6, <2>7 DEF PassedRight
    <2> QED BY <2>3, <2>7, <2>8
<1> QED BY <1>1, <1>2, <1>3 DEF Frame

-----------------------------------------------------------------------------
(* Initially there is no terminal.                                         *)
LEMMA TermStarts == Terminal!TermInit => TermInv
<1> SUFFICES ASSUME Terminal!TermInit PROVE TermInv
    OBVIOUS
<1>1. <<>> \in Seq(Nat) /\ <<>> \in Seq({"attach", "close"}) /\ <<>> \in Seq(Frame)
      /\ Len(<<>>) = 0 /\ DOMAIN <<>> = {}
    OBVIOUS
<1>2. Terminal!Closed \in ViewRecord /\ Terminal!Closed.at = "closed" /\ Terminal!Closed.seen = {}
    BY <1>1 DEF Terminal!Closed, ViewRecord
<1>3. TermType
    BY <1>1, <1>2 DEF Terminal!TermInit, TermType
<1>4. ReplayInv /\ RouteInv /\ OutputInv /\ ViewInv
    BY <1>1, <1>2, ShortHolds
       DEF Terminal!TermInit, ReplayInv, RouteInv, OutputInv, ViewInv, Terminal!Listed
<1> QED BY <1>3, <1>4 DEF TermInv

(* What was still to come is, when nothing of it is taken.                 *)
LEMMA ComingKept ==
    ASSUME TermInv, NEW v \in Viewers, Coming(view[v]), view'[v].seen = view[v].seen,
           seq' = seq, unsent => unsent', \A f : Holds(toCore, f) => Holds(toCore', f),
           Holds(toNode, "attach") => Holds(toNode', "attach")
    PROVE  Coming(view[v])'
BY DEF Coming

(* What a step of the Node that sends frames keeps.                        *)
LEMMA SendStep ==
    ASSUME TermInv, NEW frames \in Seq(Frame), Terminal!Sent(frames),
           \A n \in Nat : Holds(frames, Terminal!Output(n)) => n \in 1 .. seq,
           UNCHANGED <<seq, route, listed, view>>,
           toNode' \in Seq({"attach", "close"}), ~route => toNode' = <<>>,
           pty # "none" => pty' # "none"
    PROVE  toCore' \in Seq(Frame) /\ RouteInv' /\ OutputInv'
<1>1. /\ toCore' \in Seq(Frame)
      /\ \A f : Holds(toCore', f) => Holds(toCore, f) \/ Holds(frames, f)
      /\ ~route => toCore' = toCore
    BY SentHolds DEF TermInv
<1>2. RouteInv'
    BY <1>1 DEF TermInv, RouteInv, Terminal!Listed
<1>3. OutputInv'
    BY <1>1 DEF TermInv, OutputInv
<1> QED BY <1>1, <1>2, <1>3

(* The terminal is opened, or its shell exits.                             *)
LEMMA ShellSteps == ASSUME TermInv, Terminal!open \/ Terminal!Exit PROVE TermInv'
<1>0. TermType /\ \A x \in States : <<Terminal!Status(x)>> \in Seq(Frame)
                      /\ \A n \in Nat : ~Holds(<<Terminal!Status(x)>>, Terminal!Output(n))
    BY ShortHolds, FrameKinds DEF TermInv, Frame
<1>1. /\ UNCHANGED <<seq, unsent, replay, route, toNode, listed, view>>
      /\ \E x \in {"running", "exited"} : pty' = x /\ Terminal!Sent(<<Terminal!Status(x)>>)
    BY DEF Terminal!open, Terminal!Exit
<1>2. PICK x \in {"running", "exited"} : pty' = x /\ Terminal!Sent(<<Terminal!Status(x)>>)
    BY <1>1
<1>3. x \in States
    BY DEF States
<1>4. toNode \in Seq({"attach", "close"}) /\ (~route => toNode = <<>>)
    BY DEF TermInv, TermType, RouteInv
<1>5. toCore' \in Seq(Frame) /\ RouteInv' /\ OutputInv'
    BY <1>0, <1>1, <1>2, <1>3, <1>4, SendStep
<1>6. TermType'
    BY <1>0, <1>1, <1>2, <1>5 DEF TermType
<1>7. ReplayInv'
    <2>1. CASE Terminal!open
        BY <1>1, <1>2, <2>1 DEF TermInv, ReplayInv, Terminal!open
    <2>2. CASE Terminal!Exit
        BY <1>1, <1>2, <2>2 DEF TermInv, ReplayInv, Terminal!Exit
    <2> QED BY <2>1, <2>2
<1>8. ASSUME NEW v \in Viewers, view[v].at = "open", ~view[v].cut, ~view[v].told
      PROVE  Coming(view[v])'
    <2>1. Coming(view[v])
        BY <1>8 DEF TermInv, ViewInv
    <2>2. \A f : Holds(toCore, f) => Holds(toCore', f)
        BY <1>0, <1>2, <1>3, SentHolds
    <2> QED BY <1>1, <2>1, <2>2, ComingKept
<1> QED BY <1>1, <1>5, <1>6, <1>7, <1>8 DEF TermInv, ViewInv

(* Output is numbered and recorded: the replay still ends the output.      *)
LEMMA ProduceStep == ASSUME TermInv, Terminal!Produce PROVE TermInv'
<1>0. /\ TermType /\ seq \in Nat /\ replay \in Seq(Nat) /\ Len(replay) \in Nat
      /\ pty = "running" /\ seq' = seq + 1 /\ unsent'
      /\ UNCHANGED <<pty, route, toNode, toCore, listed, view>>
    BY DEF TermInv, TermType, Terminal!Produce
<1> DEFINE all == Append(replay, seq + 1)
<1>1. /\ all \in Seq(Nat) /\ Len(all) = Len(replay) + 1
      /\ \A i \in 1 .. Len(all) : all[i] = seq + 1 - Len(all) + i
    <2>1. all \in Seq(Nat) /\ Len(all) = Len(replay) + 1 /\ all[Len(replay) + 1] = seq + 1
          /\ \A i \in 1 .. Len(replay) : all[i] = replay[i]
        BY <1>0, AppendProperties
    <2>2. \A i \in 1 .. Len(replay) : replay[i] = seq - Len(replay) + i
        BY <1>0 DEF TermInv, ReplayInv
    <2> HIDE DEF all
    <2>3. ASSUME NEW i \in 1 .. Len(all) PROVE all[i] = seq + 1 - Len(all) + i
        <3>1. CASE i \in 1 .. Len(replay)
            BY <1>0, <2>1, <2>2, <3>1
        <3>2. CASE i = Len(replay) + 1
            BY <1>0, <2>1, <3>2
        <3> QED BY <1>0, <2>1, <3>1, <3>2
    <2> QED BY <2>1, <2>3
<1>2. replay' = IF Len(all) > Retained THEN Tail(all) ELSE all
    BY DEF Terminal!Produce, Terminal!record_terminal_replay
<1>3. Len(replay) <= seq
    BY DEF TermInv, ReplayInv
<1>4. /\ replay' \in Seq(Nat) /\ replay' # <<>> /\ Len(replay') <= seq + 1
      /\ \A i \in DOMAIN replay' : replay'[i] = seq + 1 - Len(replay') + i
    <2> HIDE DEF all
    <2>1. CASE Len(all) > Retained
        <3>0. all # <<>>
            BY <1>0, <1>1
        <3>1. PICK t \in Seq(Nat) : t = Tail(all)
            BY <1>1, <3>0, HeadTailProperties
        <3>2. /\ Len(t) = Len(all) - 1 /\ DOMAIN t = 1 .. Len(t)
              /\ \A i \in 1 .. Len(t) : t[i] = all[i + 1]
            BY <1>1, <3>0, <3>1, HeadTailProperties
        <3>3. Len(t) > 0 /\ Len(t) = Len(replay) /\ t # <<>>
            BY <1>0, <1>1, <2>1, <3>2, ReplayAssumption
        <3>4. ASSUME NEW i \in 1 .. Len(t) PROVE t[i] = seq + 1 - Len(t) + i
            <4>1. i + 1 \in 1 .. Len(all)
                BY <1>0, <1>1, <3>2, <3>3
            <4>2. t[i] = seq + 1 - Len(all) + (i + 1)
                BY <1>1, <3>2, <4>1
            <4> QED BY <1>0, <1>1, <3>2, <3>3, <4>2
        <3>5. replay' = t
            BY <1>2, <2>1, <3>1
        <3>6. \A i \in DOMAIN t : t[i] = seq + 1 - Len(t) + i
            BY <3>2, <3>4
        <3>7. Len(t) <= seq + 1
            BY <1>0, <1>3, <3>3
        <3> QED BY <3>3, <3>5, <3>6, <3>7
    <2>2. CASE ~(Len(all) > Retained)
        <3>1. replay' = all /\ DOMAIN all = 1 .. Len(all) /\ all # <<>>
            BY <1>0, <1>1, <1>2, <2>2
        <3>2. \A i \in DOMAIN all : all[i] = seq + 1 - Len(all) + i
            BY <1>1, <3>1
        <3>3. Len(all) <= seq + 1
            BY <1>0, <1>1, <1>3
        <3> QED BY <1>1, <3>1, <3>2, <3>3
    <2> QED BY <2>1, <2>2
<1>5. TermType'
    BY <1>0, <1>4 DEF TermType
<1>6. ReplayInv'
    BY <1>0, <1>4 DEF ReplayInv
<1>7. RouteInv'
    BY <1>0 DEF TermInv, RouteInv, Terminal!Listed
<1>8. OutputInv'
    <2>1. \A n : n \in 1 .. seq => n \in 1 .. seq + 1
        BY <1>0
    <2> QED BY <1>0, <2>1 DEF TermInv, OutputInv
<1>9. ViewInv'
    <2>1. \A n \in 1 .. seq + 1 : n \in 1 .. seq \/ n = seq + 1
        BY <1>0
    <2>2. ~unsent
        BY DEF Terminal!Produce
    <2> QED BY <1>0, <2>1, <2>2 DEF TermInv, ViewInv, Coming
<1> QED BY <1>5, <1>6, <1>7, <1>8, <1>9 DEF TermInv

(* Output is sent: it was the unsent one.                                  *)
LEMMA OutputStep == ASSUME TermInv, Terminal!SendOutput PROVE TermInv'
<1>0. /\ TermType /\ seq \in Nat /\ unsent /\ unsent' = FALSE /\ Terminal!Sent(<<Terminal!Output(seq)>>) /\ seq > 0
      /\ UNCHANGED <<pty, seq, replay, route, toNode, listed, view>>
    BY DEF TermInv, TermType, Terminal!SendOutput, ReplayInv
<1>1. /\ <<Terminal!Output(seq)>> \in Seq(Frame)
      /\ \A n \in Nat : Holds(<<Terminal!Output(seq)>>, Terminal!Output(n)) => n \in 1 .. seq
    BY <1>0, ShortHolds, FrameKinds DEF Frame
<1>2. toNode \in Seq({"attach", "close"}) /\ (~route => toNode = <<>>)
    BY DEF TermInv, TermType, RouteInv
<1>3. toCore' \in Seq(Frame) /\ RouteInv' /\ OutputInv'
    BY <1>0, <1>1, <1>2, SendStep
<1>4. TermType'
    BY <1>0, <1>3 DEF TermType
<1>5. ReplayInv'
    BY <1>0 DEF TermInv, ReplayInv
<1>6. ASSUME NEW v \in Viewers, view[v].at = "open", ~view[v].cut, ~view[v].told
      PROVE  Coming(view[v])'
    <2>1. Coming(view[v]) /\ route
        BY <1>6 DEF TermInv, ViewInv, RouteInv
    <2>2. /\ \A f : Holds(toCore, f) => Holds(toCore', f)
          /\ Holds(toCore', Terminal!Output(seq))
        BY <1>0, <1>1, <2>1, SentHolds, ShortHolds
    <2> QED BY <1>0, <2>1, <2>2 DEF Coming
<1> QED BY <1>0, <1>3, <1>4, <1>5, <1>6 DEF TermInv, ViewInv

(* An attach is answered by all that is retained, and by a word when that  *)
(* is not all of the output.                                               *)
LEMMA AttachStep == ASSUME TermInv, Terminal!ReceiveAttach PROVE TermInv'
<1> DEFINE frames == IF pty \in {"running", "exited"} THEN Terminal!attach ELSE <<Terminal!Status("error")>>
           outputs == [i \in DOMAIN replay |-> Terminal!Output(replay[i])]
           word == IF replay # <<>> /\ Head(replay) > 1 THEN <<Terminal!Status("detached")>> ELSE <<>>
<1>0. /\ TermType /\ seq \in Nat /\ replay \in Seq(Nat) /\ Terminal!Sent(frames)
      /\ toNode \in Seq({"attach", "close"}) /\ toNode # <<>> /\ toNode' = Tail(toNode)
      /\ UNCHANGED <<pty, seq, unsent, replay, route, listed, view>>
    BY DEF TermInv, TermType, Terminal!ReceiveAttach
<1>1. route
    BY <1>0 DEF TermInv, RouteInv
<1>2. Tail(toNode) \in Seq({"attach", "close"})
    BY <1>0, TailHolds
<1>3. /\ Terminal!Status("detached") \in Frame /\ Terminal!Status("error") \in Frame
      /\ "detached" \in States \ {"running"} /\ "error" \in States \ {"running"}
    BY DEF Frame, States
<1>4. word \in Seq(Frame) /\ \A n : ~Holds(word, Terminal!Output(n))
    BY <1>3, ShortHolds, FrameKinds
<1>5. /\ outputs \in Seq(Frame) /\ \A i \in DOMAIN replay : Holds(outputs, Terminal!Output(replay[i]))
      /\ \A n \in Nat : Holds(outputs, Terminal!Output(n)) => n \in 1 .. seq
    <2>1. DOMAIN replay = 1 .. Len(replay) /\ Len(replay) \in Nat
        BY <1>0
    <2>2. \A i \in 1 .. Len(replay) : Terminal!Output(replay[i]) \in Frame
        BY <1>0 DEF Frame
    <2>3. outputs \in Seq(Frame)
        BY <2>1, <2>2
    <2>4. DOMAIN outputs = DOMAIN replay /\ \A i \in DOMAIN replay : outputs[i] = Terminal!Output(replay[i])
        OBVIOUS
    <2>5. \A i \in DOMAIN replay : replay[i] \in 1 .. seq
        BY <1>0, <2>1 DEF TermInv, ReplayInv
    <2> HIDE DEF outputs
    <2> QED BY <2>3, <2>4, <2>5, FrameKinds DEF Holds
<1>6. Terminal!attach = word \o outputs
    BY DEF Terminal!attach
<1> HIDE DEF word, outputs
<1>7. /\ Terminal!attach \in Seq(Frame) /\ \A f : Holds(Terminal!attach, f) <=> Holds(word, f) \/ Holds(outputs, f)
    BY <1>4, <1>5, <1>6, ConcatHolds
<1>8. /\ frames \in Seq(Frame)
      /\ \A n \in Nat : Holds(frames, Terminal!Output(n)) => n \in 1 .. seq
    <2>1. CASE pty \in {"running", "exited"}
        BY <1>4, <1>5, <1>7, <2>1
    <2>2. CASE pty \notin {"running", "exited"}
        BY <1>3, <2>2, ShortHolds, FrameKinds
    <2> QED BY <2>1, <2>2
<1> HIDE DEF frames
<1>9. toCore' \in Seq(Frame) /\ RouteInv' /\ OutputInv'
    BY <1>0, <1>1, <1>2, <1>8, SendStep
<1>10. TermType'
    BY <1>0, <1>2, <1>9 DEF TermType
<1>11. ReplayInv'
    BY <1>0 DEF TermInv, ReplayInv
<1>12. \A f : Holds(frames, f) => Holds(toCore', f)
    BY <1>0, <1>1, <1>8, SentHolds
<1>13. ASSUME NEW v \in Viewers PROVE Coming(view[v])'
    <2>1. CASE pty \notin {"running", "exited"}
        <3>1. Holds(frames, Terminal!Status("error"))
            BY <2>1, ShortHolds DEF frames
        <3> QED BY <1>3, <1>12, <3>1 DEF Coming
    <2>2. CASE pty \in {"running", "exited"} /\ replay # <<>> /\ Head(replay) > 1
        <3>1. Holds(word, Terminal!Status("detached"))
            BY <2>2, ShortHolds DEF word
        <3>2. Holds(frames, Terminal!Status("detached"))
            BY <1>7, <2>2, <3>1 DEF frames
        <3> QED BY <1>3, <1>12, <3>2 DEF Coming
    <2>3. CASE pty \in {"running", "exited"} /\ ~(replay # <<>> /\ Head(replay) > 1)
        <3>1. ASSUME NEW n \in 1 .. seq PROVE Holds(toCore', Terminal!Output(n))
            <4>1. replay # <<>> /\ DOMAIN replay = 1 .. Len(replay) /\ Len(replay) \in Nat
                BY <1>0, <2>3 DEF TermInv, ReplayInv
            <4>2. 1 \in DOMAIN replay /\ replay[1] <= 1
                BY <1>0, <2>3, <4>1, TailHolds
            <4>3. Len(replay) = seq
                <5>1. Len(replay) <= seq /\ replay[1] = seq - Len(replay) + 1
                    BY <4>2 DEF TermInv, ReplayInv
                <5>2. seq \in Nat /\ Len(replay) \in Nat /\ replay[1] <= 1
                    BY <1>0, <4>1, <4>2
                <5> QED BY <5>1, <5>2
            <4>4. n \in DOMAIN replay /\ replay[n] = n
                BY <1>0, <4>1, <4>3 DEF TermInv, ReplayInv
            <4>5. Holds(outputs, Terminal!Output(n))
                BY <1>5, <4>4
            <4>6. Holds(frames, Terminal!Output(n))
                BY <1>7, <2>3, <4>5 DEF frames
            <4> QED BY <1>12, <4>6
        <3> QED BY <1>0, <3>1 DEF Coming
    <2> QED BY <2>1, <2>2, <2>3
<1> QED BY <1>9, <1>10, <1>11, <1>13 DEF TermInv, ViewInv

(* The terminal is closed: what was sent before stays on its way.          *)
LEMMA CloseStep == ASSUME TermInv, Terminal!ReceiveClose PROVE TermInv'
<1> DEFINE frames == IF pty = "running" THEN <<Terminal!Status("closed")>> ELSE <<>>
<1>0. /\ TermType /\ seq \in Nat /\ Terminal!Sent(frames) /\ ~unsent /\ replay' = <<>>
      /\ toNode \in Seq({"attach", "close"}) /\ toNode # <<>> /\ toNode' = Tail(toNode)
      /\ toNode[1] = "close"
      /\ pty' = IF pty \in {"running", "exited"} THEN "closed" ELSE pty
      /\ UNCHANGED <<seq, unsent, route, listed, view>>
    BY DEF TermInv, TermType, Terminal!ReceiveClose
<1>1. route
    BY <1>0 DEF TermInv, RouteInv
<1>2. /\ Tail(toNode) \in Seq({"attach", "close"})
      /\ \A n : Holds(toNode, n) => n = toNode[1] \/ Holds(Tail(toNode), n)
    BY <1>0, TailHolds
<1>3. frames \in Seq(Frame) /\ \A n : ~Holds(frames, Terminal!Output(n))
    <2>1. Terminal!Status("closed") \in Frame
        BY DEF Frame, States
    <2>2. CASE pty = "running"
        BY <2>1, <2>2, ShortHolds, FrameKinds
    <2>3. CASE pty # "running"
        BY <2>3, ShortHolds
    <2> QED BY <2>2, <2>3
<1> HIDE DEF frames
<1>4. toCore' \in Seq(Frame) /\ RouteInv' /\ OutputInv'
    BY <1>0, <1>1, <1>2, <1>3, SendStep
<1>5. <<>> \in Seq(Nat) /\ Len(<<>>) = 0 /\ DOMAIN <<>> = {}
    OBVIOUS
<1>6. TermType'
    BY <1>0, <1>2, <1>4, <1>5 DEF TermType
<1>7. ReplayInv'
    BY <1>0, <1>5 DEF TermInv, ReplayInv, TermType
<1>8. ASSUME NEW v \in Viewers, view[v].at = "open", ~view[v].cut, ~view[v].told
      PROVE  Coming(view[v])'
    <2>1. Coming(view[v])
        BY <1>8 DEF TermInv, ViewInv
    <2>2. \A f : Holds(toCore, f) => Holds(toCore', f)
        BY <1>0, <1>3, SentHolds
    <2>3. Holds(toNode, "attach") => Holds(toNode', "attach")
        BY <1>0, <1>2
    <2> QED BY <1>0, <2>1, <2>2, <2>3, ComingKept
<1> QED BY <1>0, <1>4, <1>6, <1>7, <1>8 DEF TermInv, ViewInv

(* One stream changes, and with it at most what it asks of the Node.       *)
LEMMA OneView ==
    ASSUME TermInv, NEW v \in Viewers, NEW w \in ViewRecord,
           view' = [view EXCEPT ![v] = w],
           UNCHANGED <<pty, seq, unsent, replay, route, toCore, listed>>,
           \/ toNode' = toNode
           \/ route /\ \E m \in {"attach", "close"} : toNode' = Append(toNode, m),
           w.seen \subseteq view[v].seen, w.at # "closed" => Terminal!Listed,
           w.at = "open" => w = view[v] \/ (route /\ Holds(toNode', "attach"))
    PROVE  TermInv'
<1>0. TermType /\ toNode \in Seq({"attach", "close"})
    BY DEF TermInv, TermType
<1>1. \A u \in Viewers : view'[u] = IF u = v THEN w ELSE view[u]
    BY <1>0 DEF TermType
<1>2. /\ toNode' \in Seq({"attach", "close"}) /\ (~route => toNode' = toNode)
      /\ \A n : Holds(toNode, n) => Holds(toNode', n)
    <2>1. CASE toNode' = toNode
        BY <1>0, <2>1
    <2>2. CASE route /\ \E m \in {"attach", "close"} : toNode' = Append(toNode, m)
        BY <1>0, <2>2, AppendHolds
    <2> QED BY <2>1, <2>2
<1>3. TermType'
    BY <1>0, <1>2 DEF TermType
<1>4. ReplayInv'
    BY DEF TermInv, ReplayInv
<1>5. RouteInv'
    BY <1>1, <1>2 DEF TermInv, RouteInv, Terminal!Listed
<1>6. OutputInv'
    BY <1>1 DEF TermInv, OutputInv
<1>7. ViewInv'
    BY <1>1, <1>2 DEF TermInv, ViewInv, Coming
<1> QED BY <1>3, <1>4, <1>5, <1>6, <1>7 DEF TermInv

(* A viewer subscribes, asks for an attach, asks to close, goes away.      *)
LEMMA ViewerSteps ==
    ASSUME TermInv, NEW v \in Viewers, Terminal!Subscribe(v) \/ Terminal!Ask(v) \/ Terminal!AskClose(v) \/ Terminal!Leave(v)
    PROVE  TermInv'
<1>0. /\ TermType /\ view[v] \in ViewRecord /\ toNode \in Seq({"attach", "close"})
      /\ view[v].at # "closed" => Terminal!Listed
    BY DEF TermInv, TermType, RouteInv
<1>1. Terminal!Closed \in ViewRecord /\ Terminal!Closed.at = "closed" /\ Terminal!Closed.seen = {}
    BY <1>0, ViewChanged
<1>2. CASE Terminal!Subscribe(v)
    <2>1. PICK w : w = [Terminal!Closed EXCEPT !.at = "subscribed"]
        OBVIOUS
    <2>2. w \in ViewRecord /\ w.at = "subscribed" /\ w.seen = {}
        BY <1>0, <2>1, ViewChanged
    <2>3. /\ view' = [view EXCEPT ![v] = w] /\ Terminal!Listed
          /\ UNCHANGED <<pty, seq, unsent, replay, route, toNode, toCore, listed>>
        BY <1>2, <2>1 DEF Terminal!Subscribe
    <2> QED BY <2>2, <2>3, OneView
<1>3. CASE view' = [view EXCEPT ![v] = Terminal!Closed]
           /\ UNCHANGED <<pty, seq, unsent, replay, route, toNode, toCore, listed>>
    BY <1>1, <1>3, OneView
<1>4. CASE Terminal!Ask(v)
    <2>1. CASE ~route
        BY <1>3, <1>4, <2>1 DEF Terminal!Ask
    <2>2. CASE route
        <3>1. PICK w : w = [view[v] EXCEPT !.at = "open"]
            OBVIOUS
        <3>2. w \in ViewRecord /\ w.at = "open" /\ w.seen = view[v].seen
            BY <1>0, <3>1, ViewChanged
        <3>3. /\ view' = [view EXCEPT ![v] = w] /\ Terminal!Listed /\ toNode' = Append(toNode, "attach")
              /\ UNCHANGED <<pty, seq, unsent, replay, route, toCore, listed>>
            BY <1>0, <1>4, <2>2, <3>1 DEF Terminal!Ask, TermType
        <3>4. Holds(toNode', "attach")
            BY <1>0, <3>3, AppendHolds
        <3> QED BY <2>2, <3>2, <3>3, <3>4, OneView
    <2> QED BY <2>1, <2>2
<1>5. CASE Terminal!AskClose(v)
    <2>1. CASE ~route
        BY <1>3, <1>5, <2>1 DEF Terminal!AskClose
    <2>2. CASE route
        <3>1. /\ view' = [view EXCEPT ![v] = view[v]] /\ toNode' = Append(toNode, "close")
              /\ UNCHANGED <<pty, seq, unsent, replay, route, toCore, listed>>
            BY <1>0, <1>5, <2>2 DEF Terminal!AskClose, TermType
        <3> QED BY <1>0, <2>2, <3>1, OneView
    <2> QED BY <2>1, <2>2
<1>6. CASE Terminal!Leave(v)
    BY <1>3, <1>6 DEF Terminal!Leave
<1> QED BY <1>2, <1>4, <1>5, <1>6

(* The terminal is listed: nobody looked at it before.                     *)
LEMMA ListStep == ASSUME TermInv, Terminal!List PROVE TermInv'
<1>1. /\ listed = "opening" /\ listed' = "running" /\ pty # "none" /\ TermType
      /\ UNCHANGED <<pty, seq, unsent, replay, route, toNode, toCore, view>>
    BY DEF Terminal!List, TermInv
<1>2. TermType'
    BY <1>1 DEF TermType, States
<1>3. ReplayInv' /\ OutputInv' /\ ViewInv'
    BY <1>1 DEF TermInv, ReplayInv, OutputInv, ViewInv, Coming
<1>4. RouteInv'
    BY <1>1 DEF TermInv, RouteInv, Terminal!Listed
<1> QED BY <1>2, <1>3, <1>4 DEF TermInv

(* A frame reaches every stream, or the stream is told.                    *)
LEMMA FrameStep ==
    ASSUME TermInv, NEW lagging \in SUBSET Viewers, Terminal!ReceiveFrame(lagging) PROVE TermInv'
<1> DEFINE f == toCore[1]
<1>0. /\ TermType /\ toCore \in Seq(Frame) /\ toCore # <<>> /\ toCore' = Tail(toCore)
      /\ UNCHANGED <<pty, seq, unsent, replay, route, toNode>>
    BY DEF TermInv, TermType, Terminal!ReceiveFrame
<1>1. /\ Tail(toCore) \in Seq(Frame) /\ f \in Frame /\ Head(toCore) = f
      /\ \A g : Holds(toCore, g) => g = f \/ Holds(Tail(toCore), g)
      /\ \A g : Holds(Tail(toCore), g) => Holds(toCore, g)
      /\ Holds(toCore, f)
    BY <1>0, TailHolds DEF Holds
<1>2. route
    BY <1>0 DEF TermInv, RouteInv
<1> HIDE DEF f
<1>3. CASE ~Terminal!Listed
    <2>1. UNCHANGED <<listed, view>>
        BY <1>3 DEF Terminal!ReceiveFrame
    <2>2. TermType' /\ ReplayInv'
        BY <1>0, <1>1, <2>1 DEF TermInv, TermType, ReplayInv
    <2>3. RouteInv' /\ OutputInv'
        BY <1>0, <1>1, <1>2, <2>1 DEF TermInv, RouteInv, OutputInv, Terminal!Listed
    <2>4. ViewInv'
        BY <1>3, <2>1 DEF TermInv, RouteInv, ViewInv
    <2> QED BY <2>2, <2>3, <2>4 DEF TermInv
<1>4. CASE Terminal!Listed
    <2>1. /\ listed' = IF f.kind = "status" THEN f.value ELSE listed
          /\ view' = [v \in Viewers |->
                         IF v \in lagging THEN [view[v] EXCEPT !.told = TRUE]
                         ELSE Terminal!Passed(f, view[v])]
        BY <1>1, <1>4 DEF Terminal!ReceiveFrame
    <2>2. listed' \in {"none", "opening"} \cup States /\ Terminal!Listed'
        <3>1. CASE \E n \in Nat : f = Terminal!Output(n)
            BY <1>0, <1>4, <2>1, <3>1, FrameKinds DEF TermType, Terminal!Listed
        <3>2. CASE \E s \in States : f = Terminal!Status(s)
            <4>1. listed' \in States
                BY <2>1, <3>2, FrameKinds
            <4> QED BY <4>1 DEF Terminal!Listed, States
        <3> QED BY <1>1, <3>1, <3>2 DEF Frame
    <2>3. ASSUME NEW v \in Viewers
          PROVE  /\ view'[v] \in ViewRecord /\ view'[v].at = view[v].at
                 /\ view'[v].cut = view[v].cut /\ (view[v].told => view'[v].told)
                 /\ view[v].seen \subseteq view'[v].seen
                 /\ \A n \in view'[v].seen : n \in view[v].seen \/ (n \in Nat /\ f = Terminal!Output(n))
                 /\ view'[v].told
                    \/ /\ \A n \in Nat : f = Terminal!Output(n) /\ view[v].at # "closed" => n \in view'[v].seen
                       /\ \A s \in States \ {"running"} : f = Terminal!Status(s) => view[v].at = "closed"
        <3>0. view[v] \in ViewRecord
            BY <1>0 DEF TermType
        <3>1. CASE v \in lagging
            BY <2>1, <3>0, <3>1, ViewChanged
        <3>2. CASE v \notin lagging
            <4>2. PICK w \in ViewRecord : w = view[v]
                BY <3>0
            <4>3. PICK u : u = Terminal!Passed(f, w)
                OBVIOUS
            <4>1. view'[v] = u
                BY <2>1, <3>2, <4>2, <4>3
            <4>4. /\ u \in ViewRecord /\ u.at = w.at /\ u.cut = w.cut /\ (w.told => u.told)
                  /\ \A n \in Nat : f = Terminal!Output(n) =>
                        u.seen = IF w.at = "closed" THEN w.seen ELSE w.seen \cup {n}
                  /\ \A s \in States : f = Terminal!Status(s) =>
                        u.seen = w.seen /\ (w.at # "closed" /\ s # "running" => u.told)
                <5>1. PassedRight(Terminal!Passed(f, w), f, w)
                    BY <1>1, PassedView
                <5>2. PassedRight(u, f, w)
                    BY <4>3, <5>1
                <5> QED BY <5>2 DEF PassedRight
            <4>5. CASE \E n \in Nat : f = Terminal!Output(n)
                <5>1. PICK n \in Nat : f = Terminal!Output(n)
                    BY <4>5
                <5>2. \A m : f = Terminal!Output(m) => m = n
                    BY <5>1, FrameKinds
                <5>3. \A s : f # Terminal!Status(s)
                    BY <5>1, FrameKinds
                <5>4. u.seen = IF w.at = "closed" THEN w.seen ELSE w.seen \cup {n}
                    BY <4>4, <5>1
                <5> QED BY <4>2, <4>1, <4>4, <5>1, <5>2, <5>3, <5>4
            <4>6. CASE \E s \in States : f = Terminal!Status(s)
                <5>1. \A n : f # Terminal!Output(n)
                    BY <4>6, FrameKinds
                <5>2. u.seen = w.seen
                    BY <4>4, <4>6
                <5>3. u.told \/ \A s \in States \ {"running"} : f = Terminal!Status(s) => w.at = "closed"
                    BY <4>4
                <5> QED BY <4>2, <4>1, <4>4, <5>1, <5>2, <5>3
            <4> QED BY <1>1, <4>5, <4>6 DEF Frame
        <3> QED BY <3>1, <3>2
    <2>4. TermType'
        BY <1>0, <1>1, <2>1, <2>2, <2>3 DEF TermType
    <2>5. ReplayInv'
        BY <1>0 DEF TermInv, ReplayInv
    <2>6. RouteInv'
        BY <1>0, <1>2, <1>4, <2>2, <2>3 DEF TermInv, RouteInv
    <2>7. OutputInv'
        BY <1>0, <1>1, <2>3 DEF TermInv, OutputInv
    <2>8. ASSUME NEW v \in Viewers, view'[v].at = "open", ~view'[v].cut, ~view'[v].told
          PROVE  Coming(view[v])'
        <3>1. Coming(view[v]) /\ view[v].at # "closed"
            BY <2>3, <2>8 DEF TermInv, ViewInv
        <3>2. CASE Holds(toNode, "attach")
            BY <1>0, <3>2 DEF Coming
        <3>3. CASE \E s \in States \ {"running"} : Holds(toCore, Terminal!Status(s))
            <4>1. PICK s \in States \ {"running"} : Holds(toCore, Terminal!Status(s))
                BY <3>3
            <4>2. Holds(toCore', Terminal!Status(s))
                BY <1>0, <1>1, <2>3, <2>8, <3>1, <4>1
            <4> QED BY <4>1, <4>2 DEF Coming
        <3>4. CASE \A n \in 1 .. seq : n \in view[v].seen \/ Holds(toCore, Terminal!Output(n))
                                         \/ (n = seq /\ unsent)
            <4>1. ASSUME NEW n \in 1 .. seq, Holds(toCore, Terminal!Output(n))
                  PROVE  n \in view'[v].seen \/ Holds(toCore', Terminal!Output(n))
                <5>1. n \in Nat
                    BY <1>0 DEF TermType
                <5> QED BY <1>0, <1>1, <2>3, <2>8, <3>1, <4>1, <5>1
            <4>2. view[v].seen \subseteq view'[v].seen
                BY <2>3
            <4> QED BY <1>0, <3>4, <4>1, <4>2 DEF Coming
        <3> QED BY <3>1, <3>2, <3>3, <3>4 DEF Coming
    <2> QED BY <2>4, <2>5, <2>6, <2>7, <2>8 DEF TermInv, ViewInv
<1> QED BY <1>3, <1>4

(* The connection breaks: every stream that was open is cut.               *)
LEMMA BreakSteps == ASSUME TermInv, Terminal!Disconnect \/ Terminal!CoreRestart PROVE TermInv'
<1>0. /\ TermType /\ toNode' = <<>> /\ toCore' = <<>> /\ route' = FALSE
      /\ UNCHANGED <<pty, seq, unsent, replay>>
      /\ listed' \in {listed, "none"}
    BY DEF TermInv, Terminal!Disconnect, Terminal!CoreRestart
<1>1. ASSUME NEW v \in Viewers
      PROVE  /\ view'[v] \in ViewRecord /\ view'[v].seen \subseteq view[v].seen
             /\ view'[v].at = "open" => view'[v].cut
             /\ view'[v].at # "closed" => Terminal!Listed'
    <2>0. view[v] \in ViewRecord
        BY <1>0 DEF TermType
    <2>1. CASE Terminal!Disconnect
        <3>1. PICK b \in BOOLEAN : b = (view[v].cut \/ view[v].at = "open")
            OBVIOUS
        <3>2. view'[v] = [view[v] EXCEPT !.cut = b] /\ listed' = listed
            BY <2>1, <3>1 DEF Terminal!Disconnect
        <3>3. /\ [view[v] EXCEPT !.cut = b] \in ViewRecord
              /\ [view[v] EXCEPT !.cut = b].at = view[v].at
              /\ [view[v] EXCEPT !.cut = b].seen = view[v].seen
              /\ [view[v] EXCEPT !.cut = b].cut = b
            BY <2>0 DEF ViewRecord
        <3> QED BY <3>1, <3>2, <3>3 DEF TermInv, RouteInv, Terminal!Listed
    <2>2. CASE Terminal!CoreRestart
        <3>1. view'[v] = Terminal!Closed
            BY <2>2 DEF Terminal!CoreRestart
        <3> QED BY <2>0, <3>1, ViewChanged
    <2> QED BY <2>1, <2>2
<1>2. view' \in [Viewers -> ViewRecord]
    BY <1>1 DEF Terminal!Disconnect, Terminal!CoreRestart
<1>3. TermType'
    BY <1>0, <1>2, ShortHolds DEF TermType
<1>4. ReplayInv'
    BY <1>0 DEF TermInv, ReplayInv
<1>5. RouteInv'
    BY <1>0, <1>1 DEF TermInv, RouteInv, Terminal!Listed
<1>6. OutputInv'
    BY <1>0, <1>1, ShortHolds DEF TermInv, OutputInv
<1>7. ViewInv'
    BY <1>1 DEF ViewInv
<1> QED BY <1>3, <1>4, <1>5, <1>6, <1>7 DEF TermInv

(* The sender is bound again, or nothing changes.                          *)
LEMMA RouteReturns == ASSUME TermInv, Terminal!Rebind \/ UNCHANGED Terminal!termVars PROVE TermInv'
<1>1. /\ UNCHANGED <<pty, seq, unsent, replay, toNode, toCore, listed, view>>
      /\ route' = route \/ route' = TRUE
    BY DEF Terminal!Rebind, Terminal!termVars
<1>2. TermType' /\ ReplayInv' /\ OutputInv'
    BY <1>1 DEF TermInv, TermType, ReplayInv, OutputInv
<1>3. RouteInv' /\ ViewInv'
    BY <1>1 DEF TermInv, RouteInv, Terminal!Listed, ViewInv, Coming
<1> QED BY <1>2, <1>3 DEF TermInv

(* The invariant holds in every state.                                     *)
THEOREM TermSafe == Terminal!TermSpec => []TermInv
<1>1. ASSUME TermInv, [Terminal!TermNext]_Terminal!termVars PROVE TermInv'
    BY <1>1, ShellSteps, ProduceStep, OutputStep, AttachStep, CloseStep, ListStep, ViewerSteps,
       FrameStep, BreakSteps, RouteReturns DEF Terminal!TermNext
<1>2. TermInv /\ [Terminal!TermNext]_Terminal!termVars => TermInv'
    BY <1>1
<1> QED BY TermStarts, <1>2, PTL DEF Terminal!TermSpec

(* When nothing is under way, nothing is still to come.                    *)
LEMMA ViewersHaveAll == TermInv => Terminal!AllOrTold
<1> SUFFICES ASSUME TermInv, toNode = <<>>, toCore = <<>>, ~unsent, NEW v \in Viewers,
                    view[v].at = "open", ~view[v].cut, ~view[v].told
             PROVE  view[v].seen = 1 .. seq
    BY DEF Terminal!AllOrTold
<1>1. Coming(view[v]) /\ view[v].seen \subseteq 1 .. seq
    BY DEF TermInv, ViewInv, OutputInv
<1>2. \A n : ~Holds(toNode, n) /\ ~Holds(toCore, n)
    BY ShortHolds
<1> QED BY <1>1, <1>2 DEF Coming

(* Terminals' AllOrTold, for any viewers, output, replay and breaks.       *)
THEOREM ViewersHaveAllOrAreTold == Terminal!TermSpec => []Terminal!AllOrTold
BY TermSafe, ViewersHaveAll, PTL

-----------------------------------------------------------------------------
(* Deductions: their rows, requests and verdicts.                          *)

Outs == {"none", "completed", "failed", "busy"}
FrameRecord == [ded : Deductions, kind : {"ack", "run", "cancel"}, out : Outs]
HandledRecord == [ded : Deductions, kind : {"ack", "run", "cancel"}, out : Outs,
                  at : {"store", "project", "write"}]
VerdictRecord == [ded : Deductions, kind : {"announce"}, out : Deduce!Ended, at : {"announce"}]
WorkRecord == HandledRecord \cup VerdictRecord
AskRecord == [create : {"idle", "counted", "over"}, cancel : {"idle", "read", "announce", "over"}]
CommandRecord == [run : {"revoked"} \cup Deduce!Open \cup Outs,
                  cancel : {"none", "open", "done"}]
WorkerRecord == [running : BOOLEAN, signal : {"none", "pending", "sent"}, tomb : BOOLEAN,
               out : Outs, cancelled : BOOLEAN]

DedType ==
    /\ row \in [Deductions -> {"none"} \cup Deduce!Active \cup Deduce!Ended]
    /\ said \in [Deductions -> SUBSET Deduce!Ended]
    /\ asks \in [Deductions -> AskRecord]
    /\ cmd \in [Deductions -> CommandRecord]
    /\ marking \subseteq Deductions /\ toRun \subseteq Deductions
    /\ recv = <<>> \/ \E w \in WorkRecord : recv = <<w>>
    /\ replies \in Seq(FrameRecord)
    /\ worker \in [Deductions -> WorkerRecord]

(* The row is created once, and everything else that is about a deduction  *)
(* comes after its row.                                                    *)
CreatedInv ==
    /\ \A d \in Deductions : asks[d].create # "over" => row[d] = "none"
    /\ \A d \in Deductions : row[d] = "none" =>
          /\ asks[d].cancel = "idle" /\ cmd[d].run = "none" /\ cmd[d].cancel = "none"
          /\ d \notin toRun /\ d \notin marking /\ ~worker[d].running /\ said[d] = {}
    /\ \A i \in DOMAIN replies : row[replies[i].ded] # "none"
    /\ recv # <<>> => row[recv[1].ded] # "none"

(* An end that was announced, or is going to be, is in the row.            *)
AnnouncedInv ==
    /\ \A d \in Deductions : asks[d].cancel = "announce" \/ said[d] # {} => row[d] \in Deduce!Ended
    /\ Deduce!Working("announce") => row[recv[1].ded] \in Deduce!Ended

DedInv == DedType /\ CreatedInv /\ AnnouncedInv

(* What a step does to the rows.                                           *)
RowsStay == \A d \in Deductions : row[d] \in Deduce!Ended => row'[d] = row[d]

-----------------------------------------------------------------------------
(* Initially there is no deduction.                                        *)
LEMMA DedStarts == Deduce!DedInit => DedInv
<1> SUFFICES ASSUME Deduce!DedInit PROVE DedInv
    OBVIOUS
<1>1. [running |-> FALSE, signal |-> "none", tomb |-> FALSE, out |-> "none",
       cancelled |-> FALSE] \in WorkerRecord
    BY DEF WorkerRecord, Outs
<1>2. [run |-> "none", cancel |-> "none"] \in CommandRecord
    BY DEF CommandRecord, Outs
<1>3. [create |-> "idle", cancel |-> "idle"] \in AskRecord
    BY DEF AskRecord
<1>4. DedType
    BY <1>1, <1>2, <1>3 DEF Deduce!DedInit, DedType
<1>5. CreatedInv /\ AnnouncedInv
    BY DEF Deduce!DedInit, CreatedInv, AnnouncedInv, Deduce!Working
<1> QED BY <1>4, <1>5 DEF DedInv

(* A frame is of a deduction.                                              *)
LEMMA FramesNamed ==
    ASSUME DedType
    PROVE  /\ \A i \in DOMAIN replies : replies[i] \in FrameRecord /\ replies[i].ded \in Deductions
           /\ recv # <<>> => recv[1] \in WorkRecord /\ recv[1].ded \in Deductions
           /\ Deduce!Working("announce") => recv[1] \in VerdictRecord
           /\ \A at \in {"store", "project", "write"} : Deduce!Working(at) => recv[1] \in HandledRecord
<1>1. replies \in Seq(FrameRecord)
    BY DEF DedType
<1>2. \A i \in DOMAIN replies : replies[i] \in FrameRecord
    BY <1>1
<1>3. \A i \in DOMAIN replies : replies[i].ded \in Deductions
    BY <1>2 DEF FrameRecord
<1>4. recv # <<>> => recv[1] \in WorkRecord
    BY DEF DedType
<1>5. \A w \in WorkRecord : /\ w.ded \in Deductions
                            /\ w.at = "announce" => w \in VerdictRecord
                            /\ w.at # "announce" => w \in HandledRecord
    BY DEF WorkRecord, HandledRecord, VerdictRecord
<1> QED BY <1>2, <1>3, <1>4, <1>5 DEF Deduce!Working

(* What a step of Core that leaves the Node and the frames alone keeps:    *)
(* one deduction moves on.                                                 *)
LEMMA AskSteps ==
    ASSUME DedInv, NEW d \in Deductions, Deduce!CountActive(d) \/ Deduce!ReadActive(d) \/ Deduce!AnnounceCancel(d)
    PROVE  DedInv' /\ RowsStay
<1>0. /\ DedType /\ asks[d] \in AskRecord
      /\ UNCHANGED <<row, cmd, marking, recv, toRun, replies, worker>>
    BY DEF DedInv, DedType, Deduce!CountActive, Deduce!ReadActive, Deduce!AnnounceCancel
<1>1. CASE Deduce!CountActive(d)
    <2>1. asks' \in [Deductions -> AskRecord]
          /\ \A e \in Deductions : asks'[e].cancel = asks[e].cancel
                                   /\ (asks'[e].create # "over" => asks[e].create # "over")
        BY <1>0, <1>1 DEF Deduce!CountActive, DedType, AskRecord
    <2>2. said' = said
        BY <1>1 DEF Deduce!CountActive
    <2> QED BY <1>0, <2>1, <2>2 DEF DedInv, DedType, CreatedInv, AnnouncedInv, Deduce!Working, RowsStay
<1>2. CASE Deduce!ReadActive(d)
    <2>1. asks' \in [Deductions -> AskRecord]
          /\ \A e \in Deductions : /\ asks'[e].cancel = IF e = d THEN "read" ELSE asks[e].cancel
                                   /\ asks'[e].create = asks[e].create
        BY <1>0, <1>2 DEF Deduce!ReadActive, DedType, AskRecord
    <2>2. said' = said /\ row[d] # "none"
        BY <1>2 DEF Deduce!ReadActive, Deduce!Active
    <2> QED BY <1>0, <2>1, <2>2 DEF DedInv, DedType, CreatedInv, AnnouncedInv, Deduce!Working, RowsStay
<1>3. CASE Deduce!AnnounceCancel(d)
    <2>1. asks' \in [Deductions -> AskRecord]
          /\ \A e \in Deductions : /\ asks'[e].cancel = IF e = d THEN "over" ELSE asks[e].cancel
                                   /\ asks'[e].create = asks[e].create
        BY <1>0, <1>3 DEF Deduce!AnnounceCancel, DedType, AskRecord
    <2>2. row[d] \in Deduce!Ended
        BY <1>3 DEF DedInv, AnnouncedInv, Deduce!AnnounceCancel
    <2>3. said' = [said EXCEPT ![d] = @ \cup {"cancelled"}]
        BY <1>3 DEF Deduce!AnnounceCancel
    <2>4. said' \in [Deductions -> SUBSET Deduce!Ended]
          /\ \A e \in Deductions : e # d => said'[e] = said[e]
        BY <1>0, <2>3 DEF DedType, Deduce!Ended
    <2>5. row[d] # "none"
        BY <2>2 DEF Deduce!Ended
    <2> QED BY <1>0, <2>1, <2>2, <2>4, <2>5
            DEF DedInv, DedType, CreatedInv, AnnouncedInv, Deduce!Working, RowsStay
<1> QED BY <1>1, <1>2, <1>3

(* A row is created where there was none.                                  *)
LEMMA CreateStep ==
    ASSUME DedInv, NEW d \in Deductions, Deduce!create_deduction(d) PROVE DedInv' /\ RowsStay
<1>0. /\ DedType /\ asks[d] \in AskRecord /\ row[d] = "none"
      /\ UNCHANGED <<said, marking, recv, toRun, replies, worker>>
    BY DEF DedInv, DedType, CreatedInv, Deduce!create_deduction
<1>1. CASE asks' = [asks EXCEPT ![d].create = "idle"] /\ UNCHANGED <<row, cmd>>
    <2>1. asks' \in [Deductions -> AskRecord]
          /\ \A e \in Deductions : /\ asks'[e].cancel = asks[e].cancel
                                   /\ asks'[e].create = IF e = d THEN "idle" ELSE asks[e].create
        BY <1>0, <1>1 DEF DedType, AskRecord
    <2> QED BY <1>0, <1>1, <2>1 DEF DedInv, DedType, CreatedInv, AnnouncedInv, Deduce!Working, RowsStay
<1>2. CASE /\ asks' = [asks EXCEPT ![d].create = "over"]
           /\ row' = [row EXCEPT ![d] = "requested"]
           /\ cmd' = [cmd EXCEPT ![d].run = "unsent"]
    <2>1. asks' \in [Deductions -> AskRecord]
          /\ \A e \in Deductions : /\ asks'[e].cancel = asks[e].cancel
                                   /\ asks'[e].create = IF e = d THEN "over" ELSE asks[e].create
        BY <1>0, <1>2 DEF DedType, AskRecord
    <2>2. row' \in [Deductions -> {"none"} \cup Deduce!Active \cup Deduce!Ended]
          /\ \A e \in Deductions : row'[e] = IF e = d THEN "requested" ELSE row[e]
        BY <1>0, <1>2 DEF DedType, Deduce!Active
    <2>3. cmd[d] \in CommandRecord
        BY <1>0 DEF DedType
    <2>4. cmd' \in [Deductions -> CommandRecord]
          /\ \A e \in Deductions : e # d => cmd'[e] = cmd[e]
        BY <1>0, <1>2, <2>3 DEF DedType, CommandRecord, Deduce!Open
    <2>5. DedType'
        BY <1>0, <2>1, <2>2, <2>4 DEF DedType
    <2>6. "none" \notin Deduce!Ended /\ said[d] = {} /\ asks[d].cancel # "announce"
        BY <1>0 DEF Deduce!Ended, DedInv, CreatedInv
    <2>7. recv # <<>> => recv[1].ded \in Deductions
        BY <1>0, FramesNamed
    <2>8. \A i \in DOMAIN replies : replies[i].ded \in Deductions
        BY <1>0, FramesNamed
    <2>9. CreatedInv'
        BY <1>0, <2>1, <2>2, <2>4, <2>7, <2>8 DEF DedInv, CreatedInv
    <2>10. AnnouncedInv'
        BY <1>0, <2>1, <2>2, <2>6, <2>7 DEF DedInv, AnnouncedInv, CreatedInv, Deduce!Working
    <2> QED BY <1>0, <2>2, <2>5, <2>6, <2>9, <2>10 DEF DedInv, RowsStay
<1> QED BY <1>1, <1>2 DEF Deduce!create_deduction

(* A cancellation ends a row that is active.                               *)
LEMMA CancelStep ==
    ASSUME DedInv, NEW d \in Deductions, Deduce!cancel_deduction(d) PROVE DedInv' /\ RowsStay
<1>0. /\ DedType /\ asks[d] \in AskRecord /\ cmd[d] \in CommandRecord
      /\ UNCHANGED <<said, marking, recv, toRun, replies, worker>>
      /\ row[d] \in Deduce!Active \cup Deduce!Ended
    BY DEF DedInv, DedType, CreatedInv, Deduce!cancel_deduction
<1>1. asks' \in [Deductions -> AskRecord]
      /\ \A e \in Deductions : /\ asks'[e].cancel = IF e = d THEN "announce" ELSE asks[e].cancel
                               /\ asks'[e].create = asks[e].create
    BY <1>0 DEF Deduce!cancel_deduction, DedType, AskRecord
<1>2. cmd' \in [Deductions -> CommandRecord]
      /\ \A e \in Deductions : e # d => cmd'[e] = cmd[e]
    <2>1. cmd' = [cmd EXCEPT ![d] = [cmd[d] EXCEPT !.cancel = "open",
                                       !.run = IF @ = "unsent" THEN "revoked" ELSE @]]
        BY <1>0 DEF Deduce!cancel_deduction, DedType
    <2>2. [cmd[d] EXCEPT !.cancel = "open", !.run = IF @ = "unsent" THEN "revoked" ELSE @]
              \in CommandRecord
        BY <1>0 DEF CommandRecord
    <2> QED BY <1>0, <2>1, <2>2 DEF DedType
<1>3. row' \in [Deductions -> {"none"} \cup Deduce!Active \cup Deduce!Ended]
      /\ \A e \in Deductions : row'[e] = IF e = d /\ row[d] \in Deduce!Active THEN "cancelled" ELSE row[e]
    BY <1>0 DEF Deduce!cancel_deduction, DedType, Deduce!Ended
<1>4. "none" \notin Deduce!Ended /\ "cancelled" \in Deduce!Ended /\ "none" \notin Deduce!Active
      /\ Deduce!Active \cap Deduce!Ended = {}
    BY DEF Deduce!Ended, Deduce!Active
<1>5. DedType'
    BY <1>0, <1>1, <1>2, <1>3 DEF DedType
<1>6. /\ \A i \in DOMAIN replies : replies[i].ded \in Deductions
      /\ recv # <<>> => recv[1].ded \in Deductions
    BY <1>0, FramesNamed
<1>7. CreatedInv'
    BY <1>0, <1>1, <1>2, <1>3, <1>4, <1>6 DEF DedInv, CreatedInv
<1>8. AnnouncedInv'
    BY <1>0, <1>1, <1>3, <1>4, <1>6 DEF DedInv, AnnouncedInv, Deduce!Working
<1> QED BY <1>3, <1>4, <1>5, <1>7, <1>8 DEF DedInv, RowsStay

(* What is not about these rows.                                           *)
LEMMA OtherStep == ASSUME DedInv, Deduce!OtherDeduction PROVE DedInv' /\ RowsStay
BY DEF Deduce!OtherDeduction, DedInv, DedType, CreatedInv, AnnouncedInv, Deduce!Working, RowsStay

(* The dispatcher of Core, and what is kept of a completed deduction.      *)
LEMMA DispatchSteps ==
    ASSUME DedInv, NEW d \in Deductions,
           Deduce!SendRequest(d) \/ Deduce!MarkDispatched(d) \/ Deduce!persist_deduction(d)
    PROVE  DedInv' /\ RowsStay
<1>0. DedType /\ UNCHANGED <<row, said, asks, recv, replies, worker>>
    BY DEF DedInv, Deduce!SendRequest, Deduce!MarkDispatched, Deduce!persist_deduction
<1>1. CASE Deduce!SendRequest(d)
    <2>1. cmd' = cmd /\ toRun' = toRun \cup {d} /\ marking' = marking \cup {d}
          /\ cmd[d].run # "none"
        BY <1>1 DEF Deduce!SendRequest, Deduce!Open
    <2> QED BY <1>0, <2>1 DEF DedInv, DedType, CreatedInv, AnnouncedInv, Deduce!Working, RowsStay
<1>2. CASE Deduce!MarkDispatched(d)
    <2>1. cmd' = [cmd EXCEPT ![d].run = "sent"] /\ marking' = marking \ {d} /\ toRun' = toRun
          /\ row[d] # "none"
        BY <1>2 DEF Deduce!MarkDispatched, DedInv, CreatedInv
    <2>2. cmd' \in [Deductions -> CommandRecord]
          /\ \A e \in Deductions : e # d => cmd'[e] = cmd[e]
        BY <1>0, <2>1 DEF DedType, CommandRecord, Deduce!Open
    <2> QED BY <1>0, <2>1, <2>2 DEF DedInv, DedType, CreatedInv, AnnouncedInv, Deduce!Working, RowsStay
<1>3. CASE Deduce!persist_deduction(d)
    <2>1. UNCHANGED <<cmd, marking, toRun>>
        BY <1>3 DEF Deduce!persist_deduction
    <2> QED BY <1>0, <2>1 DEF DedInv, DedType, CreatedInv, AnnouncedInv, Deduce!Working, RowsStay
<1> QED BY <1>1, <1>2, <1>3

(* The read loop takes a frame; the command is updated.                    *)
LEMMA FrameSteps == ASSUME DedInv, Deduce!ReceiveFrame \/ Deduce!StoreFrame PROVE DedInv' /\ RowsStay
<1>0. DedType /\ UNCHANGED <<row, said, asks, marking, toRun, worker>>
    BY DEF DedInv, Deduce!ReceiveFrame, Deduce!StoreFrame
<1>1. CASE Deduce!ReceiveFrame
    <2> DEFINE f == replies[1]
    <2>1. /\ replies # <<>> /\ replies' = Tail(replies) /\ cmd' = cmd /\ recv = <<>>
          /\ recv' = recv \/ recv' = <<[ded |-> f.ded, kind |-> f.kind, out |-> f.out, at |-> "store"]>>
        BY <1>1 DEF Deduce!ReceiveFrame, Deduce!Go
    <2>2. /\ Tail(replies) \in Seq(FrameRecord) /\ f \in FrameRecord /\ 1 \in DOMAIN replies
          /\ \A i \in DOMAIN Tail(replies) : i + 1 \in DOMAIN replies
                                           /\ Tail(replies)[i] = replies[i + 1]
        BY <1>0, <2>1, TailHolds DEF DedType
    <2>3. row[f.ded] # "none"
        BY <2>2 DEF DedInv, CreatedInv
    <2> HIDE DEF f
    <2>4. recv' = recv \/ \E w \in HandledRecord : recv' = <<w>> /\ w.ded = f.ded
        <3>1. [ded |-> f.ded, kind |-> f.kind, out |-> f.out, at |-> "store"] \in HandledRecord
            BY <2>2 DEF FrameRecord, HandledRecord
        <3> QED BY <2>1, <3>1
    <2>5. DedType'
        BY <1>0, <2>1, <2>2, <2>4 DEF DedType, WorkRecord
    <2>6. CreatedInv'
        BY <1>0, <2>1, <2>2, <2>3, <2>4 DEF DedInv, CreatedInv
    <2>7. AnnouncedInv'
        BY <1>0, <2>1, <2>4 DEF DedInv, AnnouncedInv, Deduce!Working, HandledRecord
    <2> QED BY <1>0, <2>5, <2>6, <2>7 DEF DedInv, RowsStay
<1>2. CASE Deduce!StoreFrame
    <2>1. recv # <<>> /\ recv[1] \in HandledRecord /\ replies' = replies
        BY <1>0, <1>2, FramesNamed DEF Deduce!StoreFrame, Deduce!Working
    <2>2. PICK f \in HandledRecord : f = recv[1]
        BY <2>1
    <2>3. f.ded \in Deductions /\ row[f.ded] # "none" /\ f.out \in Outs
          /\ f.kind \in {"ack", "run", "cancel"}
        BY <2>1, <2>2 DEF DedInv, CreatedInv, HandledRecord
    <2>4. /\ f.kind = "ack" => cmd' = [cmd EXCEPT ![f.ded].run = "acked"]
          /\ f.kind = "run" => cmd' = [cmd EXCEPT ![f.ded].run = f.out]
          /\ f.kind = "cancel" => cmd' = [cmd EXCEPT ![f.ded].cancel = "done"]
        BY <1>2, <2>2, <2>3 DEF Deduce!StoreFrame
    <2>5. cmd' \in [Deductions -> CommandRecord]
          /\ \A e \in Deductions : e # f.ded => cmd'[e] = cmd[e]
        <3>1. cmd[f.ded] \in CommandRecord
            BY <1>0, <2>3 DEF DedType
        <3>2. /\ [cmd[f.ded] EXCEPT !.run = "acked"] \in CommandRecord
              /\ [cmd[f.ded] EXCEPT !.run = f.out] \in CommandRecord
              /\ [cmd[f.ded] EXCEPT !.cancel = "done"] \in CommandRecord
            BY <2>3, <3>1 DEF CommandRecord, Deduce!Open
        <3> QED BY <1>0, <2>3, <2>4, <3>2 DEF DedType
    <2>6. recv' = <<>> \/ \E w \in HandledRecord : recv' = <<w>> /\ w.ded = f.ded
        <3>1. [ded |-> f.ded, kind |-> f.kind, out |-> f.out, at |-> "project"] \in HandledRecord
            BY <2>2 DEF HandledRecord
        <3> QED BY <1>2, <2>2, <3>1 DEF Deduce!StoreFrame, Deduce!Go
    <2>7. DedType'
        BY <1>0, <2>1, <2>5, <2>6 DEF DedType, WorkRecord
    <2>8. CreatedInv'
        BY <1>0, <2>1, <2>3, <2>5, <2>6 DEF DedInv, CreatedInv
    <2>9. AnnouncedInv'
        BY <1>0, <2>6 DEF DedInv, AnnouncedInv, Deduce!Working, HandledRecord
    <2> QED BY <1>0, <2>7, <2>8, <2>9 DEF DedInv, RowsStay
<1> QED BY <1>1, <1>2

(* An acknowledgement, a verdict: a row that ended is left alone.          *)
LEMMA ProjectSteps ==
    ASSUME DedInv, Deduce!mark_deduction_running \/ Deduce!ReadRow \/ Deduce!WriteVerdict PROVE DedInv' /\ RowsStay
<1>0. /\ DedType /\ UNCHANGED <<said, asks, cmd, marking, toRun, replies, worker>>
      /\ recv # <<>> /\ recv[1] \in HandledRecord
    BY FramesNamed DEF DedInv, Deduce!mark_deduction_running, Deduce!ReadRow, Deduce!WriteVerdict, Deduce!Working
<1>1. PICK f \in HandledRecord : f = recv[1]
    BY <1>0
<1>2. f.ded \in Deductions /\ row[f.ded] \in Deduce!Active \cup Deduce!Ended
    BY <1>0, <1>1 DEF DedInv, DedType, CreatedInv, HandledRecord
<1>3. "none" \notin Deduce!Ended /\ "none" \notin Deduce!Active /\ Deduce!Active \cap Deduce!Ended = {}
    BY DEF Deduce!Ended, Deduce!Active
<1>4. ASSUME NEW s \in Deduce!Active \cup Deduce!Ended, row' = [row EXCEPT ![f.ded] = s],
             row[f.ded] \in Deduce!Ended => s = row[f.ded],
             \/ recv' = <<>>
             \/ \E w \in HandledRecord : recv' = <<w>> /\ w.ded = f.ded
             \/ \E w \in VerdictRecord : recv' = <<w>> /\ w.ded = f.ded /\ s \in Deduce!Ended
      PROVE  DedInv' /\ RowsStay
    <2>1. row' \in [Deductions -> {"none"} \cup Deduce!Active \cup Deduce!Ended]
          /\ \A e \in Deductions : row'[e] = IF e = f.ded THEN s ELSE row[e]
        BY <1>0, <1>2, <1>4 DEF DedType
    <2>2. DedType'
        BY <1>0, <1>4, <2>1 DEF DedType, WorkRecord
    <2>3. \A i \in DOMAIN replies : replies[i].ded \in Deductions
        BY <1>0, FramesNamed
    <2>4. recv' # <<>> => recv'[1].ded = f.ded
        BY <1>4
    <2>5. CreatedInv'
        BY <1>0, <1>2, <1>3, <1>4, <2>1, <2>3, <2>4 DEF DedInv, CreatedInv
    <2>6. AnnouncedInv'
        BY <1>0, <1>2, <1>3, <1>4, <2>1, <2>4 DEF DedInv, AnnouncedInv, Deduce!Working, HandledRecord
    <2> QED BY <1>4, <2>1, <2>2, <2>5, <2>6 DEF DedInv, RowsStay
<1>5. CASE Deduce!mark_deduction_running
    <2>1. PICK s \in Deduce!Active \cup Deduce!Ended : s = IF row[f.ded] = "requested" THEN "running" ELSE row[f.ded]
        BY <1>2 DEF Deduce!Active
    <2>2. row' = [row EXCEPT ![f.ded] = s] /\ recv' = <<>>
        BY <1>0, <1>1, <1>5, <2>1 DEF Deduce!mark_deduction_running, DedType
    <2>3. row[f.ded] \in Deduce!Ended => s = row[f.ded]
        BY <2>1 DEF Deduce!Ended
    <2> QED BY <1>4, <2>2, <2>3
<1>6. CASE Deduce!ReadRow
    <2>1. row' = [row EXCEPT ![f.ded] = row[f.ded]]
        BY <1>0, <1>6 DEF Deduce!ReadRow, DedType
    <2>2. recv' = <<>> \/ \E w \in HandledRecord : recv' = <<w>> /\ w.ded = f.ded
        <3>1. [ded |-> f.ded, kind |-> f.kind, out |-> f.out, at |-> "write"] \in HandledRecord
            BY <1>1 DEF HandledRecord
        <3> QED BY <1>1, <1>6, <3>1 DEF Deduce!ReadRow, Deduce!Go
    <2> QED BY <1>2, <1>4, <2>1, <2>2
<1>7. CASE Deduce!WriteVerdict
    <2>1. PICK v \in Deduce!Verdicts(f.out) : /\ row' = [row EXCEPT ![f.ded] = Deduce!IfActive(@, v)]
                                      /\ recv' = <<Deduce!Announce(f, v)>>
        BY <1>1, <1>7 DEF Deduce!WriteVerdict
    <2>2. v \in Deduce!Ended
        BY <2>1 DEF Deduce!Verdicts, Deduce!Ended
    <2>3. PICK s \in Deduce!Ended : s = IF row[f.ded] \in Deduce!Active THEN v ELSE row[f.ded]
        BY <1>2, <2>2
    <2>4. row' = [row EXCEPT ![f.ded] = s]
        BY <1>2, <2>1, <2>3 DEF Deduce!IfActive, DedType
    <2>5. Deduce!Announce(f, v) \in VerdictRecord /\ Deduce!Announce(f, v).ded = f.ded
        BY <1>2, <2>2 DEF Deduce!Announce, VerdictRecord
    <2>6. row[f.ded] \in Deduce!Ended => s = row[f.ded]
        BY <1>3, <2>3
    <2> QED BY <1>4, <2>1, <2>3, <2>4, <2>5, <2>6
<1> QED BY <1>5, <1>6, <1>7

(* The verdict is announced.                                               *)
LEMMA VerdictStep == ASSUME DedInv, Deduce!AnnounceVerdict PROVE DedInv' /\ RowsStay
<1>0. /\ DedType /\ UNCHANGED <<row, asks, cmd, marking, toRun, replies, worker>> /\ recv' = <<>>
      /\ recv # <<>> /\ recv[1] \in VerdictRecord /\ row[recv[1].ded] \in Deduce!Ended
      /\ said' = [said EXCEPT ![recv[1].ded] = @ \cup {recv[1].out}]
    BY FramesNamed DEF DedInv, AnnouncedInv, Deduce!AnnounceVerdict, Deduce!Working
<1>1. PICK f \in VerdictRecord : f = recv[1]
    BY <1>0
<1>2. f.ded \in Deductions /\ f.out \in Deduce!Ended
    BY DEF VerdictRecord
<1>3. said' \in [Deductions -> SUBSET Deduce!Ended]
      /\ \A e \in Deductions : e # f.ded => said'[e] = said[e]
    BY <1>0, <1>1, <1>2 DEF DedType
<1>4. row[f.ded] \in Deduce!Ended /\ row[f.ded] # "none"
    BY <1>0, <1>1 DEF Deduce!Ended
<1> QED BY <1>0, <1>3, <1>4 DEF DedInv, DedType, CreatedInv, AnnouncedInv, Deduce!Working, RowsStay

(* What a step of the Node keeps: it runs and answers what was requested.  *)
LEMMA NodeStep ==
    ASSUME DedInv, NEW d \in Deductions, row[d] # "none", UNCHANGED Deduce!coreVars,
           toRun' \subseteq toRun, NEW n \in WorkerRecord, worker' = [worker EXCEPT ![d] = n],
           NEW fs \in Seq(FrameRecord), Deduce!Reply(fs), \A i \in DOMAIN fs : fs[i].ded = d
    PROVE  DedInv' /\ RowsStay
<1>0. /\ DedType /\ UNCHANGED <<row, said, asks, cmd, marking, recv>>
      /\ replies \in Seq(FrameRecord) /\ replies' = replies \o fs
    BY DEF DedInv, DedType, Deduce!coreVars, Deduce!Reply
<1>1. replies' \in Seq(FrameRecord)
      /\ \A m : Holds(replies', m) <=> Holds(replies, m) \/ Holds(fs, m)
    BY <1>0, ConcatHolds
<1>2. ASSUME NEW i \in DOMAIN replies' PROVE row[replies'[i].ded] # "none"
    <2>1. Holds(replies, replies'[i]) \/ Holds(fs, replies'[i])
        BY <1>1 DEF Holds
    <2> QED BY <2>1 DEF Holds, DedInv, CreatedInv
<1>3. \A e \in Deductions : worker'[e] = IF e = d THEN n ELSE worker[e]
    BY <1>0 DEF DedType
<1>4. DedType'
    BY <1>0, <1>1 DEF DedType
<1>5. CreatedInv'
    BY <1>0, <1>2, <1>3 DEF DedInv, CreatedInv
<1>6. AnnouncedInv' /\ RowsStay
    BY <1>0 DEF DedInv, AnnouncedInv, Deduce!Working, RowsStay
<1> QED BY <1>4, <1>5, <1>6 DEF DedInv

(* The Node takes, refuses, ends and cancels a request.                    *)
LEMMA NodeSteps ==
    ASSUME DedInv, NEW d \in Deductions,
           Deduce!ReceiveRequest(d) \/ Deduce!RefuseRequest(d) \/ Deduce!EndRequest(d) \/ Deduce!SignalCancel(d) \/ Deduce!AnswerCancel(d)
    PROVE  DedInv' /\ RowsStay
<1>0. DedType /\ worker[d] \in WorkerRecord /\ worker[d].out \in Outs
    BY DEF DedInv, DedType, WorkerRecord
<1>1. /\ UNCHANGED Deduce!coreVars /\ row[d] # "none" /\ toRun' \subseteq toRun
    BY DEF DedInv, CreatedInv, Deduce!ReceiveRequest, Deduce!RefuseRequest, Deduce!EndRequest, Deduce!SignalCancel, Deduce!AnswerCancel
<1>2. /\ \A k \in {"ack", "run", "cancel"}, o \in Outs :
            Deduce!Frame(d, k, o) \in FrameRecord /\ Deduce!Frame(d, k, o).ded = d
      /\ {"none", "completed", "failed", "busy"} \subseteq Outs
    BY DEF Deduce!Frame, FrameRecord, Outs
<1>3. \A g \in FrameRecord : g.ded = d =>
          <<g>> \in Seq(FrameRecord) /\ \A i \in DOMAIN <<g>> : <<g>>[i].ded = d
    OBVIOUS
<1>4. \A g, h \in FrameRecord : g.ded = d /\ h.ded = d =>
          <<g, h>> \in Seq(FrameRecord) /\ \A i \in DOMAIN <<g, h>> : <<g, h>>[i].ded = d
    OBVIOUS
<1>5. <<>> \in Seq(FrameRecord) /\ DOMAIN <<>> = {}
    OBVIOUS
<1>6. CASE Deduce!ReceiveRequest(d)
    <2>1. /\ <<Deduce!Frame(d, "ack", "none")>> \in Seq(FrameRecord)
          /\ \A i \in DOMAIN <<Deduce!Frame(d, "ack", "none")>> : <<Deduce!Frame(d, "ack", "none")>>[i].ded = d
          /\ \A o \in Outs :
                /\ <<Deduce!Frame(d, "ack", "none"), Deduce!Frame(d, "run", o)>> \in Seq(FrameRecord)
                /\ \A i \in DOMAIN <<Deduce!Frame(d, "ack", "none"), Deduce!Frame(d, "run", o)>> :
                      <<Deduce!Frame(d, "ack", "none"), Deduce!Frame(d, "run", o)>>[i].ded = d
        BY <1>2, <1>3, <1>4
    <2>2. CASE worker[d].out # "none"
        <3>1. PICK n : n = [worker[d] EXCEPT !.signal = IF @ = "pending" THEN "sent" ELSE @]
            OBVIOUS
        <3>2. n \in WorkerRecord
            BY <1>0, <3>1 DEF WorkerRecord
        <3>3. /\ worker' = [worker EXCEPT ![d] = n]
              /\ Deduce!Reply(<<Deduce!Frame(d, "ack", "none"), Deduce!Frame(d, "run", worker[d].out)>>)
            BY <1>0, <1>6, <2>2, <3>1 DEF Deduce!ReceiveRequest, DedType
        <3> QED BY <1>0, <1>1, <2>1, <3>2, <3>3, NodeStep
    <2>3. CASE worker[d].out = "none" /\ (worker[d].tomb \/ worker[d].signal = "pending")
        <3>1. PICK n : n = [worker[d] EXCEPT !.out = "failed", !.tomb = FALSE,
                                           !.signal = IF @ = "pending" THEN "sent" ELSE @]
            OBVIOUS
        <3>2. n \in WorkerRecord
            BY <1>0, <1>2, <3>1 DEF WorkerRecord
        <3>3. /\ worker' = [worker EXCEPT ![d] = n]
              /\ Deduce!Reply(<<Deduce!Frame(d, "ack", "none"), Deduce!Frame(d, "run", "failed")>>)
            BY <1>0, <1>6, <2>3, <3>1 DEF Deduce!ReceiveRequest, DedType
        <3> QED BY <1>1, <1>2, <2>1, <3>2, <3>3, NodeStep
    <2>4. CASE worker[d].out = "none" /\ ~(worker[d].tomb \/ worker[d].signal = "pending")
        <3>1. PICK n : n = [worker[d] EXCEPT !.running = TRUE]
            OBVIOUS
        <3>2. n \in WorkerRecord
            BY <1>0, <3>1 DEF WorkerRecord
        <3>3. worker' = [worker EXCEPT ![d] = n] /\ Deduce!Reply(<<Deduce!Frame(d, "ack", "none")>>)
            BY <1>0, <1>6, <2>4, <3>1 DEF Deduce!ReceiveRequest, DedType
        <3> QED BY <1>1, <2>1, <3>2, <3>3, NodeStep
    <2> QED BY <2>2, <2>3, <2>4
<1>7. CASE Deduce!RefuseRequest(d)
    <2>1. /\ worker' = [worker EXCEPT ![d] = worker[d]]
          /\ Deduce!Reply(<<Deduce!Frame(d, "ack", "none"), Deduce!Frame(d, "run", "busy")>>)
        BY <1>0, <1>7 DEF Deduce!RefuseRequest, DedType
    <2>2. /\ <<Deduce!Frame(d, "ack", "none"), Deduce!Frame(d, "run", "busy")>> \in Seq(FrameRecord)
          /\ \A i \in DOMAIN <<Deduce!Frame(d, "ack", "none"), Deduce!Frame(d, "run", "busy")>> :
                <<Deduce!Frame(d, "ack", "none"), Deduce!Frame(d, "run", "busy")>>[i].ded = d
        BY <1>2, <1>4
    <2> QED BY <1>0, <1>1, <2>1, <2>2, NodeStep
<1>8. CASE Deduce!EndRequest(d)
    <2>1. PICK o \in {"completed", "failed"} :
              /\ worker' = [worker EXCEPT ![d].running = FALSE, ![d].out = o]
              /\ Deduce!Reply(<<Deduce!Frame(d, "run", o)>>)
        BY <1>8 DEF Deduce!EndRequest
    <2>2. PICK n : n = [worker[d] EXCEPT !.running = FALSE, !.out = o]
        OBVIOUS
    <2>3. n \in WorkerRecord
        BY <1>0, <1>2, <2>2 DEF WorkerRecord
    <2>4. worker' = [worker EXCEPT ![d] = n]
        BY <1>0, <2>1, <2>2 DEF DedType
    <2>5. <<Deduce!Frame(d, "run", o)>> \in Seq(FrameRecord)
          /\ \A i \in DOMAIN <<Deduce!Frame(d, "run", o)>> : <<Deduce!Frame(d, "run", o)>>[i].ded = d
        BY <1>2, <1>3
    <2> QED BY <1>1, <2>1, <2>3, <2>4, <2>5, NodeStep
<1>9. CASE Deduce!SignalCancel(d)
    <2>1. PICK n : n = [worker[d] EXCEPT !.signal = IF worker[d].running THEN "sent" ELSE "pending"]
        OBVIOUS
    <2>2. n \in WorkerRecord
        BY <1>0, <2>1 DEF WorkerRecord
    <2>3. worker' = [worker EXCEPT ![d] = n] /\ replies \in Seq(FrameRecord) /\ replies' = replies
        BY <1>0, <1>9, <2>1 DEF Deduce!SignalCancel, DedType
    <2>4. Deduce!Reply(<<>>)
        BY <2>3 DEF Deduce!Reply
    <2> QED BY <1>1, <1>5, <2>2, <2>3, <2>4, NodeStep
<1>10. CASE Deduce!AnswerCancel(d)
    <2>0. PICK b \in BOOLEAN : b = (worker[d].tomb \/ ~worker[d].cancelled)
        OBVIOUS
    <2>1. PICK n : n = [worker[d] EXCEPT !.cancelled = TRUE, !.tomb = b]
        OBVIOUS
    <2>2. n \in WorkerRecord
        BY <1>0, <2>1 DEF WorkerRecord
    <2>3. worker' = [worker EXCEPT ![d] = n] /\ Deduce!Reply(<<Deduce!Frame(d, "cancel", "none")>>)
        BY <1>0, <1>10, <2>0, <2>1 DEF Deduce!AnswerCancel, DedType
    <2>4. <<Deduce!Frame(d, "cancel", "none")>> \in Seq(FrameRecord)
          /\ \A i \in DOMAIN <<Deduce!Frame(d, "cancel", "none")>> :
                <<Deduce!Frame(d, "cancel", "none")>>[i].ded = d
        BY <1>2, <1>3
    <2> QED BY <1>1, <2>2, <2>3, <2>4, NodeStep
<1> QED BY <1>6, <1>7, <1>8, <1>9, <1>10

(* The connection or Core goes: nothing is under way any more.             *)
LEMMA CutSteps == ASSUME DedInv, Deduce!Reconnect \/ Deduce!CoreRestart PROVE DedInv' /\ RowsStay
<1>0. /\ DedType /\ UNCHANGED <<row, said, cmd>> /\ toRun' = {} /\ replies' = <<>>
      /\ worker' = [d \in Deductions |-> [worker[d] EXCEPT !.running = FALSE, !.signal = "none"]]
      /\ marking' \subseteq marking
      /\ recv' = recv \/ recv' = <<>>
    BY DEF DedInv, Deduce!Reconnect, Deduce!CoreRestart, Deduce!Cut, Deduce!coreVars
<1>1. ASSUME NEW d \in Deductions
      PROVE  worker'[d] \in WorkerRecord /\ ~worker'[d].running
    <2>1. worker[d] \in WorkerRecord
        BY <1>0 DEF DedType
    <2>2. /\ [worker[d] EXCEPT !.running = FALSE, !.signal = "none"] \in WorkerRecord
          /\ ~[worker[d] EXCEPT !.running = FALSE, !.signal = "none"].running
        BY <2>1 DEF WorkerRecord
    <2> QED BY <1>0, <2>2
<1>2. ASSUME NEW d \in Deductions
      PROVE  /\ asks'[d] \in AskRecord /\ (asks'[d].create # "over" => asks[d].create # "over")
             /\ asks'[d].cancel = "announce" => asks[d].cancel = "announce"
             /\ asks[d].cancel = "idle" => asks'[d].cancel = "idle"
    <2>1. asks[d] \in AskRecord
        BY <1>0 DEF DedType
    <2>2. CASE Deduce!Reconnect
        BY <2>1, <2>2 DEF Deduce!Reconnect, Deduce!coreVars
    <2>3. CASE Deduce!CoreRestart
        <3>1. PICK c : c = IF asks[d].create = "counted" THEN "idle" ELSE asks[d].create
            OBVIOUS
        <3>2. PICK x : x = CASE asks[d].cancel = "read" -> "idle"
                             [] asks[d].cancel = "announce" -> "over"
                             [] OTHER -> asks[d].cancel
            OBVIOUS
        <3>3. asks'[d] = [create |-> c, cancel |-> x]
            BY <2>3, <3>1, <3>2 DEF Deduce!CoreRestart
        <3>4. asks[d].create \in {"idle", "counted", "over"}
              /\ asks[d].cancel \in {"idle", "read", "announce", "over"}
            BY <2>1 DEF AskRecord
        <3>5. c \in {"idle", "over"} /\ (c # "over" => asks[d].create # "over")
            BY <3>1, <3>4
        <3>6. /\ x \in {"idle", "over"} /\ (asks[d].cancel = "idle" => x = "idle")
            BY <3>2, <3>4
        <3> QED BY <3>3, <3>5, <3>6 DEF AskRecord
    <2> QED BY <2>2, <2>3
<1>3. asks' \in [Deductions -> AskRecord]
    <2>1. CASE Deduce!Reconnect
        BY <1>0, <2>1 DEF Deduce!Reconnect, Deduce!coreVars, DedType
    <2>2. CASE Deduce!CoreRestart
        BY <1>2, <2>2 DEF Deduce!CoreRestart
    <2> QED BY <2>1, <2>2
<1>4. worker' \in [Deductions -> WorkerRecord]
    BY <1>0, <1>1
<1>5. <<>> \in Seq(FrameRecord) /\ DOMAIN <<>> = {}
    OBVIOUS
<1>6. DedType'
    BY <1>0, <1>3, <1>4, <1>5 DEF DedType
<1>7. CreatedInv'
    BY <1>0, <1>1, <1>2, <1>5 DEF DedInv, CreatedInv
<1>8. AnnouncedInv' /\ RowsStay
    BY <1>0, <1>2 DEF DedInv, AnnouncedInv, Deduce!Working, RowsStay
<1> QED BY <1>6, <1>7, <1>8 DEF DedInv

(* Every step keeps the invariant and the rows that ended.                 *)
LEMMA DedSteps == ASSUME DedInv, [Deduce!DedNext]_Deduce!dedVars PROVE DedInv' /\ RowsStay
<1>1. CASE Deduce!DedNext
    BY <1>1, AskSteps, CreateStep, CancelStep, OtherStep, DispatchSteps, FrameSteps,
       ProjectSteps, VerdictStep, NodeSteps, CutSteps DEF Deduce!DedNext
<1>2. CASE UNCHANGED Deduce!dedVars
    <2>1. UNCHANGED <<row, said, asks, cmd, marking, recv, toRun, replies, worker>>
        BY <1>2 DEF Deduce!dedVars, Deduce!coreVars
    <2> QED BY <2>1 DEF DedInv, DedType, CreatedInv, AnnouncedInv, Deduce!Working, RowsStay
<1> QED BY <1>1, <1>2

(* The invariant holds in every state.                                     *)
THEOREM DedSafe == Deduce!DedSpec => []DedInv
<1>1. DedInv /\ [Deduce!DedNext]_Deduce!dedVars => DedInv'
    BY DedSteps
<1> QED BY DedStarts, <1>1, PTL DEF Deduce!DedSpec

(* Deductions' EndedDeductionsStay, of every step.                         *)
THEOREM DeductionsStay == Deduce!DedSpec => [][Deduce!EndedDeductionsStay]_Deduce!dedVars
<1>1. DedInv /\ DedInv' /\ [Deduce!DedNext]_Deduce!dedVars => [Deduce!EndedDeductionsStay]_Deduce!dedVars
    BY DedSteps DEF RowsStay, Deduce!EndedDeductionsStay, DedInv, AnnouncedInv
<1> QED BY DedSafe, <1>1, PTL DEF Deduce!DedSpec

-----------------------------------------------------------------------------
(* Sessions: the turns and the approvals of a session.                     *)

EventKinds == {"Starting", "Ready", "Resuming", "Running", "Blocked", "ApprovalRequested",
               "ApprovalResolved", "Expired", "Stopped", "Error", "TurnInterrupted",
               "TurnStarted", "TurnCompleted", "Activity"}
EventRecord == [seq : Nat, kind : EventKinds, of : Turns \cup {NoTurn}]
BatchRecord == [rest : Seq(EventRecord), done : SUBSET EventRecord]
Commands == {Command(k, NoTurn) : k \in {"start", "resume", "interrupt", "stop"}}
              \cup {Command("turn", t) : t \in Turns} \cup {Command("resolve", t) : t \in Turns}
TurnStates == {"none", "created", "running", "completed", "interrupted", "failed", "blocked"}

SessType ==
    /\ turns \in [Turns -> TurnStates]
    /\ approvals \in [Turns -> {"none", "requested", "resolved"}]
    /\ log \in Seq(EventRecord) /\ outbox \in Seq(EventRecord) /\ wire \in Seq(BatchRecord)
    /\ expiry \in [at : {"no", "found", "numbered"}, seq : Nat]
    /\ open \subseteq Commands
    /\ \A w \in Range(wire) : w.rest # <<>>

(* The Node counts up; only a turn has activity, and its number is taken.  *)
NodeFits ==
    /\ node = [state |-> node.state, seq |-> node.seq, turn |-> node.turn,
               activity |-> node.activity, cut |-> node.cut]
    /\ node.seq \in Nat /\ node.turn \in Turns \cup {NoTurn}
    /\ \/ node.activity = <<>> /\ (node.turn # NoTurn => node.seq >= 2)
       \/ /\ node.turn # NoTurn /\ node.seq >= 3
          /\ \E e \in EventRecord : /\ node.activity = <<e>> /\ e.kind = "Activity"
                                   /\ e.seq <= node.seq

(* The last number of the log exists.                                      *)
HasLast == \E m \in Numbers \cup {0} : \A n \in Numbers : n <= m

(* What an event says of a turn.                                           *)
Begins(e, t) == e.kind = "TurnStarted" /\ e.of = t
Ends(e, t) ==
    e.of = t /\ e.kind \in {"TurnCompleted", "ApprovalRequested", "TurnInterrupted", "Error"}
Asks(e, t) == e.kind = "ApprovalRequested" /\ e.of = t
Answers(e, t) == e.kind = "ApprovalResolved" /\ e.of = t

(* The events that are stored, in the outbox or on the way.                *)
Sent == Range(log) \cup Range(outbox) \cup UNION {Range(w.rest) : w \in Range(wire)}

(* Of the events S, one begins a turn and one ends or suspends it.         *)
OneEach(S) ==
    \A t \in Turns : \A e, f \in S :
        (Begins(e, t) /\ Begins(f, t)) \/ (Ends(e, t) /\ Ends(f, t)) => e = f

(* In a queue q, the end of a turn comes after its beginning, unless L has *)
(* that; S are all events.                                                 *)
EndsLast(q, L, S) ==
    \A t \in Turns : \A i \in DOMAIN q : \A e \in S :
        Ends(q[i], t) /\ Begins(e, t) => e \in L \/ \E j \in DOMAIN q : j < i /\ q[j] = e

(* An approval is answered after it was asked for.                         *)
AnswersLast(q) ==
    \A t \in Turns : \A i \in DOMAIN q :
        Answers(q[i], t) => \E j \in DOMAIN q : j < i /\ Asks(q[j], t)

(* A log holds an event once.                                              *)
Once(q) == \A i, j \in DOMAIN q : q[i] = q[j] => i = j

InOrder ==
    /\ Once(log) /\ AnswersLast(log) /\ EndsLast(log, {}, Sent)
    /\ EndsLast(outbox, Range(log), Sent)
    /\ \A w \in Range(wire) : EndsLast(w.rest, Range(log), Sent)

(* A turn that was not run has no events; one that runs has begun, and its *)
(* beginning has the number that EndTurn gives it again.                   *)
Stages(S) ==
    \A t \in Turns :
        /\ turns[t] = "none" => Command("turn", t) \notin open
        /\ turns[t] = "none" \/ Command("turn", t) \in open =>
              \A e \in S : ~Ends(e, t) /\ (Begins(e, t) => node.turn = t)
        /\ node.turn = t => /\ Command("turn", t) \in open
                            /\ \A e \in S : Begins(e, t) => e.seq = node.seq - Len(node.activity)

(* Only an approval that Core knows is answered; one that is asked for     *)
(* belongs to a turn whose beginning is not lost; what a batch has stored  *)
(* is in the log.                                                          *)
Grounds ==
    /\ \A t \in Turns : Command("resolve", t) \in open \/ (\E e \in Sent : Answers(e, t))
                           => \E e \in Range(log) : Asks(e, t)
    /\ \A t \in Turns : \A e \in Sent :
          Asks(e, t) => \E f \in Range(log) \cup Range(outbox) : Begins(f, t)
    /\ \A w \in Range(wire) : w.done \subseteq Range(log)

(* The rows say what the log L says.                                       *)
RowsFollow(L) ==
    \A t \in Turns :
        /\ \A e \in L : Ends(e, t) => turns[t] = TurnOf(e.kind)
        /\ (\A e \in L : ~Ends(e, t)) =>
              /\ (\E e \in L : Begins(e, t)) => turns[t] = "running"
              /\ (\A e \in L : ~Begins(e, t)) => turns[t] \in {"none", "created"}
        /\ (\E e \in L : Answers(e, t)) => approvals[t] = "resolved"
        /\ (\A e \in L : ~Answers(e, t)) =>
              /\ (\E e \in L : Asks(e, t)) => approvals[t] = "requested"
              /\ (\A e \in L : ~Asks(e, t)) => approvals[t] = "none"

TurnInv == OneEach(Sent) /\ InOrder /\ Stages(Sent) /\ Grounds /\ RowsFollow(Range(log))
SessInv == SessType /\ NodeFits /\ HasLast /\ TurnInv

-----------------------------------------------------------------------------
(* What the parts of the invariant need of the events.                     *)

(* Fewer events, or more of them stored.                                   *)
LEMMA FewerEvents ==
    ASSUME NEW S, NEW N \in SUBSET S
    PROVE  /\ OneEach(S) => OneEach(N)
           /\ \A q, L, M : EndsLast(q, L, S) /\ L \subseteq M => EndsLast(q, M, N)
BY DEF OneEach, EndsLast

(* New events N: one that begins a turn finds no end of it, and one that   *)
(* ends it no other.                                                       *)
LEMMA MoreEvents ==
    ASSUME NEW S, NEW N, OneEach(S), OneEach(N),
           \A t \in Turns : \A n \in N : \A e \in S :
               /\ Begins(n, t) /\ Begins(e, t) => e = n
               /\ Ends(n, t) => ~Ends(e, t)
               /\ Begins(n, t) => ~Ends(e, t)
    PROVE  /\ OneEach(S \cup N)
           /\ \A q, L : Range(q) \subseteq S /\ EndsLast(q, L, S) => EndsLast(q, L, S \cup N)
<1>1. OneEach(S \cup N)
    BY DEF OneEach
<1>2. ASSUME NEW q, NEW L, Range(q) \subseteq S, EndsLast(q, L, S) PROVE EndsLast(q, L, S \cup N)
    <2>1. \A i \in DOMAIN q : q[i] \in S
        BY <1>2 DEF Range
    <2> QED BY <1>2, <2>1 DEF EndsLast
<1> QED BY <1>1, <1>2

(* The first of a queue was stored, or what S has was taken out of it.     *)
LEMMA TailEndsLast ==
    ASSUME NEW q \in Seq(EventRecord), q # <<>>, NEW L, NEW S, EndsLast(q, L, S), q[1] \in L
    PROVE  EndsLast(Tail(q), L, S)
<1>1. PICK r \in Seq(EventRecord) : r = Tail(q)
    BY RangeTail
<1>2. /\ \A i \in DOMAIN r : i + 1 \in DOMAIN q /\ r[i] = q[i + 1]
      /\ DOMAIN r = 1 .. Len(r) /\ DOMAIN q = 1 .. Len(q) /\ Len(r) = Len(q) - 1
      /\ Len(r) \in Nat /\ Len(q) \in Nat
    BY <1>1, RangeTail, RangeOf
<1>3. ASSUME NEW t \in Turns, NEW i \in DOMAIN r, NEW e \in S, Ends(r[i], t), Begins(e, t), e \notin L
      PROVE  \E j \in DOMAIN r : j < i /\ r[j] = e
    <2>1. i + 1 \in DOMAIN q /\ Ends(q[i + 1], t)
        BY <1>2, <1>3
    <2>2. PICK j \in DOMAIN q : j < i + 1 /\ q[j] = e
        BY <1>3, <2>1 DEF EndsLast
    <2>3. j # 1
        BY <1>3, <2>2
    <2>4. j - 1 \in DOMAIN r /\ j - 1 < i /\ r[j - 1] = q[j]
        BY <1>2, <2>2, <2>3
    <2> QED BY <2>2, <2>4
<1>4. EndsLast(r, L, S)
    BY <1>3 DEF EndsLast
<1> QED BY <1>1, <1>4

(* What was stored is taken out of a queue.                                *)
LEMMA WithoutEndsLast ==
    ASSUME NEW q \in Seq(EventRecord), NEW L, NEW S, EndsLast(q, L, S), NEW D, D \subseteq L
    PROVE  /\ Without(q, D) \in Seq(EventRecord) /\ EndsLast(Without(q, D), L, S)
           /\ Range(Without(q, D)) = Range(q) \ D
<1>1. PICK r \in Seq(EventRecord) : r = Without(q, D)
    BY WithoutKeeps
<1>2. PICK place \in [DOMAIN r -> DOMAIN q] :
        /\ \A n \in DOMAIN r : r[n] = q[place[n]] /\ q[place[n]] \notin D
        /\ \A m, n \in DOMAIN r : m < n => place[m] < place[n]
        /\ \A i \in DOMAIN q : q[i] \notin D => \E n \in DOMAIN r : place[n] = i
    BY <1>1, WithoutKeeps
<1>3. DOMAIN r = 1 .. Len(r) /\ DOMAIN q = 1 .. Len(q) /\ Len(r) \in Nat /\ Len(q) \in Nat
    BY RangeOf
<1>4. ASSUME NEW t \in Turns, NEW i \in DOMAIN r, NEW e \in S, Ends(r[i], t), Begins(e, t), e \notin L
      PROVE  \E j \in DOMAIN r : j < i /\ r[j] = e
    <2>1. place[i] \in DOMAIN q /\ Ends(q[place[i]], t)
        BY <1>2, <1>4
    <2>2. PICK k \in DOMAIN q : k < place[i] /\ q[k] = e
        BY <1>4, <2>1 DEF EndsLast
    <2>3. PICK j \in DOMAIN r : place[j] = k
        BY <1>2, <1>4, <2>2
    <2>4. r[j] = e
        BY <1>2, <2>2, <2>3
    <2>5. j < i
        <3>1. i < j => place[i] < place[j]
            BY <1>2
        <3>2. i \in Nat /\ j \in Nat /\ place[i] \in Nat /\ k \in Nat
            BY <1>3, <2>1
        <3>3. i # j
            BY <2>2, <2>3, <3>2
        <3> QED BY <2>2, <2>3, <3>1, <3>2, <3>3
    <2> QED BY <2>4, <2>5
<1>5. EndsLast(r, L, S)
    BY <1>4 DEF EndsLast
<1>6. ASSUME NEW x \in Range(r) PROVE x \in Range(q) \ D
    <2>1. PICK n \in DOMAIN r : r[n] = x
        BY <1>6 DEF Range
    <2>2. place[n] \in DOMAIN q /\ q[place[n]] = x /\ x \notin D
        BY <1>2, <2>1
    <2> QED BY <2>2 DEF Range
<1>7. ASSUME NEW x \in Range(q) \ D PROVE x \in Range(r)
    <2>1. PICK i \in DOMAIN q : q[i] = x
        BY <1>7 DEF Range
    <2>2. PICK n \in DOMAIN r : place[n] = i
        BY <1>2, <1>7, <2>1
    <2>3. r[n] = x
        BY <1>2, <2>1, <2>2
    <2> QED BY <2>3 DEF Range
<1> QED BY <1>1, <1>5, <1>6, <1>7

(* A queue after another.                                                  *)
LEMMA ConcatEndsLast ==
    ASSUME NEW q \in Seq(EventRecord), NEW r \in Seq(EventRecord), NEW L, NEW S,
           EndsLast(q, L, S), EndsLast(r, L, S)
    PROVE  EndsLast(q \o r, L, S)
<1>1. PICK s \in Seq(EventRecord) : s = q \o r
    BY RangeConcat
<1>2. /\ \A i \in DOMAIN q : i \in DOMAIN s /\ s[i] = q[i]
      /\ \A i \in DOMAIN r : i + Len(q) \in DOMAIN s /\ s[i + Len(q)] = r[i]
      /\ \A i \in DOMAIN s : i \in DOMAIN q \/ \E j \in DOMAIN r : i = j + Len(q)
    BY <1>1, RangeConcat
<1>3. DOMAIN r = 1 .. Len(r) /\ DOMAIN q = 1 .. Len(q) /\ Len(r) \in Nat /\ Len(q) \in Nat
    BY RangeOf
<1>4. ASSUME NEW t \in Turns, NEW i \in DOMAIN s, NEW e \in S, Ends(s[i], t), Begins(e, t), e \notin L
      PROVE  \E j \in DOMAIN s : j < i /\ s[j] = e
    <2>1. CASE i \in DOMAIN q
        <3>1. PICK j \in DOMAIN q : j < i /\ q[j] = e
            BY <1>2, <1>4, <2>1 DEF EndsLast
        <3> QED BY <1>2, <3>1
    <2>2. ASSUME NEW k \in DOMAIN r, i = k + Len(q) PROVE \E j \in DOMAIN s : j < i /\ s[j] = e
        <3>1. Ends(r[k], t)
            BY <1>2, <1>4, <2>2
        <3>2. PICK j \in DOMAIN r : j < k /\ r[j] = e
            BY <1>4, <3>1 DEF EndsLast
        <3>3. j + Len(q) \in DOMAIN s /\ s[j + Len(q)] = e /\ j + Len(q) < i
            BY <1>2, <1>3, <2>2, <3>2
        <3> QED BY <3>3
    <2> QED BY <1>2, <2>1, <2>2
<1>5. EndsLast(s, L, S)
    BY <1>4 DEF EndsLast
<1> QED BY <1>1, <1>5

-----------------------------------------------------------------------------
(* An event is stored.                                                     *)

(* What the rows become when event e is stored: it is new, it was sent or  *)
(* is about no turn, and it ends a turn only after its beginning.          *)
Storable(e) ==
    /\ e \in EventRecord /\ e \notin Range(log)
    /\ \A t \in Turns : /\ Begins(e, t) \/ Ends(e, t) \/ Answers(e, t) => e \in Sent
                        /\ Ends(e, t) => \A f \in Sent : Begins(f, t) => f \in Range(log)

(* The kinds that change the row of a turn are those that begin or end it. *)
LEMMA TurnKinds ==
    ASSUME NEW e \in EventRecord, NEW t \in Turns
    PROVE  /\ e.of = t /\ TurnOf(e.kind) # "none" <=> Begins(e, t) \/ Ends(e, t)
           /\ Begins(e, t) => TurnOf(e.kind) = "running" /\ ~Ends(e, t)
           /\ Ends(e, t) => /\ TurnOf(e.kind) \in {"completed", "interrupted", "failed", "blocked"}
                            /\ TurnOf(e.kind) = "blocked" <=> Asks(e, t)
           /\ TurnOf(e.kind) \in TurnStates
           /\ Asks(e, t) => Ends(e, t) /\ ~Answers(e, t)
BY DEF TurnOf, Begins, Ends, Asks, Answers, TurnStates

(* The rows of turns and approvals after an event.                         *)
LEMMA RowsAfter ==
    ASSUME SessType, NEW e \in EventRecord,
           update_turn_from_event(e), update_approval_from_event(e),
           NEW t \in Turns
    PROVE  /\ Begins(e, t) \/ Ends(e, t) => turns'[t] = TurnOf(e.kind)
           /\ ~Begins(e, t) /\ ~Ends(e, t) => turns'[t] = turns[t]
           /\ Asks(e, t) => approvals'[t] = "requested"
           /\ Answers(e, t) => approvals'[t] = "resolved"
           /\ ~Asks(e, t) /\ ~Answers(e, t) => approvals'[t] = approvals[t]
<1>0. /\ turns \in [Turns -> TurnStates] /\ NoTurn \notin Turns
      /\ approvals \in [Turns -> {"none", "requested", "resolved"}]
    BY SessionAssumption DEF SessType
<1>1. /\ Begins(e, t) \/ Ends(e, t) => turns'[t] = TurnOf(e.kind)
      /\ ~Begins(e, t) /\ ~Ends(e, t) => turns'[t] = turns[t]
    <2>1. CASE e.of = NoTurn \/ TurnOf(e.kind) = "none"
        <3>1. turns' = turns
            BY <2>1 DEF update_turn_from_event
        <3>2. ~Begins(e, t) /\ ~Ends(e, t)
            BY <1>0, <2>1, TurnKinds DEF Begins, Ends
        <3> QED BY <3>1, <3>2
    <2>2. CASE ~(e.of = NoTurn \/ TurnOf(e.kind) = "none")
        <3>1. turns' = [turns EXCEPT ![e.of] = TurnOf(e.kind)]
            BY <2>2 DEF update_turn_from_event
        <3>2. turns'[t] = IF t = e.of THEN TurnOf(e.kind) ELSE turns[t]
            BY <1>0, <3>1
        <3>3. t = e.of <=> Begins(e, t) \/ Ends(e, t)
            BY <2>2, TurnKinds
        <3> QED BY <3>2, <3>3
    <2> QED BY <2>1, <2>2
<1>2. /\ Asks(e, t) => approvals'[t] = "requested"
      /\ Answers(e, t) => approvals'[t] = "resolved"
      /\ ~Asks(e, t) /\ ~Answers(e, t) => approvals'[t] = approvals[t]
    <2>1. CASE e.kind = "ApprovalRequested"
        <3>1. approvals' = [approvals EXCEPT ![e.of] = "requested"]
            BY <2>1 DEF update_approval_from_event
        <3> QED BY <1>0, <2>1, <3>1 DEF Asks, Answers
    <2>2. CASE e.kind = "ApprovalResolved"
        <3>1. approvals' = [approvals EXCEPT ![e.of] = "resolved"]
            BY <2>2 DEF update_approval_from_event
        <3> QED BY <1>0, <2>2, <3>1 DEF Asks, Answers
    <2>3. CASE e.kind \notin {"ApprovalRequested", "ApprovalResolved"}
        <3>1. approvals' = approvals
            BY <2>3 DEF update_approval_from_event
        <3> QED BY <2>3, <3>1 DEF Asks, Answers
    <2> QED BY <2>1, <2>2, <2>3
<1> QED BY <1>1, <1>2

(* The rows keep their types.                                              *)
LEMMA RowTypesAfter ==
    ASSUME SessType, NEW e \in EventRecord,
           update_turn_from_event(e), update_approval_from_event(e)
    PROVE  /\ turns' \in [Turns -> TurnStates]
           /\ approvals' \in [Turns -> {"none", "requested", "resolved"}]
<1>1. TurnOf(e.kind) \in TurnStates
    BY DEF TurnOf, TurnStates
<1> QED BY <1>1 DEF SessType, update_turn_from_event, update_approval_from_event

(* What an ended turn, or an answered approval, rules out.                 *)
LEMMA EndedInLog ==
    ASSUME SessType, TurnInv, NEW e, Storable(e), NEW t \in Turns
    PROVE  /\ Begins(e, t) => \A f \in Range(log) : ~Ends(f, t)
           /\ Ends(e, t) => \A f \in Range(log) : ~Ends(f, t)
           /\ Asks(e, t) => \A f \in Range(log) : ~Answers(f, t)
<1>0. /\ OneEach(Sent) /\ EndsLast(log, {}, Sent) /\ AnswersLast(log)
      /\ Range(log) \subseteq Sent /\ log \in Seq(EventRecord)
    BY DEF TurnInv, InOrder, Sent, SessType
<1>1. ASSUME Begins(e, t), NEW f \in Range(log), Ends(f, t) PROVE FALSE
    <2>1. e \in Sent
        BY <1>1 DEF Storable
    <2>2. PICK i \in DOMAIN log : log[i] = f
        BY <1>0, <1>1, RangeOf
    <2>3. \E j \in DOMAIN log : log[j] = e
        BY <1>0, <1>1, <2>1, <2>2 DEF EndsLast
    <2> QED BY <2>3 DEF Storable, Range
<1>2. ASSUME Ends(e, t), NEW f \in Range(log), Ends(f, t) PROVE FALSE
    <2>1. e \in Sent /\ f \in Sent
        BY <1>0, <1>2 DEF Storable
    <2>2. e = f
        BY <1>0, <1>2, <2>1 DEF OneEach
    <2> QED BY <1>2, <2>2 DEF Storable
<1>3. ASSUME Asks(e, t), NEW f \in Range(log), Answers(f, t) PROVE FALSE
    <2>1. PICK i \in DOMAIN log : log[i] = f
        BY <1>0, <1>3, RangeOf
    <2>2. PICK j \in DOMAIN log : Asks(log[j], t)
        BY <1>0, <1>3, <2>1 DEF AnswersLast
    <2>3. Ends(log[j], t) /\ log[j] \in Range(log) /\ Ends(e, t)
        BY <1>3, <2>2 DEF Asks, Ends, Range
    <2> QED BY <1>2, <2>3
<1> QED BY <1>1, <1>2, <1>3

(* The log after an event.                                                 *)
LEMMA LogGrows ==
    ASSUME SessType, TurnInv, HasLast, NEW e, Storable(e), log' = Append(log, e)
    PROVE  /\ log' \in Seq(EventRecord) /\ Range(log)' = Range(log) \cup {e}
           /\ Once(log)' /\ AnswersLast(log)' /\ EndsLast(log', {}, Sent \cup {e})
           /\ HasLast'
<1>0. /\ OneEach(Sent) /\ EndsLast(log, {}, Sent) /\ AnswersLast(log) /\ Once(log)
      /\ Range(log) \subseteq Sent /\ log \in Seq(EventRecord) /\ e \in EventRecord
    BY DEF TurnInv, InOrder, Sent, SessType, Storable
<1>1. PICK l \in Seq(EventRecord) : l = Append(log, e)
    BY <1>0, RangeAppend
<1>2. /\ Range(l) = Range(log) \cup {e} /\ DOMAIN l = DOMAIN log \cup {Len(log) + 1}
      /\ \A i \in DOMAIN log : l[i] = log[i]
      /\ l[Len(log) + 1] = e
    BY <1>0, <1>1, RangeAppend
<1>3. /\ DOMAIN log = 1 .. Len(log) /\ Len(log) \in Nat
      /\ \A i \in DOMAIN log : log[i] \in Range(log) /\ i < Len(log) + 1
    BY <1>0, RangeOf
<1>4. Once(l)
    <2> SUFFICES ASSUME NEW i \in DOMAIN l, NEW j \in DOMAIN l, l[i] = l[j] PROVE i = j
        BY DEF Once
    <2>1. e \notin Range(log)
        BY DEF Storable
    <2> QED BY <1>0, <1>2, <1>3, <2>1 DEF Once
<1>5. AnswersLast(l)
    <2> SUFFICES ASSUME NEW t \in Turns, NEW i \in DOMAIN l, Answers(l[i], t)
                 PROVE  \E j \in DOMAIN l : j < i /\ Asks(l[j], t)
        BY DEF AnswersLast
    <2>1. CASE i \in DOMAIN log
        <3>1. PICK j \in DOMAIN log : j < i /\ Asks(log[j], t)
            BY <1>0, <1>2, <2>1 DEF AnswersLast
        <3> QED BY <1>2, <3>1
    <2>2. CASE i = Len(log) + 1
        <3>1. Answers(e, t) /\ e \in Sent
            BY <1>2, <2>2 DEF Storable
        <3>2. PICK f \in Range(log) : Asks(f, t)
            BY <3>1 DEF TurnInv, Grounds
        <3>3. PICK j \in DOMAIN log : log[j] = f
            BY <1>0, RangeOf
        <3> QED BY <1>2, <1>3, <2>2, <3>2, <3>3
    <2> QED BY <1>2, <2>1, <2>2
<1>6. EndsLast(l, {}, Sent \cup {e})
    <2> SUFFICES ASSUME NEW t \in Turns, NEW i \in DOMAIN l, NEW f \in Sent \cup {e},
                        Ends(l[i], t), Begins(f, t)
                 PROVE  \E j \in DOMAIN l : j < i /\ l[j] = f
        BY DEF EndsLast
    <2>1. f \in Sent
        BY DEF Storable
    <2>2. CASE i \in DOMAIN log
        <3>1. PICK j \in DOMAIN log : j < i /\ log[j] = f
            BY <1>0, <1>2, <2>1, <2>2 DEF EndsLast
        <3> QED BY <1>2, <3>1
    <2>3. CASE i = Len(log) + 1
        <3>1. f \in Range(log)
            BY <1>2, <2>1, <2>3 DEF Storable
        <3>2. PICK j \in DOMAIN log : log[j] = f
            BY <1>0, <3>1, RangeOf
        <3> QED BY <1>2, <1>3, <2>3, <3>2
    <2> QED BY <1>2, <2>2, <2>3
<1>7. HasLast'
    <2>0. \A i \in DOMAIN log : log[i] \in EventRecord
        BY <1>0, RangeOf
    <2>1. /\ \A i \in DOMAIN log : log[i].seq \in Nat
          /\ e.seq \in Nat
        BY <1>0, <2>0 DEF EventRecord
    <2>2. Numbers' = Numbers \cup {e.seq} /\ Numbers \subseteq Nat
        BY <1>1, <1>2, <2>1 DEF Numbers
    <2>3. PICK m \in Numbers \cup {0} : \A n \in Numbers : n <= m
        BY DEF HasLast
    <2>4. m \in Nat
        BY <2>2, <2>3
    <2>5. CASE e.seq <= m
        BY <2>1, <2>2, <2>3, <2>4, <2>5 DEF HasLast
    <2>6. CASE ~(e.seq <= m)
        <3>1. \A n \in Numbers' : n <= e.seq
            BY <2>1, <2>2, <2>3, <2>4, <2>6
        <3> QED BY <2>2, <3>1 DEF HasLast
    <2> QED BY <2>5, <2>6
<1> QED BY <1>1, <1>2, <1>4, <1>5, <1>6, <1>7

(* The rows after an event.                                                *)
LEMMA RowsGrow ==
    ASSUME SessType, TurnInv, HasLast, NEW e, Storable(e), log' = Append(log, e),
           update_turn_from_event(e), update_approval_from_event(e)
    PROVE  /\ \A t \in Turns : turns'[t] = "none" => turns[t] = "none"
           /\ RowsFollow(Range(log))'
           /\ EndedTurnsStay
<1>0. e \in EventRecord /\ Range(log)' = Range(log) \cup {e} /\ RowsFollow(Range(log))
      /\ Range(log) \subseteq EventRecord
    BY LogGrows, RangeOf DEF Storable, TurnInv, SessType
<1>1. ASSUME NEW t \in Turns
      PROVE  /\ turns'[t] = "none" => turns[t] = "none"
             /\ turns[t] \in Ended => turns'[t] = turns[t]
             /\ approvals[t] = "resolved" => approvals'[t] = "resolved"
             /\ \A f \in Range(log)' : Ends(f, t) => turns'[t] = TurnOf(f.kind)
             /\ (\A f \in Range(log)' : ~Ends(f, t)) =>
                  /\ (\E f \in Range(log)' : Begins(f, t)) => turns'[t] = "running"
                  /\ (\A f \in Range(log)' : ~Begins(f, t)) => turns'[t] \in {"none", "created"}
             /\ (\E f \in Range(log)' : Answers(f, t)) => approvals'[t] = "resolved"
             /\ (\A f \in Range(log)' : ~Answers(f, t)) =>
                  /\ (\E f \in Range(log)' : Asks(f, t)) => approvals'[t] = "requested"
                  /\ (\A f \in Range(log)' : ~Asks(f, t)) => approvals'[t] = "none"
    <2>1. /\ Begins(e, t) => TurnOf(e.kind) = "running" /\ ~Ends(e, t)
          /\ Ends(e, t) => TurnOf(e.kind) \in {"completed", "interrupted", "failed", "blocked"}
          /\ Asks(e, t) => Ends(e, t) /\ ~Answers(e, t)
          /\ \A f \in Range(log) : Asks(f, t) => Ends(f, t) /\ ~Answers(f, t)
        BY <1>0, TurnKinds
    <2>2. /\ Begins(e, t) => \A f \in Range(log) : ~Ends(f, t)
          /\ Ends(e, t) => \A f \in Range(log) : ~Ends(f, t)
          /\ Asks(e, t) => \A f \in Range(log) : ~Answers(f, t)
        BY EndedInLog
    <2>3. /\ Begins(e, t) \/ Ends(e, t) => turns'[t] = TurnOf(e.kind)
          /\ ~Begins(e, t) /\ ~Ends(e, t) => turns'[t] = turns[t]
          /\ Asks(e, t) => approvals'[t] = "requested"
          /\ Answers(e, t) => approvals'[t] = "resolved"
          /\ ~Asks(e, t) /\ ~Answers(e, t) => approvals'[t] = approvals[t]
        BY <1>0, RowsAfter
    <2>4. /\ \A f \in Range(log) : Ends(f, t) => turns[t] = TurnOf(f.kind)
          /\ (\A f \in Range(log) : ~Ends(f, t)) =>
                /\ (\E f \in Range(log) : Begins(f, t)) => turns[t] = "running"
                /\ (\A f \in Range(log) : ~Begins(f, t)) => turns[t] \in {"none", "created"}
        BY <1>0 DEF RowsFollow
    <2>5. /\ (\E f \in Range(log) : Answers(f, t)) => approvals[t] = "resolved"
          /\ (\A f \in Range(log) : ~Answers(f, t)) =>
                /\ (\E f \in Range(log) : Asks(f, t)) => approvals[t] = "requested"
                /\ (\A f \in Range(log) : ~Asks(f, t)) => approvals[t] = "none"
        BY <1>0 DEF RowsFollow
    <2>6. turns'[t] = "none" => turns[t] = "none"
        BY <2>1, <2>3
    <2>7. turns[t] \in Ended => turns'[t] = turns[t]
        BY <2>2, <2>3, <2>4 DEF Ended
    <2>8. approvals[t] = "resolved" => approvals'[t] = "resolved"
        BY <2>2, <2>3, <2>5
    <2>9. \A f \in Range(log)' : Ends(f, t) => turns'[t] = TurnOf(f.kind)
        BY <1>0, <2>1, <2>2, <2>3, <2>4
    <2>10. (\A f \in Range(log)' : ~Ends(f, t)) =>
             /\ (\E f \in Range(log)' : Begins(f, t)) => turns'[t] = "running"
             /\ (\A f \in Range(log)' : ~Begins(f, t)) => turns'[t] \in {"none", "created"}
        BY <1>0, <2>1, <2>3, <2>4
    <2>11. (\E f \in Range(log)' : Answers(f, t)) => approvals'[t] = "resolved"
        BY <1>0, <2>3, <2>8, <2>5
    <2>12. (\A f \in Range(log)' : ~Answers(f, t)) =>
             /\ (\E f \in Range(log)' : Asks(f, t)) => approvals'[t] = "requested"
             /\ (\A f \in Range(log)' : ~Asks(f, t)) => approvals'[t] = "none"
        BY <1>0, <2>3, <2>5
    <2> QED BY <2>6, <2>7, <2>8, <2>9, <2>10, <2>11, <2>12
<1>2. RowsFollow(Range(log))'
    BY <1>1 DEF RowsFollow
<1>3. EndedTurnsStay
    BY <1>1 DEF EndedTurnsStay
<1> QED BY <1>1, <1>2, <1>3

-----------------------------------------------------------------------------
(* What keeps the invariant.                                               *)

(* An event that is about no turn.                                         *)
Harmless(e) == \A t \in Turns : ~Begins(e, t) /\ ~Ends(e, t) /\ ~Asks(e, t) /\ ~Answers(e, t)

(* Core stores event e, or has it: what the log, the rows and the queues   *)
(* are then, among the events S.                                           *)
LEMMA EventStored ==
    ASSUME SessType, TurnInv, HasLast, NEW e, accept_node_event(e),
           e \in EventRecord, e \in Sent \/ Harmless(e), e \in Range(log) \/ Storable(e),
           NEW S, S = Sent \cup {e}
    PROVE  /\ turns' \in [Turns -> TurnStates]
           /\ approvals' \in [Turns -> {"none", "requested", "resolved"}]
           /\ log' \in Seq(EventRecord) /\ HasLast'
           /\ Range(log)' = Range(log) \cup {e}
           /\ Once(log)' /\ AnswersLast(log)' /\ EndsLast(log', {}, S)
           /\ \A t \in Turns : turns'[t] = "none" => turns[t] = "none"
           /\ RowsFollow(Range(log))' /\ EndedTurnsStay
           /\ OneEach(S)
           /\ \A q : Range(q) \subseteq Sent /\ EndsLast(q, Range(log), Sent)
                       => EndsLast(q, Range(log)', S)
<1>1. OneEach(S) /\ \A q : Range(q) \subseteq Sent /\ EndsLast(q, Range(log), Sent)
                              => EndsLast(q, Range(log), S)
    <2>1. CASE e \in Sent
        <3>1. S = Sent
            BY <2>1
        <3> QED BY <3>1 DEF TurnInv
    <2>2. CASE Harmless(e)
        <3>1. OneEach(Sent) /\ OneEach({e})
            BY DEF TurnInv, OneEach
        <3> QED BY <2>2, <3>1, MoreEvents DEF Harmless
    <2> QED BY <2>1, <2>2
<1>2. \A q, M : EndsLast(q, Range(log), S) /\ Range(log) \subseteq M => EndsLast(q, M, S)
    BY FewerEvents
<1>3. CASE e \in Range(log)
    <2>1. S = Sent /\ UNCHANGED coreVars
        BY <1>3 DEF Sent, accept_node_event, Seen
    <2>2. log' = log /\ turns' = turns /\ approvals' = approvals
        BY <2>1 DEF coreVars
    <2>3. Range(log)' = Range(log) \cup {e}
        BY <1>3, <2>2
    <2>4. HasLast' /\ RowsFollow(Range(log))' /\ Once(log)' /\ AnswersLast(log)'
          /\ EndsLast(log', {}, S)
        BY <2>1, <2>2 DEF TurnInv, InOrder, HasLast, Numbers, RowsFollow
    <2> QED BY <1>1, <1>2, <2>2, <2>3, <2>4 DEF SessType, EndedTurnsStay
<1>4. CASE e \notin Range(log)
    <2>1. Storable(e) /\ log' = Append(log, e) /\ update_turn_from_event(e)
          /\ update_approval_from_event(e)
        BY <1>4 DEF accept_node_event, Seen, Project
    <2>2. /\ log' \in Seq(EventRecord) /\ Range(log)' = Range(log) \cup {e}
          /\ Once(log)' /\ AnswersLast(log)' /\ EndsLast(log', {}, S) /\ HasLast'
        BY <2>1, LogGrows
    <2>3. /\ \A t \in Turns : turns'[t] = "none" => turns[t] = "none"
          /\ RowsFollow(Range(log))' /\ EndedTurnsStay
        BY <2>1, RowsGrow
    <2>4. /\ turns' \in [Turns -> TurnStates]
          /\ approvals' \in [Turns -> {"none", "requested", "resolved"}]
        BY <2>1, RowTypesAfter
    <2> QED BY <1>1, <1>2, <2>2, <2>3, <2>4
<1> QED BY <1>3, <1>4

(* Events are stored or move between the queues, and none is new that      *)
(* says anything of a turn.                                                *)
LEMMA EventsMove ==
    ASSUME TurnInv, NEW S, Sent \subseteq S, \A x \in S : x \in Sent \/ Harmless(x),
           OneEach(S), Sent' \subseteq S,
           Range(log) \subseteq Range(log)',
           Once(log)', AnswersLast(log)', EndsLast(log', {}, S), RowsFollow(Range(log))',
           \A t \in Turns : turns'[t] = "none" => turns[t] = "none",
           EndsLast(outbox', Range(log)', S),
           \A w \in Range(wire)' : EndsLast(w.rest, Range(log)', S) /\ w.done \subseteq Range(log)',
           Range(outbox) \subseteq Range(outbox)' \cup Range(log)',
           open' = open, node' = node
    PROVE  TurnInv'
<1>1. /\ OneEach(Sent') /\ EndsLast(log', {}, Sent') /\ EndsLast(outbox', Range(log)', Sent')
      /\ \A w \in Range(wire)' : EndsLast(w.rest, Range(log)', Sent')
    BY FewerEvents
<1>2. OneEach(Sent)' /\ InOrder'
    BY <1>1 DEF InOrder
<1>3. Stages(Sent)'
    <2> SUFFICES ASSUME NEW t \in Turns
                 PROVE  /\ turns'[t] = "none" => Command("turn", t) \notin open
                        /\ turns'[t] = "none" \/ Command("turn", t) \in open =>
                              \A e \in Sent' : ~Ends(e, t) /\ (Begins(e, t) => node.turn = t)
                        /\ node.turn = t =>
                              /\ Command("turn", t) \in open
                              /\ \A e \in Sent' :
                                    Begins(e, t) => e.seq = node.seq - Len(node.activity)
        BY DEF Stages, Command
    <2>1. \A e \in Sent' : e \in Sent \/ (~Begins(e, t) /\ ~Ends(e, t))
        BY DEF Harmless
    <2> QED BY <2>1 DEF TurnInv, Stages
<1>4. Grounds'
    <2>1. \A e \in Sent', t \in Turns : e \in Sent \/ (~Asks(e, t) /\ ~Answers(e, t))
        BY DEF Harmless
    <2>2. \A t \in Turns : Command("resolve", t) \in open' \/ (\E e \in Sent' : Answers(e, t))
                              => \E e \in Range(log)' : Asks(e, t)
        BY <2>1 DEF TurnInv, Grounds
    <2>3. \A t \in Turns : \A e \in Sent' :
             Asks(e, t) => \E f \in Range(log)' \cup Range(outbox)' : Begins(f, t)
        BY <2>1 DEF TurnInv, Grounds
    <2> QED BY <2>2, <2>3 DEF Grounds, Command
<1> QED BY <1>2, <1>3, <1>4 DEF TurnInv

(* The Node adds the events N to its queues.                               *)
LEMMA EventsAdded ==
    ASSUME TurnInv, turns' = turns, approvals' = approvals, log' = log,
           NEW N, OneEach(N),
           \A t \in Turns : \A n \in N :
               /\ \A e \in Sent : /\ Begins(n, t) /\ Begins(e, t) => e = n
                                  /\ Ends(n, t) => ~Ends(e, t)
                                  /\ Begins(n, t) => ~Ends(e, t)
               /\ Answers(n, t) => \E e \in Range(log) : Asks(e, t)
               /\ Asks(n, t) => \E f \in Range(outbox)' : Begins(f, t),
           NEW S, S = Sent \cup N, Sent' \subseteq S, Stages(S)',
           EndsLast(outbox', Range(log), S),
           \A w \in Range(wire)' : w \in Range(wire) \/ (EndsLast(w.rest, Range(log), S) /\ w.done = {}),
           Range(outbox) \subseteq Range(outbox)',
           \A t \in Turns : Command("resolve", t) \in open' => Command("resolve", t) \in open
    PROVE  TurnInv'
<1>1. /\ OneEach(S)
      /\ \A q, L : Range(q) \subseteq Sent /\ EndsLast(q, L, Sent) => EndsLast(q, L, S)
    BY MoreEvents DEF TurnInv
<1>2. /\ Range(log) \subseteq Sent /\ EndsLast(log, {}, Sent)
      /\ \A w \in Range(wire) : Range(w.rest) \subseteq Sent /\ EndsLast(w.rest, Range(log), Sent)
    BY DEF Sent, TurnInv, InOrder
<1>3. EndsLast(log, {}, S) /\ \A w \in Range(wire)' : EndsLast(w.rest, Range(log), S)
    BY <1>1, <1>2
<1>4. /\ OneEach(Sent') /\ EndsLast(log, {}, Sent') /\ EndsLast(outbox', Range(log), Sent')
      /\ \A w \in Range(wire)' : EndsLast(w.rest, Range(log), Sent')
    BY <1>1, <1>3, FewerEvents
<1>5. OneEach(Sent)' /\ InOrder'
    BY <1>4 DEF InOrder, TurnInv
<1>6. Stages(Sent)'
    BY DEF Stages, Command
<1>7. Grounds'
    <2>1. \A t \in Turns : Command("resolve", t) \in open' \/ (\E e \in Sent' : Answers(e, t))
                              => \E e \in Range(log)' : Asks(e, t)
        BY DEF TurnInv, Grounds
    <2>2. \A t \in Turns : \A e \in Sent' :
             Asks(e, t) => \E f \in Range(log)' \cup Range(outbox)' : Begins(f, t)
        BY DEF TurnInv, Grounds
    <2>3. \A w \in Range(wire)' : w.done \subseteq Range(log)'
        BY DEF TurnInv, Grounds
    <2> QED BY <2>1, <2>2, <2>3 DEF Grounds, Command
<1>8. RowsFollow(Range(log))'
    BY DEF TurnInv, RowsFollow
<1> QED BY <1>5, <1>6, <1>7, <1>8 DEF TurnInv

-----------------------------------------------------------------------------
(* The steps of Core and of the network.                                   *)

(* The queues hold events, and what is queued was sent.                    *)
LEMMA Queued ==
    ASSUME SessType
    PROVE  /\ Sent \subseteq EventRecord /\ Range(log) \subseteq Sent /\ Range(outbox) \subseteq Sent
           /\ \A w \in Range(wire) : /\ w \in BatchRecord /\ w.rest \in Seq(EventRecord)
                                     /\ w.rest # <<>> /\ Range(w.rest) \subseteq Sent
                                     /\ w.done \subseteq EventRecord
           /\ wire # <<>> => wire[1] \in Range(wire)
<1>1. Range(log) \subseteq EventRecord /\ Range(outbox) \subseteq EventRecord
      /\ Range(wire) \subseteq BatchRecord /\ (wire # <<>> => wire[1] \in Range(wire))
    BY RangeOf DEF SessType
<1>2. \A w \in Range(wire) : /\ w \in BatchRecord /\ w.rest \in Seq(EventRecord) /\ w.rest # <<>>
                             /\ w.done \subseteq EventRecord
    BY <1>1 DEF BatchRecord, SessType
<1>3. \A w \in Range(wire) : Range(w.rest) \subseteq EventRecord
    BY <1>2, RangeOf
<1> QED BY <1>1, <1>2, <1>3 DEF Sent

(* The first event on the way can be stored.                               *)
LEMMA HeadStorable ==
    ASSUME SessType, TurnInv, wire # <<>>
    PROVE  /\ Head1 \in EventRecord /\ Head1 \in Sent
           /\ Head1 \in Range(log) \/ Storable(Head1)
<1>1. PICK w \in Range(wire) : w = wire[1]
    BY Queued
<1>2. w.rest \in Seq(EventRecord) /\ w.rest # <<>> /\ Range(w.rest) \subseteq Sent
      /\ EndsLast(w.rest, Range(log), Sent) /\ Head1 = w.rest[1]
    BY <1>1, Queued DEF TurnInv, InOrder, Head1
<1>3. 1 \in DOMAIN w.rest /\ w.rest[1] \in Range(w.rest) /\ DOMAIN w.rest = 1 .. Len(w.rest)
    BY <1>2, RangeOf
<1>4. Head1 \in Sent /\ Head1 \in EventRecord
    BY <1>2, <1>3, Queued
<1>5. ASSUME NEW t \in Turns, Ends(Head1, t), NEW f \in Sent, Begins(f, t) PROVE f \in Range(log)
    <2>1. f \in Range(log) \/ \E j \in DOMAIN w.rest : j < 1 /\ w.rest[j] = f
        BY <1>2, <1>3, <1>5 DEF EndsLast
    <2> QED BY <1>3, <2>1
<1> QED BY <1>4, <1>5 DEF Storable

(* Sequences of one and of two.                                            *)
LEMMA OneOrTwo ==
    /\ \A S : \A x \in S : /\ <<x>> \in Seq(S) /\ <<x>> # <<>> /\ DOMAIN <<x>> = {1}   
                            /\ <<x>>[1] = x /\ Len(<<x>>) = 1
    /\ \A S : \A x, y \in S : /\ <<x, y>> \in Seq(S) /\ <<x, y>> # <<>> /\ DOMAIN <<x, y>> = {1, 2}
                               /\ <<x, y>>[1] = x /\ <<x, y>>[2] = y /\ Len(<<x, y>>) = 2
OBVIOUS

(* A new connection sends the outbox.                                      *)
LEMMA Replayed ==
    ASSUME SessType, Replay
    PROVE  /\ wire' \in Seq(BatchRecord) /\ outbox' = outbox
           /\ \A w \in Range(wire)' : w.rest = outbox /\ w.done = {} /\ w.rest # <<>>
           /\ outbox # <<>> => /\ wire' # <<>> /\ Len(wire') = 1 /\ DOMAIN wire' = {1}
                               /\ wire'[1].rest = outbox
<1>1. outbox \in Seq(EventRecord) /\ outbox' = outbox
    BY DEF SessType, Replay
<1>2. CASE outbox = <<>>
    BY <1>1, <1>2, RangeShort DEF Replay
<1>3. CASE outbox # <<>>
    <2>1. PICK b \in BatchRecord : b = Batch(outbox)
        BY <1>1 DEF Batch, BatchRecord
    <2>2. b.rest = outbox /\ b.done = {}
        BY <2>1 DEF Batch
    <2>3. wire' = <<b>>
        BY <1>3, <2>1 DEF Replay
    <2> QED BY <1>1, <1>3, <2>2, <2>3, RangeShort, OneOrTwo
<1> QED BY <1>2, <1>3

(* An event arrives.                                                       *)
LEMMA DeliverStep == ASSUME SessInv, Deliver PROVE SessInv' /\ EndedTurnsStay
<1>0. /\ SessType /\ NodeFits /\ HasLast /\ TurnInv /\ wire # <<>> /\ accept_node_event(Head1)
      /\ expiry' = expiry /\ open' = open /\ node' = node
    BY DEF SessInv, Deliver
<1>1. PICK e \in EventRecord : e = Head1
    BY <1>0, HeadStorable
<1>2. PICK S : S = Sent \cup {e}
    OBVIOUS
<1>3. S = Sent
    BY <1>0, <1>1, <1>2, HeadStorable
<1>4. /\ turns' \in [Turns -> TurnStates]
      /\ approvals' \in [Turns -> {"none", "requested", "resolved"}]
      /\ log' \in Seq(EventRecord) /\ HasLast'
      /\ Range(log)' = Range(log) \cup {e}
      /\ Once(log)' /\ AnswersLast(log)' /\ EndsLast(log', {}, S)
      /\ \A t \in Turns : turns'[t] = "none" => turns[t] = "none"
      /\ RowsFollow(Range(log))' /\ EndedTurnsStay
      /\ OneEach(S)
      /\ \A q : Range(q) \subseteq Sent /\ EndsLast(q, Range(log), Sent)
                  => EndsLast(q, Range(log)', S)
    BY <1>0, <1>1, <1>2, HeadStorable, EventStored
<1>5. PICK w \in Range(wire) : w = wire[1]
    BY <1>0, Queued
<1>6. PICK r \in Seq(EventRecord) : r = Tail(w.rest)
    BY <1>0, <1>5, Queued, RangeTail
<1>7. /\ w \in BatchRecord /\ w.rest \in Seq(EventRecord) /\ w.rest # <<>> /\ w.rest[1] = e
      /\ Range(w.rest) = {e} \cup Range(r) /\ Range(w.rest) \subseteq Sent
    BY <1>0, <1>1, <1>5, <1>6, Queued, RangeTail DEF Head1
<1>8. EndsLast(r, Range(log)', S) /\ w.done \cup {e} \subseteq Range(log)'
    <2>1. EndsLast(w.rest, Range(log)', S)
        BY <1>0, <1>4, <1>7 DEF TurnInv, InOrder
    <2>2. w.done \subseteq Range(log)
        BY <1>0 DEF TurnInv, Grounds
    <2>3. e \in Range(log)'
        BY <1>4
    <2>4. PICK M : M = Range(log)'
        OBVIOUS
    <2>5. EndsLast(r, M, S)
        BY <1>6, <1>7, <2>1, <2>3, <2>4, TailEndsLast
    <2> QED BY <1>4, <2>2, <2>4, <2>5
<1>9. /\ \A x \in Range(wire) : EndsLast(x.rest, Range(log)', S) /\ x.done \subseteq Range(log)'
      /\ EndsLast(outbox, Range(log)', S)
    BY <1>0, <1>4, Queued DEF TurnInv, InOrder, Grounds
<1>10. PICK b \in BatchRecord : b = [rest |-> r, done |-> w.done \cup {e}]
    BY <1>7 DEF BatchRecord
<1>11. b.rest = r /\ b.done = w.done \cup {e}
    BY <1>10
<1>12. CASE r # <<>> /\ ~Replay
    <2>1. wire' = [wire EXCEPT ![1] = b] /\ outbox' = outbox
        BY <1>1, <1>5, <1>6, <1>10, <1>12 DEF Deliver
    <2>2. /\ wire' \in Seq(BatchRecord) /\ Range(wire)' \subseteq Range(wire) \cup {b}
        <3>1. wire \in Seq(BatchRecord)
            BY <1>0 DEF SessType
        <3>2. PICK v \in Seq(BatchRecord) : v = wire'
            BY <2>1, <3>1
        <3>3. DOMAIN v = DOMAIN wire /\ \A i \in DOMAIN v : v[i] = wire[i] \/ v[i] = b
            BY <2>1, <3>1, <3>2
        <3>4. Range(v) \subseteq Range(wire) \cup {b}
            BY <3>3 DEF Range
        <3> QED BY <3>2, <3>4
    <2>3. SessType'
        BY <1>0, <1>4, <1>11, <1>12, <2>1, <2>2 DEF SessType
    <2>4. Sent' \subseteq S
        <3>1. Range(log) \subseteq S /\ e \in S /\ Range(outbox) \subseteq S /\ Range(r) \subseteq S
            BY <1>0, <1>2, <1>3, <1>7, Queued
        <3>2. \A x \in Range(wire) : Range(x.rest) \subseteq S
            BY <1>0, <1>3, Queued
        <3>3. \A x \in Range(wire)' : Range(x.rest) \subseteq S
            BY <1>11, <2>2, <3>1, <3>2
        <3>4. Range(log)' \subseteq S /\ Range(outbox)' \subseteq S
            BY <1>4, <2>1, <3>1
        <3> QED BY <3>3, <3>4 DEF Sent
    <2>5. TurnInv'
        BY <1>0, <1>3, <1>4, <1>8, <1>9, <1>11, <2>1, <2>2, <2>4, EventsMove
    <2>6. NodeFits'
        BY <1>0 DEF NodeFits
    <2> QED BY <1>4, <2>3, <2>5, <2>6 DEF SessInv
<1>13. CASE r = <<>> /\ ~Replay
    <2>1. wire' = Tail(wire) /\ outbox' = Without(outbox, b.done)
        BY <1>1, <1>5, <1>6, <1>10, <1>13 DEF Deliver
    <2>2. wire' \in Seq(BatchRecord) /\ Range(wire)' \subseteq Range(wire)
        <3>1. wire \in Seq(BatchRecord)
            BY <1>0 DEF SessType
        <3> QED BY <1>0, <2>1, <3>1, RangeTail
    <2>3. /\ outbox' \in Seq(EventRecord) /\ EndsLast(outbox', Range(log)', S)
          /\ Range(outbox)' = Range(outbox) \ b.done
        <3>1. outbox \in Seq(EventRecord)
            BY <1>0 DEF SessType
        <3>2. PICK M : M = Range(log)'
            OBVIOUS
        <3>3. /\ Without(outbox, b.done) \in Seq(EventRecord)
              /\ EndsLast(Without(outbox, b.done), M, S)
              /\ Range(Without(outbox, b.done)) = Range(outbox) \ b.done
            BY <1>8, <1>9, <1>11, <3>1, <3>2, WithoutEndsLast
        <3> QED BY <2>1, <3>2, <3>3
    <2>4. SessType'
        BY <1>0, <1>4, <2>1, <2>2, <2>3 DEF SessType
    <2>5. Sent' \subseteq S
        <3>1. Range(log) \subseteq S /\ e \in S /\ Range(outbox) \subseteq S
            BY <1>0, <1>2, <1>3, Queued
        <3>2. \A x \in Range(wire)' : Range(x.rest) \subseteq S
            BY <1>0, <1>3, <2>2, Queued
        <3>3. Range(log)' \subseteq S /\ Range(outbox)' \subseteq S
            BY <1>4, <2>3, <3>1
        <3> QED BY <3>2, <3>3 DEF Sent
    <2>6. Range(outbox) \subseteq Range(outbox)' \cup Range(log)'
        BY <1>8, <1>11, <2>3
    <2>7. TurnInv'
        BY <1>0, <1>3, <1>4, <1>9, <2>2, <2>3, <2>5, <2>6, EventsMove
    <2>8. NodeFits'
        BY <1>0 DEF NodeFits
    <2> QED BY <1>4, <2>4, <2>7, <2>8 DEF SessInv
<1>14. CASE Replay
    <2>1. /\ wire' \in Seq(BatchRecord) /\ outbox' = outbox
          /\ \A x \in Range(wire)' : x.rest = outbox /\ x.done = {} /\ x.rest # <<>>
        BY <1>0, <1>14, Replayed
    <2>2. SessType'
        BY <1>0, <1>4, <2>1 DEF SessType
    <2>3. Sent' \subseteq S
        <3>1. Range(outbox) \subseteq S /\ Range(log)' \subseteq S
            BY <1>0, <1>2, <1>3, <1>4, Queued
        <3> QED BY <2>1, <3>1 DEF Sent
    <2>4. \A x \in Range(wire)' : EndsLast(x.rest, Range(log)', S) /\ x.done \subseteq Range(log)'
        BY <1>9, <2>1
    <2>5. TurnInv'
        BY <1>0, <1>3, <1>4, <1>9, <2>1, <2>3, <2>4, EventsMove
    <2>6. NodeFits'
        BY <1>0 DEF NodeFits
    <2> QED BY <1>4, <2>2, <2>5, <2>6 DEF SessInv
<1> QED BY <1>12, <1>13, <1>14

(* Events leave the way to Core, or the outbox is sent again.              *)
LEMMA WireSteps == ASSUME SessInv, DropBatch \/ Reconnect PROVE SessInv' /\ EndedTurnsStay
<1>0. /\ SessType /\ NodeFits /\ HasLast /\ TurnInv
      /\ expiry' = expiry /\ open' = open /\ node' = node /\ outbox' = outbox
      /\ log' = log /\ turns' = turns /\ approvals' = approvals
    BY DEF SessInv, DropBatch, Reconnect, Replay, coreVars
<1>1. wire \in Seq(BatchRecord) /\ outbox \in Seq(EventRecord)
    BY <1>0 DEF SessType
<1>2. /\ wire' \in Seq(BatchRecord)
      /\ \A w \in Range(wire)' :
            \/ w \in Range(wire)
            \/ w.rest = outbox /\ w.done = {} /\ w.rest # <<>>
    <2>1. CASE DropBatch
        BY <1>1, <2>1, RangeTail DEF DropBatch
    <2>2. CASE Reconnect
        BY <1>0, <2>2, Replayed DEF Reconnect
    <2> QED BY <2>1, <2>2
<1>3. SessType'
    BY <1>0, <1>2 DEF SessType
<1>4. Sent' \subseteq Sent
    BY <1>0, <1>2 DEF Sent
<1>5. PICK S : S = Sent
    OBVIOUS
<1>6. TurnInv'
    <2>1. /\ OneEach(S) /\ Once(log)' /\ AnswersLast(log)' /\ EndsLast(log', {}, S)
          /\ RowsFollow(Range(log))' /\ EndsLast(outbox', Range(log)', S)
        BY <1>0, <1>5 DEF TurnInv, InOrder, RowsFollow
    <2>2. \A w \in Range(wire)' : EndsLast(w.rest, Range(log)', S) /\ w.done \subseteq Range(log)'
        BY <1>0, <1>2, <1>5 DEF TurnInv, InOrder, Grounds
    <2> QED BY <1>0, <1>4, <1>5, <2>1, <2>2, EventsMove
<1>7. HasLast' /\ NodeFits'
    <2>1. Numbers' = Numbers
        BY <1>0 DEF Numbers
    <2>2. HasLast'
        BY <1>0, <2>1 DEF HasLast
    <2>3. NodeFits'
        BY <1>0 DEF NodeFits
    <2> QED BY <2>2, <2>3
<1>8. EndedTurnsStay
    BY <1>0 DEF EndedTurnsStay
<1> QED BY <1>3, <1>6, <1>7, <1>8 DEF SessInv

(* Core expires the runtime.                                               *)
LEMMA ExpiryStep == ASSUME SessInv, Expire PROVE SessInv' /\ EndedTurnsStay
<1>0. /\ SessType /\ NodeFits /\ HasLast /\ TurnInv
      /\ expiry' = [at |-> "no", seq |-> 0]
      /\ open' = open /\ node' = node /\ outbox' = outbox /\ wire' = wire
    BY DEF SessInv, Expire, nodeVars
<1>1. PICK e : e = Event(expiry.seq, "Expired", NoTurn)
    OBVIOUS
<1>2. e \in EventRecord /\ Harmless(e) /\ (e \in Range(log) \/ Storable(e))
    <2>1. expiry.seq \in Nat
        BY <1>0 DEF SessType
    <2>2. e \in EventRecord /\ e.kind = "Expired"
        BY <1>1, <2>1 DEF Event, EventRecord, EventKinds
    <2>3. Harmless(e)
        BY <2>2 DEF Harmless, Begins, Ends, Asks, Answers
    <2> QED BY <2>2, <2>3 DEF Storable, Harmless
<1>3. accept_node_event(e) \/ UNCHANGED coreVars
    BY <1>1 DEF Expire
<1>4. PICK S : S = Sent \cup {e}
    OBVIOUS
<1>5. CASE accept_node_event(e)
    <2>1. /\ turns' \in [Turns -> TurnStates]
          /\ approvals' \in [Turns -> {"none", "requested", "resolved"}]
          /\ log' \in Seq(EventRecord) /\ HasLast'
          /\ Range(log)' = Range(log) \cup {e}
          /\ Once(log)' /\ AnswersLast(log)' /\ EndsLast(log', {}, S)
          /\ \A t \in Turns : turns'[t] = "none" => turns[t] = "none"
          /\ RowsFollow(Range(log))' /\ EndedTurnsStay
          /\ OneEach(S)
          /\ \A q : Range(q) \subseteq Sent /\ EndsLast(q, Range(log), Sent)
                      => EndsLast(q, Range(log)', S)
        BY <1>0, <1>2, <1>4, <1>5, EventStored
    <2>2. SessType'
        BY <1>0, <2>1 DEF SessType
    <2>3. Sent' \subseteq S
        BY <1>0, <1>4, <2>1 DEF Sent
    <2>4. /\ EndsLast(outbox', Range(log)', S)
          /\ \A w \in Range(wire)' : EndsLast(w.rest, Range(log)', S) /\ w.done \subseteq Range(log)'
        BY <1>0, <2>1, Queued DEF TurnInv, InOrder, Grounds
    <2>5. TurnInv'
        BY <1>0, <1>2, <1>4, <2>1, <2>3, <2>4, EventsMove
    <2>6. NodeFits'
        BY <1>0 DEF NodeFits
    <2> QED BY <2>1, <2>2, <2>5, <2>6 DEF SessInv
<1>6. CASE UNCHANGED coreVars
    <2>1. log' = log /\ turns' = turns /\ approvals' = approvals
        BY <1>6 DEF coreVars
    <2>2. SessType' /\ NodeFits' /\ HasLast'
        BY <1>0, <2>1 DEF SessType, NodeFits, HasLast, Numbers
    <2>3. TurnInv'
        BY <1>0, <2>1 DEF TurnInv, OneEach, InOrder, Stages, Grounds, RowsFollow, Sent, Command
    <2> QED BY <2>1, <2>2, <2>3 DEF SessInv, EndedTurnsStay
<1> QED BY <1>3, <1>5, <1>6

-----------------------------------------------------------------------------
(* The steps of an operator.                                               *)

(* Commands of different kinds, or of different turns, differ.             *)
LEMMA CommandsDiffer ==
    /\ \A k, m, t, u : Command(k, t) = Command(m, u) <=> k = m /\ t = u
    /\ \A k, t : Command(k, t).kind = k /\ Command(k, t).of = t
    /\ \A c \in Commands : c = Command(c.kind, c.of)
    /\ \A c \in Commands : /\ c.kind \in {"start", "resume", "interrupt", "stop"} => c.of = NoTurn
                           /\ c.kind \in {"turn", "resolve"} => c.of \in Turns
                           /\ c.kind \in {"start", "resume", "interrupt", "stop", "turn", "resolve"}
<1>1. /\ \A k, m, t, u : Command(k, t) = Command(m, u) <=> k = m /\ t = u
      /\ \A k, t : Command(k, t).kind = k /\ Command(k, t).of = t
    BY DEF Command
<1> QED BY <1>1 DEF Commands

(* A request that is no answer and no turn; a change of the session; the   *)
(* start of an expiry.                                                     *)
LEMMA RequestSteps ==
    ASSUME SessInv,
           \/ \E k \in {"interrupt", "stop", "resume"} : LifecycleCommand(k)
           \/ \E target \in {"active", "detached"} : Attach(target)
           \/ FindExpired \/ TakeNumber
           \/ \E c \in open : Signal(c)
           \/ UNCHANGED vars
    PROVE  SessInv' /\ EndedTurnsStay
<1>0. SessType /\ NodeFits /\ HasLast /\ TurnInv
    BY DEF SessInv
<1>1. log' = log /\ turns' = turns /\ approvals' = approvals /\ outbox' = outbox /\ wire' = wire
    BY DEF LifecycleCommand, Attach, FindExpired, TakeNumber, Signal, vars, coreVars, nodeVars
<1>2. \/ open' = open
      \/ \E k \in {"interrupt", "stop", "resume"} : open' = open \cup {Command(k, NoTurn)}
    BY DEF LifecycleCommand, Requested, Attach, FindExpired, TakeNumber, Signal, vars, nodeVars
<1>3. expiry' \in [at : {"no", "found", "numbered"}, seq : Nat]
    <2>1. CASE TakeNumber
        <3>1. PICK m \in Numbers \cup {0} : \A n \in Numbers : n <= m
            BY <1>0 DEF HasLast
        <3>2. \A i \in DOMAIN log : log[i] \in EventRecord
            BY <1>0, RangeOf DEF SessType
        <3>3. Numbers \subseteq Nat
            BY <3>2 DEF Numbers, EventRecord
        <3>4. LastNumber \in Numbers \cup {0}
            <4>1. m \in Numbers \cup {0} /\ \A n \in Numbers \cup {0} : m >= n
                BY <3>1, <3>3
            <4> QED BY <4>1 DEF LastNumber, Max
        <3>5. LastNumber + 1 \in Nat
            BY <3>3, <3>4
        <3> QED BY <2>1, <3>5 DEF TakeNumber
    <2>2. CASE FindExpired
        BY <2>2 DEF FindExpired
    <2>3. CASE ~TakeNumber /\ ~FindExpired
        <3>1. expiry' = expiry
            BY <2>3 DEF LifecycleCommand, Attach, Signal, vars
        <3> QED BY <1>0, <3>1 DEF SessType
    <2> QED BY <2>1, <2>2, <2>3
<1>4. NodeFits' /\ node'.turn = node.turn /\ node'.seq = node.seq /\ node'.activity = node.activity
    <2>1. CASE \E c \in open : Signal(c)
        <3>1. PICK n : n = [node EXCEPT !.cut = TRUE]
            OBVIOUS
        <3>2. node' = n
            BY <2>1, <3>1 DEF Signal
        <3>3. /\ n.state = node.state /\ n.seq = node.seq /\ n.turn = node.turn
              /\ n.activity = node.activity
              /\ n = [state |-> n.state, seq |-> n.seq, turn |-> n.turn,
                      activity |-> n.activity, cut |-> n.cut]
            BY <1>0, <3>1 DEF NodeFits
        <3> QED BY <1>0, <3>2, <3>3 DEF NodeFits
    <2>2. CASE ~\E c \in open : Signal(c)
        <3>1. node' = node
            BY <2>2 DEF LifecycleCommand, Attach, FindExpired, TakeNumber, vars, nodeVars
        <3> QED BY <1>0, <3>1 DEF NodeFits
    <2> QED BY <2>1, <2>2
<1>5. open' \subseteq Commands
    BY <1>0, <1>2 DEF SessType, Commands
<1>6. SessType' /\ HasLast'
    BY <1>0, <1>1, <1>3, <1>5 DEF SessType, HasLast, Numbers
<1>7. \A k \in {"turn", "resolve"} : \A t : Command(k, t) \in open' <=> Command(k, t) \in open
    BY <1>2, CommandsDiffer
<1>8. Sent' = Sent /\ InOrder'
    BY <1>0, <1>1 DEF Sent, TurnInv, InOrder
<1>9. Grounds' /\ RowsFollow(Range(log))' /\ OneEach(Sent)'
    <2>1. Grounds'
        <3>1. \A t \in Turns : Command("resolve", t) \in open' <=> Command("resolve", t) \in open
            BY <1>7
        <3>2. Grounds
            BY <1>0 DEF TurnInv
        <3> QED BY <1>1, <1>8, <3>1, <3>2 DEF Grounds, Command
    <2> QED BY <1>0, <1>1, <1>8, <2>1 DEF TurnInv, RowsFollow
<1>10. Stages(Sent)'
    <2>1. \A t \in Turns : Command("turn", t) \in open' <=> Command("turn", t) \in open
        BY <1>7
    <2>2. Stages(Sent)
        BY <1>0 DEF TurnInv
    <2> QED BY <1>1, <1>4, <1>8, <2>1, <2>2 DEF Stages, Command
<1>11. EndedTurnsStay
    BY <1>1 DEF EndedTurnsStay
<1> QED BY <1>4, <1>6, <1>8, <1>9, <1>10, <1>11 DEF SessInv, TurnInv

(* A turn is sent.                                                         *)
LEMMA SubmitStep == ASSUME SessInv, NEW t \in Turns, SubmitTurn(t) PROVE SessInv' /\ EndedTurnsStay
<1>0. /\ SessType /\ NodeFits /\ HasLast /\ TurnInv
      /\ turns[t] = "none" /\ turns' = [turns EXCEPT ![t] = "created"]
      /\ open' = open \cup {Command("turn", t)}
      /\ log' = log /\ approvals' = approvals /\ outbox' = outbox /\ wire' = wire
      /\ expiry' = expiry /\ node' = node
    BY DEF SessInv, SubmitTurn, Requested
<1>1. /\ turns' \in [Turns -> TurnStates] /\ turns'[t] = "created"
      /\ \A u \in Turns : u # t => turns'[u] = turns[u]
    BY <1>0 DEF SessType, TurnStates
<1>2. open' \subseteq Commands
    BY <1>0 DEF SessType, Commands
<1>3. SessType' /\ NodeFits' /\ HasLast'
    <2>1. SessType'
        BY <1>0, <1>1, <1>2 DEF SessType
    <2>2. NodeFits'
        BY <1>0 DEF NodeFits
    <2>3. Numbers' = Numbers
        BY <1>0 DEF Numbers
    <2> QED BY <1>0, <2>1, <2>2, <2>3 DEF HasLast
<1>4. Sent' = Sent /\ InOrder' /\ OneEach(Sent)'
    BY <1>0 DEF Sent, TurnInv, InOrder
<1>5. /\ Command("turn", t) \notin open /\ node.turn # t
      /\ \A e \in Sent : ~Ends(e, t) /\ ~Begins(e, t)
    BY <1>0 DEF TurnInv, Stages
<1>6. /\ \A u \in Turns : u # t => (Command("turn", u) \in open' <=> Command("turn", u) \in open)
      /\ \A u \in Turns : Command("resolve", u) \in open' <=> Command("resolve", u) \in open
      /\ Command("turn", t) \in open'
    BY <1>0, CommandsDiffer
<1>7. Grounds'
    <2>1. Grounds
        BY <1>0 DEF TurnInv
    <2> QED BY <1>0, <1>4, <1>6, <2>1 DEF Grounds, Command
<1>8. Stages(Sent)'
    <2>1. Stages(Sent)
        BY <1>0 DEF TurnInv
    <2> QED BY <1>0, <1>1, <1>4, <1>5, <1>6, <2>1 DEF Stages, Command
<1>9. RowsFollow(Range(log))'
    <2>1. RowsFollow(Range(log)) /\ Range(log) \subseteq Sent
        BY <1>0 DEF TurnInv, Sent
    <2>2. \A e \in Range(log) : ~Ends(e, t) /\ ~Begins(e, t)
        BY <1>5, <2>1
    <2> QED BY <1>0, <1>1, <2>1, <2>2 DEF RowsFollow
<1>10. EndedTurnsStay
    BY <1>0, <1>1 DEF EndedTurnsStay, Ended
<1> QED BY <1>3, <1>4, <1>7, <1>8, <1>9, <1>10 DEF SessInv, TurnInv

(* An approval is answered.                                                *)
LEMMA ResolveStep ==
    ASSUME SessInv, NEW t \in Turns, ResolveApproval(t) PROVE SessInv' /\ EndedTurnsStay
<1>0. /\ SessType /\ NodeFits /\ HasLast /\ TurnInv
      /\ t \in pending_approvals(log)
      /\ open' = open \cup {Command("resolve", t)}
      /\ log' = log /\ turns' = turns /\ approvals' = approvals /\ outbox' = outbox /\ wire' = wire
      /\ expiry' = expiry /\ node' = node
    BY DEF SessInv, ResolveApproval, Requested, coreVars
<1>1. open' \subseteq Commands
    BY <1>0 DEF SessType, Commands
<1>2. SessType' /\ NodeFits' /\ HasLast'
    BY <1>0, <1>1 DEF SessType, NodeFits, HasLast, Numbers
<1>3. Sent' = Sent /\ InOrder' /\ OneEach(Sent)' /\ RowsFollow(Range(log))'
    BY <1>0 DEF Sent, TurnInv, InOrder, RowsFollow
<1>4. \E e \in Range(log) : Asks(e, t)
    BY <1>0 DEF pending_approvals, Range, Asks
<1>5. /\ \A u \in Turns : Command("turn", u) \in open' <=> Command("turn", u) \in open
      /\ \A u \in Turns : u # t => (Command("resolve", u) \in open' <=> Command("resolve", u) \in open)
    BY <1>0, CommandsDiffer
<1>6. Grounds'
    <2>1. Grounds
        BY <1>0 DEF TurnInv
    <2> QED BY <1>0, <1>3, <1>4, <1>5, <2>1 DEF Grounds, Command
<1>7. Stages(Sent)'
    <2>1. Stages(Sent)
        BY <1>0 DEF TurnInv
    <2> QED BY <1>0, <1>3, <1>5, <2>1 DEF Stages, Command
<1>8. EndedTurnsStay
    BY <1>0 DEF EndedTurnsStay
<1> QED BY <1>2, <1>3, <1>6, <1>7, <1>8 DEF SessInv, TurnInv

-----------------------------------------------------------------------------
(* The steps of the Node.                                                  *)

(* An event is what it says.                                               *)
LEMMA SameEvent ==
    ASSUME NEW e \in EventRecord, NEW f \in EventRecord,
           e.seq = f.seq, e.kind = f.kind, e.of = f.of
    PROVE  e = f
BY DEF EventRecord

(* The events of a run go out.  They begin the turn that the Node is at,   *)
(* with the number it had; they end, or answer, what the command is about. *)
LEMMA FinishStep ==
    ASSUME SessInv, NEW c \in open, NEW evs \in Seq(EventRecord), evs # <<>>, Finish(c, evs),
           OneEach(Range(evs)),
           \A t \in Turns : \A n \in Range(evs) :
               /\ Begins(n, t) => node.turn = t /\ n.seq = node.seq - Len(node.activity)
               /\ Ends(n, t) => c = Command("turn", t)
               /\ Answers(n, t) => c = Command("resolve", t)
               /\ Asks(n, t) => \E f \in Range(evs) : Begins(f, t),
           \A t \in Turns : \A i \in DOMAIN evs : Ends(evs[i], t) /\ node.turn = t =>
               \E j \in DOMAIN evs : j < i /\ Begins(evs[j], t),
           node.turn \in Turns => c = Command("turn", node.turn)
    PROVE  SessInv' /\ EndedTurnsStay
<1>0. /\ SessType /\ NodeFits /\ HasLast /\ TurnInv
      /\ log' = log /\ turns' = turns /\ approvals' = approvals /\ expiry' = expiry
      /\ open' = open \ {c} /\ outbox' = outbox \o evs /\ wire' = Append(wire, Batch(evs))
      /\ NoTurn \notin Turns
    BY SessionAssumption DEF SessInv, Finish, coreVars
<1>1. evs[Len(evs)] \in EventRecord /\ evs[Len(evs)].seq \in Nat
    <2>1. evs[Len(evs)] \in EventRecord
        BY RangeOf
    <2> QED BY <2>1 DEF EventRecord
<1>2. node' = [state |-> StateAfter(evs), seq |-> evs[Len(evs)].seq, turn |-> NoTurn,
               activity |-> <<>>, cut |-> FALSE]
    BY DEF Finish
<1>3. NodeFits' /\ node'.turn = NoTurn
    BY <1>1, <1>2 DEF NodeFits
<1>4. PICK b \in BatchRecord : b = Batch(evs)
    BY DEF Batch, BatchRecord
<1>5. b.rest = evs /\ b.done = {}
    BY <1>4 DEF Batch
<1>6. /\ outbox' \in Seq(EventRecord) /\ Range(outbox)' = Range(outbox) \cup Range(evs)
      /\ wire' \in Seq(BatchRecord) /\ Range(wire)' = Range(wire) \cup {b}
    <2>1. outbox \in Seq(EventRecord) /\ wire \in Seq(BatchRecord)
        BY <1>0 DEF SessType
    <2> QED BY <1>0, <1>4, <2>1, RangeConcat, RangeAppend
<1>7. SessType' /\ HasLast'
    <2>1. open' \subseteq Commands
        BY <1>0 DEF SessType
    <2>3. HasLast'
        <3>1. Numbers' = Numbers
            BY <1>0 DEF Numbers
        <3> QED BY <1>0, <3>1 DEF HasLast
    <2>2. \A w \in Range(wire)' : w.rest # <<>>
        BY <1>0, <1>5, <1>6 DEF SessType
    <2> QED BY <1>0, <1>6, <2>1, <2>2, <2>3 DEF SessType
<1>8. PICK N : N = Range(evs)
    OBVIOUS
<1>9. PICK S : S = Sent \cup N
    OBVIOUS
<1>10. Sent \subseteq EventRecord /\ N \subseteq EventRecord /\ Stages(Sent) /\ Grounds
    BY <1>0, <1>8, Queued, RangeOf DEF TurnInv
<1>11. ASSUME NEW t \in Turns, NEW n \in N
       PROVE  /\ \A e \in Sent : /\ Begins(n, t) /\ Begins(e, t) => e = n
                                 /\ Ends(n, t) => ~Ends(e, t)
                                 /\ Begins(n, t) => ~Ends(e, t)
              /\ Answers(n, t) => \E e \in Range(log) : Asks(e, t)
              /\ Asks(n, t) => \E f \in Range(outbox)' : Begins(f, t)
    <2>1. ASSUME Begins(n, t), NEW e \in Sent PROVE (Begins(e, t) => e = n) /\ ~Ends(e, t)
        <3>1. node.turn = t /\ n.seq = node.seq - Len(node.activity)
            BY <1>8, <2>1
        <3>2. ~Ends(e, t) /\ (Begins(e, t) => e.seq = n.seq)
            BY <1>10, <2>1, <3>1 DEF Stages
        <3> QED BY <1>10, <2>1, <3>2, SameEvent DEF Begins
    <2>2. ASSUME Ends(n, t), NEW e \in Sent PROVE ~Ends(e, t)
        <3>1. c = Command("turn", t)
            BY <1>8, <2>2
        <3> QED BY <1>10, <3>1 DEF Stages
    <2>3. Answers(n, t) => \E e \in Range(log) : Asks(e, t)
        BY <1>8, <1>10 DEF Grounds
    <2>4. Asks(n, t) => \E f \in Range(outbox)' : Begins(f, t)
        BY <1>6, <1>8
    <2> QED BY <2>1, <2>2, <2>3, <2>4
<1>12. Sent' \subseteq S
    BY <1>0, <1>5, <1>6, <1>8, <1>9 DEF Sent
<1>13. EndsLast(evs, Range(log), S)
    <2> SUFFICES ASSUME NEW t \in Turns, NEW i \in DOMAIN evs, NEW e \in S, Ends(evs[i], t), Begins(e, t)
                 PROVE  \E j \in DOMAIN evs : j < i /\ evs[j] = e
        BY DEF EndsLast
    <2>1. evs[i] \in N
        BY <1>8 DEF Range
    <2>2. c = Command("turn", t)
        BY <1>8, <2>1
    <2>3. node.turn = t /\ e.seq = node.seq - Len(node.activity)
        BY <1>8, <1>9, <1>10, <2>2 DEF Stages
    <2>4. PICK j \in DOMAIN evs : j < i /\ Begins(evs[j], t)
        BY <2>3
    <2>5. evs[j] \in N
        BY <1>8 DEF Range
    <2>6. evs[j].seq = e.seq
        BY <1>8, <2>3, <2>4, <2>5
    <2>7. evs[j] = e
        BY <1>9, <1>10, <2>4, <2>5, <2>6, SameEvent DEF Begins
    <2> QED BY <2>4, <2>7
<1>14. EndsLast(outbox', Range(log), S)
    <2>1. outbox \in Seq(EventRecord) /\ EndsLast(outbox, Range(log), Sent) /\ Range(outbox) \subseteq Sent
        BY <1>0, Queued DEF SessType, TurnInv, InOrder
    <2>2. OneEach(Sent) /\ OneEach(N)
        BY <1>0, <1>8 DEF TurnInv
    <2>3. EndsLast(outbox, Range(log), S)
        BY <1>9, <1>11, <2>1, <2>2, MoreEvents
    <2> QED BY <1>0, <1>13, <2>1, <2>3, ConcatEndsLast
<1>15. Stages(S)'
    <2> SUFFICES ASSUME NEW t \in Turns
                 PROVE  /\ turns[t] = "none" => Command("turn", t) \notin open'
                        /\ turns[t] = "none" \/ Command("turn", t) \in open' =>
                              \A e \in S : ~Ends(e, t) /\ ~Begins(e, t)
                        /\ node'.turn # t
        BY <1>0 DEF Stages, Command
    <2>1. turns[t] = "none" \/ Command("turn", t) \in open' => c # Command("turn", t)
        BY <1>0, <1>10 DEF Stages
    <2>2. c # Command("turn", t) => node.turn # t
        OBVIOUS
    <2>3. Command("turn", t) \in open' => Command("turn", t) \in open
        BY <1>0
    <2>4. ASSUME turns[t] = "none" \/ Command("turn", t) \in open', NEW e \in S
          PROVE  ~Ends(e, t) /\ ~Begins(e, t)
        <3>1. CASE e \in N
            BY <1>8, <2>1, <2>2, <2>4, <3>1
        <3>2. CASE e \in Sent
            BY <1>10, <2>1, <2>2, <2>3, <2>4, <3>2 DEF Stages
        <3> QED BY <1>9, <2>4, <3>1, <3>2
    <2>5. turns[t] = "none" => Command("turn", t) \notin open'
        BY <1>0, <1>10 DEF Stages
    <2> QED BY <1>0, <1>3, <2>4, <2>5
<1>16. TurnInv'
    <2>1. OneEach(N)
        BY <1>8
    <2>2. \A w \in Range(wire)' : w \in Range(wire) \/ (EndsLast(w.rest, Range(log), S) /\ w.done = {})
        BY <1>5, <1>6, <1>13
    <2>3. Range(outbox) \subseteq Range(outbox)'
        BY <1>6
    <2>4. \A t \in Turns : Command("resolve", t) \in open' => Command("resolve", t) \in open
        BY <1>0
    <2> QED BY <1>0, <1>9, <1>11, <1>12, <1>14, <1>15, <2>1, <2>2, <2>3, <2>4, EventsAdded
<1>17. EndedTurnsStay
    BY <1>0 DEF EndedTurnsStay
<1> QED BY <1>3, <1>7, <1>16, <1>17 DEF SessInv

(* Events that are numbered.                                               *)
LEMMA Numbered ==
    ASSUME NEW n \in Nat, NEW kinds \in Seq(EventKinds), NEW t \in Turns \cup {NoTurn}
    PROVE  /\ Number(n, kinds, t) \in Seq(EventRecord)
           /\ Len(Number(n, kinds, t)) = Len(kinds)
           /\ DOMAIN Number(n, kinds, t) = DOMAIN kinds
           /\ \A i \in DOMAIN kinds : /\ Number(n, kinds, t)[i].kind = kinds[i]
                                      /\ Number(n, kinds, t)[i].of = t
                                      /\ Number(n, kinds, t)[i].seq = n + i
<1>1. DOMAIN kinds = 1 .. Len(kinds) /\ Len(kinds) \in Nat /\ \A i \in DOMAIN kinds : kinds[i] \in EventKinds
    BY RangeOf
<1>2. \A i \in DOMAIN kinds : Event(n + i, kinds[i], t) \in EventRecord
    BY <1>1 DEF Event, EventRecord
<1>3. Number(n, kinds, t) = [i \in 1 .. Len(kinds) |-> Event(n + i, kinds[i], t)]
    BY DEF Number
<1>4. \A i \in DOMAIN kinds : Number(n, kinds, t)[i] = Event(n + i, kinds[i], t)
    BY <1>1, <1>3
<1>5. Number(n, kinds, t) \in Seq(EventRecord)
    BY <1>1, <1>2, <1>3
<1>6. Len(Number(n, kinds, t)) = Len(kinds) /\ DOMAIN Number(n, kinds, t) = DOMAIN kinds
    BY <1>1, <1>3
<1>7. \A m, k, u : Event(m, k, u).seq = m /\ Event(m, k, u).kind = k /\ Event(m, k, u).of = u
    BY DEF Event
<1> QED BY <1>4, <1>5, <1>6, <1>7

(* The kinds of the events of a command that is no turn.                   *)
LEMMA ControlKinds ==
    ASSUME NEW k \in {"start", "resume", "interrupt", "stop", "resolve"}
    PROVE  /\ ControlEvents(k) \in Seq(EventKinds) /\ ControlEvents(k) # <<>>
           /\ \A i \in DOMAIN ControlEvents(k) :
                 /\ ControlEvents(k)[i] \in {"Starting", "Ready", "Resuming", "Stopped",
                                             "ApprovalResolved", "Error"}
                 /\ ControlEvents(k)[i] = "ApprovalResolved" => k = "resolve"
                 /\ ControlEvents(k)[i] = "Error" => k = "interrupt"
           /\ ControlEvents(k)[Len(ControlEvents(k))] \in {"Ready", "Stopped", "Error"}
<1>1. {"Starting", "Ready", "Resuming", "Stopped", "ApprovalResolved", "Error"} \subseteq EventKinds
    BY DEF EventKinds
<1>2. CASE k = "start"
    <2>1. PICK s : s = <<"Starting", "Ready">>
        OBVIOUS
    <2>2. s \in Seq(EventKinds) /\ s # <<>> /\ DOMAIN s = {1, 2} /\ Len(s) = 2
          /\ s[1] = "Starting" /\ s[2] = "Ready"
        BY <1>1, <2>1, OneOrTwo
    <2>3. ControlEvents(k) = s
        BY <1>2, <2>1 DEF ControlEvents
    <2> QED BY <1>2, <2>2, <2>3
<1>3. CASE k = "resume"
    <2>1. PICK s : s = <<"Resuming", "Ready">>
        OBVIOUS
    <2>2. s \in Seq(EventKinds) /\ s # <<>> /\ DOMAIN s = {1, 2} /\ Len(s) = 2
          /\ s[1] = "Resuming" /\ s[2] = "Ready"
        BY <1>1, <2>1, OneOrTwo
    <2>3. ControlEvents(k) = s
        BY <1>3, <2>1 DEF ControlEvents
    <2> QED BY <1>3, <2>2, <2>3
<1>4. CASE k = "resolve"
    <2>1. PICK s : s = <<"ApprovalResolved", "Ready">>
        OBVIOUS
    <2>2. s \in Seq(EventKinds) /\ s # <<>> /\ DOMAIN s = {1, 2} /\ Len(s) = 2
          /\ s[1] = "ApprovalResolved" /\ s[2] = "Ready"
        BY <1>1, <2>1, OneOrTwo
    <2>3. ControlEvents(k) = s
        BY <1>4, <2>1 DEF ControlEvents
    <2> QED BY <1>4, <2>2, <2>3
<1>5. CASE k = "interrupt"
    <2>1. PICK s : s = <<"Error">>
        OBVIOUS
    <2>2. s \in Seq(EventKinds) /\ s # <<>> /\ DOMAIN s = {1} /\ Len(s) = 1
          /\ s[1] = "Error"
        BY <1>1, <2>1, OneOrTwo
    <2>3. ControlEvents(k) = s
        BY <1>5, <2>1 DEF ControlEvents
    <2> QED BY <1>5, <2>2, <2>3
<1>6. CASE k = "stop"
    <2>1. PICK s : s = <<"Stopped">>
        OBVIOUS
    <2>2. s \in Seq(EventKinds) /\ s # <<>> /\ DOMAIN s = {1} /\ Len(s) = 1
          /\ s[1] = "Stopped"
        BY <1>1, <2>1, OneOrTwo
    <2>3. ControlEvents(k) = s
        BY <1>6, <2>1 DEF ControlEvents
    <2> QED BY <1>6, <2>2, <2>3
<1> QED BY <1>2, <1>3, <1>4, <1>5, <1>6

(* A command that is no turn is run.                                       *)
LEMMA ControlStep ==
    ASSUME SessInv, NEW c \in open, Control(c) PROVE SessInv' /\ EndedTurnsStay
<1>0. /\ c \in Commands /\ c.kind # "turn" /\ node.turn = NoTurn /\ node.seq \in Nat
      /\ Finish(c, Number(node.seq, ControlEvents(c.kind), c.of)) /\ NoTurn \notin Turns
    BY SessionAssumption DEF Control, SessInv, SessType, NodeFits
<1>1. /\ c.kind \in {"start", "resume", "interrupt", "stop", "resolve"}
      /\ c.of \in Turns \cup {NoTurn} /\ c = Command(c.kind, c.of)
      /\ c.kind # "resolve" => c.of = NoTurn
    BY <1>0, CommandsDiffer
<1>2. PICK kinds : kinds = ControlEvents(c.kind)
    OBVIOUS
<1>3. /\ kinds \in Seq(EventKinds) /\ kinds # <<>>
      /\ \A i \in DOMAIN kinds :
            /\ kinds[i] \in {"Starting", "Ready", "Resuming", "Stopped", "ApprovalResolved", "Error"}
            /\ kinds[i] = "ApprovalResolved" => c.kind = "resolve"
            /\ kinds[i] = "Error" => c.kind = "interrupt"
    BY <1>1, <1>2, ControlKinds
<1>4. PICK evs : evs = Number(node.seq, kinds, c.of)
    OBVIOUS
<1>5. /\ evs \in Seq(EventRecord) /\ DOMAIN evs = DOMAIN kinds /\ Len(evs) = Len(kinds)
      /\ \A i \in DOMAIN kinds : evs[i].kind = kinds[i] /\ evs[i].of = c.of
    BY <1>0, <1>1, <1>3, <1>4, Numbered
<1>6. evs # <<>>
    BY <1>3, <1>5, EmptySeq
<1>7. ASSUME NEW t \in Turns, NEW n \in Range(evs)
      PROVE  /\ ~Begins(n, t) /\ ~Ends(n, t) /\ ~Asks(n, t)
             /\ Answers(n, t) => c = Command("resolve", t)
    <2>1. PICK i \in DOMAIN kinds : n = evs[i]
        BY <1>5, <1>7 DEF Range
    <2>2. n.kind = kinds[i] /\ n.of = c.of
        BY <1>5, <2>1
    <2> QED BY <1>0, <1>1, <1>3, <2>2 DEF Begins, Ends, Asks, Answers
<1>8. OneEach(Range(evs))
    BY <1>7 DEF OneEach
<1>9. \A t \in Turns : \A i \in DOMAIN evs : ~Ends(evs[i], t)
    BY <1>7 DEF Range
<1>10. Finish(c, evs)
    BY <1>0, <1>2, <1>4
<1> QED BY <1>0, <1>5, <1>6, <1>7, <1>8, <1>9, <1>10, FinishStep

(* A command is refused.                                                   *)
LEMMA RefuseStep ==
    ASSUME SessInv, NEW c \in open, Refuse(c) PROVE SessInv' /\ EndedTurnsStay
<1>0. /\ c \in Commands /\ c.kind \in {"start", "resume", "turn"} /\ node.turn = NoTurn
      /\ node.seq \in Nat /\ NoTurn \notin Turns
      /\ Finish(c, Number(node.seq, <<"Error">>, c.of))
    BY SessionAssumption DEF Refuse, SessInv, SessType, NodeFits
<1>1. /\ c.of \in Turns \cup {NoTurn} /\ c = Command(c.kind, c.of)
      /\ c.of \in Turns => c.kind = "turn"
    BY <1>0, CommandsDiffer
<1>2. PICK kinds : kinds = <<"Error">>
    OBVIOUS
<1>3. "Error" \in EventKinds
    BY DEF EventKinds
<1>4. kinds \in Seq(EventKinds) /\ kinds # <<>> /\ DOMAIN kinds = {1} /\ kinds[1] = "Error"
    BY <1>2, <1>3, OneOrTwo
<1>5. PICK evs : evs = Number(node.seq, kinds, c.of)
    OBVIOUS
<1>6. /\ evs \in Seq(EventRecord) /\ DOMAIN evs = {1} /\ Len(evs) = Len(kinds)
      /\ evs[1].kind = "Error" /\ evs[1].of = c.of
    BY SMTT(20), <1>0, <1>1, <1>4, <1>5, Numbered
<1>7. evs # <<>>
    BY <1>4, <1>6, EmptySeq
<1>8. ASSUME NEW t \in Turns, NEW n \in Range(evs)
      PROVE  /\ ~Begins(n, t) /\ ~Asks(n, t) /\ ~Answers(n, t) /\ n = evs[1]
             /\ Ends(n, t) => c = Command("turn", t)
    BY <1>1, <1>6 DEF Range, Begins, Ends, Asks, Answers
<1>9. OneEach(Range(evs))
    BY <1>8 DEF OneEach
<1>10. Finish(c, evs)
    BY <1>0, <1>2, <1>5
<1> QED BY <1>0, <1>6, <1>7, <1>8, <1>9, <1>10, FinishStep

(* An event has its fields.                                                *)
LEMMA EventFields ==
    ASSUME NEW n \in Nat, NEW k \in EventKinds, NEW t \in Turns \cup {NoTurn}
    PROVE  /\ Event(n, k, t) \in EventRecord
           /\ Event(n, k, t).seq = n /\ Event(n, k, t).kind = k /\ Event(n, k, t).of = t
BY DEF Event, EventRecord

(* The first two events of a turn t, after n others.                       *)
OpensTurn(head, n, t) ==
    /\ head \in Seq(EventRecord) /\ DOMAIN head = {1, 2} /\ Len(head) = 2
    /\ head[1].kind = "Running" /\ head[1].seq = n + 1
    /\ head[2].kind = "TurnStarted" /\ head[2].of = t /\ head[2].seq = n + 2

(* They are what TurnHead says.                                            *)
LEMMA HeadOfTurn ==
    ASSUME NEW n \in Nat, NEW t \in Turns
    PROVE  OpensTurn(TurnHead(n, t), n, t)
<1>0. "Running" \in EventKinds /\ "TurnStarted" \in EventKinds /\ n + 1 \in Nat /\ n + 2 \in Nat
    BY DEF EventKinds
<1>1. PICK e \in EventRecord : e = Event(n + 1, "Running", NoTurn)
    BY <1>0, EventFields
<1>2. PICK f \in EventRecord : f = Event(n + 2, "TurnStarted", t)
    BY <1>0, EventFields
<1>3. /\ e.kind = "Running" /\ e.seq = n + 1
      /\ f.kind = "TurnStarted" /\ f.of = t /\ f.seq = n + 2
    BY <1>0, <1>1, <1>2, EventFields
<1>4. PICK s : s = <<e, f>>
    OBVIOUS
<1>5. s \in Seq(EventRecord) /\ DOMAIN s = {1, 2} /\ s[1] = e /\ s[2] = f /\ Len(s) = 2
    BY <1>4, OneOrTwo
<1>6. TurnHead(n, t) = s
    BY <1>1, <1>2, <1>4 DEF TurnHead
<1>7. OpensTurn(s, n, t)
    BY <1>3, <1>5 DEF OpensTurn
<1> QED BY <1>6, <1>7

(* How the Node's number and turn change while a turn runs.                *)
LEMMA NodeCounts ==
    ASSUME NodeFits
    PROVE  /\ \A t : [node EXCEPT !.seq = @ + 2, !.state = "running", !.turn = t]
                       = [state |-> "running", seq |-> node.seq + 2, turn |-> t,
                          activity |-> node.activity, cut |-> node.cut]
           /\ \A e : [node EXCEPT !.seq = @ + 1, !.activity = <<e>>]
                       = [state |-> node.state, seq |-> node.seq + 1, turn |-> node.turn,
                          activity |-> <<e>>, cut |-> node.cut]
<1>1. ASSUME NEW t PROVE [node EXCEPT !.seq = @ + 2, !.state = "running", !.turn = t]
                           = [state |-> "running", seq |-> node.seq + 2, turn |-> t,
                              activity |-> node.activity, cut |-> node.cut]
    <2>1. PICK m : m = [node EXCEPT !.seq = @ + 2, !.state = "running", !.turn = t]
        OBVIOUS
    <2>2. /\ m.seq = node.seq + 2 /\ m.state = "running" /\ m.turn = t
          /\ m.activity = node.activity /\ m.cut = node.cut
          /\ m = [state |-> m.state, seq |-> m.seq, turn |-> m.turn,
                  activity |-> m.activity, cut |-> m.cut]
        BY <2>1 DEF NodeFits
    <2> QED BY <2>1, <2>2
<1>2. ASSUME NEW e PROVE [node EXCEPT !.seq = @ + 1, !.activity = <<e>>]
                           = [state |-> node.state, seq |-> node.seq + 1, turn |-> node.turn,
                              activity |-> <<e>>, cut |-> node.cut]
    <2>1. PICK m : m = [node EXCEPT !.seq = @ + 1, !.activity = <<e>>]
        OBVIOUS
    <2>2. /\ m.seq = node.seq + 1 /\ m.state = node.state /\ m.turn = node.turn
          /\ m.activity = <<e>> /\ m.cut = node.cut
          /\ m = [state |-> m.state, seq |-> m.seq, turn |-> m.turn,
                  activity |-> m.activity, cut |-> m.cut]
        BY <2>1 DEF NodeFits
    <2> QED BY <2>1, <2>2
<1> QED BY <1>1, <1>2

(* A turn begins.                                                          *)
LEMMA BeginStep ==
    ASSUME SessInv, NEW c \in open, BeginTurn(c) PROVE SessInv' /\ EndedTurnsStay
<1>0. /\ SessType /\ NodeFits /\ HasLast /\ TurnInv
      /\ c \in Commands /\ c.kind = "turn" /\ node.turn = NoTurn /\ node.seq \in Nat
      /\ log' = log /\ turns' = turns /\ approvals' = approvals /\ expiry' = expiry
      /\ open' = open /\ outbox' = outbox /\ NoTurn \notin Turns
      /\ node.activity = <<>>
    BY SessionAssumption DEF BeginTurn, SessInv, SessType, coreVars, NodeFits
<1>1. PICK t \in Turns : c = Command("turn", t) /\ c.of = t
    BY <1>0, CommandsDiffer
<1>2. /\ node' = [node EXCEPT !.seq = @ + 2, !.state = "running", !.turn = t]
      /\ \E live \in {<<>>, <<1>>, <<2>>, <<1, 2>>} :
            wire' = wire \o [i \in DOMAIN live |-> Batch(<<TurnHead(node.seq, t)[live[i]]>>)]
    BY <1>1 DEF BeginTurn
<1>3. node' = [state |-> "running", seq |-> node.seq + 2, turn |-> t,
               activity |-> node.activity, cut |-> node.cut]
    BY <1>0, <1>2, NodeCounts
<1>4. PICK head : head = TurnHead(node.seq, t) /\ OpensTurn(head, node.seq, t)
    BY <1>0, HeadOfTurn
<1>5. /\ head \in Seq(EventRecord)
      /\ DOMAIN head = {1, 2} /\ head[1].kind = "Running" /\ head[2].kind = "TurnStarted"
      /\ head[2].of = t /\ head[2].seq = node.seq + 2
    BY <1>4 DEF OpensTurn
<1>6. PICK N : N = Range(head)
    OBVIOUS
<1>7. N = {head[1], head[2]} /\ N \subseteq EventRecord
    BY <1>5, <1>6, RangeOf DEF Range
<1>8. /\ wire' \in Seq(BatchRecord)
      /\ \A w \in Range(wire)' :
            \/ w \in Range(wire)
            \/ \E n \in N : w.rest = <<n>> /\ w.done = {}
    <2>1. PICK live \in {<<>>, <<1>>, <<2>>, <<1, 2>>} :
            wire' = wire \o [i \in DOMAIN live |-> Batch(<<head[live[i]]>>)]
        BY <1>2, <1>4
    <2>2. live \in Seq({1, 2})
        <3>1. 1 \in {1, 2} /\ 2 \in {1, 2}
            OBVIOUS
        <3>2. <<>> \in Seq({1, 2}) /\ <<1>> \in Seq({1, 2}) /\ <<2>> \in Seq({1, 2})
              /\ <<1, 2>> \in Seq({1, 2})
            BY <3>1, RangeShort, OneOrTwo
        <3> QED BY <2>1, <3>2
    <2>3. PICK new : new = [i \in DOMAIN live |-> Batch(<<head[live[i]]>>)]
        OBVIOUS
    <2>4. ASSUME NEW i \in DOMAIN live
          PROVE  /\ Batch(<<head[live[i]]>>) \in BatchRecord
                 /\ Batch(<<head[live[i]]>>).rest = <<head[live[i]]>>
                 /\ Batch(<<head[live[i]]>>).done = {}
                 /\ head[live[i]] \in N
        <3>1. live[i] \in {1, 2}
            BY <2>2
        <3>2. head[live[i]] \in EventRecord /\ head[live[i]] \in N
            BY <1>7, <3>1
        <3>3. <<head[live[i]]>> \in Seq(EventRecord)
            BY <3>2, OneOrTwo
        <3> QED BY <3>2, <3>3 DEF Batch, BatchRecord
    <2>5. new \in Seq(BatchRecord) /\ DOMAIN new = DOMAIN live
        <3>1. DOMAIN live = 1 .. Len(live) /\ Len(live) \in Nat
            BY <2>2
        <3> QED BY <2>3, <2>4, <3>1
    <2>6. \A w \in Range(new) : \E n \in N : w.rest = <<n>> /\ w.done = {}
        BY <2>3, <2>4, <2>5 DEF Range
    <2>7. wire \in Seq(BatchRecord) /\ wire' = wire \o new
        BY <1>0, <2>1, <2>3 DEF SessType
    <2>8. wire' \in Seq(BatchRecord) /\ Range(wire)' = Range(wire) \cup Range(new)
        BY <2>5, <2>7, RangeConcat
    <2> QED BY <2>6, <2>8
<1>9. PICK S : S = Sent \cup N
    OBVIOUS
<1>10. Sent \subseteq EventRecord /\ Stages(Sent)
    BY <1>0, Queued DEF TurnInv
<1>11. \A e \in Sent : ~Begins(e, t) /\ ~Ends(e, t)
    BY <1>0, <1>1, <1>10 DEF Stages
<1>12. \A u \in Turns : \A n \in N :
         /\ ~Ends(n, u) /\ ~Asks(n, u) /\ ~Answers(n, u)
         /\ Begins(n, u) => u = t /\ n = head[2]
    BY <1>5, <1>7 DEF Begins, Ends, Asks, Answers
<1>13. OneEach(N)
    BY <1>12 DEF OneEach
<1>14. Sent' \subseteq S
    <2>1. \A w \in Range(wire)' : Range(w.rest) \subseteq S
        <3>1. \A w \in Range(wire) : Range(w.rest) \subseteq S
            BY <1>9 DEF Sent
        <3>2. \A n \in N : Range(<<n>>) \subseteq S
            BY <1>9, RangeShort
        <3> QED BY <1>8, <3>1, <3>2
    <2>2. Range(log)' \subseteq S /\ Range(outbox)' \subseteq S
        BY <1>0, <1>9 DEF Sent
    <2> QED BY <2>1, <2>2 DEF Sent
<1>15. Stages(S)'
    <2>1. node'.turn = t /\ node'.seq = node.seq + 2 /\ node'.activity = <<>> /\ Len(node'.activity) = 0
        BY <1>0, <1>3
    <2> SUFFICES ASSUME NEW u \in Turns
                 PROVE  /\ turns[u] = "none" => Command("turn", u) \notin open
                        /\ turns[u] = "none" \/ Command("turn", u) \in open =>
                              \A e \in S : ~Ends(e, u) /\ (Begins(e, u) => node'.turn = u)
                        /\ node'.turn = u =>
                              /\ Command("turn", u) \in open
                              /\ \A e \in S :
                                    Begins(e, u) => e.seq = node'.seq - Len(node'.activity)
        BY <1>0 DEF Stages, Command
    <2>2. turns[u] = "none" => Command("turn", u) \notin open
        BY <1>10 DEF Stages
    <2>3. turns[u] = "none" \/ Command("turn", u) \in open =>
             \A e \in S : ~Ends(e, u) /\ (Begins(e, u) => t = u)
        BY <1>0, <1>9, <1>10, <1>12 DEF Stages
    <2>4. t = u => Command("turn", u) \in open
        BY <1>1
    <2>5. t = u => \A e \in S : Begins(e, u) => e = head[2]
        BY <1>9, <1>11, <1>12
    <2>6. node'.seq - Len(node'.activity) = node.seq + 2
        BY <1>0, <2>1
    <2> QED BY <1>5, <2>1, <2>2, <2>3, <2>4, <2>5, <2>6
<1>16. \A w \in Range(wire)' : w \in Range(wire) \/ (EndsLast(w.rest, Range(log), S) /\ w.done = {})
    <2>1. \A n \in N : EndsLast(<<n>>, Range(log), S)
        BY <1>12, RangeShort DEF EndsLast
    <2> QED BY <1>8, <2>1
<1>17. EndsLast(outbox, Range(log), S)
    <2>1. EndsLast(outbox, Range(log), Sent) /\ Range(outbox) \subseteq Sent /\ OneEach(Sent)
        BY <1>0, Queued DEF TurnInv, InOrder
    <2> QED BY <1>9, <1>11, <1>12, <1>13, <2>1, MoreEvents
<1>18. TurnInv'
    <2>1. \A u \in Turns : \A n \in N :
             /\ \A e \in Sent : /\ Begins(n, u) /\ Begins(e, u) => e = n
                                /\ Ends(n, u) => ~Ends(e, u)
                                /\ Begins(n, u) => ~Ends(e, u)
             /\ Answers(n, u) => \E e \in Range(log) : Asks(e, u)
             /\ Asks(n, u) => \E f \in Range(outbox)' : Begins(f, u)
        BY <1>11, <1>12
    <2> QED BY <1>0, <1>9, <1>13, <1>14, <1>15, <1>16, <1>17, <2>1, EventsAdded
<1>19. SessType'
    <2>1. \A w \in Range(wire)' : w.rest # <<>>
        <3>1. \A n \in N : <<n>> # <<>>
            BY OneOrTwo
        <3> QED BY <1>0, <1>8, <3>1 DEF SessType
    <2> QED BY <1>0, <1>8, <2>1 DEF SessType
<1>20. NodeFits'
    BY <1>0, <1>3 DEF NodeFits
<1>21. HasLast' /\ EndedTurnsStay
    <2>1. Numbers' = Numbers
        BY <1>0 DEF Numbers
    <2> QED BY <1>0, <2>1 DEF HasLast, EndedTurnsStay
<1> QED BY <1>18, <1>19, <1>20, <1>21 DEF SessInv

(* A line of the provider.                                                 *)
LEMMA ActivityStep == ASSUME SessInv, Activity PROVE SessInv' /\ EndedTurnsStay
<1>0. /\ SessType /\ NodeFits /\ HasLast /\ TurnInv
      /\ node.turn # NoTurn /\ node.activity = <<>> /\ node.seq \in Nat /\ node.turn \in Turns
      /\ node.seq >= 2
      /\ log' = log /\ turns' = turns /\ approvals' = approvals /\ expiry' = expiry
      /\ open' = open /\ outbox' = outbox
    BY OneOrTwo DEF Activity, SessInv, coreVars, NodeFits
<1>1. PICK e : e = Event(node.seq + 1, "Activity", node.turn)
    OBVIOUS
<1>2. e \in EventRecord /\ e.kind = "Activity" /\ e.seq = node.seq + 1
    <2>1. node.seq + 1 \in Nat /\ "Activity" \in EventKinds
        BY <1>0 DEF EventKinds
    <2> QED BY <1>0, <1>1, <2>1, EventFields
<1>3. node' = [state |-> node.state, seq |-> node.seq + 1, turn |-> node.turn,
               activity |-> <<e>>, cut |-> node.cut]
    BY <1>0, <1>1, NodeCounts DEF Activity
<1>4. NodeFits'
    BY <1>0, <1>2, <1>3 DEF NodeFits
<1>5. <<e>> \in Seq(EventRecord) /\ <<e>> # <<>> /\ Len(<<e>>) = 1 /\ Range(<<e>>) = {e}
    BY <1>2, OneOrTwo, RangeShort
<1>6. PICK b \in BatchRecord : b = Batch(<<e>>)
    BY <1>5 DEF Batch, BatchRecord
<1>7. b.rest = <<e>> /\ b.done = {}
    BY <1>6 DEF Batch
<1>8. wire' \in Seq(BatchRecord) /\ \A w \in Range(wire)' : w \in Range(wire) \/ w = b
    <2>1. wire \in Seq(BatchRecord) /\ wire' \in {wire, Append(wire, b)}
        BY <1>0, <1>1, <1>6 DEF SessType, Activity
    <2>2. Append(wire, b) \in Seq(BatchRecord) /\ Range(Append(wire, b)) = Range(wire) \cup {b}
        BY <2>1, RangeAppend
    <2> QED BY <2>1, <2>2
<1>9. \A t \in Turns : ~Begins(e, t) /\ ~Ends(e, t) /\ ~Asks(e, t) /\ ~Answers(e, t)
    BY <1>2 DEF Begins, Ends, Asks, Answers
<1>10. PICK S : S = Sent \cup {e}
    OBVIOUS
<1>11. OneEach(Sent) /\ OneEach({e})
    BY <1>0 DEF TurnInv, OneEach
<1>12. Sent' \subseteq S
    <2>1. \A w \in Range(wire) : Range(w.rest) \subseteq S
        BY <1>10 DEF Sent
    <2>2. \A w \in Range(wire)' : Range(w.rest) \subseteq S
        BY <1>5, <1>7, <1>8, <1>10, <2>1
    <2>3. Range(log)' \subseteq S /\ Range(outbox)' \subseteq S
        BY <1>0, <1>10 DEF Sent
    <2> QED BY <2>2, <2>3 DEF Sent
<1>13. Stages(S)'
    <2>1. node'.turn = node.turn /\ node'.seq - Len(node'.activity) = node.seq - Len(node.activity)
        BY <1>0, <1>3, <1>5, RangeShort
    <2>2. Stages(Sent)
        BY <1>0 DEF TurnInv
    <2>3. \A t \in Turns : \A x \in S : x \in Sent \/ (~Begins(x, t) /\ ~Ends(x, t))
        BY <1>9, <1>10
    <2> QED BY <1>0, <2>1, <2>2, <2>3 DEF Stages, Command
<1>14. EndsLast(outbox, Range(log), S) /\ EndsLast(<<e>>, Range(log), S)
    <2>1. EndsLast(outbox, Range(log), Sent) /\ Range(outbox) \subseteq Sent
        BY <1>0, Queued DEF TurnInv, InOrder
    <2>2. EndsLast(outbox, Range(log), S)
        BY <1>9, <1>10, <1>11, <2>1, MoreEvents
    <2>3. EndsLast(<<e>>, Range(log), S)
        BY <1>9, RangeShort DEF EndsLast
    <2> QED BY <2>2, <2>3
<1>15. TurnInv'
    <2>1. \A t \in Turns : \A n \in {e} :
             /\ \A f \in Sent : /\ Begins(n, t) /\ Begins(f, t) => f = n
                                /\ Ends(n, t) => ~Ends(f, t)
                                /\ Begins(n, t) => ~Ends(f, t)
             /\ Answers(n, t) => \E f \in Range(log) : Asks(f, t)
             /\ Asks(n, t) => \E f \in Range(outbox)' : Begins(f, t)
        BY <1>9
    <2>2. \A w \in Range(wire)' : w \in Range(wire) \/ (EndsLast(w.rest, Range(log), S) /\ w.done = {})
        BY <1>7, <1>8, <1>14
    <2> QED BY <1>0, <1>10, <1>11, <1>12, <1>13, <1>14, <2>1, <2>2, EventsAdded
<1>16. SessType'
    <2>1. \A w \in Range(wire)' : w.rest # <<>>
        BY <1>0, <1>5, <1>7, <1>8 DEF SessType
    <2> QED BY <1>0, <1>8, <2>1 DEF SessType
<1>17. HasLast' /\ EndedTurnsStay
    <2>1. Numbers' = Numbers
        BY <1>0 DEF Numbers
    <2> QED BY <1>0, <2>1 DEF HasLast, EndedTurnsStay
<1> QED BY <1>4, <1>15, <1>16, <1>17 DEF SessInv

(* How a turn ends: one event that ends it, then at most a word on the     *)
(* runtime.                                                                *)
TailKinds(tail) ==
    /\ tail \in Seq(EventKinds) /\ tail # <<>>
    /\ tail[1] \in {"TurnCompleted", "ApprovalRequested", "TurnInterrupted", "Error"}
    /\ DOMAIN tail \in {{1}, {1, 2}}
    /\ 2 \in DOMAIN tail => tail[2] \in {"Ready", "Blocked"}
    /\ tail[Len(tail)] \in {"Ready", "Blocked", "TurnInterrupted", "Error"}

(* In what a turn t sends after n events, its beginning is the second      *)
(* event and its end comes after k more.                                   *)
OneTurn(evs, n, t, k) ==
    /\ evs \in Seq(EventRecord) /\ evs # <<>>
    /\ 2 \in DOMAIN evs /\ Begins(evs[2], t) /\ evs[2].seq = n + 2
    /\ \A i \in DOMAIN evs : \A u \in Turns :
          /\ Begins(evs[i], u) => u = t /\ i = 2
          /\ Ends(evs[i], u) => u = t /\ i = k + 3 /\ 2 < i
          /\ ~Answers(evs[i], u)

(* What EndTurn sends: the beginning again, the activity that is kept, the *)
(* end.                                                                    *)
LEMMA TurnEvents ==
    ASSUME NEW n \in Nat, NEW m \in Nat, NEW t \in Turns, NEW kept \in Seq(EventRecord),
           \A x \in Range(kept) : x.kind = "Activity",
           NEW tail, TailKinds(tail)
    PROVE  OneTurn(TurnHead(n, t) \o kept \o Number(m, tail, t), n, t, Len(kept))
<1>0. PICK head : head = TurnHead(n, t) /\ OpensTurn(head, n, t)
    BY HeadOfTurn
<1>1. head \in Seq(EventRecord)
    BY <1>0 DEF OpensTurn
<1>2. /\ DOMAIN head = {1, 2} /\ Len(head) = 2
      /\ head[1].kind = "Running" /\ head[2].kind = "TurnStarted"
      /\ head[2].of = t /\ head[2].seq = n + 2
    BY <1>0 DEF OpensTurn
<1>16. PICK kinds \in Seq(EventKinds) : kinds = tail
    BY DEF TailKinds
<1>17. PICK v \in Turns \cup {NoTurn} : v = t
    OBVIOUS
<1>3. PICK ends \in Seq(EventRecord) : ends = Number(m, tail, t)
    BY <1>16, <1>17, Numbered
<1>4. DOMAIN ends = DOMAIN tail /\ \A i \in DOMAIN tail : ends[i].kind = tail[i] /\ ends[i].of = t
    BY <1>3, <1>16, <1>17, Numbered
<1>5. PICK q \in Seq(EventRecord) : q = head \o kept
    BY <1>1, RangeConcat
<1>14. /\ Len(q) = Len(head) + Len(kept)
       /\ \A i \in DOMAIN head : i \in DOMAIN q /\ q[i] = head[i]
       /\ \A i \in DOMAIN kept : i + Len(head) \in DOMAIN q /\ q[i + Len(head)] = kept[i]
       /\ \A i \in DOMAIN q : i \in DOMAIN head \/ \E j \in DOMAIN kept : i = j + Len(head)
    BY <1>1, <1>5, RangeConcat
<1>6. /\ Len(q) = 2 + Len(kept) /\ Len(kept) \in Nat
      /\ \A i \in DOMAIN head : i \in DOMAIN q /\ q[i] = head[i]
      /\ \A i \in DOMAIN kept : i + 2 \in DOMAIN q /\ q[i + 2] = kept[i]
      /\ \A i \in DOMAIN q : i \in DOMAIN head \/ \E j \in DOMAIN kept : i = j + 2
    BY <1>2, <1>14, RangeOf
<1>7. PICK r \in Seq(EventRecord) : r = q \o ends
    BY RangeConcat
<1>8. /\ \A i \in DOMAIN q : i \in DOMAIN r /\ r[i] = q[i]
      /\ \A i \in DOMAIN ends : i + Len(q) \in DOMAIN r /\ r[i + Len(q)] = ends[i]
      /\ \A i \in DOMAIN r : i \in DOMAIN q \/ \E j \in DOMAIN ends : i = j + Len(q)
    BY <1>7, RangeConcat
<1>9. r = TurnHead(n, t) \o kept \o Number(m, tail, t)
    BY <1>0, <1>3, <1>5, <1>7
<1>10. 2 \in DOMAIN r /\ r[2] = head[2]
    BY <1>2, <1>6, <1>8
<1>11. r # <<>>
    BY <1>10, RangeShort
<1>12. ASSUME NEW i \in DOMAIN r, NEW u \in Turns
       PROVE  /\ Begins(r[i], u) => u = t /\ i = 2
              /\ Ends(r[i], u) => u = t /\ i = Len(kept) + 3 /\ 2 < i
              /\ ~Answers(r[i], u)
    <2>1. CASE i \in DOMAIN head
        <3>1. r[i] = head[i] /\ (i = 1 \/ i = 2)
            BY <1>2, <1>6, <1>8, <2>1
        <3> QED BY <1>2, <3>1 DEF Begins, Ends, Answers
    <2>2. ASSUME NEW j \in DOMAIN kept, i = j + 2 PROVE r[i].kind = "Activity"
        <3>1. r[i] = kept[j] /\ kept[j] \in Range(kept)
            BY <1>6, <1>8, <2>2 DEF Range
        <3> QED BY <3>1
    <2>3. ASSUME NEW j \in DOMAIN ends, i = j + Len(q)
          PROVE  /\ r[i].of = t
                 /\ \/ j = 1 /\ i = Len(kept) + 3
                       /\ r[i].kind \in {"TurnCompleted", "ApprovalRequested", "TurnInterrupted", "Error"}
                    \/ r[i].kind \in {"Ready", "Blocked"}
        <3>1. r[i] = ends[j] /\ ends[j].kind = tail[j] /\ ends[j].of = t /\ (j = 1 \/ j = 2)
            BY <1>4, <1>8, <2>3 DEF TailKinds
        <3> QED BY <1>4, <1>6, <2>3, <3>1 DEF TailKinds
    <2>4. i \in DOMAIN head \/ (\E j \in DOMAIN kept : i = j + 2) \/ \E j \in DOMAIN ends : i = j + Len(q)
        BY <1>6, <1>8
    <2>5. ASSUME r[i].kind = "Activity"
          PROVE  ~Begins(r[i], u) /\ ~Ends(r[i], u) /\ ~Answers(r[i], u)
        BY <2>5 DEF Begins, Ends, Answers
    <2>6. ASSUME NEW j \in DOMAIN ends, i = j + Len(q)
          PROVE  /\ ~Begins(r[i], u) /\ ~Answers(r[i], u)
                 /\ Ends(r[i], u) => u = t /\ i = Len(kept) + 3 /\ 2 < i
        <3>1. Len(kept) + 3 > 2
            BY <1>6
        <3> QED BY <2>3, <2>6, <3>1 DEF Begins, Ends, Answers
    <2> QED BY <2>1, <2>2, <2>4, <2>5, <2>6
<1>13. Begins(r[2], t) /\ r[2].seq = n + 2
    BY <1>2, <1>10 DEF Begins
<1>15. OneTurn(r, n, t, Len(kept))
    BY <1>10, <1>11, <1>12, <1>13 DEF OneTurn
<1> QED BY <1>9, <1>15

(* A turn ends: what is sent begins with the numbers it took.              *)
LEMMA TurnFinishes ==
    ASSUME SessInv, NEW how \in {"completed", "approval", "cancelled", "error", "timeout"},
           EndTurn(how)
    PROVE  \E n \in Nat : \E kept \in Seq(EventRecord) : \E tail :
              /\ n + 2 = node.seq - Len(node.activity) /\ n + 2 <= node.seq
              /\ \A x \in Range(kept) : x.kind = "Activity" /\ x.seq <= node.seq
              /\ TailKinds(tail) /\ node.turn \in Turns
              /\ Finish(Command("turn", node.turn),
                        TurnHead(n, node.turn) \o kept \o Number(node.seq, tail, node.turn))
<1>0. NodeFits /\ node.turn \in Turns /\ node.seq \in Nat
    BY DEF EndTurn, SessInv, NodeFits
<1>1. /\ node.activity \in Seq(EventRecord) /\ Len(node.activity) \in Nat
      /\ node.seq - 2 - Len(node.activity) \in Nat
      /\ \A x \in Range(node.activity) : x.kind = "Activity" /\ x.seq <= node.seq
    <2>1. CASE node.activity = <<>> /\ node.seq >= 2
        BY <1>0, <2>1, RangeShort
    <2>2. ASSUME node.seq >= 3, NEW e \in EventRecord, node.activity = <<e>>, e.kind = "Activity",
                 e.seq <= node.seq
          PROVE  <1>1!:
        BY <1>0, <2>2, OneOrTwo, RangeShort
    <2> QED BY <1>0, <2>1, <2>2 DEF NodeFits, EndTurn
<1>2. PICK n \in Nat : n = node.seq - 2 - Len(node.activity)
    BY <1>1
<1>3. n + 2 = node.seq - Len(node.activity) /\ n + 2 <= node.seq
    BY <1>0, <1>1, <1>2
<1>4. PICK kept : kept = IF how \in {"cancelled", "timeout"} THEN <<>> ELSE node.activity
    OBVIOUS
<1>5. kept \in Seq(EventRecord) /\ \A x \in Range(kept) : x.kind = "Activity" /\ x.seq <= node.seq
    BY <1>1, <1>4, RangeShort
<1>6. PICK tail : tail = CASE how = "completed" -> <<"TurnCompleted", "Ready">>
                           [] how = "approval" -> <<"ApprovalRequested", "Blocked">>
                           [] how = "cancelled" -> <<"TurnInterrupted">>
                           [] OTHER -> <<"Error">>
    OBVIOUS
<1>9. kept \in Seq(EventRecord) /\ \A x \in Range(kept) : x.kind = "Activity"
    BY <1>1, <1>5, RangeShort
<1>7. TailKinds(tail)
    <2>0. {"TurnCompleted", "ApprovalRequested", "TurnInterrupted", "Error", "Ready", "Blocked"}
            \subseteq EventKinds
        BY DEF EventKinds
    <2>1. ASSUME NEW x \in {"TurnCompleted", "ApprovalRequested", "TurnInterrupted", "Error"},
                 NEW y \in {"Ready", "Blocked"}, tail = <<x, y>>
          PROVE  TailKinds(tail)
        BY <2>0, <2>1, OneOrTwo DEF TailKinds
    <2>2. ASSUME NEW x \in {"TurnInterrupted", "Error"}, tail = <<x>>
          PROVE  TailKinds(tail)
        BY <2>0, <2>2, OneOrTwo DEF TailKinds
    <2>3. CASE how = "completed"
        BY <1>6, <2>1, <2>3
    <2>4. CASE how = "approval"
        BY <1>6, <2>1, <2>4
    <2>5. CASE how = "cancelled"
        BY <1>6, <2>2, <2>5
    <2>6. CASE how \notin {"completed", "approval", "cancelled"}
        BY <1>6, <2>2, <2>6
    <2> QED BY <2>3, <2>4, <2>5, <2>6
<1>8. Finish(Command("turn", node.turn),
             TurnHead(n, node.turn) \o kept \o Number(node.seq, tail, node.turn))
    BY <1>2, <1>4, <1>6 DEF EndTurn
<1> QED BY <1>0, <1>3, <1>5, <1>7, <1>8

(* A turn ends.                                                            *)
LEMMA EndTurnStep ==
    ASSUME SessInv, NEW how \in {"completed", "approval", "cancelled", "error", "timeout"},
           EndTurn(how)
    PROVE  SessInv' /\ EndedTurnsStay
<1>0. /\ SessType /\ TurnInv /\ NoTurn \notin Turns /\ node.seq \in Nat
    BY SessionAssumption DEF SessInv, NodeFits
<1>1. PICK n \in Nat : \E kept \in Seq(EventRecord) : \E tail :
         /\ n + 2 = node.seq - Len(node.activity) /\ n + 2 <= node.seq
         /\ \A x \in Range(kept) : x.kind = "Activity" /\ x.seq <= node.seq
         /\ TailKinds(tail) /\ node.turn \in Turns
         /\ Finish(Command("turn", node.turn),
                   TurnHead(n, node.turn) \o kept \o Number(node.seq, tail, node.turn))
    BY TurnFinishes
<1>10. PICK kept \in Seq(EventRecord) : \E tail :
         /\ n + 2 = node.seq - Len(node.activity) /\ n + 2 <= node.seq
         /\ \A x \in Range(kept) : x.kind = "Activity" /\ x.seq <= node.seq
         /\ TailKinds(tail) /\ node.turn \in Turns
         /\ Finish(Command("turn", node.turn),
                   TurnHead(n, node.turn) \o kept \o Number(node.seq, tail, node.turn))
    BY <1>1
<1>2. PICK tail :
         /\ n + 2 = node.seq - Len(node.activity) /\ n + 2 <= node.seq
         /\ \A x \in Range(kept) : x.kind = "Activity" /\ x.seq <= node.seq
         /\ TailKinds(tail) /\ node.turn \in Turns
         /\ Finish(Command("turn", node.turn),
                   TurnHead(n, node.turn) \o kept \o Number(node.seq, tail, node.turn))
    BY <1>10
<1>3. PICK t \in Turns : t = node.turn
    BY <1>2
<1>4. PICK c : c = Command("turn", t)
    OBVIOUS
<1>5. PICK evs : evs = TurnHead(n, t) \o kept \o Number(node.seq, tail, t)
    OBVIOUS
<1>6. Finish(c, evs) /\ n + 2 = node.seq - Len(node.activity)
    BY <1>2, <1>3, <1>4, <1>5
<1>11. /\ evs \in Seq(EventRecord) /\ evs # <<>>
       /\ 2 \in DOMAIN evs /\ Begins(evs[2], t) /\ evs[2].seq = n + 2
       /\ \A i \in DOMAIN evs : \A u \in Turns :
             /\ Begins(evs[i], u) => u = t /\ i = 2
             /\ Ends(evs[i], u) => u = t /\ i = Len(kept) + 3 /\ 2 < i
             /\ ~Answers(evs[i], u)
    <2>1. OneTurn(evs, n, t, Len(kept))
        BY <1>0, <1>2, <1>5, TurnEvents
    <2> QED BY <2>1 DEF OneTurn
<1>12. c \in open
    BY <1>0, <1>3, <1>4 DEF TurnInv, Stages
<1>14. OneEach(Range(evs))
    BY <1>11 DEF OneEach, Range
<1>15. \A u \in Turns : \A x \in Range(evs) :
          /\ Begins(x, u) => node.turn = u /\ x.seq = node.seq - Len(node.activity)
          /\ Ends(x, u) => c = Command("turn", u)
          /\ Answers(x, u) => c = Command("resolve", u)
          /\ Asks(x, u) => \E f \in Range(evs) : Begins(f, u)
    <2> SUFFICES ASSUME NEW u \in Turns, NEW i \in DOMAIN evs
                 PROVE  /\ Begins(evs[i], u) => node.turn = u /\ evs[i].seq = node.seq - Len(node.activity)
                        /\ Ends(evs[i], u) => c = Command("turn", u)
                        /\ ~Answers(evs[i], u)
                        /\ Asks(evs[i], u) => \E f \in Range(evs) : Begins(f, u)
        BY DEF Range
    <2>1. Asks(evs[i], u) => Ends(evs[i], u)
        BY DEF Asks, Ends
    <2>2. evs[2] \in Range(evs)
        BY <1>11 DEF Range
    <2> QED BY <1>3, <1>4, <1>6, <1>11, <2>1, <2>2
<1>16. \A u \in Turns : \A i \in DOMAIN evs : Ends(evs[i], u) /\ node.turn = u =>
          \E j \in DOMAIN evs : j < i /\ Begins(evs[j], u)
    BY <1>11
<1> QED BY <1>3, <1>4, <1>6, <1>11, <1>12, <1>14, <1>15, <1>16, FinishStep

-----------------------------------------------------------------------------
(* Turns and approvals.                                                    *)

(* A session starts without turns and events.                              *)
LEMMA SessionStarts == Init => SessInv
<1> SUFFICES ASSUME Init PROVE SessInv
    OBVIOUS
<1>1. /\ log = <<>> /\ outbox = <<>> /\ wire = <<>> /\ open = {Command("start", NoTurn)}
      /\ \A t \in Turns : turns[t] = "none" /\ approvals[t] = "none"
      /\ NoTurn \notin Turns
    BY SessionAssumption DEF Init
<1>2. Range(log) = {} /\ Range(outbox) = {} /\ Range(wire) = {} /\ DOMAIN log = {}
      /\ DOMAIN outbox = {}
    BY <1>1, RangeShort
<1>3. Sent = {}
    BY <1>2 DEF Sent
<1>4. SessType
    <2>1. open \subseteq Commands
        BY <1>1 DEF Commands
    <2>2. /\ turns \in [Turns -> TurnStates]
          /\ approvals \in [Turns -> {"none", "requested", "resolved"}]
          /\ expiry \in [at : {"no", "found", "numbered"}, seq : Nat]
        BY DEF Init, TurnStates
    <2> QED BY <1>1, <1>2, <2>1, <2>2, RangeShort DEF SessType
<1>5. NodeFits /\ node.turn = NoTurn
    BY DEF Init, NodeFits
<1>6. HasLast
    <2>1. Numbers = {}
        BY <1>2 DEF Numbers
    <2> QED BY <2>1 DEF HasLast
<1>7. InOrder /\ OneEach(Sent) /\ RowsFollow(Range(log))
    BY <1>1, <1>2, <1>3 DEF InOrder, OneEach, RowsFollow, Once, AnswersLast, EndsLast
<1>8. \A t \in Turns : Command("turn", t) \notin open /\ Command("resolve", t) \notin open
    BY <1>1, CommandsDiffer
<1>9. Stages(Sent) /\ Grounds
    BY <1>1, <1>2, <1>3, <1>5, <1>8 DEF Stages, Grounds
<1> QED BY <1>4, <1>5, <1>6, <1>7, <1>9 DEF SessInv, TurnInv

(* Every step keeps the invariant, and what ended.                         *)
LEMMA SessionSteps == ASSUME SessInv, [Next]_vars PROVE SessInv' /\ EndedTurnsStay
<1>1. CASE \E t \in Turns : SubmitTurn(t) \/ ResolveApproval(t)
    BY <1>1, SubmitStep, ResolveStep
<1>2. CASE \/ \E k \in {"interrupt", "stop", "resume"} : LifecycleCommand(k)
           \/ \E target \in {"active", "detached"} : Attach(target)
           \/ FindExpired \/ TakeNumber \/ (\E c \in open : Signal(c)) \/ UNCHANGED vars
    BY <1>2, RequestSteps
<1>3. CASE Expire
    BY <1>3, ExpiryStep
<1>4. CASE \E c \in open : Control(c) \/ Refuse(c) \/ BeginTurn(c)
    BY <1>4, ControlStep, RefuseStep, BeginStep
<1>5. CASE Activity
    BY <1>5, ActivityStep
<1>6. CASE \E how \in {"completed", "approval", "cancelled", "error", "timeout"} : EndTurn(how)
    BY <1>6, EndTurnStep
<1>7. CASE Deliver
    BY <1>7, DeliverStep
<1>8. CASE DropBatch \/ Reconnect
    BY <1>8, WireSteps
<1> QED BY <1>1, <1>2, <1>3, <1>4, <1>5, <1>6, <1>7, <1>8 DEF Next

(* The invariant of the events of turns and approvals.                     *)
THEOREM SessionSafe == Spec => []SessInv
<1>1. SessInv /\ [Next]_vars => SessInv'
    BY SessionSteps
<1> QED BY SessionStarts, <1>1, PTL DEF Spec

(* The log says of a turn what its row says.                               *)
LEMMA LogReads ==
    ASSUME SessInv, NEW t \in Turns
    PROVE  /\ t \in pending_approvals(log) <=> approvals[t] = "requested"
           /\ t \in ActiveTurns(log) <=> turns[t] \in {"running", "blocked"}
<1>0. /\ SessType /\ TurnInv /\ log \in Seq(EventRecord)
      /\ OneEach(Sent) /\ Range(log) \subseteq Sent /\ Once(log) /\ AnswersLast(log)
      /\ EndsLast(log, {}, Sent) /\ RowsFollow(Range(log))
    BY DEF SessInv, SessType, TurnInv, InOrder, Sent
<1>1. /\ DOMAIN log = 1 .. Len(log) /\ Len(log) \in Nat
      /\ \A i \in DOMAIN log : log[i] \in Range(log) /\ log[i] \in EventRecord /\ log[i] \in Sent
      /\ \A e \in Range(log) : \E i \in DOMAIN log : log[i] = e
    BY <1>0, RangeOf
<1>2. ASSUME NEW i \in DOMAIN log, NEW j \in DOMAIN log, Ends(log[i], t), Ends(log[j], t)
      PROVE  i = j
    BY <1>0, <1>1, <1>2 DEF OneEach, Once
<1>3. ASSUME NEW i \in DOMAIN log, NEW k \in DOMAIN log, Asks(log[i], t), Answers(log[k], t)
      PROVE  i < k
    <2>1. PICK j \in DOMAIN log : j < k /\ Asks(log[j], t)
        BY <1>0, <1>3 DEF AnswersLast
    <2>2. j = i
        BY <1>2, <1>3, <2>1 DEF Asks, Ends
    <2> QED BY <2>1, <2>2
<1>4. ASSUME NEW i \in DOMAIN log, NEW k \in DOMAIN log, Begins(log[i], t), Ends(log[k], t)
      PROVE  i < k
    <2>1. PICK j \in DOMAIN log : j < k /\ log[j] = log[i]
        BY <1>0, <1>1, <1>4 DEF EndsLast
    <2>2. j = i
        BY <1>0, <2>1 DEF Once
    <2> QED BY <2>1, <2>2
<1>5. t \in pending_approvals(log) =>
         (\E e \in Range(log) : Asks(e, t)) /\ \A e \in Range(log) : ~Answers(e, t)
    <2> SUFFICES ASSUME NEW i \in DOMAIN log, Asks(log[i], t),
                        \A j \in i + 1 .. Len(log) : ~Answers(log[j], t)
                 PROVE  \A e \in Range(log) : ~Answers(e, t)
        BY <1>1 DEF pending_approvals, Asks, Answers
    <2> SUFFICES ASSUME NEW k \in DOMAIN log, Answers(log[k], t) PROVE FALSE
        BY <1>1
    <2>1. i < k
        BY <1>3
    <2>2. k \in i + 1 .. Len(log)
        BY <1>1, <2>1
    <2> QED BY <2>2
<1>6. (\E e \in Range(log) : Asks(e, t)) /\ (\A e \in Range(log) : ~Answers(e, t))
         => t \in pending_approvals(log)
    <2> SUFFICES ASSUME NEW i \in DOMAIN log, Asks(log[i], t), \A e \in Range(log) : ~Answers(e, t)
                 PROVE  t \in pending_approvals(log)
        BY <1>1
    <2>1. \A j \in i + 1 .. Len(log) : j \in DOMAIN log
        BY <1>1
    <2>2. \A j \in i + 1 .. Len(log) : ~Answers(log[j], t)
        BY <1>1, <2>1
    <2> QED BY <2>2 DEF pending_approvals, Asks, Answers
<1>7. approvals[t] = "requested" <=>
         (\E e \in Range(log) : Asks(e, t)) /\ \A e \in Range(log) : ~Answers(e, t)
    BY <1>0 DEF RowsFollow
<1>8. ASSUME t \in ActiveTurns(log) PROVE turns[t] \in {"running", "blocked"}
    <2>1. PICK i \in DOMAIN log :
            /\ Begins(log[i], t)
            /\ \A j \in i + 1 .. Len(log) : ~(log[j].of = t /\ log[j].kind \in
                                                {"TurnCompleted", "TurnInterrupted", "Error"})
        BY <1>8 DEF ActiveTurns, Begins
    <2>2. ASSUME NEW k \in DOMAIN log, Ends(log[k], t) PROVE turns[t] = "blocked"
        <3>1. i < k
            BY <1>4, <2>1, <2>2
        <3>2. k \in i + 1 .. Len(log)
            BY <1>1, <3>1
        <3>3. Asks(log[k], t)
            BY <2>1, <2>2, <3>2 DEF Ends, Asks
        <3>4. TurnOf(log[k].kind) = "blocked"
            BY <3>3 DEF Asks, TurnOf
        <3>5. turns[t] = TurnOf(log[k].kind)
            BY <1>0, <1>1, <2>2 DEF RowsFollow
        <3> QED BY <3>4, <3>5
    <2>3. CASE \A e \in Range(log) : ~Ends(e, t)
        BY <1>0, <1>1, <2>1, <2>3 DEF RowsFollow
    <2> QED BY <1>1, <2>2, <2>3
<1>9. ASSUME turns[t] \in {"running", "blocked"} PROVE t \in ActiveTurns(log)
    <2>1. ASSUME NEW f \in Range(log), Begins(f, t), \A e \in Range(log) : Ends(e, t) => Asks(e, t)
          PROVE  t \in ActiveTurns(log)
        <3>1. PICK i \in DOMAIN log : log[i] = f
            BY <1>1
        <3>2. ASSUME NEW j \in i + 1 .. Len(log),
                     log[j].of = t /\ log[j].kind \in {"TurnCompleted", "TurnInterrupted", "Error"}
              PROVE  FALSE
            <4>1. j \in DOMAIN log
                BY <1>1
            <4>2. log[j] \in Range(log) /\ Ends(log[j], t) /\ ~Asks(log[j], t)
                BY <1>1, <3>2, <4>1 DEF Ends, Asks
            <4> QED BY <2>1, <4>2
        <3> QED BY <2>1, <3>1, <3>2 DEF ActiveTurns, Begins
    <2>2. CASE \A e \in Range(log) : ~Ends(e, t)
        <3>1. \E e \in Range(log) : Begins(e, t)
            BY <1>0, <1>9, <2>2 DEF RowsFollow
        <3> QED BY <2>1, <2>2, <3>1
    <2>3. ASSUME NEW e \in Range(log), Ends(e, t) PROVE t \in ActiveTurns(log)
        <3>1. e \in EventRecord /\ turns[t] = TurnOf(e.kind) /\ e \in Sent
            BY <1>0, <1>1, <2>3 DEF RowsFollow
        <3>2. TurnOf(e.kind) = "blocked" /\ Asks(e, t)
            BY <1>9, <2>3, <3>1, TurnKinds
        <3>3. \A f \in Range(log) : Ends(f, t) => f = e
            BY <1>0, <2>3, <3>1 DEF OneEach
        <3>4. PICK f \in Range(log) \cup Range(outbox) : Begins(f, t)
            BY <1>0, <3>1, <3>2 DEF TurnInv, Grounds
        <3>5. PICK k \in DOMAIN log : log[k] = e
            BY <1>1
        <3>6. f \in Sent
            BY DEF Sent
        <3>7. \E j \in DOMAIN log : log[j] = f
            BY <1>0, <2>3, <3>4, <3>5, <3>6 DEF EndsLast
        <3>8. f \in Range(log)
            BY <1>1, <3>7
        <3> QED BY <2>1, <3>2, <3>3, <3>4, <3>8
    <2> QED BY <2>2, <2>3
<1> QED BY <1>5, <1>6, <1>7, <1>8, <1>9

(* Where the projection offers a command, the routes ask for nothing more. *)
LEMMA OffersHold == OffersAccepted
<1> SUFFICES ASSUME NEW env \in Environments, env.placement # "pending", NEW k \in Kinds,
                    Offered(k, env)
             PROVE  Commandable(k, env)
    BY DEF OffersAccepted
<1>0. env.placement \in {"validated", "pending", "blocked"}
    BY DEF Environments
<1>1. CASE k = "turn"
    BY <1>0, <1>1 DEF Offered, Commandable, RuntimeAccepts
<1>2. CASE k = "deduction"
    BY <1>0, <1>2 DEF Offered, Commandable, RuntimeAccepts
<1>3. CASE k = "interrupt"
    BY <1>0, <1>3 DEF Offered, Commandable, RuntimeAccepts
<1>4. CASE k = "stop"
    BY <1>0, <1>4 DEF Offered, Commandable, RuntimeAccepts
<1>5. CASE k = "resume"
    BY <1>0, <1>5 DEF Offered, Commandable, RuntimeAccepts
<1>6. CASE k = "resolve"
    BY <1>0, <1>6 DEF Offered, Commandable, RuntimeAccepts
<1> QED BY <1>1, <1>2, <1>3, <1>4, <1>5, <1>6 DEF Kinds

(* The rows and the reading of the log agree in every state.               *)
LEMMA ViewsDoAgree == SessInv => ViewsAgree
<1> SUFFICES ASSUME SessInv PROVE ViewsAgree
    OBVIOUS
<1>1. pending_approvals(log) = {t \in Turns : approvals[t] = "requested"}
    BY LogReads DEF pending_approvals
<1>2. ActiveTurns(log) = {t \in Turns : turns[t] \in {"running", "blocked"}}
    BY LogReads DEF ActiveTurns
<1> QED BY <1>1, <1>2, OffersHold DEF ViewsAgree

(* So do they all the time.                                                *)
THEOREM SessionViews == Spec => []ViewsAgree
    BY SessionSafe, ViewsDoAgree, PTL

(* What ended stays, in every step.                                        *)
THEOREM SessionEnds == Spec => [][EndedTurnsStay]_vars
<1>1. SessInv /\ [Next]_vars => [EndedTurnsStay]_vars
    BY SessionSteps
<1> QED BY SessionSafe, <1>1, PTL DEF Spec

-----------------------------------------------------------------------------
(* What Core shows in the end.                                             *)

(* Event e is the last of queue q, and only the last.                      *)
EndsWith(q, e) == q # <<>> /\ \A i \in DOMAIN q : q[i] = e <=> i = Len(q)

(* The events of the batches w.                                            *)
Pending(w) == UNION {Range(b.rest) : b \in Range(w)}

(* The Node made event e, under one of its first n numbers.                *)
MadeBy(e, n) == e.kind # "Expired" /\ e.seq <= n

(* Event e tells Core of the Node's state s.                               *)
Tells(e, s) == e.kind # "Expired" /\ RuntimeOf(e.kind) = s /\ s # "none"

(* Event e is not stored; it is the last in the outbox q and on the way w. *)
Underway(e, L, q, w) ==
    /\ e \notin L /\ EndsWith(q, e) /\ w # <<>> /\ EndsWith(w[Len(w)].rest, e)
    /\ \A p \in DOMAIN w : p # Len(w) => e \notin Range(w[p].rest)

(* Event e is the last that the log l has of the Node, and all that is     *)
(* sent, in queue q or in the batches W, is stored.                        *)
Arrived(e, l, q, W) ==
    /\ Range(q) \subseteq Range(l) /\ W \subseteq Range(l)
    /\ l # <<>> /\ (l[Len(l)] = e \/ l[Len(l)].kind = "Expired")

(* All events of the Node have numbers that it used.                       *)
MadeInv ==
    /\ \A e \in Range(log) : e.kind = "Expired" \/ MadeBy(e, node.seq)
    /\ \A e \in Pending(wire) \cup Range(outbox) \cup Range(node.activity) : MadeBy(e, node.seq)

(* The runtime is what the last event makes it, or its number showed a gap.*)
FollowInv ==
    \A e \in EventRecord : log # <<>> /\ e = log[Len(log)] /\ RuntimeOf(e.kind) # "none" =>
        runtime = RuntimeOf(e.kind) \/ (runtime = "stale" /\ e.seq - 1 \notin Numbers)

(* Before the first event the start is still to run.                       *)
StartInv == node.seq = 0 => Command("start", NoTurn) \in open

(* What is in the outbox is stored or on its way, as long as Core refuses  *)
(* nothing; between two turns the last event of the Node tells its state,  *)
(* and nothing is stored after it.                                         *)
CoverInv == ~fault => Range(outbox) \subseteq Range(log) \cup Pending(wire)
LastInv ==
    ~fault /\ node.turn = NoTurn /\ node.seq # 0 =>
        \E e \in EventRecord :
            /\ Tells(e, node.state)
            /\ Underway(e, Range(log), outbox, wire) \/ Arrived(e, log, outbox, Pending(wire))

SettleInv == MadeInv /\ FollowInv /\ StartInv /\ CoverInv /\ LastInv

(* It holds at the beginning.                                              *)
LEMMA SettleStarts == Init => SettleInv
<1> SUFFICES ASSUME Init PROVE SettleInv
    OBVIOUS
<1>1. /\ log = <<>> /\ outbox = <<>> /\ wire = <<>> /\ open = {Command("start", NoTurn)}
      /\ node.seq = 0 /\ node.activity = <<>>
    BY DEF Init
<1>2. Range(log) = {} /\ Range(outbox) = {} /\ Range(wire) = {} /\ Range(node.activity) = {}
    BY <1>1, RangeShort
<1>3. Pending(wire) = {}
    BY <1>2 DEF Pending
<1> QED BY <1>1, <1>2, <1>3 DEF SettleInv, MadeInv, FollowInv, StartInv, CoverInv, LastInv

(* It says what Core shows when nothing is under way.                      *)
LEMMA SettlesIn == ASSUME SessInv, SettleInv PROVE Settled
<1> SUFFICES ASSUME Quiet
             PROVE  \/ runtime = node.state
                    \/ runtime = "expired" /\ log[Len(log)].kind = "Expired"
                    \/ runtime = "stale" /\ log[Len(log)].seq - 1 \notin Numbers
    BY DEF Settled
<1>1. /\ wire = <<>> /\ open = {} /\ ~fault
      /\ node.turn \in Turns \cup {NoTurn} /\ Stages(Sent) /\ log \in Seq(EventRecord)
    BY DEF Quiet, SessInv, NodeFits, TurnInv, SessType
<1>2. node.turn = NoTurn /\ node.seq # 0
    BY <1>1 DEF Stages, SettleInv, StartInv
<1>3. PICK e \in EventRecord :
        Tells(e, node.state) /\ Arrived(e, log, outbox, Pending(wire))
    BY <1>1, <1>2 DEF SettleInv, LastInv, Underway
<1>4. PICK l \in EventRecord : l = log[Len(log)] /\ log # <<>> /\ (l = e \/ l.kind = "Expired")
    BY <1>1, <1>3, RangeOf DEF Arrived
<1>5. RuntimeOf("Expired") = "expired"
    BY DEF RuntimeOf
<1>6. RuntimeOf(l.kind) # "none" =>
        runtime = RuntimeOf(l.kind) \/ (runtime = "stale" /\ l.seq - 1 \notin Numbers)
    BY <1>4 DEF SettleInv, FollowInv
<1>7. CASE l = e
    BY <1>3, <1>4, <1>6, <1>7 DEF Tells
<1>8. CASE l.kind = "Expired"
    BY <1>4, <1>5, <1>6, <1>8
<1> QED BY <1>4, <1>7, <1>8

(* Nothing of it changes, but for the commands that are open.              *)
LEMMA SettleRests ==
    ASSUME SettleInv, UNCHANGED <<runtime, log, outbox, wire, fault>>,
           node'.seq = node.seq, node'.turn = node.turn, node'.activity = node.activity,
           node'.state = node.state, open \subseteq open'
    PROVE  SettleInv'
<1>1. MadeInv' /\ CoverInv' /\ LastInv'
    BY DEF SettleInv, MadeInv, CoverInv, LastInv
<1>2. FollowInv' /\ StartInv'
    BY DEF SettleInv, FollowInv, StartInv, Numbers, Command
<1> QED BY <1>1, <1>2 DEF SettleInv

(* A request is made, an expiry begins, a signal arrives.                  *)
LEMMA SettleRequests ==
    ASSUME SessInv, SettleInv,
           \/ \E t \in Turns : SubmitTurn(t) \/ ResolveApproval(t)
           \/ \E k \in {"interrupt", "stop", "resume"} : LifecycleCommand(k)
           \/ \E target \in {"active", "detached"} : Attach(target)
           \/ FindExpired \/ TakeNumber
           \/ \E c \in open : Signal(c)
           \/ UNCHANGED vars
    PROVE  SettleInv'
<1>1. UNCHANGED <<runtime, log, outbox, wire, fault>> /\ open \subseteq open'
    BY DEF SubmitTurn, ResolveApproval, LifecycleCommand, Requested, Attach, FindExpired,
           TakeNumber, Signal, vars, coreVars, nodeVars
<1>2. /\ node'.seq = node.seq /\ node'.turn = node.turn /\ node'.activity = node.activity
      /\ node'.state = node.state
    <2>1. CASE \E c \in open : Signal(c)
        <3>1. PICK n : n = [node EXCEPT !.cut = TRUE]
            OBVIOUS
        <3>2. node' = n
            BY <2>1, <3>1 DEF Signal
        <3>3. /\ n.state = node.state /\ n.seq = node.seq /\ n.turn = node.turn
              /\ n.activity = node.activity
            BY <3>1 DEF SessInv, NodeFits
        <3> QED BY <3>2, <3>3
    <2>2. CASE ~\E c \in open : Signal(c)
        BY <2>2 DEF SubmitTurn, ResolveApproval, LifecycleCommand, Attach, FindExpired,
                    TakeNumber, vars, nodeVars
    <2> QED BY <2>1, <2>2
<1> QED BY <1>1, <1>2, SettleRests

-----------------------------------------------------------------------------
(* Core stores an event, or has it.                                        *)

(* The last event of the log, and no other, decides what Core shows.       *)
LEMMA Followed ==
    ASSUME SessType, HasLast, FollowInv, NEW e \in EventRecord, accept_node_event(e)
    PROVE  /\ FollowInv' /\ log' \in Seq(EventRecord)
           /\ Range(log)' = Range(log) \cup {e}
           /\ e \in Range(log) => log' = log
           /\ e \notin Range(log) => log' # <<>> /\ log'[Len(log')] = e
<1>1. CASE e \in Range(log)
    <2>1. log' = log /\ runtime' = runtime
        BY <1>1 DEF accept_node_event, Seen, coreVars
    <2>2. FollowInv'
        BY <2>1 DEF FollowInv, Numbers
    <2> QED BY <1>1, <2>1, <2>2 DEF SessType
<1>2. CASE e \notin Range(log)
    <2>1. log \in Seq(EventRecord) /\ log' = Append(log, e) /\ Project(e)
        BY <1>2 DEF SessType, accept_node_event, Seen
    <2>2. PICK l \in Seq(EventRecord) : l = log'
        BY <2>1, RangeAppend
    <2>3. /\ Range(l) = Range(log) \cup {e} /\ Len(l) = Len(log) + 1 /\ l[Len(l)] = e
          /\ DOMAIN l = DOMAIN log \cup {Len(log) + 1} /\ \A i \in DOMAIN log : l[i] = log[i]
        BY <2>1, <2>2, RangeAppend
    <2>4. l # <<>>
        BY <2>1, <2>3, RangeOf, EmptySeq
    <2>5. \A i \in DOMAIN log : log[i].seq \in Nat
        <3>1. \A i \in DOMAIN log : log[i] \in EventRecord
            BY <2>1, RangeOf
        <3> QED BY <3>1 DEF EventRecord
    <2>6. Numbers' = Numbers \cup {e.seq} /\ Numbers \subseteq Nat /\ e.seq \in Nat
        <3>1. Numbers' = {l[i].seq : i \in DOMAIN l}
            BY <2>2 DEF Numbers
        <3>2. l[Len(log) + 1] = e
            BY <2>3
        <3>3. {l[i].seq : i \in DOMAIN l} = Numbers \cup {e.seq}
            BY <2>3, <3>2 DEF Numbers
        <3> QED BY <2>5, <3>1, <3>3 DEF Numbers, EventRecord
    <2>7. LastNumber \in Nat /\ \A n \in Numbers : n <= LastNumber
        <3>1. PICK m \in Numbers \cup {0} : \A n \in Numbers : n <= m
            BY DEF HasLast
        <3>2. m \in Numbers \cup {0} /\ \A n \in Numbers \cup {0} : m >= n
            BY <2>6, <3>1
        <3>3. LastNumber \in Numbers \cup {0} /\ \A n \in Numbers \cup {0} : LastNumber >= n
            BY <3>2 DEF LastNumber, Max
        <3> QED BY <2>6, <3>3
    <2>8. RuntimeOf(e.kind) # "none" =>
             runtime' = RuntimeOf(e.kind) \/ (runtime' = "stale" /\ e.seq - 1 \notin Numbers')
        <3>1. CASE e.seq > LastNumber + 1
            <4>1. runtime' = "stale"
                BY <2>1, <3>1 DEF Project
            <4>2. e.seq - 1 \notin Numbers'
                BY <2>6, <2>7, <3>1
            <4> QED BY <4>1, <4>2
        <3>2. CASE ~(e.seq > LastNumber + 1)
            BY <2>1, <3>2 DEF Project
        <3> QED BY <3>1, <3>2
    <2>9. FollowInv'
        <3> SUFFICES ASSUME NEW f \in EventRecord, log' # <<>>, f = log'[Len(log')],
                            RuntimeOf(f.kind) # "none"
                     PROVE  runtime' = RuntimeOf(f.kind) \/ (runtime' = "stale" /\ f.seq - 1 \notin Numbers')
            BY DEF FollowInv
        <3>1. f = e
            BY <2>2, <2>3
        <3> QED BY <2>8, <3>1
    <2> QED BY <1>2, <2>2, <2>3, <2>4, <2>9
<1> QED BY <1>1, <1>2

(* Core expires the runtime.                                               *)
LEMMA SettleExpire == ASSUME SessInv, SettleInv, Expire PROVE SettleInv'
<1>0. /\ SessType /\ HasLast /\ FollowInv /\ MadeInv /\ StartInv /\ CoverInv /\ LastInv
      /\ open' = open /\ node' = node /\ outbox' = outbox /\ wire' = wire /\ fault' = fault
    BY DEF SessInv, SettleInv, Expire, nodeVars
<1>1. PICK x : x = Event(expiry.seq, "Expired", NoTurn)
    OBVIOUS
<1>2. x \in EventRecord /\ x.kind = "Expired"
    <2>1. expiry.seq \in Nat /\ "Expired" \in EventKinds
        BY <1>0 DEF SessType, EventKinds
    <2> QED BY <1>1, <2>1, EventFields
<1>3. accept_node_event(x) \/ UNCHANGED coreVars
    BY <1>1 DEF Expire
<1>4. CASE accept_node_event(x)
    <2>1. /\ FollowInv' /\ log' \in Seq(EventRecord)
          /\ Range(log)' = Range(log) \cup {x}
          /\ x \in Range(log) => log' = log
          /\ x \notin Range(log) => log' # <<>> /\ log'[Len(log')] = x
        BY <1>0, <1>2, <1>4, Followed
    <2>2. MadeInv'
        BY <1>0, <1>2, <2>1 DEF MadeInv
    <2>3. StartInv' /\ CoverInv'
        BY <1>0, <2>1 DEF StartInv, CoverInv, Command
    <2>4. LastInv'
        <3> SUFFICES ASSUME ~fault, node.turn = NoTurn, node.seq # 0
                     PROVE  \E e \in EventRecord :
                              /\ Tells(e, node.state)
                              /\ \/ Underway(e, Range(log)', outbox, wire)
                                 \/ Arrived(e, log', outbox, Pending(wire))
            BY <1>0 DEF LastInv
        <3>1. PICK e \in EventRecord :
                 /\ Tells(e, node.state)
                 /\ Underway(e, Range(log), outbox, wire) \/ Arrived(e, log, outbox, Pending(wire))
            BY <1>0 DEF LastInv
        <3>2. e # x
            BY <1>2, <3>1 DEF Tells
        <3>3. Underway(e, Range(log), outbox, wire) => Underway(e, Range(log)', outbox, wire)
            BY <2>1, <3>2 DEF Underway
        <3>4. Arrived(e, log, outbox, Pending(wire)) => Arrived(e, log', outbox, Pending(wire))
            <4>1. CASE x \in Range(log)
                BY <2>1, <4>1
            <4>2. CASE x \notin Range(log)
                <5>1. PICK M : M = Range(log)'
                    OBVIOUS
                <5>2. Range(log) \subseteq M /\ Range(log') = M
                    BY <2>1, <5>1
                <5> QED BY <1>2, <2>1, <4>2, <5>2 DEF Arrived
            <4> QED BY <4>1, <4>2
        <3> QED BY <3>1, <3>3, <3>4
    <2> QED BY <2>1, <2>2, <2>3, <2>4 DEF SettleInv
<1>5. CASE UNCHANGED coreVars
    BY <1>0, <1>5, SettleRests DEF coreVars
<1> QED BY <1>3, <1>4, <1>5

-----------------------------------------------------------------------------
(* The last event of a queue.                                              *)

(* It stays the last behind a queue,                                       *)
LEMMA EndsWithConcat ==
    ASSUME NEW q \in Seq(EventRecord), NEW r \in Seq(EventRecord), NEW e, EndsWith(r, e),
           e \notin Range(q)
    PROVE  EndsWith(q \o r, e)
<1>1. PICK s \in Seq(EventRecord) : s = q \o r
    BY RangeConcat
<1>2. /\ Len(s) = Len(q) + Len(r)
      /\ \A i \in DOMAIN q : i \in DOMAIN s /\ s[i] = q[i]
      /\ \A i \in DOMAIN r : i + Len(q) \in DOMAIN s /\ s[i + Len(q)] = r[i]
      /\ \A i \in DOMAIN s : i \in DOMAIN q \/ \E j \in DOMAIN r : i = j + Len(q)
    BY <1>1, RangeConcat
<1>3. DOMAIN r = 1 .. Len(r) /\ DOMAIN q = 1 .. Len(q) /\ Len(r) \in Nat /\ Len(q) \in Nat
      /\ Len(r) \in DOMAIN r /\ (\A i \in DOMAIN q : q[i] \in Range(q)) /\ r # <<>>
    BY RangeOf DEF EndsWith
<1>4. s # <<>>
    BY <1>2, <1>3, EmptySeq
<1>5. \A i \in DOMAIN s : s[i] = e <=> i = Len(s)
    <2> SUFFICES ASSUME NEW i \in DOMAIN s PROVE s[i] = e <=> i = Len(s)
        OBVIOUS
    <2>1. CASE i \in DOMAIN q
        <3>1. s[i] \in Range(q) /\ i # Len(s)
            BY <1>2, <1>3, <2>1
        <3> QED BY <3>1
    <2>2. ASSUME NEW j \in DOMAIN r, i = j + Len(q) PROVE s[i] = e <=> i = Len(s)
        <3>1. s[i] = r[j]
            BY <1>2, <2>2
        <3>2. /\ Len(s) = Len(q) + Len(r) /\ j \in Nat /\ i = j + Len(q)
              /\ Len(q) \in Nat /\ Len(r) \in Nat
            BY <1>2, <1>3, <2>2
        <3>3. i = Len(s) <=> j = Len(r)
            BY <3>2
        <3> QED BY <3>1, <3>3 DEF EndsWith
    <2> QED BY <1>2, <2>1, <2>2
<1> QED BY <1>1, <1>4, <1>5 DEF EndsWith

(* when the first is taken out,                                            *)
LEMMA EndsWithTail ==
    ASSUME NEW q \in Seq(EventRecord), NEW e, EndsWith(q, e)
    PROVE  /\ q[1] # e => EndsWith(Tail(q), e)
           /\ q[1] = e => Tail(q) = <<>>
<1>1. q # <<>>
    BY DEF EndsWith
<1>2. PICK r \in Seq(EventRecord) : r = Tail(q)
    BY <1>1, RangeTail
<1>3. /\ Len(r) = Len(q) - 1 /\ \A i \in DOMAIN r : i + 1 \in DOMAIN q /\ r[i] = q[i + 1]
      /\ DOMAIN r = 1 .. Len(r) /\ DOMAIN q = 1 .. Len(q) /\ Len(r) \in Nat /\ Len(q) \in Nat
      /\ 1 \in DOMAIN q
    BY <1>1, <1>2, RangeTail, RangeOf
<1>4. ASSUME q[1] # e PROVE EndsWith(r, e)
    <2>1. Len(q) # 1
        BY <1>3, <1>4 DEF EndsWith
    <2>2. r # <<>>
        BY <1>3, <2>1, EmptySeq
    <2>3. \A i \in DOMAIN r : r[i] = e <=> i = Len(r)
        BY <1>3 DEF EndsWith
    <2> QED BY <2>2, <2>3 DEF EndsWith
<1>5. ASSUME q[1] = e PROVE r = <<>>
    <2>1. Len(q) = 1
        BY <1>3, <1>5 DEF EndsWith
    <2> QED BY <1>3, <2>1, EmptySeq
<1> QED BY <1>2, <1>4, <1>5

(* and when any others are.                                                *)
LEMMA EndsWithWithout ==
    ASSUME NEW q \in Seq(EventRecord), NEW e, EndsWith(q, e), NEW D, e \notin D
    PROVE  EndsWith(Without(q, D), e)
<1>1. PICK r \in Seq(EventRecord) : r = Without(q, D)
    BY WithoutKeeps
<1>2. PICK place \in [DOMAIN r -> DOMAIN q] :
        /\ \A n \in DOMAIN r : r[n] = q[place[n]] /\ q[place[n]] \notin D
        /\ \A m, n \in DOMAIN r : m < n => place[m] < place[n]
        /\ \A i \in DOMAIN q : q[i] \notin D => \E n \in DOMAIN r : place[n] = i
    BY <1>1, WithoutKeeps
<1>3. DOMAIN r = 1 .. Len(r) /\ DOMAIN q = 1 .. Len(q) /\ Len(r) \in Nat /\ Len(q) \in Nat
      /\ Len(q) \in DOMAIN q /\ q[Len(q)] = e
    BY RangeOf DEF EndsWith
<1>4. PICK k \in DOMAIN r : place[k] = Len(q)
    BY <1>2, <1>3
<1>5. k = Len(r)
    <2> SUFFICES ASSUME k # Len(r) PROVE FALSE
        OBVIOUS
    <2>1. Len(r) \in DOMAIN r /\ k < Len(r)
        BY <1>3
    <2>2. place[k] < place[Len(r)] /\ place[Len(r)] \in DOMAIN q
        BY <1>2, <2>1
    <2> QED BY <1>3, <1>4, <2>2
<1>6. \A i \in DOMAIN r : r[i] = e => i = Len(r)
    <2> SUFFICES ASSUME NEW i \in DOMAIN r, r[i] = e PROVE i = Len(r)
        OBVIOUS
    <2>1. place[i] = Len(q) /\ place[i] \in Nat
        BY <1>2, <1>3 DEF EndsWith
    <2>2. ~(i < k) /\ ~(k < i)
        BY <1>2, <1>3, <1>4, <2>1
    <2> QED BY <1>3, <1>5, <2>2
<1>7. r[Len(r)] = e /\ r # <<>>
    BY <1>2, <1>3, <1>4, <1>5, RangeShort
<1> QED BY <1>1, <1>6, <1>7 DEF EndsWith

-----------------------------------------------------------------------------
(* Events on their way to Core.                                            *)

(* Event e is the last of the last batch of w, and in no other place.      *)
ComesLast(e, w) ==
    /\ w # <<>> /\ EndsWith(w[Len(w)].rest, e)
    /\ \A p \in DOMAIN w : p # Len(w) => e \notin Range(w[p].rest)

(* The events of batches are those of each.                                *)
LEMMA PendingOf ==
    ASSUME NEW w
    PROVE  \A x : x \in Pending(w) <=> \E p \in DOMAIN w : x \in Range(w[p].rest)
<1>1. Range(w) = {w[p] : p \in DOMAIN w}
    BY DEF Range
<1> QED BY <1>1 DEF Pending

(* A new connection brings what the outbox holds, and nothing else.        *)
LEMMA ReplayBrings ==
    ASSUME SessType, Replay
    PROVE  /\ Pending(wire)' = Range(outbox) /\ outbox' = outbox /\ node.turn = NoTurn
           /\ \A e : EndsWith(outbox, e) => ComesLast(e, wire')
<1>1. /\ wire' \in Seq(BatchRecord) /\ outbox' = outbox
      /\ \A w \in Range(wire)' : w.rest = outbox /\ w.done = {} /\ w.rest # <<>>
      /\ outbox # <<>> => /\ wire' # <<>> /\ Len(wire') = 1 /\ DOMAIN wire' = {1}
                          /\ wire'[1].rest = outbox
    BY Replayed
<1>2. PICK v \in Seq(BatchRecord) : v = wire'
    BY <1>1
<1>3. CASE outbox = <<>>
    <2>1. Range(outbox) = {} /\ Range(v) = {}
        BY <1>1, <1>2, <1>3, RangeShort
    <2>2. Pending(v) = {}
        BY <2>1 DEF Pending
    <2> QED BY <1>1, <1>2, <1>3, <2>1, <2>2 DEF EndsWith, Replay
<1>4. CASE outbox # <<>>
    <2>1. v # <<>> /\ Len(v) = 1 /\ DOMAIN v = {1} /\ v[1].rest = outbox
        BY <1>1, <1>2, <1>4
    <2>2. Range(v) = {v[1]}
        BY <2>1 DEF Range
    <2>3. Pending(v) = Range(outbox)
        BY <2>1, <2>2 DEF Pending
    <2>4. \A e : EndsWith(outbox, e) => ComesLast(e, v)
        BY <2>1 DEF ComesLast
    <2> QED BY <1>1, <1>2, <2>3, <2>4 DEF Replay
<1> QED BY <1>3, <1>4

(* Events are dropped, or sent again.                                      *)
LEMMA SettleWire == ASSUME SessInv, SettleInv, DropBatch \/ Reconnect PROVE SettleInv'
<1>0. /\ SessType /\ FollowInv /\ MadeInv /\ StartInv /\ CoverInv /\ LastInv
      /\ open' = open /\ node' = node /\ outbox' = outbox
      /\ log' = log /\ runtime' = runtime
    BY DEF SessInv, SettleInv, DropBatch, Reconnect, Replay, coreVars
<1>1. FollowInv' /\ StartInv'
    BY <1>0 DEF FollowInv, StartInv, Numbers, Command
<1>2. CASE DropBatch
    <2>1. fault' /\ wire' = Tail(wire) /\ wire \in Seq(BatchRecord) /\ wire # <<>>
        BY <1>0, <1>2 DEF DropBatch, SessType
    <2>2. Range(wire') \subseteq Range(wire)
        BY <2>1, RangeTail
    <2>3. Pending(wire)' \subseteq Pending(wire)
        BY <2>2 DEF Pending
    <2>4. MadeInv'
        BY <1>0, <2>3 DEF MadeInv
    <2> QED BY <1>1, <2>1, <2>4 DEF SettleInv, CoverInv, LastInv
<1>3. CASE Reconnect
    <2>1. /\ Pending(wire)' = Range(outbox) /\ fault' = fault
          /\ \A e : EndsWith(outbox, e) => ComesLast(e, wire')
        BY <1>0, <1>3, ReplayBrings DEF Reconnect
    <2>2. MadeInv' /\ CoverInv'
        BY <1>0, <2>1 DEF MadeInv, CoverInv
    <2>3. LastInv'
        <3> SUFFICES ASSUME ~fault, node.turn = NoTurn, node.seq # 0
                     PROVE  \E e \in EventRecord :
                              /\ Tells(e, node.state)
                              /\ \/ Underway(e, Range(log), outbox, wire')
                                 \/ Arrived(e, log, outbox, Pending(wire)')
            BY <1>0, <2>1 DEF LastInv
        <3>1. PICK e \in EventRecord :
                 /\ Tells(e, node.state)
                 /\ Underway(e, Range(log), outbox, wire) \/ Arrived(e, log, outbox, Pending(wire))
            BY <1>0 DEF LastInv
        <3>2. Underway(e, Range(log), outbox, wire) => Underway(e, Range(log), outbox, wire')
            BY <2>1 DEF Underway, ComesLast
        <3>3. Arrived(e, log, outbox, Pending(wire)) => Arrived(e, log, outbox, Pending(wire)')
            BY <2>1 DEF Arrived
        <3> QED BY <3>1, <3>2, <3>3
    <2> QED BY <1>1, <2>2, <2>3 DEF SettleInv
<1> QED BY <1>2, <1>3

(* What is on the way after an event has arrived: the rest, or the outbox  *)
(* again.  Its last event is still the last, unless it is the one that     *)
(* arrived.                                                                *)
LEMMA Shifted ==
    ASSUME SessInv, Deliver
    PROVE  /\ Head1 \in Pending(wire) /\ Pending(wire)' \subseteq Pending(wire) \cup Range(outbox)
           /\ \/ Pending(wire) \subseteq Pending(wire)' \cup {Head1}
              \/ Range(outbox) \subseteq Pending(wire)'
           /\ outbox' \in Seq(EventRecord) /\ Range(outbox)' \subseteq Range(outbox)
           /\ \A e : EndsWith(outbox, e) /\ ComesLast(e, wire) =>
                /\ e = Head1 => Pending(wire) = {e}
                /\ e # Head1 /\ e \notin Range(log) => EndsWith(outbox', e) /\ ComesLast(e, wire')
<1>0. /\ SessType /\ TurnInv /\ wire # <<>> /\ wire \in Seq(BatchRecord)
      /\ outbox \in Seq(EventRecord)
    BY DEF SessInv, SessType, Deliver
<1>1. PICK w \in Range(wire) : w = wire[1]
    BY <1>0, Queued
<1>2. PICK r \in Seq(EventRecord) : r = Tail(w.rest)
    BY <1>0, Queued, RangeTail
<1>3. PICK h : h = Head1
    OBVIOUS
<1>4. /\ w \in BatchRecord /\ w.rest \in Seq(EventRecord) /\ w.rest # <<>> /\ w.rest[1] = h
      /\ Range(w.rest) = {h} \cup Range(r) /\ w.done \subseteq Range(log)
    BY <1>0, <1>1, <1>2, <1>3, Queued, RangeTail DEF Head1, TurnInv, Grounds
<1>5. PICK b \in BatchRecord : b = [rest |-> r, done |-> w.done \cup {h}]
    <2>1. h \in EventRecord
        BY <1>4, RangeOf
    <2> QED BY <1>4, <2>1 DEF BatchRecord
<1>6. b.rest = r /\ b.done = w.done \cup {h}
    BY <1>5
<1>7. DOMAIN wire = 1 .. Len(wire) /\ Len(wire) \in Nat /\ 1 \in DOMAIN wire /\ Len(wire) \in DOMAIN wire
      /\ \A p \in DOMAIN wire : wire[p] \in Range(wire)
    BY <1>0, RangeOf
<1>8. h \in Pending(wire)
    BY <1>4 DEF Pending
<1>9. ASSUME NEW e, ComesLast(e, wire)
      PROVE  /\ h = e <=> Len(wire) = 1 /\ r = <<>>
             /\ h = e => Pending(wire) = {e}
             /\ Len(wire) = 1 /\ h # e => EndsWith(r, e)
             /\ Len(wire) # 1 => e \notin Range(w.rest)
    <2>1. Len(wire) # 1 => e \notin Range(w.rest)
        BY <1>1, <1>7, <1>9 DEF ComesLast
    <2>2. Len(wire) = 1 => EndsWith(w.rest, e)
        BY <1>1, <1>9 DEF ComesLast
    <2>3. Len(wire) = 1 => (h # e => EndsWith(r, e)) /\ (h = e => r = <<>>)
        BY <1>2, <1>4, <2>2, EndsWithTail
    <2>4. ~EndsWith(<<>>, e)
        BY DEF EndsWith
    <2>5. h = e => Len(wire) = 1
        BY <1>4, <2>1
    <2>6. ASSUME h = e PROVE Pending(wire) = {e}
        <3>0. Len(wire) = 1 /\ r = <<>>
            BY <2>3, <2>5, <2>6
        <3>1. DOMAIN wire = {1} /\ Range(r) = {}
            BY <1>7, <3>0, RangeShort
        <3>2. Range(wire) = {w}
            BY <1>1, <3>1 DEF Range
        <3> QED BY <1>4, <2>6, <3>1, <3>2 DEF Pending
    <2> QED BY <2>1, <2>3, <2>4, <2>5, <2>6
<1>10. CASE r # <<>> /\ ~Replay
    <2>1. wire' = [wire EXCEPT ![1] = b] /\ outbox' = outbox
        BY <1>1, <1>2, <1>3, <1>5, <1>10 DEF Deliver
    <2>8. PICK x \in Seq(BatchRecord) : x = wire /\ 1 \in 1 .. Len(x)
        BY <1>0, <1>7
    <2>9. [x EXCEPT ![1] = b] \in Seq(BatchRecord)
        BY <2>8, ExceptSeq
    <2>2. PICK v \in Seq(BatchRecord) : v = wire'
        BY <2>1, <2>8, <2>9
    <2>3. /\ DOMAIN v = DOMAIN wire /\ Len(v) = Len(wire) /\ v[1] = b
          /\ \A p \in DOMAIN v : p # 1 => v[p] = wire[p]
        BY <1>0, <1>7, <2>1, <2>2
    <2>4. Pending(v) \subseteq Pending(wire)
        <3> SUFFICES ASSUME NEW p \in DOMAIN v PROVE Range(v[p].rest) \subseteq Pending(wire)
            BY PendingOf
        <3>1. CASE p = 1
            BY <1>4, <1>6, <2>3, <3>1 DEF Pending
        <3>2. CASE p # 1
            BY <1>7, <2>3, <3>2 DEF Pending
        <3> QED BY <3>1, <3>2
    <2>5. Pending(wire) \subseteq Pending(v) \cup {h}
        <3>0. \A p \in DOMAIN v : v[p] \in Range(v)
            BY DEF Range
        <3> SUFFICES ASSUME NEW p \in DOMAIN wire
                     PROVE  Range(wire[p].rest) \subseteq Pending(v) \cup {h}
            BY PendingOf
        <3>1. CASE p = 1
            BY <1>1, <1>4, <1>6, <2>3, <3>0, <3>1 DEF Pending
        <3>2. CASE p # 1
            BY <2>3, <3>0, <3>2 DEF Pending
        <3> QED BY <3>1, <3>2
    <2>6. ASSUME NEW e, ComesLast(e, wire) PROVE e # h /\ ComesLast(e, v)
        <3>1. e # h
            BY <1>9, <1>10, <2>6
        <3>2. v # <<>>
            BY <1>7, <2>3, RangeShort
        <3>3. EndsWith(v[Len(v)].rest, e)
            <4>1. CASE Len(wire) = 1
                BY <1>6, <1>9, <2>3, <2>6, <3>1, <4>1
            <4>2. CASE Len(wire) # 1
                BY <1>7, <2>3, <2>6, <4>2 DEF ComesLast
            <4> QED BY <4>1, <4>2
        <3>4. ASSUME NEW p \in DOMAIN v, p # Len(v) PROVE e \notin Range(v[p].rest)
            <4>1. CASE p = 1
                BY <1>4, <1>6, <1>9, <2>3, <2>6, <3>4, <4>1
            <4>2. CASE p # 1
                BY <2>3, <2>6, <3>4, <4>2 DEF ComesLast
            <4> QED BY <4>1, <4>2
        <3> QED BY <3>1, <3>2, <3>3, <3>4 DEF ComesLast
    <2> QED BY <1>0, <1>3, <1>8, <2>1, <2>2, <2>4, <2>5, <2>6
<1>11. CASE r = <<>> /\ ~Replay
    <2>1. wire' = Tail(wire) /\ outbox' = Without(outbox, b.done)
        BY <1>1, <1>2, <1>3, <1>5, <1>11 DEF Deliver
    <2>2. PICK v \in Seq(BatchRecord) : v = wire'
        BY <1>0, <2>1, RangeTail
    <2>3. /\ Len(v) = Len(wire) - 1 /\ \A p \in DOMAIN v : p + 1 \in DOMAIN wire /\ v[p] = wire[p + 1]
          /\ Range(wire) = {w} \cup Range(v) /\ DOMAIN v = 1 .. Len(v) /\ Len(v) \in Nat
        BY <1>0, <1>1, <2>1, <2>2, RangeTail, RangeOf
    <2>4. Pending(v) \subseteq Pending(wire) /\ Pending(wire) = Pending(v) \cup {h}
        <3>1. Range(w.rest) = {h}
            BY <1>4, <1>11, RangeShort
        <3> QED BY <2>3, <3>1 DEF Pending
    <2>5. Without(outbox, b.done) \in Seq(EventRecord) /\ Range(outbox)' \subseteq Range(outbox)
        BY <1>0, <2>1, WithoutRange
    <2>6. ASSUME NEW e, EndsWith(outbox, e), ComesLast(e, wire), e # h, e \notin Range(log)
          PROVE  EndsWith(outbox', e) /\ ComesLast(e, v)
        <3>1. e \notin b.done
            BY <1>4, <1>6, <2>6
        <3>2. EndsWith(outbox', e)
            BY <1>0, <2>1, <2>6, <3>1, EndsWithWithout
        <3>3. Len(wire) # 1
            BY <1>9, <1>11, <2>6
        <3>4. Len(v) \in DOMAIN v /\ Len(v) + 1 = Len(wire)
            BY <1>7, <2>3, <3>3
        <3>5. v # <<>> /\ EndsWith(v[Len(v)].rest, e)
            BY <2>3, <2>6, <3>4, RangeShort DEF ComesLast
        <3>6. ASSUME NEW p \in DOMAIN v, p # Len(v) PROVE e \notin Range(v[p].rest)
            <4>1. p + 1 # Len(wire)
                BY <2>3, <3>4, <3>6
            <4> QED BY <2>3, <2>6, <4>1 DEF ComesLast
        <3> QED BY <3>2, <3>5, <3>6 DEF ComesLast
    <2> QED BY <1>3, <1>8, <1>9, <2>1, <2>2, <2>4, <2>5, <2>6
<1>12. CASE Replay
    BY <1>0, <1>3, <1>8, <1>9, <1>12, ReplayBrings
<1> QED BY <1>10, <1>11, <1>12

(* An event arrives.                                                       *)
LEMMA SettleDeliver == ASSUME SessInv, SettleInv, Deliver PROVE SettleInv'
<1>0. /\ SessType /\ HasLast /\ TurnInv /\ wire # <<>> /\ accept_node_event(Head1)
      /\ FollowInv /\ MadeInv /\ StartInv /\ CoverInv /\ LastInv
      /\ open' = open /\ node' = node /\ fault' = fault
    BY DEF SessInv, SettleInv, Deliver
<1>1. PICK h \in EventRecord : h = Head1
    BY <1>0, HeadStorable
<1>2. /\ FollowInv' /\ log' \in Seq(EventRecord)
      /\ Range(log)' = Range(log) \cup {h}
      /\ h \in Range(log) => log' = log
      /\ h \notin Range(log) => log' # <<>> /\ log'[Len(log')] = h
    BY <1>0, <1>1, Followed
<1>3. /\ h \in Pending(wire) /\ Pending(wire)' \subseteq Pending(wire) \cup Range(outbox)
      /\ \/ Pending(wire) \subseteq Pending(wire)' \cup {h}
         \/ Range(outbox) \subseteq Pending(wire)'
      /\ outbox' \in Seq(EventRecord) /\ Range(outbox)' \subseteq Range(outbox)
      /\ \A e : EndsWith(outbox, e) /\ ComesLast(e, wire) =>
           /\ e = h => Pending(wire) = {e}
           /\ e # h /\ e \notin Range(log) => EndsWith(outbox', e) /\ ComesLast(e, wire')
    BY <1>1, Shifted
<1>4. MadeInv'
    BY <1>0, <1>2, <1>3 DEF MadeInv
<1>5. StartInv'
    BY <1>0 DEF StartInv, Command
<1>6. CoverInv'
    BY <1>0, <1>2, <1>3 DEF CoverInv
<1>7. LastInv'
    <2> SUFFICES ASSUME ~fault, node.turn = NoTurn, node.seq # 0
                 PROVE  \E e \in EventRecord :
                          /\ Tells(e, node.state)
                          /\ \/ Underway(e, Range(log)', outbox', wire')
                             \/ Arrived(e, log', outbox', Pending(wire)')
        BY <1>0 DEF LastInv
    <2>1. PICK e \in EventRecord :
             /\ Tells(e, node.state)
             /\ Underway(e, Range(log), outbox, wire) \/ Arrived(e, log, outbox, Pending(wire))
        BY <1>0 DEF LastInv
    <2>2. PICK M : M = Range(log)' /\ M = Range(log')
        OBVIOUS
    <2>3. CASE Underway(e, Range(log), outbox, wire) /\ e # h
        <3>1. e \notin Range(log) /\ EndsWith(outbox', e) /\ ComesLast(e, wire')
            BY <1>3, <2>3 DEF Underway, ComesLast
        <3>2. e \notin Range(log)'
            BY <1>2, <2>3, <3>1
        <3>3. Underway(e, Range(log)', outbox', wire')
            BY <3>1, <3>2 DEF Underway, ComesLast
        <3> QED BY <2>1, <3>3
    <2>4. CASE Underway(e, Range(log), outbox, wire) /\ e = h
        <3>1. e \notin Range(log) /\ Pending(wire) = {e}
            BY <1>3, <2>4 DEF Underway, ComesLast
        <3>2. Range(outbox) \subseteq M /\ Pending(wire) \subseteq M
            BY <1>0, <1>2, <2>2, <2>4, <3>1 DEF CoverInv
        <3>3. Range(outbox') \subseteq M /\ Pending(wire)' \subseteq M
            BY <1>3, <3>2
        <3>4. Arrived(e, log', outbox', Pending(wire)')
            BY <1>2, <2>2, <2>4, <3>1, <3>3 DEF Arrived
        <3> QED BY <2>1, <3>4
    <2>5. CASE Arrived(e, log, outbox, Pending(wire))
        <3>1. h \in Range(log) /\ log' = log
            BY <1>2, <1>3, <2>5 DEF Arrived
        <3>2. Range(outbox') \subseteq Range(log) /\ Pending(wire)' \subseteq Range(log)
            BY <1>3, <2>5 DEF Arrived
        <3>3. Arrived(e, log', outbox', Pending(wire)')
            BY <2>5, <3>1, <3>2 DEF Arrived
        <3> QED BY <2>1, <3>3
    <2> QED BY <2>1, <2>3, <2>4, <2>5
<1> QED BY <1>2, <1>4, <1>5, <1>6, <1>7 DEF SettleInv

-----------------------------------------------------------------------------
(* What a turn says while it runs.                                         *)

(* More is on the way; the Node counts up and runs a turn.                 *)
LEMMA SettleTurn ==
    ASSUME SessInv, SettleInv, UNCHANGED <<runtime, log, outbox, open, fault>>,
           NEW N, Pending(wire)' \subseteq Pending(wire) \cup N, Pending(wire) \subseteq Pending(wire)',
           node'.turn # NoTurn, node'.seq \in Nat, node'.seq > node.seq,
           Range(node'.activity) \subseteq Range(node.activity) \cup N,
           \A n \in N : MadeBy(n, node'.seq)
    PROVE  SettleInv'
<1>0. node.seq \in Nat /\ SessType /\ FollowInv /\ MadeInv /\ CoverInv
    BY DEF SessInv, NodeFits, SettleInv
<1>1. \A e : e.seq \in Nat /\ MadeBy(e, node.seq) => MadeBy(e, node'.seq)
    BY <1>0 DEF MadeBy
<1>2. \A e \in EventRecord : e.seq \in Nat
    BY DEF EventRecord
<1>3. Range(log) \subseteq EventRecord /\ Pending(wire) \cup Range(outbox) \subseteq EventRecord
      /\ Range(node.activity) \subseteq EventRecord
    <2>1. Range(log) \subseteq EventRecord /\ Pending(wire) \cup Range(outbox) \subseteq EventRecord
        <3>1. Pending(wire) \subseteq Sent /\ Range(outbox) \subseteq Sent /\ Range(log) \subseteq Sent
            BY DEF Pending, Sent
        <3> QED BY <1>0, <3>1, Queued
    <2>2. Range(node.activity) \subseteq EventRecord
        <3>1. CASE node.activity = <<>>
            BY <3>1, RangeShort
        <3>2. ASSUME NEW e \in EventRecord, node.activity = <<e>>
              PROVE  Range(node.activity) \subseteq EventRecord
            BY <3>2, RangeShort
        <3> QED BY <3>1, <3>2 DEF SessInv, NodeFits
    <2> QED BY <2>1, <2>2
<1>4. MadeInv'
    <2>1. \A e \in Range(log) : e.kind = "Expired" \/ MadeBy(e, node'.seq)
        BY <1>0, <1>1, <1>2, <1>3 DEF MadeInv
    <2>2. \A e \in Pending(wire) \cup Range(outbox) \cup Range(node.activity) \cup N : MadeBy(e, node'.seq)
        BY <1>0, <1>1, <1>2, <1>3 DEF MadeInv
    <2>3. PICK m : m = node'
        OBVIOUS
    <2>4. \A e \in Pending(wire)' \cup Range(outbox) \cup Range(m.activity) : MadeBy(e, m.seq)
        BY <2>2, <2>3
    <2> QED BY <2>1, <2>3, <2>4 DEF MadeInv
<1>5. FollowInv'
    BY <1>0 DEF FollowInv, Numbers
<1>6. StartInv'
    BY <1>0 DEF StartInv
<1>7. CoverInv'
    BY <1>0 DEF CoverInv
<1>8. LastInv'
    BY DEF LastInv
<1> QED BY <1>4, <1>5, <1>6, <1>7, <1>8 DEF SettleInv

(* What is added to a queue of batches.                                    *)
LEMMA PendingMore ==
    ASSUME NEW w \in Seq(BatchRecord), NEW v \in Seq(BatchRecord)
    PROVE  /\ Pending(w \o v) = Pending(w) \cup Pending(v)
           /\ \A b \in BatchRecord : Pending(Append(w, b)) = Pending(w) \cup Range(b.rest)
BY RangeConcat, RangeAppend DEF Pending

(* A line of the provider.                                                 *)
LEMMA SettleActivity == ASSUME SessInv, SettleInv, Activity PROVE SettleInv'
<1>0. /\ SessType /\ NodeFits /\ node.seq \in Nat /\ node.turn \in Turns
      /\ node.turn # NoTurn /\ wire \in Seq(BatchRecord)
    BY DEF Activity, SessInv, SessType, NodeFits
<1>1. PICK e : e = Event(node.seq + 1, "Activity", node.turn)
    OBVIOUS
<1>2. e \in EventRecord /\ e.kind = "Activity" /\ e.seq = node.seq + 1
    <2>1. node.seq + 1 \in Nat /\ "Activity" \in EventKinds
        BY <1>0 DEF EventKinds
    <2> QED BY <1>0, <1>1, <2>1, EventFields
<1>3. node' = [state |-> node.state, seq |-> node.seq + 1, turn |-> node.turn,
               activity |-> <<e>>, cut |-> node.cut]
    BY <1>0, <1>1, NodeCounts DEF Activity
<1>4. <<e>> \in Seq(EventRecord) /\ Range(<<e>>) = {e}
    BY <1>2, RangeShort
<1>5. PICK b \in BatchRecord : b = Batch(<<e>>)
    BY <1>4 DEF Batch, BatchRecord
<1>6. Range(b.rest) = {e}
    BY <1>4, <1>5 DEF Batch
<1>7. wire' \in {wire, Append(wire, b)}
    BY <1>1, <1>5 DEF Activity
<1>8. Pending(wire)' \subseteq Pending(wire) \cup {e} /\ Pending(wire) \subseteq Pending(wire)'
    <2>1. Pending(Append(wire, b)) = Pending(wire) \cup {e}
        BY <1>0, <1>6, PendingMore
    <2> QED BY <1>7, <2>1
<1>9. /\ node'.turn # NoTurn /\ node'.seq \in Nat /\ node'.seq > node.seq
      /\ Range(node'.activity) = {e} /\ MadeBy(e, node'.seq)
    BY <1>0, <1>2, <1>3, <1>4 DEF MadeBy
<1>10. UNCHANGED <<runtime, log, outbox, open, fault>>
    BY DEF Activity, coreVars
<1> QED BY <1>8, <1>9, <1>10, SettleTurn

(* A turn begins.                                                          *)
LEMMA SettleBegin ==
    ASSUME SessInv, SettleInv, NEW c \in open, BeginTurn(c) PROVE SettleInv'
<1>0. /\ SessType /\ NodeFits /\ node.seq \in Nat /\ c \in Commands /\ c.kind = "turn"
      /\ wire \in Seq(BatchRecord) /\ NoTurn \notin Turns
      /\ node.turn = NoTurn
    BY SessionAssumption DEF BeginTurn, SessInv, SessType, NodeFits
<1>1. PICK t \in Turns : c.of = t
    BY <1>0, CommandsDiffer
<1>2. /\ node' = [state |-> "running", seq |-> node.seq + 2, turn |-> t,
                  activity |-> node.activity, cut |-> node.cut]
      /\ \E live \in {<<>>, <<1>>, <<2>>, <<1, 2>>} :
            wire' = wire \o [i \in DOMAIN live |-> Batch(<<TurnHead(node.seq, t)[live[i]]>>)]
    BY <1>0, <1>1, NodeCounts DEF BeginTurn
<1>3. PICK head : head = TurnHead(node.seq, t) /\ OpensTurn(head, node.seq, t)
    BY <1>0, HeadOfTurn
<1>4. /\ head \in Seq(EventRecord) /\ DOMAIN head = {1, 2}
      /\ head[1].kind = "Running" /\ head[1].seq = node.seq + 1
      /\ head[2].kind = "TurnStarted" /\ head[2].seq = node.seq + 2
    BY <1>3 DEF OpensTurn
<1>5. \A n \in Range(head) : MadeBy(n, node.seq + 2)
    BY <1>0, <1>4 DEF Range, MadeBy
<1>6. PICK live \in {<<>>, <<1>>, <<2>>, <<1, 2>>} :
         wire' = wire \o [i \in DOMAIN live |-> Batch(<<head[live[i]]>>)]
    BY <1>2, <1>3
<1>7. live \in Seq({1, 2})
    <2>1. 1 \in {1, 2} /\ 2 \in {1, 2}
        OBVIOUS
    <2>2. <<>> \in Seq({1, 2}) /\ <<1>> \in Seq({1, 2}) /\ <<2>> \in Seq({1, 2})
          /\ <<1, 2>> \in Seq({1, 2})
        BY <2>1, RangeShort, OneOrTwo
    <2> QED BY <1>6, <2>2
<1>8. PICK new : new = [i \in DOMAIN live |-> Batch(<<head[live[i]]>>)]
    OBVIOUS
<1>9. ASSUME NEW i \in DOMAIN live
      PROVE  /\ Batch(<<head[live[i]]>>) \in BatchRecord
             /\ Range(Batch(<<head[live[i]]>>).rest) \subseteq Range(head)
    <2>1. live[i] \in {1, 2}
        BY <1>7
    <2>2. head[live[i]] \in EventRecord /\ head[live[i]] \in Range(head)
        BY <1>4, <2>1, RangeOf
    <2>3. <<head[live[i]]>> \in Seq(EventRecord) /\ Range(<<head[live[i]]>>) = {head[live[i]]}
        BY <2>2, RangeShort
    <2> QED BY <2>2, <2>3 DEF Batch, BatchRecord
<1>10. new \in Seq(BatchRecord) /\ DOMAIN new = DOMAIN live
    <2>1. DOMAIN live = 1 .. Len(live) /\ Len(live) \in Nat
        BY <1>7
    <2> QED BY <1>8, <1>9, <2>1
<1>11. Pending(new) \subseteq Range(head)
    BY <1>8, <1>9, <1>10, PendingOf
<1>12. Pending(wire)' = Pending(wire) \cup Pending(new)
    BY <1>0, <1>6, <1>8, <1>10, PendingMore
<1>13. /\ node'.turn # NoTurn /\ node'.seq = node.seq + 2 /\ node'.seq > node.seq
       /\ node'.activity = node.activity
    BY <1>0, <1>2
<1>14. UNCHANGED <<runtime, log, outbox, open, fault>>
    BY DEF BeginTurn, coreVars
<1>15. PICK N : N = Range(head)
    OBVIOUS
<1>16. /\ Pending(wire)' \subseteq Pending(wire) \cup N /\ Pending(wire) \subseteq Pending(wire)'
       /\ node'.seq \in Nat /\ Range(node'.activity) \subseteq Range(node.activity) \cup N
       /\ \A n \in N : MadeBy(n, node'.seq)
    BY <1>0, <1>5, <1>11, <1>12, <1>13, <1>15
<1> QED BY <1>13, <1>14, <1>16, SettleTurn

-----------------------------------------------------------------------------
(* What a run says when it is over.                                        *)

(* The events evs of a run have numbers up to their last one, which is new *)
(* and tells the state of the Node.                                        *)
RunTells(evs, n) ==
    /\ evs \in Seq(EventRecord) /\ evs # <<>>
    /\ \A i \in DOMAIN evs : evs[i].kind # "Expired"
    /\ \A i \in DOMAIN evs : i # Len(evs) => evs[i].seq < evs[Len(evs)].seq
    /\ n < evs[Len(evs)].seq
    /\ evs[Len(evs)].kind \in {"Ready", "Blocked", "Stopped", "TurnInterrupted", "Error"}

(* The Node's state is that of the last event.                             *)
LEMMA LastTells ==
    ASSUME NEW evs, NEW n, RunTells(evs, n)
    PROVE  /\ StateAfter(evs) = RuntimeOf(evs[Len(evs)].kind)
           /\ Tells(evs[Len(evs)], StateAfter(evs))
<1>0. /\ DOMAIN evs = 1 .. Len(evs) /\ Len(evs) \in Nat /\ Len(evs) \in DOMAIN evs
    BY RangeOf DEF RunTells
<1>1. PICK sets : sets = {i \in DOMAIN evs :
                             RuntimeOf(evs[i].kind) # "none" /\ evs[i].kind # "ApprovalRequested"}
    OBVIOUS
<1>2. /\ RuntimeOf(evs[Len(evs)].kind) # "none" /\ evs[Len(evs)].kind # "ApprovalRequested"
      /\ evs[Len(evs)].kind # "Expired"
    BY DEF RunTells, RuntimeOf
<1>3. Len(evs) \in sets /\ \A i \in sets : Len(evs) >= i /\ i \in Nat
    BY <1>0, <1>1, <1>2
<1>4. Max(sets) = Len(evs)
    <2>1. Max(sets) \in sets /\ \A i \in sets : Max(sets) >= i
        BY <1>3 DEF Max
    <2> QED BY <1>3, <2>1
<1>5. StateAfter(evs) = RuntimeOf(evs[Max(sets)].kind)
    BY <1>1 DEF StateAfter
<1> QED BY <1>2, <1>4, <1>5 DEF Tells

(* A run is over.                                                          *)
LEMMA FinishSettles ==
    ASSUME SessInv, SettleInv, NEW c, NEW evs, Finish(c, evs), RunTells(evs, node.seq)
    PROVE  SettleInv'
<1>0. /\ SessType /\ FollowInv /\ MadeInv /\ CoverInv /\ node.seq \in Nat
      /\ log' = log /\ runtime' = runtime /\ fault' = fault
      /\ outbox' = outbox \o evs /\ wire' = Append(wire, Batch(evs))
      /\ wire \in Seq(BatchRecord) /\ outbox \in Seq(EventRecord)
    BY DEF SessInv, SessType, SettleInv, NodeFits, Finish, coreVars
<1>1. /\ evs \in Seq(EventRecord) /\ evs # <<>>
      /\ DOMAIN evs = 1 .. Len(evs) /\ Len(evs) \in Nat /\ Len(evs) \in DOMAIN evs
      /\ \A i \in DOMAIN evs : evs[i] \in EventRecord
    BY RangeOf DEF RunTells
<1>2. PICK e \in EventRecord : e = evs[Len(evs)]
    BY <1>1
<1>3. /\ e.seq \in Nat /\ node.seq < e.seq /\ e.kind # "Expired"
      /\ \A i \in DOMAIN evs : evs[i].kind # "Expired" /\ evs[i].seq \in Nat
      /\ \A i \in DOMAIN evs : i # Len(evs) => evs[i].seq < e.seq
    <2>1. \A i \in DOMAIN evs : evs[i].seq \in Nat
        BY <1>1 DEF EventRecord
    <2> QED BY <1>1, <1>2, <2>1 DEF RunTells
<1>4. node' = [state |-> StateAfter(evs), seq |-> e.seq, turn |-> NoTurn,
               activity |-> <<>>, cut |-> FALSE]
    BY <1>2 DEF Finish
<1>5. EndsWith(evs, e) /\ \A x \in Range(evs) : MadeBy(x, e.seq)
    <2>1. \A i \in DOMAIN evs : evs[i] = e <=> i = Len(evs)
        BY <1>2, <1>3
    <2>2. \A i \in DOMAIN evs : MadeBy(evs[i], e.seq)
        BY <1>2, <1>3 DEF MadeBy
    <2> QED BY <1>1, <2>1, <2>2 DEF EndsWith, Range
<1>6. PICK b \in BatchRecord : b = Batch(evs)
    BY <1>1 DEF Batch, BatchRecord
<1>7. b.rest = evs
    BY <1>6 DEF Batch
<1>8. /\ Pending(wire)' = Pending(wire) \cup Range(evs)
      /\ Range(outbox)' = Range(outbox) \cup Range(evs)
    BY <1>0, <1>1, <1>6, <1>7, PendingMore, RangeConcat
<1>9. ASSUME NEW x \in EventRecord, MadeBy(x, node.seq) PROVE MadeBy(x, e.seq) /\ x # e
    <2>1. x.seq \in Nat
        BY DEF EventRecord
    <2> QED BY <1>0, <1>3, <1>9, <2>1 DEF MadeBy
<1>10. Range(log) \subseteq EventRecord /\ Pending(wire) \cup Range(outbox) \subseteq EventRecord
    <2>1. Pending(wire) \subseteq Sent /\ Range(outbox) \subseteq Sent /\ Range(log) \subseteq Sent
        BY DEF Pending, Sent
    <2> QED BY <1>0, <2>1, Queued
<1>11. /\ \A x \in Range(log) : x # e /\ (x.kind = "Expired" \/ MadeBy(x, e.seq))
       /\ \A x \in Pending(wire) \cup Range(outbox) : x # e /\ MadeBy(x, e.seq)
    <2>1. \A x \in Range(log) : x.kind = "Expired" \/ MadeBy(x, node.seq)
        BY <1>0 DEF MadeInv
    <2>2. \A x \in Pending(wire) \cup Range(outbox) : MadeBy(x, node.seq)
        BY <1>0 DEF MadeInv
    <2> QED BY <1>3, <1>9, <1>10, <2>1, <2>2
<1>12. MadeInv'
    <2>1. \A x \in Range(log)' : x.kind = "Expired" \/ MadeBy(x, e.seq)
        BY <1>0, <1>11
    <2>2. \A x \in Pending(wire)' \cup Range(outbox)' : MadeBy(x, e.seq)
        BY <1>5, <1>8, <1>11
    <2>3. node'.seq = e.seq /\ node'.activity = <<>> /\ Range(<<>>) = {}
        BY <1>4, RangeShort
    <2>4. PICK m : m = node'
        OBVIOUS
    <2>5. Range(m.activity) = {}
        BY <2>3, <2>4
    <2>6. \A x \in Pending(wire)' \cup Range(outbox)' \cup Range(m.activity) : MadeBy(x, m.seq)
        BY <2>2, <2>3, <2>4, <2>5
    <2> QED BY <2>1, <2>3, <2>4, <2>6 DEF MadeInv
<1>13. FollowInv'
    BY <1>0 DEF FollowInv, Numbers
<1>14. StartInv'
    BY <1>0, <1>3, <1>4 DEF StartInv
<1>15. CoverInv'
    BY <1>0, <1>8 DEF CoverInv
<1>16. LastInv'
    <2>1. Tells(e, node'.state)
        BY <1>2, <1>4, LastTells
    <2>2. e \notin Range(log)'
        BY <1>0, <1>11
    <2>3. EndsWith(outbox', e)
        BY <1>0, <1>1, <1>5, <1>11, EndsWithConcat
    <2>4. PICK v \in Seq(BatchRecord) : v = wire'
        BY <1>0, <1>6, RangeAppend
    <2>5. /\ Len(v) = Len(wire) + 1 /\ \A i \in DOMAIN wire : v[i] = wire[i]
          /\ v[Len(wire) + 1] = b /\ DOMAIN v = DOMAIN wire \cup {Len(wire) + 1}
        BY <1>0, <1>6, <2>4, RangeAppend
    <2>6. v # <<>> /\ EndsWith(v[Len(v)].rest, e)
        BY <1>5, <1>7, <2>5, RangeShort
    <2>7. ASSUME NEW p \in DOMAIN v, p # Len(v) PROVE e \notin Range(v[p].rest)
        <3>1. p \in DOMAIN wire /\ v[p] = wire[p]
            BY <2>5, <2>7
        <3>2. Range(wire[p].rest) \subseteq Pending(wire)
            BY <3>1, PendingOf
        <3> QED BY <1>11, <3>1, <3>2
    <2>8. Underway(e, Range(log)', outbox', wire')
        BY <2>2, <2>3, <2>4, <2>6, <2>7 DEF Underway
    <2> QED BY <2>1, <2>8 DEF LastInv
<1> QED BY <1>12, <1>13, <1>14, <1>15, <1>16 DEF SettleInv

(* Numbered events tell what the last kind says.                           *)
LEMMA NumberTells ==
    ASSUME NEW n \in Nat, NEW kinds \in Seq(EventKinds), kinds # <<>>,
           NEW t \in Turns \cup {NoTurn},
           \A i \in DOMAIN kinds : kinds[i] # "Expired",
           kinds[Len(kinds)] \in {"Ready", "Blocked", "Stopped", "TurnInterrupted", "Error"}
    PROVE  RunTells(Number(n, kinds, t), n)
<1>1. PICK evs : evs = Number(n, kinds, t)
    OBVIOUS
<1>2. /\ evs \in Seq(EventRecord) /\ DOMAIN evs = DOMAIN kinds /\ Len(evs) = Len(kinds)
      /\ \A i \in DOMAIN kinds : evs[i].kind = kinds[i] /\ evs[i].seq = n + i
    BY <1>1, Numbered
<1>3. DOMAIN kinds = 1 .. Len(kinds) /\ Len(kinds) \in Nat /\ Len(kinds) \in DOMAIN kinds
    BY RangeOf
<1>4. evs # <<>>
    BY <1>2, <1>3, RangeShort
<1>5. \A i \in DOMAIN evs : i # Len(evs) => evs[i].seq < evs[Len(evs)].seq
    BY <1>2, <1>3
<1>6. n < evs[Len(evs)].seq
    BY <1>2, <1>3
<1> QED BY <1>1, <1>2, <1>3, <1>4, <1>5, <1>6 DEF RunTells

(* A command that is no turn is run, or refused.                           *)
LEMMA SettleControl ==
    ASSUME SessInv, SettleInv, NEW c \in open, Control(c) \/ Refuse(c) PROVE SettleInv'
<1>0. c \in Commands /\ node.seq \in Nat
    BY DEF SessInv, SessType, NodeFits
<1>1. c.of \in Turns \cup {NoTurn}
    BY <1>0, CommandsDiffer
<1>2. CASE Control(c)
    <2>1. c.kind # "turn" /\ Finish(c, Number(node.seq, ControlEvents(c.kind), c.of))
        BY <1>2 DEF Control
    <2>2. c.kind \in {"start", "resume", "interrupt", "stop", "resolve"}
        BY <1>0, <2>1, CommandsDiffer
    <2>3. PICK kinds : kinds = ControlEvents(c.kind)
        OBVIOUS
    <2>4. /\ kinds \in Seq(EventKinds) /\ kinds # <<>>
          /\ \A i \in DOMAIN kinds : kinds[i] # "Expired"
          /\ kinds[Len(kinds)] \in {"Ready", "Stopped", "Error"}
        BY <2>2, <2>3, ControlKinds
    <2>5. RunTells(Number(node.seq, kinds, c.of), node.seq)
        BY <1>0, <1>1, <2>4, NumberTells
    <2> QED BY <2>1, <2>3, <2>5, FinishSettles
<1>3. CASE Refuse(c)
    <2>1. PICK kinds : kinds = <<"Error">>
        OBVIOUS
    <2>2. "Error" \in EventKinds
        BY DEF EventKinds
    <2>3. /\ kinds \in Seq(EventKinds) /\ kinds # <<>> /\ DOMAIN kinds = {1} /\ Len(kinds) = 1
          /\ kinds[1] = "Error"
        BY <2>1, <2>2, OneOrTwo
    <2>4. RunTells(Number(node.seq, kinds, c.of), node.seq)
        BY <1>0, <1>1, <2>3, NumberTells
    <2>5. Finish(c, Number(node.seq, kinds, c.of))
        BY <1>3, <2>1 DEF Refuse
    <2> QED BY <2>4, <2>5, FinishSettles
<1> QED BY <1>2, <1>3

(* What a turn sends tells what its end says.                              *)
LEMMA TurnTells ==
    ASSUME NEW n \in Nat, NEW m \in Nat, n + 2 <= m, NEW t \in Turns,
           NEW kept \in Seq(EventRecord),
           \A x \in Range(kept) : x.kind = "Activity" /\ x.seq <= m,
           NEW tail, TailKinds(tail)
    PROVE  RunTells(TurnHead(n, t) \o kept \o Number(m, tail, t), m)
<1>1. PICK head : head = TurnHead(n, t) /\ OpensTurn(head, n, t)
    BY HeadOfTurn
<1>2. head \in Seq(EventRecord)
    BY <1>1 DEF OpensTurn
<1>3. /\ DOMAIN head = {1, 2} /\ Len(head) = 2
      /\ head[1].kind = "Running" /\ head[1].seq = n + 1
      /\ head[2].kind = "TurnStarted" /\ head[2].seq = n + 2
    BY <1>1 DEF OpensTurn
<1>4. PICK q : q = head \o kept
    OBVIOUS
<1>5. /\ q \in Seq(EventRecord)
      /\ \A x \in Range(q) : x \in Range(head) \/ x \in Range(kept)
    BY <1>2, <1>4, RangeConcat
<1>6. \A x \in Range(q) : x.kind # "Expired" /\ x.seq \in Nat /\ x.seq <= m
    <2>1. \A x \in Range(head) : x.kind # "Expired" /\ x.seq <= m
        BY <1>3 DEF Range
    <2>2. Range(q) \subseteq EventRecord
        BY <1>5, RangeOf
    <2>3. \A x \in Range(q) : x.seq \in Nat
        BY <2>2 DEF EventRecord
    <2> QED BY <1>5, <2>1, <2>3
<1>7. /\ tail \in Seq(EventKinds) /\ tail # <<>> /\ Len(tail) \in DOMAIN tail
      /\ \A i \in DOMAIN tail : tail[i] # "Expired"
      /\ tail[Len(tail)] \in {"Ready", "Blocked", "TurnInterrupted", "Error"}
    <2>1. tail \in Seq(EventKinds) /\ tail # <<>>
        BY DEF TailKinds
    <2>2. Len(tail) \in DOMAIN tail
        BY <2>1, RangeOf
    <2> QED BY <2>1, <2>2 DEF TailKinds
<1>8. PICK ends : ends = Number(m, tail, t)
    OBVIOUS
<1>9. RunTells(ends, m)
    BY <1>7, <1>8, NumberTells
<1>10. /\ ends \in Seq(EventRecord) /\ DOMAIN ends = 1 .. Len(ends) /\ Len(ends) \in Nat
       /\ Len(ends) \in DOMAIN ends /\ Len(ends) # 0
    BY <1>9, RangeOf DEF RunTells
<1>11. PICK r \in Seq(EventRecord) : r = q \o ends
    BY <1>5, <1>10, RangeConcat
<1>12. /\ Len(r) = Len(q) + Len(ends) /\ Len(q) \in Nat
       /\ \A i \in DOMAIN q : i \in DOMAIN r /\ r[i] = q[i] /\ q[i] \in Range(q)
       /\ \A i \in DOMAIN ends : i + Len(q) \in DOMAIN r /\ r[i + Len(q)] = ends[i]
       /\ \A i \in DOMAIN r : i \in DOMAIN q \/ \E j \in DOMAIN ends : i = j + Len(q)
    BY <1>5, <1>10, <1>11, RangeConcat, RangeOf
<1>13. PICK e \in EventRecord : e = ends[Len(ends)]
    BY <1>10, RangeOf
<1>14. r[Len(r)] = e /\ r # <<>>
    <2>1. Len(ends) + Len(q) = Len(r) /\ Len(r) # 0
        BY <1>10, <1>12
    <2>2. r[Len(ends) + Len(q)] = ends[Len(ends)]
        BY <1>10, <1>12
    <2> QED BY <1>13, <2>1, <2>2, RangeShort
<1>15. /\ e.seq \in Nat /\ m < e.seq
       /\ e.kind \in {"Ready", "Blocked", "Stopped", "TurnInterrupted", "Error"}
    BY <1>9, <1>13 DEF RunTells, EventRecord
<1>16. ASSUME NEW i \in DOMAIN r
       PROVE  r[i].kind # "Expired" /\ (i # Len(r) => r[i].seq < e.seq)
    <2>1. CASE i \in DOMAIN q
        BY <1>6, <1>12, <1>15, <2>1
    <2>2. ASSUME NEW j \in DOMAIN ends, i = j + Len(q)
          PROVE  r[i].kind # "Expired" /\ (i # Len(r) => r[i].seq < e.seq)
        <3>1. r[i] = ends[j] /\ (i # Len(r) => j # Len(ends))
            BY <1>10, <1>12, <2>2
        <3> QED BY <1>9, <1>13, <3>1 DEF RunTells
    <2> QED BY <1>12, <2>1, <2>2
<1>17. RunTells(r, m)
    BY <1>14, <1>15, <1>16 DEF RunTells
<1> QED BY <1>1, <1>4, <1>8, <1>11, <1>17

(* A turn ends.                                                            *)
LEMMA SettleEnd ==
    ASSUME SessInv, SettleInv,
           NEW how \in {"completed", "approval", "cancelled", "error", "timeout"}, EndTurn(how)
    PROVE  SettleInv'
<1>1. PICK n \in Nat : \E kept \in Seq(EventRecord) : \E tail :
         /\ n + 2 = node.seq - Len(node.activity) /\ n + 2 <= node.seq
         /\ \A x \in Range(kept) : x.kind = "Activity" /\ x.seq <= node.seq
         /\ TailKinds(tail) /\ node.turn \in Turns
         /\ Finish(Command("turn", node.turn),
                   TurnHead(n, node.turn) \o kept \o Number(node.seq, tail, node.turn))
    BY TurnFinishes
<1>2. PICK kept \in Seq(EventRecord) : \E tail :
         /\ n + 2 = node.seq - Len(node.activity) /\ n + 2 <= node.seq
         /\ \A x \in Range(kept) : x.kind = "Activity" /\ x.seq <= node.seq
         /\ TailKinds(tail) /\ node.turn \in Turns
         /\ Finish(Command("turn", node.turn),
                   TurnHead(n, node.turn) \o kept \o Number(node.seq, tail, node.turn))
    BY <1>1
<1>8. PICK tail :
         /\ n + 2 = node.seq - Len(node.activity) /\ n + 2 <= node.seq
         /\ \A x \in Range(kept) : x.kind = "Activity" /\ x.seq <= node.seq
         /\ TailKinds(tail) /\ node.turn \in Turns
         /\ Finish(Command("turn", node.turn),
                   TurnHead(n, node.turn) \o kept \o Number(node.seq, tail, node.turn))
    BY <1>2
<1>3. PICK m \in Nat, t \in Turns : m = node.seq /\ t = node.turn
    BY <1>8 DEF SessInv, NodeFits
<1>4. PICK evs : evs = TurnHead(n, t) \o kept \o Number(m, tail, t)
    OBVIOUS
<1>5. RunTells(evs, m)
    BY <1>8, <1>3, <1>4, TurnTells
<1>6. Finish(Command("turn", t), evs)
    BY <1>8, <1>3, <1>4
<1> QED BY <1>3, <1>5, <1>6, FinishSettles

(* A step keeps what Core shows in the end.                                *)
LEMMA SettleSteps == ASSUME SessInv, SettleInv, [Next]_vars PROVE SettleInv'
<1>1. CASE \/ \E t \in Turns : SubmitTurn(t) \/ ResolveApproval(t)
           \/ \E k \in {"interrupt", "stop", "resume"} : LifecycleCommand(k)
           \/ \E target \in {"active", "detached"} : Attach(target)
           \/ FindExpired \/ TakeNumber
           \/ \E c \in open : Signal(c)
           \/ UNCHANGED vars
    BY <1>1, SettleRequests
<1>2. CASE Expire
    BY <1>2, SettleExpire
<1>3. CASE \E c \in open : Control(c) \/ Refuse(c) \/ BeginTurn(c)
    BY <1>3, SettleControl, SettleBegin
<1>4. CASE Activity
    BY <1>4, SettleActivity
<1>5. CASE \E how \in {"completed", "approval", "cancelled", "error", "timeout"} : EndTurn(how)
    BY <1>5, SettleEnd
<1>6. CASE Deliver
    BY <1>6, SettleDeliver
<1>7. CASE DropBatch \/ Reconnect
    BY <1>7, SettleWire
<1> QED BY <1>1, <1>2, <1>3, <1>4, <1>5, <1>6, <1>7 DEF Next

(* Once all events have arrived, Core shows the Node's state, an expiry or *)
(* a gap in the numbers (apply_event_projection, mark_event_stream_gap).   *)
THEOREM SessionSettles == Spec => []Settled
<1>1. Init => SessInv /\ SettleInv
    BY SessionStarts, SettleStarts
<1>2. SessInv /\ SettleInv /\ [Next]_vars => (SessInv /\ SettleInv)'
    BY SessionSteps, SettleSteps
<1>3. SessInv /\ SettleInv => Settled
    BY SettlesIn
<1> QED BY <1>1, <1>2, <1>3, PTL DEF Spec

-----------------------------------------------------------------------------
(* The three beside the session: a step of all together is a step of one,  *)
(* or leaves its variables alone.                                          *)
LEMMA StreamRuns == MCSpec => Stream!StreamSpec
<1>1. MCInit => Stream!StreamInit
    BY DEF MCInit
<1>2. [MCNext]_<<vars, follow, terminal, deduce>> => [Stream!StreamNext]_Stream!streamVars
    BY DEF MCNext, follow, Stream!streamVars
<1> QED BY <1>1, <1>2, PTL DEF MCSpec, Stream!StreamSpec

(* The same of the terminal.                                               *)
LEMMA TerminalRuns == MCSpec => Terminal!TermSpec
<1>1. MCInit => Terminal!TermInit
    BY DEF MCInit
<1>2. [MCNext]_<<vars, follow, terminal, deduce>> => [Terminal!TermNext]_Terminal!termVars
    BY DEF MCNext, terminal, Terminal!termVars
<1> QED BY <1>1, <1>2, PTL DEF MCSpec, Terminal!TermSpec

(* The same of the deductions.                                             *)
LEMMA DeductionRuns == MCSpec => Deduce!DedSpec
<1>1. MCInit => Deduce!DedInit
    BY DEF MCInit
<1>2. [MCNext]_<<vars, follow, terminal, deduce>> => [Deduce!DedNext]_Deduce!dedVars
    BY DEF MCNext, deduce, Deduce!dedVars, Deduce!coreVars
<1> QED BY <1>1, <1>2, PTL DEF MCSpec, Deduce!DedSpec

(* The same of the session.                                                *)
LEMMA SessionRuns == MCSpec => Spec
<1>1. MCInit => Init
    BY DEF MCInit
<1>2. [MCNext]_<<vars, follow, terminal, deduce>> => [Next]_vars
    BY DEF MCNext
<1> QED BY <1>1, <1>2, PTL DEF MCSpec, Spec

(* An open stream that did not lag has passed on every stored event that   *)
(* no later cursor overtook, for every number of followers and events and  *)
(* every capacity of the channel (session_stream,                          *)
(* drain_event_publication_outbox).                                        *)
THEOREM StreamShowsAll == MCSpec => []StreamComplete
    BY StreamRuns, StreamsComplete, PTL DEF StreamComplete

(* A viewer whose connection held has passed on all output of the terminal *)
(* or was told that some is missing, for every number of viewers and every *)
(* size of the replay (handle_workspace_terminal_stream,                   *)
(* WorkspaceTerminalManager::attach).                                      *)
THEOREM TerminalShowsAll == MCSpec => []AllOrTold
    BY TerminalRuns, ViewersHaveAllOrAreTold, PTL DEF AllOrTold

(* The rows of turns and approvals and the reading of the log agree, for   *)
(* every number of turns, requests, faults and batches on the way          *)
(* (update_turn_from_event, current_turn, pending_approvals).              *)
THEOREM ClientSeesOneTruth == MCSpec => []ViewsAgree
    BY SessionRuns, SessionViews, PTL

(* Once all that the Node sent has arrived and Core refused nothing, Core  *)
(* shows the Node's state, an expiry or a gap in the numbers, for every    *)
(* number of turns, requests, faults and batches on the way                *)
(* (apply_runtime_state_projection, mark_event_stream_gap).                *)
THEOREM CoreShowsTheNode == MCSpec => []Settled
    BY SessionRuns, SessionSettles, PTL

(* A turn or a deduction that ended, and an approval that was answered,    *)
(* stays so, for every number of them and however late an event or a       *)
(* result comes (accept_node_event, project_deduction_command_result).     *)
THEOREM EndsAreFinal == MCSpec => EndedStay
<1>1. SessInv /\ DedInv /\ DedInv' /\ [MCNext]_<<vars, follow, terminal, deduce>>
        => [EndedTurnsStay /\ Deduce!EndedDeductionsStay]_<<vars, follow, terminal, deduce>>
    <2> SUFFICES ASSUME SessInv, DedInv, DedInv', [MCNext]_<<vars, follow, terminal, deduce>>
                 PROVE  EndedTurnsStay /\ Deduce!EndedDeductionsStay
        OBVIOUS
    <2>1. [Next]_vars
        BY DEF MCNext
    <2>2. [Deduce!DedNext]_Deduce!dedVars
        BY DEF MCNext, deduce, Deduce!dedVars, Deduce!coreVars
    <2>3. EndedTurnsStay
        BY <2>1, SessionSteps
    <2>4. Deduce!EndedDeductionsStay
        BY <2>2, DedSteps DEF RowsStay, Deduce!EndedDeductionsStay, DedInv, AnnouncedInv
    <2> QED BY <2>3, <2>4
<1>2. MCSpec => []SessInv
    BY SessionRuns, SessionSafe, PTL
<1>3. MCSpec => []DedInv
    BY DeductionRuns, DedSafe, PTL
<1> QED BY <1>1, <1>2, <1>3, PTL DEF MCSpec, EndedStay

=============================================================================
