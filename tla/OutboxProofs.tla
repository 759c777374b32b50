---------------------------- MODULE OutboxProofs ----------------------------
(* What the queues of the models hold: the facts about sequences that the  *)
(* proofs share, and what Vec::retain leaves of an outbox.                 *)
EXTENDS Outbox, Sequences, Functions, SequenceTheorems, FiniteSetTheorems, TLAPS

(* Members of sequences.                                                   *)
LEMMA RangeOf ==
    ASSUME NEW S, NEW s \in Seq(S)
    PROVE  /\ Range(s) \subseteq S /\ DOMAIN s = 1 .. Len(s) /\ Len(s) \in Nat
           /\ \A i \in DOMAIN s : s[i] \in Range(s) /\ s[i] \in S
           /\ \A x \in Range(s) : \E i \in DOMAIN s : s[i] = x
           /\ s # <<>> => 1 \in DOMAIN s /\ Len(s) \in DOMAIN s
<1>1. DOMAIN s = 1 .. Len(s) /\ Len(s) \in Nat /\ \A i \in DOMAIN s : s[i] \in S
    OBVIOUS
<1>2. s # <<>> => Len(s) # 0
    BY EmptySeq
<1> QED BY <1>1, <1>2 DEF Range

(* The tail of a sequence has the rest of its members.                     *)
LEMMA RangeTail ==
    ASSUME NEW S, NEW s \in Seq(S), s # <<>>
    PROVE  /\ Tail(s) \in Seq(S) /\ Head(s) = s[1] /\ s[1] \in S
           /\ Len(Tail(s)) = Len(s) - 1
           /\ \A i \in DOMAIN Tail(s) : i + 1 \in DOMAIN s /\ Tail(s)[i] = s[i + 1]
           /\ Range(s) = {s[1]} \cup Range(Tail(s))
<1>1. PICK r \in Seq(S) : r = Tail(s)
    BY HeadTailProperties
<1>2. Len(r) = Len(s) - 1 /\ (\A k \in 1 .. Len(r) : r[k] = s[k + 1]) /\ Len(s) \in Nat
    BY <1>1, HeadTailProperties
<1>3. DOMAIN r = 1 .. Len(r) /\ DOMAIN s = 1 .. Len(s) /\ Len(r) \in Nat
    BY <1>1
<1>4. \A i \in DOMAIN r : i + 1 \in DOMAIN s /\ r[i] = s[i + 1]
    BY <1>2, <1>3
<1>5. ASSUME NEW i \in DOMAIN s, i # 1 PROVE s[i] \in Range(r)
    <2>1. i - 1 \in DOMAIN r /\ r[i - 1] = s[i]
        BY <1>2, <1>3, <1>5
    <2> QED BY <2>1 DEF Range
<1>6. 1 \in DOMAIN s /\ s[1] \in S /\ Head(s) = s[1]
    BY <1>3, EmptySeq
<1>7. Range(s) = {s[1]} \cup Range(r)
    <2>1. \A x \in Range(r) : x \in Range(s)
        BY <1>4 DEF Range
    <2>2. \A x \in Range(s) : x = s[1] \/ x \in Range(r)
        BY <1>5 DEF Range
    <2>3. s[1] \in Range(s)
        BY <1>6 DEF Range
    <2> QED BY <2>1, <2>2, <2>3
<1> QED BY <1>1, <1>2, <1>4, <1>6, <1>7

(* An appended sequence has one member more.                               *)
LEMMA RangeAppend ==
    ASSUME NEW S, NEW s \in Seq(S), NEW x \in S
    PROVE  /\ Append(s, x) \in Seq(S) /\ Range(Append(s, x)) = Range(s) \cup {x}
           /\ Len(Append(s, x)) = Len(s) + 1
           /\ \A i \in DOMAIN s : i \in DOMAIN Append(s, x) /\ Append(s, x)[i] = s[i]
           /\ Append(s, x)[Len(s) + 1] = x /\ DOMAIN Append(s, x) = DOMAIN s \cup {Len(s) + 1}
<1>1. PICK r \in Seq(S) : r = Append(s, x)
    BY AppendProperties
<1>2. Len(r) = Len(s) + 1 /\ r[Len(s) + 1] = x /\ \A i \in 1 .. Len(s) : r[i] = s[i]
    BY <1>1
<1>3. DOMAIN r = 1 .. Len(s) + 1 /\ DOMAIN s = 1 .. Len(s) /\ Len(s) \in Nat
    BY <1>1, <1>2
<1>4. DOMAIN r = DOMAIN s \cup {Len(s) + 1} /\ \A i \in DOMAIN s : i \in DOMAIN r /\ r[i] = s[i]
    BY <1>2, <1>3
<1>5. Range(r) = Range(s) \cup {x}
    BY <1>2, <1>4 DEF Range
<1> QED BY <1>1, <1>2, <1>4, <1>5

(* What follows brings its members.                                        *)
LEMMA RangeConcat ==
    ASSUME NEW S, NEW s \in Seq(S), NEW t \in Seq(S)
    PROVE  /\ s \o t \in Seq(S) /\ Range(s \o t) = Range(s) \cup Range(t)
           /\ Len(s \o t) = Len(s) + Len(t)
           /\ \A i \in DOMAIN s : i \in DOMAIN (s \o t) /\ (s \o t)[i] = s[i]
           /\ \A i \in DOMAIN t : i + Len(s) \in DOMAIN (s \o t) /\ (s \o t)[i + Len(s)] = t[i]
           /\ \A i \in DOMAIN (s \o t) : i \in DOMAIN s \/ \E j \in DOMAIN t : i = j + Len(s)
<1>1. PICK r \in Seq(S) : r = s \o t
    BY ConcatProperties
<1>2. /\ DOMAIN r = 1 .. Len(s) + Len(t) /\ DOMAIN s = 1 .. Len(s) /\ DOMAIN t = 1 .. Len(t)
      /\ Len(s) \in Nat /\ Len(t) \in Nat /\ Len(r) = Len(s) + Len(t)
      /\ \A i \in DOMAIN r : r[i] = IF i <= Len(s) THEN s[i] ELSE t[i - Len(s)]
    BY <1>1, ConcatProperties
<1>3. \A i \in DOMAIN s : i \in DOMAIN r /\ r[i] = s[i]
    BY <1>2
<1>4. \A i \in DOMAIN t : i + Len(s) \in DOMAIN r /\ r[i + Len(s)] = t[i]
    BY <1>2
<1>5. ASSUME NEW i \in DOMAIN r PROVE i \in DOMAIN s \/ \E j \in DOMAIN t : i = j + Len(s)
    <2>1. CASE i <= Len(s)
        BY <1>2, <2>1
    <2>2. CASE ~(i <= Len(s))
        <3>1. i - Len(s) \in DOMAIN t /\ i = (i - Len(s)) + Len(s)
            BY <1>2, <2>2
        <3> QED BY <3>1
    <2> QED BY <2>1, <2>2
<1>6. Range(r) = Range(s) \cup Range(t)
    <2>1. \A x \in Range(s) : x \in Range(r)
        BY <1>3 DEF Range
    <2>2. \A x \in Range(t) : x \in Range(r)
        BY <1>4 DEF Range
    <2>3. \A x \in Range(r) : x \in Range(s) \/ x \in Range(t)
        BY <1>3, <1>4, <1>5 DEF Range
    <2> QED BY <2>1, <2>2, <2>3
<1> QED BY <1>1, <1>2, <1>3, <1>4, <1>5, <1>6

(* Short sequences.                                                        *)
LEMMA RangeShort ==
    /\ \A S : <<>> \in Seq(S)
    /\ Range(<<>>) = {} /\ Len(<<>>) = 0 /\ DOMAIN <<>> = {}
    /\ \A S : \A x \in S : <<x>> \in Seq(S)
    /\ \A x : Range(<<x>>) = {x} /\ Len(<<x>>) = 1 /\ DOMAIN <<x>> = {1} /\ <<x>>[1] = x
BY DEF Range

(* What is left of a queue: the members outside of S, in their order.      *)
LEMMA WithoutKeeps ==
    ASSUME NEW X, NEW s \in Seq(X), NEW S
    PROVE  /\ Without(s, S) \in Seq(X)
           /\ \E place \in [DOMAIN Without(s, S) -> DOMAIN s] :
                /\ \A n \in DOMAIN Without(s, S) : /\ Without(s, S)[n] = s[place[n]]
                                                   /\ s[place[n]] \notin S
                /\ \A m, n \in DOMAIN Without(s, S) : m < n => place[m] < place[n]
                /\ \A i \in DOMAIN s :
                      s[i] \notin S => \E n \in DOMAIN Without(s, S) : place[n] = i
<1> DEFINE left == {i \in DOMAIN s : s[i] \notin S}
           below(i) == {j \in left : j <= i}
           C == Cardinality(left)
           place == [n \in 1 .. C |-> CHOOSE i \in left : Cardinality(below(i)) = n]
           rank == [i \in left |-> Cardinality(below(i))]
<1>1. DOMAIN s = 1 .. Len(s) /\ Len(s) \in Nat /\ \A i \in DOMAIN s : s[i] \in X
    OBVIOUS
<1>2. IsFiniteSet(left) /\ C \in Nat /\ left \subseteq Nat
    <2>1. IsFiniteSet(DOMAIN s)
        BY <1>1, FS_Interval
    <2>2. IsFiniteSet(left)
        BY <2>1, FS_Subset
    <2> QED BY <1>1, <2>2, FS_CardinalityType
<1>3. ASSUME NEW i \in left
      PROVE  /\ IsFiniteSet(below(i)) /\ below(i) \subseteq left /\ i \in below(i)
             /\ rank[i] = Cardinality(below(i)) /\ rank[i] \in 1 .. C
    <2>1. below(i) \subseteq left /\ i \in below(i)
        BY <1>2
    <2>2. IsFiniteSet(below(i)) /\ Cardinality(below(i)) <= C /\ Cardinality(below(i)) \in Nat
        BY <1>2, <2>1, FS_Subset, FS_CardinalityType
    <2>3. Cardinality(below(i)) # 0
        BY <2>1, <2>2, FS_EmptySet
    <2> QED BY <1>2, <2>1, <2>2, <2>3
<1>4. ASSUME NEW i \in left, NEW j \in left, i < j
      PROVE  rank[i] < rank[j]
    <2>1. below(i) \subseteq below(j) /\ j \in below(j) /\ j \notin below(i)
        BY <1>2, <1>4
    <2>2. Cardinality(below(i)) <= Cardinality(below(j))
          /\ Cardinality(below(i)) # Cardinality(below(j))
        BY <1>3, <2>1, FS_Subset
    <2>3. /\ rank[i] = Cardinality(below(i)) /\ rank[i] \in 1 .. C
          /\ rank[j] = Cardinality(below(j)) /\ rank[j] \in 1 .. C
        BY <1>3
    <2> HIDE DEF left, below, C, rank
    <2> QED BY <1>2, <2>2, <2>3
<1>5. rank \in Injection(left, 1 .. C)
    <2>1. rank \in [left -> 1 .. C]
        BY <1>3
    <2>2. ASSUME NEW i \in left, NEW j \in left, rank[i] = rank[j] PROVE i = j
        <3>1. rank[i] \in Nat /\ i \in Nat /\ j \in Nat
            <4>1. rank[i] \in 1 .. C /\ C \in Nat /\ left \subseteq Nat
                BY <1>2, <2>1
            <4> HIDE DEF left, below, C, rank
            <4>2. i \in Nat /\ j \in Nat
                BY <4>1
            <4>3. rank[i] \in Nat
                BY <4>1
            <4> QED BY <4>2, <4>3
        <3>2. ~(i < j) /\ ~(j < i)
            <4> HIDE DEF left, below, C, rank
            <4> QED BY <1>4, <2>2, <3>1
        <3> QED BY <3>1, <3>2
    <2> QED BY <2>1, <2>2 DEF Injection, IsInjective
<1>6. rank \in Surjection(left, 1 .. C)
    <2>1. IsFiniteSet(1 .. C) /\ Cardinality(1 .. C) = C
        BY <1>2, FS_Interval
    <2> QED BY <1>5, <2>1, FS_Injection
<1>7. ASSUME NEW n \in 1 .. C
      PROVE  place[n] \in left /\ rank[place[n]] = n
    <2>1. \E i \in left : Cardinality(below(i)) = n
        BY <1>6 DEF Surjection
    <2> QED BY <2>1
<1>8. Without(s, S) = [n \in 1 .. C |-> s[place[n]]]
    BY DEF Without
<1> HIDE DEF left, below, C, place, rank
<1>9. place \in [1 .. C -> DOMAIN s]
    BY <1>7 DEF place, left
<1>10. \A i, j \in 1 .. C : i < j => place[i] < place[j]
    <2> SUFFICES ASSUME NEW i \in 1 .. C, NEW j \in 1 .. C, i < j, ~(place[i] < place[j])
                 PROVE  FALSE
        OBVIOUS
    <2>1. place[i] \in left /\ place[j] \in left /\ rank[place[i]] = i /\ rank[place[j]] = j
        BY <1>7
    <2>2. place[i] \in Nat /\ place[j] \in Nat /\ i \in Nat /\ j \in Nat
        <3>1. left \subseteq Nat /\ C \in Nat
            BY <1>2
        <3>2. place[i] \in Nat /\ place[j] \in Nat
            BY <2>1, <3>1
        <3> QED BY <3>1, <3>2
    <2>3. CASE place[i] = place[j]
        BY <2>1, <2>2, <2>3
    <2>4. CASE place[j] < place[i]
        <3>1. rank[place[j]] < rank[place[i]]
            BY <1>4, <2>1, <2>4
        <3> QED BY <2>1, <2>2, <3>1
    <2> QED BY <2>2, <2>3, <2>4
<1>11. ASSUME NEW i \in DOMAIN s, s[i] \notin S PROVE \E n \in 1 .. C : place[n] = i
    <2>1. i \in left
        BY <1>11 DEF left
    <2>2. rank[i] \in 1 .. C
        BY <1>3, <2>1
    <2>3. place[rank[i]] \in left /\ rank[place[rank[i]]] = rank[i]
        BY <1>7, <2>2
    <2>4. place[rank[i]] = i
        BY <1>5, <2>1, <2>3 DEF Injection, IsInjective
    <2> QED BY <2>2, <2>4
<1>12. Without(s, S) \in Seq(X) /\ DOMAIN Without(s, S) = 1 .. C
    <2>1. \A n \in 1 .. C : s[place[n]] \in X
        BY <1>1, <1>9
    <2> QED BY <1>2, <1>8, <2>1
<1>13. \A n \in 1 .. C : Without(s, S)[n] = s[place[n]] /\ s[place[n]] \notin S
    BY <1>7, <1>8 DEF left
<1>14. PICK w : w = Without(s, S)
    OBVIOUS
<1>15. /\ w \in Seq(X) /\ place \in [DOMAIN w -> DOMAIN s]
       /\ \A n \in DOMAIN w : w[n] = s[place[n]] /\ s[place[n]] \notin S
       /\ \A m, n \in DOMAIN w : m < n => place[m] < place[n]
       /\ \A i \in DOMAIN s : s[i] \notin S => \E n \in DOMAIN w : place[n] = i
    BY <1>9, <1>10, <1>11, <1>12, <1>13, <1>14
<1> QED BY <1>14, <1>15

(* Its members are those outside of S.                                     *)
LEMMA WithoutRange ==
    ASSUME NEW X, NEW s \in Seq(X), NEW S
    PROVE  Without(s, S) \in Seq(X) /\ Range(Without(s, S)) = Range(s) \ S
<1>1. PICK r \in Seq(X) : r = Without(s, S)
    BY WithoutKeeps
<1>2. PICK place \in [DOMAIN r -> DOMAIN s] :
        /\ \A n \in DOMAIN r : r[n] = s[place[n]] /\ s[place[n]] \notin S
        /\ \A i \in DOMAIN s : s[i] \notin S => \E n \in DOMAIN r : place[n] = i
    BY <1>1, WithoutKeeps
<1>3. ASSUME NEW n \in DOMAIN r PROVE r[n] \in Range(s) \ S
    <2>1. place[n] \in DOMAIN s
        BY <1>2
    <2> QED BY <1>2, <2>1 DEF Range
<1>4. ASSUME NEW i \in DOMAIN s, s[i] \notin S PROVE \E n \in DOMAIN r : r[n] = s[i]
    BY <1>2, <1>4
<1>5. Range(r) \subseteq Range(s) \ S
    BY <1>3 DEF Range
<1>6. Range(s) \ S \subseteq Range(r)
    BY <1>4 DEF Range
<1> QED BY <1>1, <1>5, <1>6
=============================================================================
