---------------------------- MODULE SequenceFacts -----------------------------
(***************************************************************************)
(* Facts about sequences that the proofs share: what writing, appending,   *)
(* taking and joining do to the places of a sequence, and to a list that   *)
(* holds each of its members once.                                         *)
(***************************************************************************)
EXTENDS Naturals, Sequences, FiniteSets, Functions, FiniteSetTheorems, SequenceTheorems, TLAPS

\* The sequence holds the value somewhere.
Holds(s, e) == \E i \in DOMAIN s : s[i] = e

\* No value stands in two places.
Once(s) == \A i, j \in DOMAIN s : s[i] = s[j] => i = j

\* The sequence without its i-th element.
Without(s, i) == SubSeq(s, 1, i - 1) \o SubSeq(s, i + 1, Len(s))
-----------------------------------------------------------------------------
\* A function on 1..n is a sequence of length n.
LEMMA FunctionIsSeq ==
  ASSUME NEW S, NEW n \in Nat, NEW t \in [1..n -> S]
  PROVE  t \in Seq(S) /\ Len(t) = n /\ DOMAIN t = 1..n
<1>1. t \in Seq(S)
  BY SeqDef
<1>2. Len(t) \in Nat /\ DOMAIN t = 1..Len(t)
  BY <1>1, LenProperties
<1> QED
  BY <1>1, <1>2

\* One more element leaves the others where they are.
LEMMA Appended ==
  ASSUME NEW S, NEW s \in Seq(S), NEW e \in S, NEW t, t = Append(s, e)
  PROVE  /\ t \in Seq(S)
         /\ Len(s) \in Nat
         /\ Len(t) = Len(s) + 1
         /\ DOMAIN s = 1..Len(s)
         /\ DOMAIN t = 1..(Len(s) + 1)
         /\ DOMAIN t = DOMAIN s \cup {Len(s) + 1}
         /\ t[Len(s) + 1] = e
         /\ \A i \in DOMAIN s : t[i] = s[i] /\ s[i] \in S
<1>1. t \in Seq(S) /\ Len(t) = Len(s) + 1
  BY AppendProperties
<1>2. Len(s) \in Nat /\ DOMAIN s = 1..Len(s) /\ DOMAIN t = 1..Len(t)
  BY <1>1, LenProperties
<1>3. t[Len(s) + 1] = e /\ \A i \in DOMAIN s : t[i] = s[i]
  BY <1>2, AppendProperties
<1>4. \A i \in DOMAIN s : s[i] \in S
  BY <1>2, ElementOfSeq
<1> QED
  BY <1>1, <1>2, <1>3, <1>4

\* Writing one element, in the sequence or beside it, leaves the others.
LEMMA Written ==
  ASSUME NEW S, NEW s \in Seq(S), NEW i, NEW e \in S, NEW t, t = [s EXCEPT ![i] = e]
  PROVE  /\ t \in Seq(S)
         /\ Len(t) = Len(s)
         /\ DOMAIN t = DOMAIN s
         /\ i \in DOMAIN s => t[i] = e
         /\ \A j \in DOMAIN s : j # i => t[j] = s[j]
<1>1. Len(s) \in Nat /\ s \in [1..Len(s) -> S] /\ DOMAIN s = 1..Len(s)
  BY LenProperties
<1>2. t \in [1..Len(s) -> S]
  BY <1>1
<1> QED
  BY <1>1, <1>2, FunctionIsSeq

\* Appending a value that was not there.
LEMMA AppendedOnce ==
  ASSUME NEW S, NEW s \in Seq(S), NEW e \in S, NEW t, t = Append(s, e), ~Holds(s, e), Once(s)
  PROVE  /\ t \in Seq(S)
         /\ Once(t)
         /\ \A x : Holds(t, x) <=> Holds(s, x) \/ x = e
BY Appended DEF Holds, Once

\* Taking the first one.
LEMMA TailOnce ==
  ASSUME NEW S, NEW s \in Seq(S), s # <<>>, Once(s), NEW t, t = Tail(s)
  PROVE  /\ t \in Seq(S)
         /\ Head(s) \in S
         /\ Holds(s, Head(s))
         /\ Once(t)
         /\ \A x : Holds(t, x) <=> Holds(s, x) /\ x # Head(s)
<1>1. /\ Len(s) \in Nat \ {0} /\ DOMAIN s = 1..Len(s)
      /\ t \in Seq(S) /\ Len(t) = Len(s) - 1 /\ DOMAIN t = 1..(Len(s) - 1)
      /\ Head(s) \in S /\ Head(s) = s[1]
      /\ \A i \in DOMAIN t : t[i] = s[i + 1]
  BY LenProperties, HeadTailProperties, EmptySeq
<1>2. Once(t)
  BY <1>1 DEF Once
<1>3. ASSUME NEW x, Holds(t, x)
      PROVE  Holds(s, x) /\ x # Head(s)
  BY <1>1, <1>3 DEF Once, Holds
<1>4. ASSUME NEW x, Holds(s, x), x # Head(s)
      PROVE  Holds(t, x)
  <2>1. PICK i \in DOMAIN s : s[i] = x
    BY <1>4 DEF Holds
  <2>2. i - 1 \in DOMAIN t /\ t[i - 1] = x
    BY <1>1, <1>4, <2>1
  <2> QED
    BY <2>2 DEF Holds
<1>5. Holds(s, Head(s))
  BY <1>1 DEF Holds
<1> QED
  BY <1>1, <1>2, <1>3, <1>4, <1>5

\* A list that skips the i-th place of another.
LEMMA SkippedOnce ==
  ASSUME NEW S, NEW s \in Seq(S), NEW i \in DOMAIN s, Once(s),
         NEW t, DOMAIN t = 1..(Len(s) - 1),
         \A j \in DOMAIN t : t[j] = IF j < i THEN s[j] ELSE s[j + 1]
  PROVE  /\ Once(t)
         /\ \A x : Holds(t, x) <=> Holds(s, x) /\ x # s[i]
<1> DEFINE place == [j \in DOMAIN t |-> IF j < i THEN j ELSE j + 1]
<1>1. Len(s) \in Nat /\ DOMAIN s = 1..Len(s) /\ i \in 1..Len(s)
  BY LenProperties
<1>2. \A j \in DOMAIN t : place[j] \in DOMAIN s /\ place[j] # i /\ t[j] = s[place[j]]
  BY <1>1
<1>3. \A j, k \in DOMAIN t : place[j] = place[k] => j = k
  BY <1>1
<1>4. \A j \in DOMAIN s : j # i => \E k \in DOMAIN t : place[k] = j
  <2> SUFFICES ASSUME NEW j \in DOMAIN s, j # i
               PROVE  \E k \in DOMAIN t : place[k] = j
    OBVIOUS
  <2>1. CASE j < i
    <3>1. j \in DOMAIN t /\ place[j] = j
      BY <1>1, <2>1
    <3> QED
      BY <3>1
  <2>2. CASE j > i
    <3>1. j - 1 \in DOMAIN t /\ place[j - 1] = j
      BY <1>1, <2>2
    <3> QED
      BY <3>1
  <2> QED
    BY <1>1, <2>1, <2>2
<1> HIDE DEF place
<1>5. Once(t)
  BY <1>2, <1>3 DEF Once
<1>6. ASSUME NEW x, Holds(t, x)
      PROVE  Holds(s, x) /\ x # s[i]
  BY <1>2, <1>6 DEF Once, Holds
<1>7. ASSUME NEW x, Holds(s, x), x # s[i]
      PROVE  Holds(t, x)
  <2>1. PICK j \in DOMAIN s : s[j] = x
    BY <1>7 DEF Holds
  <2>2. PICK k \in DOMAIN t : place[k] = j
    BY <1>4, <1>7, <2>1
  <2> QED
    BY <1>2, <2>1, <2>2 DEF Holds
<1> QED
  BY <1>5, <1>6, <1>7

\* Taking the i-th one.
LEMMA RemovedOnce ==
  ASSUME NEW S, NEW s \in Seq(S), NEW i \in DOMAIN s, Once(s),
         NEW t, t = Without(s, i)
  PROVE  /\ t \in Seq(S)
         /\ Once(t)
         /\ \A x : Holds(t, x) <=> Holds(s, x) /\ x # s[i]
<1> DEFINE l == SubSeq(s, 1, i - 1)
           r == SubSeq(s, i + 1, Len(s))
<1>1. Len(s) \in Nat /\ DOMAIN s = 1..Len(s) /\ i \in 1..Len(s) /\ \A j \in 1..Len(s) : s[j] \in S
  BY LenProperties, ElementOfSeq
<1>2. l \in Seq(S) /\ Len(l) = i - 1 /\ \A j \in 1..(i - 1) : l[j] = s[j]
  <2>1. 1 \in Int /\ i - 1 \in Int /\ \A j \in 1..(i - 1) : s[j] \in S
    BY <1>1
  <2>2. /\ l \in Seq(S)
        /\ Len(l) = IF 1 <= i - 1 THEN (i - 1) - 1 + 1 ELSE 0
        /\ \A j \in 1..((i - 1) - 1 + 1) : l[j] = s[1 + j - 1]
    BY <2>1, SubSeqProperties
  <2> QED
    BY <1>1, <2>2
<1>3. r \in Seq(S) /\ Len(r) = Len(s) - i /\ \A j \in 1..(Len(s) - i) : r[j] = s[i + j]
  <2>1. i + 1 \in Int /\ Len(s) \in Int /\ \A j \in (i + 1)..Len(s) : s[j] \in S
    BY <1>1
  <2>2. /\ r \in Seq(S)
        /\ Len(r) = IF i + 1 <= Len(s) THEN Len(s) - (i + 1) + 1 ELSE 0
        /\ \A j \in 1..(Len(s) - (i + 1) + 1) : r[j] = s[(i + 1) + j - 1]
    BY <2>1, SubSeqProperties
  <2> QED
    BY <1>1, <2>2
<1>4. t = l \o r
  BY DEF Without
<1> HIDE DEF l, r
<1>5. /\ t \in Seq(S)
      /\ Len(t) = Len(l) + Len(r)
      /\ DOMAIN t = 1..Len(t)
      /\ \A j \in 1..(Len(l) + Len(r)) : t[j] = IF j <= Len(l) THEN l[j] ELSE r[j - Len(l)]
  <2>1. /\ t \in Seq(S)
        /\ Len(t) = Len(l) + Len(r)
        /\ \A j \in 1..(Len(l) + Len(r)) : t[j] = IF j <= Len(l) THEN l[j] ELSE r[j - Len(l)]
    BY <1>2, <1>3, <1>4, ConcatProperties
  <2>2. DOMAIN t = 1..Len(t)
    BY <2>1, LenProperties
  <2> QED
    BY <2>1, <2>2
<1>6. DOMAIN t = 1..(Len(s) - 1)
  BY <1>1, <1>2, <1>3, <1>5
<1>7. ASSUME NEW j \in DOMAIN t
      PROVE  t[j] = IF j < i THEN s[j] ELSE s[j + 1]
  <2>1. CASE j < i
    BY <1>1, <1>2, <1>3, <1>5, <1>6, <2>1
  <2>2. CASE ~(j < i)
    <3> DEFINE k == j - (i - 1)
    <3>4. j \in 1..(Len(s) - 1) /\ Len(s) \in Nat /\ i \in 1..Len(s) /\ Len(l) = i - 1
      BY <1>1, <1>2, <1>6
    <3>1. k \in 1..(Len(s) - i) /\ i + k = j + 1 /\ ~(j <= Len(l)) /\ k = j - Len(l)
      BY <2>2, <3>4
    <3>2. t[j] = r[k]
      BY <1>2, <1>3, <1>5, <1>6, <3>1
    <3>3. r[k] = s[i + k]
      BY <1>3, <3>1
    <3> QED
      BY <2>2, <3>1, <3>2, <3>3
  <2> QED
    BY <2>1, <2>2
<1>8. Once(t) /\ \A x : Holds(t, x) <=> Holds(s, x) /\ x # s[i]
  BY <1>6, <1>7, SkippedOnce
<1> QED
  BY <1>5, <1>8

\* Joining two lists that have nothing in common.
LEMMA JoinedOnce ==
  ASSUME NEW S, NEW l \in Seq(S), NEW r \in Seq(S), Once(l), Once(r),
         \A x : ~(Holds(l, x) /\ Holds(r, x)), NEW t, t = l \o r
  PROVE  /\ t \in Seq(S)
         /\ Once(t)
         /\ \A x : Holds(t, x) <=> Holds(l, x) \/ Holds(r, x)
<1>1. /\ Len(l) \in Nat /\ DOMAIN l = 1..Len(l) /\ Len(r) \in Nat /\ DOMAIN r = 1..Len(r)
      /\ t \in Seq(S) /\ DOMAIN t = 1..(Len(l) + Len(r))
      /\ \A i \in DOMAIN t : t[i] = IF i <= Len(l) THEN l[i] ELSE r[i - Len(l)]
  BY LenProperties, ConcatProperties
<1>2. \A i \in DOMAIN l : i \in DOMAIN t /\ t[i] = l[i]
  BY <1>1
<1>3. \A i \in DOMAIN r : i + Len(l) \in DOMAIN t /\ t[i + Len(l)] = r[i]
  BY <1>1
<1>4. \A i \in DOMAIN t : i \in DOMAIN l \/ (i - Len(l) \in DOMAIN r /\ t[i] = r[i - Len(l)] /\ i \notin DOMAIN l)
  BY <1>1
<1>5. ASSUME NEW x
      PROVE  Holds(t, x) <=> Holds(l, x) \/ Holds(r, x)
  <2>1. Holds(t, x) => Holds(l, x) \/ Holds(r, x)
    BY <1>2, <1>4 DEF Holds
  <2>2. Holds(l, x) => Holds(t, x)
    BY <1>2 DEF Holds
  <2>3. Holds(r, x) => Holds(t, x)
    BY <1>3 DEF Holds
  <2> QED
    BY <2>1, <2>2, <2>3
<1>6. ASSUME NEW i \in DOMAIN t, NEW j \in DOMAIN t, t[i] = t[j]
      PROVE  i = j
  <2>1. CASE i \in DOMAIN l /\ j \in DOMAIN l
    BY <1>2, <1>6, <2>1 DEF Once
  <2>2. CASE i \notin DOMAIN l /\ j \notin DOMAIN l
    <3>1. i - Len(l) = j - Len(l)
      BY <1>4, <1>6, <2>2 DEF Once
    <3> QED
      BY <1>1, <3>1
  <2>3. CASE i \in DOMAIN l /\ j \notin DOMAIN l
    <3>1. l[i] = t[i] /\ r[j - Len(l)] = t[i] /\ j - Len(l) \in DOMAIN r
      BY <1>2, <1>4, <1>6, <2>3
    <3> QED
      BY <2>3, <3>1 DEF Holds
  <2>4. CASE i \notin DOMAIN l /\ j \in DOMAIN l
    <3>1. l[j] = t[i] /\ r[i - Len(l)] = t[i] /\ i - Len(l) \in DOMAIN r
      BY <1>2, <1>4, <1>6, <2>4
    <3> QED
      BY <2>4, <3>1 DEF Holds
  <2> QED
    BY <2>1, <2>2, <2>3, <2>4
<1> QED
  BY <1>1, <1>5, <1>6 DEF Once

\* An injection of 1..Cardinality(S) into a finite S lists S, each member once.
LEMMA OrderingLists ==
  ASSUME NEW S, IsFiniteSet(S), NEW t \in [1..Cardinality(S) -> S],
         \A i, j \in DOMAIN t : t[i] = t[j] => i = j
  PROVE  /\ t \in Seq(S)
         /\ Once(t)
         /\ \A x : Holds(t, x) <=> x \in S
<1>1. Cardinality(S) \in Nat
  BY FS_CardinalityType
<1>2. t \in Seq(S) /\ DOMAIN t = 1..Cardinality(S)
  BY <1>1, FunctionIsSeq
<1>3. t \in Injection(1..Cardinality(S), S)
  BY <1>2 DEF Injection, IsInjective
<1>4. Cardinality(1..Cardinality(S)) = Cardinality(S)
  BY <1>1, FS_Interval
<1>5. t \in Surjection(1..Cardinality(S), S)
  BY <1>3, <1>4, FS_Injection
<1>6. \A x \in S : \E i \in 1..Cardinality(S) : t[i] = x
  BY <1>5 DEF Surjection
<1> QED
  BY <1>2, <1>6 DEF Once, Holds
=============================================================================
