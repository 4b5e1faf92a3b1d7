----------------------------- MODULE QueueLemmas -----------------------------
(***************************************************************************)
(* Facts about the queue of an asyncio.Lock: a sequence without repetition *)
(* that grows at its end and loses one member at a time, the first one     *)
(* when it gets the lock, any one when it is cancelled.                    *)
(***************************************************************************)
EXTENDS Naturals, Sequences, SequenceTheorems, TLAPS

Queued(q, t) == \E i \in 1..Len(q) : q[i] = t

Distinct(q) == \A i, j \in 1..Len(q) : q[i] = q[j] => i = j

\* r is q without its k-th member.
Dropped(q, k, r) ==
  /\ Len(r) = Len(q) - 1
  /\ \A i \in 1..Len(r) : r[i] = IF i < k THEN q[i] ELSE q[i + 1]

LEMMA QueueAppended ==
  ASSUME NEW T, NEW q \in Seq(T), NEW t \in T, Distinct(q), ~Queued(q, t)
  PROVE  /\ Append(q, t) \in Seq(T)
         /\ Distinct(Append(q, t))
         /\ \A u : Queued(Append(q, t), u) <=> Queued(q, u) \/ u = t
<1> DEFINE r == Append(q, t)
<1>1. /\ r \in Seq(T) /\ Len(q) \in Nat /\ Len(r) = Len(q) + 1
      /\ \A i \in 1..Len(q) : r[i] = q[i]
      /\ r[Len(q) + 1] = t
  OBVIOUS
<1> HIDE DEF r
<1>2. Distinct(r)
  BY <1>1 DEF Distinct, Queued
<1>3. ASSUME NEW u
      PROVE  Queued(r, u) <=> Queued(q, u) \/ u = t
  <2>1. Queued(r, u) => Queued(q, u) \/ u = t
    BY <1>1 DEF Queued
  <2>2. Queued(q, u) => Queued(r, u)
    BY <1>1 DEF Queued
  <2>3. Queued(r, t)
    BY <1>1 DEF Queued
  <2> QED
    BY <2>1, <2>2, <2>3
<1> QED
  BY <1>1, <1>2, <1>3 DEF r

LEMMA QueueDropped ==
  ASSUME NEW T, NEW q \in Seq(T), NEW k \in 1..Len(q), NEW r \in Seq(T),
         Distinct(q), Dropped(q, k, r)
  PROVE  /\ Distinct(r)
         /\ \A u : Queued(r, u) <=> Queued(q, u) /\ u # q[k]
<1>1. /\ Len(q) \in Nat /\ Len(r) \in Nat /\ Len(r) = Len(q) - 1
      /\ \A i \in 1..Len(r) : r[i] = IF i < k THEN q[i] ELSE q[i + 1]
  BY DEF Dropped
<1>2. Distinct(r)
  BY <1>1 DEF Distinct
<1>3. ASSUME NEW u, Queued(r, u)
      PROVE  Queued(q, u) /\ u # q[k]
  <2>1. PICK i \in 1..Len(r) : r[i] = u
    BY <1>3 DEF Queued
  <2>2. PICK j \in 1..Len(q) : q[j] = u /\ j # k
    BY <1>1, <2>1
  <2> QED
    BY <2>2 DEF Queued, Distinct
<1>4. ASSUME NEW u, Queued(q, u), u # q[k]
      PROVE  Queued(r, u)
  <2>1. PICK j \in 1..Len(q) : q[j] = u
    BY <1>4 DEF Queued
  <2>2. CASE j < k
    BY <1>1, <2>1, <2>2 DEF Queued
  <2>3. CASE j > k
    <3>1. j - 1 \in 1..Len(r) /\ ~(j - 1 < k) /\ (j - 1) + 1 = j
      BY <1>1, <2>3
    <3>2. r[j - 1] = q[(j - 1) + 1]
      BY <1>1, <3>1
    <3> QED
      BY <2>1, <3>1, <3>2 DEF Queued
  <2> QED
    BY <1>4, <2>1, <2>2, <2>3
<1> QED
  BY <1>2, <1>3, <1>4

LEMMA TailDrops ==
  ASSUME NEW T, NEW q \in Seq(T), q # <<>>
  PROVE  /\ Tail(q) \in Seq(T) /\ 1 \in 1..Len(q) /\ Head(q) = q[1]
         /\ Dropped(q, 1, Tail(q))
BY DEF Dropped

\* RemoveAt of SequencesExt.
LEMMA RemoveAtDrops ==
  ASSUME NEW S, NEW s \in Seq(S), NEW k \in 1..Len(s), NEW r,
         r = SubSeq(s, 1, k - 1) \o SubSeq(s, k + 1, Len(s))
  PROVE  r \in Seq(S) /\ Dropped(s, k, r)
<1> DEFINE a == SubSeq(s, 1, k - 1)
           b == SubSeq(s, k + 1, Len(s))
<1>1. Len(s) \in Nat /\ k \in Nat /\ k >= 1 /\ k <= Len(s)
  OBVIOUS
<1>2. /\ a \in Seq(S) /\ Len(a) = k - 1
      /\ \A i \in 1..(k - 1) : a[i] = s[i]
  BY <1>1, SubSeqProperties
<1>3. /\ b \in Seq(S) /\ Len(b) = Len(s) - k
      /\ \A i \in 1..(Len(s) - k) : b[i] = s[k + i]
  <2>1. /\ b \in Seq(S) /\ Len(b) = Len(s) - k
        /\ \A i \in 1..(Len(s) - k) : b[i] = s[(k + 1) + i - 1]
    <3>1. \A i \in (k + 1)..Len(s) : s[i] \in S
      BY <1>1
    <3>2. Len(s) - (k + 1) + 1 = Len(s) - k
      BY <1>1
    <3> HIDE DEF b
    <3>3. k + 1 \in Int /\ Len(s) \in Int
      BY <1>1
    <3>4. /\ b \in Seq(S)
          /\ Len(b) = IF k + 1 <= Len(s) THEN Len(s) - (k + 1) + 1 ELSE 0
          /\ \A i \in 1..(Len(s) - (k + 1) + 1) : b[i] = s[(k + 1) + i - 1]
      BY <3>1, <3>3, SubSeqProperties DEF b
    <3>5. Len(b) = Len(s) - k
      <4>1. Len(b) = IF k + 1 <= Len(s) THEN Len(s) - (k + 1) + 1 ELSE 0
        BY <3>4
      <4>2. CASE k + 1 <= Len(s)
        BY <1>1, <4>1, <4>2
      <4>3. CASE ~(k + 1 <= Len(s))
        <5>1. Len(b) = 0
          BY <4>1, <4>3
        <5>2. k = Len(s)
          BY <1>1, <4>3
        <5> QED
          BY <1>1, <5>1, <5>2
      <4> QED
        BY <4>2, <4>3
    <3>6. \A i \in 1..(Len(s) - k) : b[i] = s[(k + 1) + i - 1]
      BY <3>2, <3>4
    <3> QED
      BY <3>4, <3>5, <3>6
  <2>2. \A i \in 1..(Len(s) - k) : (k + 1) + i - 1 = k + i
    BY <1>1
  <2> HIDE DEF b
  <2> QED
    BY <2>1, <2>2
<1>4. r = a \o b
  OBVIOUS
<1> HIDE DEF a, b
<1>5. /\ a \o b \in Seq(S) /\ Len(a \o b) = Len(s) - 1
      /\ \A i \in 1..(Len(s) - 1) :
           (a \o b)[i] = IF i <= Len(a) THEN a[i] ELSE b[i - Len(a)]
  <2>1. /\ a \o b \in Seq(S) /\ Len(a \o b) = Len(a) + Len(b)
        /\ \A i \in 1..(Len(a) + Len(b)) :
             (a \o b)[i] = IF i <= Len(a) THEN a[i] ELSE b[i - Len(a)]
    BY <1>2, <1>3, ConcatProperties
  <2>2. Len(a) + Len(b) = Len(s) - 1
    BY <1>1, <1>2, <1>3
  <2> QED
    BY <2>1, <2>2
<1>6. ASSUME NEW i \in 1..(Len(s) - 1)
      PROVE  (a \o b)[i] = IF i < k THEN s[i] ELSE s[i + 1]
  <2>1. CASE i < k
    BY <1>1, <1>2, <1>5, <2>1
  <2>2. CASE ~(i < k)
    <3>1. i - (k - 1) \in 1..(Len(s) - k) /\ k + (i - (k - 1)) = i + 1
      BY <1>1, <2>2
    <3>2. (a \o b)[i] = b[i - (k - 1)]
      BY <1>1, <1>2, <1>5, <2>2
    <3> QED
      BY <1>3, <2>2, <3>1, <3>2
  <2> QED
    BY <2>1, <2>2
<1> QED
  BY <1>4, <1>5, <1>6 DEF Dropped
=============================================================================
