--------------------------- MODULE WaitQueueProofs ----------------------------
(***************************************************************************)
(* What the operations on a queue of waiters preserve.                     *)
(***************************************************************************)
EXTENDS WaitQueue, Naturals, TLAPS

\* A waiter enters at the end.
LEMMA AppendQueue ==
  ASSUME NEW S, NEW q \in Seq(S), NEW W, QueueOf(q, W), NEW c \in S, c \notin W
  PROVE  QueueOf(Append(q, c), W \cup {c})
<1> DEFINE r == Append(q, c)
<1>1. Len(r) = Len(q) + 1 /\ DOMAIN r = 1..Len(r) /\ DOMAIN q = 1..Len(q) /\ Len(q) \in Nat
  OBVIOUS
<1>2. r[Len(q) + 1] = c /\ \A i \in 1..Len(q) : r[i] = q[i]
  OBVIOUS
<1> HIDE DEF r
<1>3. \A i \in DOMAIN r : i \in 1..Len(q) \/ i = Len(q) + 1
  BY <1>1
<1>4. ToSet(r) = W \cup {c}
  BY <1>1, <1>2, <1>3 DEF QueueOf, ToSet
<1>5. IsInjective(r)
  BY <1>1, <1>2, <1>3 DEF QueueOf, ToSet, IsInjective
<1> QED BY <1>4, <1>5 DEF QueueOf, r

\* The waiter at the head is served.
LEMMA TailQueue ==
  ASSUME NEW S, NEW q \in Seq(S), NEW W, QueueOf(q, W), q # <<>>
  PROVE  Tail(q) \in Seq(S) /\ Head(q) \in W /\ QueueOf(Tail(q), W \ {Head(q)})
<1> DEFINE r == Tail(q)
<1>1. /\ r \in Seq(S) /\ Len(q) \in Nat \ {0} /\ Len(r) = Len(q) - 1 /\ Head(q) = q[1]
      /\ DOMAIN r = 1..Len(r) /\ DOMAIN q = 1..Len(q)
  OBVIOUS
<1>2. \A i \in 1..Len(r) : r[i] = q[i + 1]
  OBVIOUS
<1> HIDE DEF r
<1>3. \A i \in DOMAIN r : i + 1 \in DOMAIN q /\ i + 1 # 1 /\ r[i] = q[i + 1]
  BY <1>1, <1>2
<1>4. \A j \in DOMAIN q : j = 1 \/ (j - 1 \in DOMAIN r /\ r[j - 1] = q[j])
  BY <1>1, <1>2
<1>5. 1 \in DOMAIN q /\ Head(q) = q[1] /\ Head(q) \in W
  BY <1>1 DEF QueueOf, ToSet
<1>6. ToSet(r) = W \ {Head(q)}
  <2>1. ASSUME NEW i \in DOMAIN r PROVE r[i] \in W \ {Head(q)}
    BY <1>3, <1>5, <2>1 DEF QueueOf, ToSet, IsInjective
  <2>2. ASSUME NEW w \in W \ {Head(q)} PROVE \E i \in DOMAIN r : r[i] = w
    <3>1. PICK j \in DOMAIN q : q[j] = w
      BY DEF QueueOf, ToSet
    <3> QED BY <1>4, <1>5, <3>1
  <2> QED BY <2>1, <2>2 DEF ToSet
<1>7. IsInjective(r)
  <2> SUFFICES ASSUME NEW i \in DOMAIN r, NEW j \in DOMAIN r, r[i] = r[j] PROVE i = j
    BY DEF IsInjective
  <2>1. i + 1 = j + 1
    BY <1>3 DEF QueueOf, IsInjective
  <2> QED BY <1>1, <2>1
<1> QED BY <1>1, <1>5, <1>6, <1>7 DEF QueueOf, r

\* A waiter is dropped: its place goes, and no other.
LEMMA WithoutType ==
  ASSUME NEW S, NEW q \in Seq(S), NEW c
  PROVE  Without(q, c) \in Seq(S)
<1>1. CASE \E i \in DOMAIN q : q[i] = c
  <2> DEFINE k == CHOOSE i \in DOMAIN q : q[i] = c
  <2>1. k \in 1..Len(q)
    BY <1>1
  <2> HIDE DEF k
  <2>2. SubSeq(q, 1, k - 1) \in Seq(S) /\ SubSeq(q, k + 1, Len(q)) \in Seq(S)
    BY <2>1
  <2>3. Without(q, c) = SubSeq(q, 1, k - 1) \o SubSeq(q, k + 1, Len(q))
    BY <1>1 DEF Without, RemoveAt, k
  <2> QED BY <2>2, <2>3
<1>2. CASE ~\E i \in DOMAIN q : q[i] = c
  BY <1>2 DEF Without
<1> QED BY <1>1, <1>2

\* What is left when the place k goes: the places before it, and those after it
\* moved up by one.
LEMMA RemoveAtPlaces ==
  ASSUME NEW S, NEW q \in Seq(S), NEW k \in 1..Len(q)
  PROVE  LET r == RemoveAt(q, k) IN
         /\ DOMAIN r = 1..(Len(q) - 1)
         /\ \A i \in 1..(k - 1) : r[i] = q[i]
         /\ \A i \in k..(Len(q) - 1) : r[i] = q[i + 1]
<1> DEFINE a == SubSeq(q, 1, k - 1)
           b == SubSeq(q, k + 1, Len(q))
<1>1. a \in Seq(S) /\ b \in Seq(S) /\ Len(a) = k - 1 /\ Len(b) = Len(q) - k /\ Len(q) \in Nat
  OBVIOUS
<1>2. \A i \in 1..(k - 1) : a[i] = q[i]
  OBVIOUS
<1>3. \A i \in k..(Len(q) - 1) : b[i - (k - 1)] = q[i + 1]
  OBVIOUS
<1>4. RemoveAt(q, k) = a \o b
  BY DEF RemoveAt
<1> HIDE DEF a, b
<1>5. DOMAIN (a \o b) = 1..(Len(q) - 1)
  BY <1>1
<1>6. \A i \in 1..(k - 1) : (a \o b)[i] = q[i]
  BY <1>1, <1>2
<1>7. \A i \in k..(Len(q) - 1) : (a \o b)[i] = q[i + 1]
  BY <1>1, <1>3
<1> QED BY <1>4, <1>5, <1>6, <1>7

LEMMA WithoutQueue ==
  ASSUME NEW S, NEW q \in Seq(S), NEW W, QueueOf(q, W), NEW c
  PROVE  QueueOf(Without(q, c), W \ {c})
<1>1. CASE \E i \in DOMAIN q : q[i] = c
  <2>1. PICK k \in 1..Len(q) : q[k] = c /\ Without(q, c) = RemoveAt(q, k)
    <3>1. DOMAIN q = 1..Len(q)
      OBVIOUS
    <3> QED BY <1>1, <3>1 DEF Without
  <2>2. PICK r : r = Without(q, c)
    OBVIOUS
  <2>3. /\ DOMAIN q = 1..Len(q) /\ Len(q) \in Nat /\ DOMAIN r = 1..(Len(q) - 1)
        /\ \A i \in 1..(k - 1) : r[i] = q[i]
        /\ \A i \in k..(Len(q) - 1) : r[i] = q[i + 1]
    BY <2>1, <2>2, RemoveAtPlaces
  <2>4. ToSet(r) = W \ {c}
    <3>1. ASSUME NEW i \in DOMAIN r PROVE r[i] \in W \ {c}
      <4>1. PICK j \in DOMAIN q : j # k /\ r[i] = q[j]
        <5>1. CASE i < k
          BY <2>3, <5>1
        <5>2. CASE ~(i < k)
          <6>1. i + 1 \in DOMAIN q /\ i + 1 # k /\ r[i] = q[i + 1]
            BY <2>3, <5>2
          <6> QED BY <6>1
        <5> QED BY <5>1, <5>2
      <4> QED BY <2>1, <2>3, <4>1 DEF QueueOf, ToSet, IsInjective
    <3>2. ASSUME NEW w \in W \ {c} PROVE \E i \in DOMAIN r : r[i] = w
      <4>1. PICK j \in DOMAIN q : q[j] = w
        BY DEF QueueOf, ToSet
      <4>2. CASE j < k
        BY <2>3, <4>1, <4>2
      <4>3. CASE j > k
        <5>1. j - 1 \in DOMAIN r /\ j - 1 \in k..(Len(q) - 1) /\ (j - 1) + 1 = j
          BY <2>3, <4>3
        <5> QED BY <2>3, <4>1, <5>1
      <4> QED BY <2>1, <2>3, <4>1, <4>2, <4>3
    <3> QED BY <3>1, <3>2 DEF ToSet
  <2>5. IsInjective(r)
    <3>1. \A i, j \in DOMAIN q : q[i] = q[j] => i = j
      BY DEF QueueOf, IsInjective
    <3> SUFFICES ASSUME NEW i \in DOMAIN r, NEW j \in DOMAIN r, r[i] = r[j] PROVE i = j
      BY DEF IsInjective
    <3>2. CASE i < k /\ j < k
      BY <2>3, <3>1, <3>2
    <3>3. CASE i < k /\ ~(j < k)
      <4>1. i \in DOMAIN q /\ j + 1 \in DOMAIN q /\ q[i] = q[j + 1] /\ i # j + 1
        BY <2>3, <3>3
      <4> QED BY <3>1, <4>1
    <3>4. CASE ~(i < k) /\ j < k
      <4>1. j \in DOMAIN q /\ i + 1 \in DOMAIN q /\ q[j] = q[i + 1] /\ j # i + 1
        BY <2>3, <3>4
      <4> QED BY <3>1, <4>1
    <3>5. CASE ~(i < k) /\ ~(j < k)
      <4>1. i + 1 \in DOMAIN q /\ j + 1 \in DOMAIN q /\ q[i + 1] = q[j + 1]
        BY <2>3, <3>5
      <4> QED BY <2>3, <3>1, <4>1
    <3> QED BY <3>2, <3>3, <3>4, <3>5
  <2> QED BY <2>2, <2>4, <2>5 DEF QueueOf
<1>2. CASE ~\E i \in DOMAIN q : q[i] = c
  BY <1>2 DEF Without, QueueOf, ToSet
<1> QED BY <1>1, <1>2
=============================================================================
