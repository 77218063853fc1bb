------------------------- MODULE DeviceSessionProofs -------------------------
(***************************************************************************)
(* Theorems about DeviceSession, for every set of devices, connections,    *)
(* requests and coroutines and every bound.                                *)
(***************************************************************************)
EXTENDS DeviceSession, SequencesExt, FiniteSetTheorems,
        SequenceTheorems, WellFoundedInduction, TLAPS

-----------------------------------------------------------------------------
(* Sequences: deleting the first entry that matches, taking a prefix, and  *)
(* what is within another sequence                                         *)

Places(s, e) == {i \in 1..Len(s) : s[i] = e}

\* A set of natural numbers that is not empty has a least element.
LEMMA MinOfNats ==
    ASSUME NEW I \in SUBSET Nat, I # {}
    PROVE  Min(I) \in I /\ \A j \in I : Min(I) <= j
<1> DEFINE Below(k) == {j \in I : j <= k}
           F == {Below(k) : k \in I}
<1>1. F \subseteq FiniteSubsetsOf(Nat)
  <2>1. SUFFICES ASSUME NEW k \in I PROVE Below(k) \in FiniteSubsetsOf(Nat)
    OBVIOUS
  <2>2. Below(k) \in SUBSET Nat /\ k \in Nat
    OBVIOUS
  <2>3. IsFiniteSet(Below(k))
    BY <2>2, FS_BoundedSetOfNaturals
  <2>4. QED
    BY <2>2, <2>3 DEF FiniteSubsetsOf
<1>2. F # {}
  OBVIOUS
<1>3. PICK X \in F : \A Y \in F : ~ (<<Y, X>> \in StrictSubsetOrdering(Nat))
  BY <1>1, <1>2, FS_StrictSubsetOrderingWellFounded, WFMin
<1>4. PICK k \in I : X = Below(k)
  OBVIOUS
<1>5. \A j \in I : k <= j
  <2>1. SUFFICES ASSUME NEW j \in I, j < k PROVE FALSE
    OBVIOUS
  <2>2. j \in Int /\ k \in Int /\ k <= k /\ ~(k <= j)
    BY <2>1
  <2>3. Below(j) \subseteq Below(k)
    <3>1. SUFFICES ASSUME NEW n \in I, n <= j PROVE n <= k
      OBVIOUS
    <3>2. n \in Int
      OBVIOUS
    <3>3. QED
      BY <2>1, <2>2, <3>1, <3>2
  <2>4. k \in Below(k) /\ k \notin Below(j)
    BY <2>2
  <2>5. <<Below(j), X>> \in StrictSubsetOrdering(Nat)
    BY <2>3, <2>4, <1>4 DEF StrictSubsetOrdering
  <2>6. QED
    BY <2>5, <1>3
<1>6. QED
  BY <1>5 DEF Min

\* Deleting position i closes the gap and keeps the order of the rest.
LEMMA RemoveAtIs ==
    ASSUME NEW S, NEW s \in Seq(S), NEW i \in 1..Len(s)
    PROVE  /\ RemoveAt(s, i) \in Seq(S)
           /\ Len(RemoveAt(s, i)) = Len(s) - 1
           /\ \A j \in 1..Len(s) - 1 :
                 RemoveAt(s, i)[j] = IF j < i THEN s[j] ELSE s[j + 1]
<1> DEFINE n == Len(s)
           a == SubSeq(s, 1, i - 1)
           b == SubSeq(s, i + 1, n)
<1>1. n \in Nat /\ i \in 1..n /\ \A j \in 1..n : s[j] \in S
  BY ElementOfSeq, LenProperties
<1>2. /\ a \in Seq(S) /\ Len(a) = i - 1
      /\ \A j \in 1..i - 1 : a[j] = s[j]
  <2>1. 1 \in Int /\ i - 1 \in Int /\ \A j \in 1..i - 1 : s[j] \in S
    BY <1>1
  <2>2. /\ SubSeq(s, 1, i - 1) \in Seq(S)
        /\ Len(SubSeq(s, 1, i - 1)) = IF 1 <= i - 1 THEN (i - 1) - 1 + 1 ELSE 0
        /\ \A j \in 1..(i - 1) - 1 + 1 : SubSeq(s, 1, i - 1)[j] = s[1 + j - 1]
    BY <2>1, SubSeqProperties
  <2>3. QED
    BY <2>2, <1>1
<1>3. /\ b \in Seq(S) /\ Len(b) = n - i
      /\ \A j \in 1..n - i : b[j] = s[i + j]
  OBVIOUS
<1>4. RemoveAt(s, i) = a \o b
  BY DEF RemoveAt
<1> HIDE DEF a, b
<1>5. /\ a \o b \in Seq(S)
      /\ Len(a \o b) = n - 1
      /\ \A j \in 1..n - 1 : (a \o b)[j] = IF j <= i - 1 THEN a[j] ELSE b[j - (i - 1)]
  <2>1. /\ a \o b \in Seq(S)
        /\ Len(a \o b) = Len(a) + Len(b)
        /\ \A j \in 1..Len(a) + Len(b) :
              (a \o b)[j] = IF j <= Len(a) THEN a[j] ELSE b[j - Len(a)]
    BY <1>2, <1>3, ConcatProperties
  <2>2. Len(a) + Len(b) = n - 1 /\ Len(a) = i - 1
    BY <1>1, <1>2, <1>3
  <2>3. QED
    BY <2>1, <2>2
<1>6. ASSUME NEW j \in 1..n - 1
      PROVE  (a \o b)[j] = IF j < i THEN s[j] ELSE s[j + 1]
  <2>1. CASE j < i
    BY <2>1, <1>1, <1>2, <1>5
  <2>2. CASE ~(j < i)
    <3>1. j - (i - 1) \in 1..n - i /\ i + (j - (i - 1)) = j + 1 /\ ~(j <= i - 1)
      BY <2>2, <1>1
    <3>2. (a \o b)[j] = b[j - (i - 1)] /\ b[j - (i - 1)] = s[j + 1]
      BY <3>1, <1>3, <1>5
    <3>3. QED
      BY <3>2, <2>2
  <2>3. QED
    BY <2>1, <2>2
<1>7. QED
  BY <1>4, <1>5, <1>6

\* RemoveFirst deletes the first entry equal to e, or nothing if there is none.
LEMMA RemoveFirstIs ==
    ASSUME NEW S, NEW s \in Seq(S), NEW e
    PROVE  \/ Places(s, e) = {} /\ RemoveFirst(s, e) = s
           \/ \E i \in Places(s, e) : /\ RemoveFirst(s, e) = RemoveAt(s, i)
                                      /\ \A j \in Places(s, e) : i <= j
<1> DEFINE I == {i \in 1..Len(s) : s[i] = e}
<1>1. CASE I = {}
  BY <1>1 DEF RemoveFirst, Places
<1>2. CASE I # {}
  <2>1. Min(I) \in I /\ \A j \in I : Min(I) <= j
    <3>1. I \in SUBSET Nat
      OBVIOUS
    <3>2. QED
      BY <3>1, <1>2, MinOfNats
  <2>2. SelectInSeq(s, LAMBDA v : v = e) = Min(I)
    BY <1>2 DEF SelectInSeq
  <2>3. RemoveFirst(s, e) = RemoveAt(s, Min(I))
    BY <1>2, <2>2 DEF RemoveFirst
  <2>4. QED
    BY <2>1, <2>3 DEF Places
<1>3. QED
  BY <1>1, <1>2

\* RemoveFirst stays in Seq(S) and loses no entry other than e.
LEMMA RemoveFirstKeepsOthers ==
    ASSUME NEW S, NEW s \in Seq(S), NEW e, NEW x \in ToSet(s), x # e
    PROVE  x \in ToSet(RemoveFirst(s, e))
<1>1. CASE RemoveFirst(s, e) = s
  BY <1>1
<1>2. CASE \E i \in Places(s, e) : RemoveFirst(s, e) = RemoveAt(s, i)
  <2>1. PICK i \in Places(s, e) : RemoveFirst(s, e) = RemoveAt(s, i)
    BY <1>2
  <2>2. i \in 1..Len(s) /\ s[i] = e
    BY DEF Places
  <2>3. PICK k \in 1..Len(s) : s[k] = x
    BY DEF ToSet
  <2>4. k # i /\ Len(s) \in Nat
    BY <2>2, <2>3
  <2> DEFINE t == RemoveAt(s, i)
  <2>5. /\ t \in Seq(S) /\ Len(t) = Len(s) - 1
        /\ \A j \in 1..Len(s) - 1 : t[j] = IF j < i THEN s[j] ELSE s[j + 1]
    BY <2>2, RemoveAtIs
  <2> HIDE DEF t
  <2>6. \E j \in 1..Len(s) - 1 : t[j] = x
    <3>1. CASE k < i
      BY <3>1, <2>2, <2>3, <2>4, <2>5
    <3>2. CASE k > i
      <4>1. k - 1 \in 1..Len(s) - 1 /\ ~(k - 1 < i) /\ (k - 1) + 1 = k
        BY <3>2, <2>2, <2>4
      <4>2. t[k - 1] = x
        BY <4>1, <2>3, <2>5
      <4>3. QED
        BY <4>1, <4>2
    <3>3. QED
      BY <3>1, <3>2, <2>2, <2>4
  <2>7. x \in ToSet(t)
    BY <2>5, <2>6 DEF ToSet
  <2>8. QED
    BY <2>7, <2>1 DEF t
<1>3. QED
  BY <1>1, <1>2, RemoveFirstIs

LEMMA RemoveFirstAddsNothing ==
    ASSUME NEW S, NEW s \in Seq(S), NEW e
    PROVE  ToSet(RemoveFirst(s, e)) \subseteq ToSet(s)
<1>1. CASE RemoveFirst(s, e) = s
  BY <1>1
<1>2. CASE \E i \in Places(s, e) : RemoveFirst(s, e) = RemoveAt(s, i)
  <2>1. PICK i \in Places(s, e) : RemoveFirst(s, e) = RemoveAt(s, i)
    BY <1>2
  <2> DEFINE t == RemoveAt(s, i)
             n == Len(s)
  <2>a. i \in 1..n /\ n \in Nat
    BY <2>1 DEF Places
  <2>2. /\ i \in 1..n /\ t \in Seq(S) /\ Len(t) = n - 1 /\ n \in Nat
        /\ \A j \in 1..n - 1 : t[j] = IF j < i THEN s[j] ELSE s[j + 1]
    BY <2>a, RemoveAtIs
  <2>3. ASSUME NEW x \in ToSet(t) PROVE x \in ToSet(s)
    <3>1. PICK j \in 1..n - 1 : x = t[j]
      <4>1. PICK j \in DOMAIN t : x = t[j]
        BY DEF ToSet
      <4>2. DOMAIN t = 1..n - 1
        BY <2>2
      <4>3. QED
        BY <4>1, <4>2
    <3>2. j \in 1..n /\ j + 1 \in 1..n
      BY <2>2
    <3>3. x = s[j] \/ x = s[j + 1]
      BY <2>2, <3>1
    <3>4. QED
      BY <3>2, <3>3 DEF ToSet
  <2>4. QED
    BY <2>1, <2>3
<1>3. QED
  BY <1>1, <1>2, RemoveFirstIs

LEMMA RemoveFirstType ==
    ASSUME NEW S, NEW s \in Seq(S), NEW e
    PROVE  RemoveFirst(s, e) \in Seq(S)
BY RemoveFirstIs, RemoveAtIs DEF Places

\* A prefix of a sequence over S is a sequence over S.
LEMMA PrefixType ==
    ASSUME NEW S, NEW s \in Seq(S), NEW t \in Prefixes(s)
    PROVE  t \in Seq(S)
BY DEF Prefixes

\* Appending adds an entry and keeps the others.
LEMMA ToSetOfAppend ==
    ASSUME NEW S, NEW s \in Seq(S), NEW e \in S
    PROVE  ToSet(Append(s, e)) = ToSet(s) \cup {e}
<1>1. ToSet(s) \subseteq ToSet(Append(s, e))
  BY DEF ToSet
<1>2. e \in ToSet(Append(s, e))
  <2>1. Len(s) + 1 \in DOMAIN Append(s, e) /\ Append(s, e)[Len(s) + 1] = e
    OBVIOUS
  <2>2. QED
    BY <2>1 DEF ToSet
<1>3. ToSet(Append(s, e)) \subseteq ToSet(s) \cup {e}
  BY DEF ToSet
<1>4. QED
  BY <1>1, <1>2, <1>3

-----------------------------------------------------------------------------
(* Subsequences *)

LEMMA WithinItself ==
    ASSUME NEW S, NEW s \in Seq(S)
    PROVE  IsWithin(s, s)
<1> DEFINE f == [i \in 1..Len(s) |-> i]
<1>1. f \in [1..Len(s) -> 1..Len(s)] /\ \A i \in 1..Len(s) : s[i] = s[f[i]]
  OBVIOUS
<1>2. \A i, j \in 1..Len(s) : i < j => f[i] < f[j]
  OBVIOUS
<1>3. QED
  BY <1>1, <1>2 DEF IsWithin

\* Nothing but the empty sequence is within it.
LEMMA WithinNothing ==
    ASSUME NEW S, NEW q \in Seq(S), IsWithin(q, <<>>)
    PROVE  q = <<>>
<1>1. SUFFICES ASSUME q # <<>> PROVE FALSE
  OBVIOUS
<1>2. PICK f \in [1..Len(q) -> 1..Len(<<>>)] : TRUE
  BY DEF IsWithin
<1>3. 1 \in 1..Len(q) /\ Len(<<>>) = 0
  BY <1>1
<1>4. f[1] \in 1..0
  BY <1>2, <1>3
<1>5. QED
  BY <1>4

\* What is left after a deletion is within what the whole was within.
LEMMA WithinAfterRemoveAt ==
    ASSUME NEW S, NEW q \in Seq(S), NEW s \in Seq(S), NEW k \in 1..Len(q), IsWithin(q, s)
    PROVE  IsWithin(RemoveAt(q, k), s)
<1> DEFINE t == RemoveAt(q, k)
           n == Len(q)
<1>1. n \in Nat /\ k \in 1..n
  OBVIOUS
<1>2. /\ Len(t) = n - 1
      /\ \A j \in 1..n - 1 : t[j] = IF j < k THEN q[j] ELSE q[j + 1]
  BY RemoveAtIs
<1>3. PICK f \in [1..n -> 1..Len(s)] :
         /\ \A i \in 1..n : q[i] = s[f[i]]
         /\ \A i, j \in 1..n : i < j => f[i] < f[j]
  BY DEF IsWithin
<1> DEFINE g == [j \in 1..n - 1 |-> IF j < k THEN f[j] ELSE f[j + 1]]
<1> HIDE DEF t, n
<1>4. g \in [1..n - 1 -> 1..Len(s)]
  BY <1>1, <1>3
<1>5. ASSUME NEW j \in 1..n - 1 PROVE t[j] = s[g[j]]
  <2>1. j \in 1..n /\ j + 1 \in 1..n
    BY <1>1
  <2>2. g[j] = IF j < k THEN f[j] ELSE f[j + 1]
    OBVIOUS
  <2>3. QED
    BY <2>1, <2>2, <1>2, <1>3
<1>6. ASSUME NEW i \in 1..n - 1, NEW j \in 1..n - 1, i < j PROVE g[i] < g[j]
  <2>1. \A x \in 1..n : f[x] \in Int
    BY <1>3
  <2>2. CASE j < k
    BY <1>1, <1>3, <1>6, <2>2
  <2>3. CASE ~(j < k) /\ i < k
    BY <1>1, <1>3, <1>6, <2>3
  <2>4. CASE ~(j < k) /\ ~(i < k)
    BY <1>1, <1>3, <1>6, <2>4
  <2>5. QED
    BY <2>2, <2>3, <2>4
<1>7. QED
  BY <1>2, <1>4, <1>5, <1>6 DEF IsWithin, t

LEMMA WithinAfterRemoveFirst ==
    ASSUME NEW S, NEW q \in Seq(S), NEW s \in Seq(S), NEW e, IsWithin(q, s)
    PROVE  IsWithin(RemoveFirst(q, e), s)
BY RemoveFirstIs, WithinAfterRemoveAt DEF Places

\* A sequence of which no entry is the head is within the tail.
LEMMA WithinTail ==
    ASSUME NEW S, NEW q \in Seq(S), NEW s \in Seq(S), s # <<>>,
           NEW f \in [1..Len(q) -> 1..Len(s)],
           \A i \in 1..Len(q) : q[i] = s[f[i]] /\ f[i] # 1,
           \A i, j \in 1..Len(q) : i < j => f[i] < f[j]
    PROVE  IsWithin(q, Tail(s))
<1> DEFINE g == [i \in 1..Len(q) |-> f[i] - 1]
           m == Len(s)
           n == Len(q)
<1>1. /\ m \in Nat /\ n \in Nat
      /\ Len(Tail(s)) = m - 1 /\ \A i \in 1..m - 1 : Tail(s)[i] = s[i + 1]
  OBVIOUS
<1> HIDE DEF m
<1>2. \A i \in 1..n : f[i] \in 1..m /\ f[i] # 1
  BY DEF m
<1>3. \A i \in 1..n : f[i] - 1 \in 1..m - 1 /\ (f[i] - 1) + 1 = f[i]
  BY <1>1, <1>2
<1>4. g \in [1..n -> 1..m - 1]
  BY <1>3
<1>5. \A i \in 1..n : q[i] = Tail(s)[g[i]]
  BY <1>1, <1>3
<1>6. \A i, j \in 1..n : i < j => g[i] < g[j]
  <2>1. SUFFICES ASSUME NEW i \in 1..n, NEW j \in 1..n, i < j PROVE g[i] < g[j]
    OBVIOUS
  <2>2. f[i] < f[j] /\ f[i] \in 1..m /\ f[j] \in 1..m
    BY <2>1, <1>2
  <2>3. QED
    BY <2>2, <1>1
<1>7. QED
  BY <1>1, <1>4, <1>5, <1>6 DEF IsWithin

\* When the head of s is deleted on both sides, in q where it occurs first, the rest of q
\* is within the rest of s.
LEMMA WithinAfterHead ==
    ASSUME NEW S, NEW q \in Seq(S), NEW s \in Seq(S), s # <<>>, IsWithin(q, s)
    PROVE  IsWithin(RemoveFirst(q, Head(s)), Tail(s))
<1> DEFINE e == Head(s)
           t == RemoveFirst(q, e)
           n == Len(q)
<1>1. n \in Nat /\ e = s[1]
  OBVIOUS
<1>2. PICK f \in [1..n -> 1..Len(s)] :
         /\ \A i \in 1..n : q[i] = s[f[i]]
         /\ \A i, j \in 1..n : i < j => f[i] < f[j]
  BY DEF IsWithin
<1>3. CASE Places(q, e) = {} /\ t = q
  <2>1. \A i \in 1..n : q[i] # e
    BY <1>3 DEF Places
  <2>2. \A i \in 1..n : f[i] # 1
    BY <2>1, <1>1, <1>2
  <2>3. IsWithin(q, Tail(s))
    BY <2>2, <1>2, WithinTail
  <2>4. QED
    BY <2>3, <1>3
<1>4. CASE \E k \in Places(q, e) : t = RemoveAt(q, k) /\ \A j \in Places(q, e) : k <= j
  <2>1. PICK k \in 1..n : t = RemoveAt(q, k) /\ \A j \in 1..k - 1 : q[j] # e
    <3>1. PICK k \in Places(q, e) : t = RemoveAt(q, k) /\ \A j \in Places(q, e) : k <= j
      BY <1>4
    <3>2. k \in 1..n
      BY DEF Places
    <3>3. ASSUME NEW j \in 1..k - 1 PROVE q[j] # e
      <4>1. j \in 1..n /\ ~(k <= j)
        BY <3>2, <1>1
      <4>2. QED
        BY <4>1, <3>1 DEF Places
    <3>4. QED
      BY <3>1, <3>2, <3>3
  <2>2. /\ t \in Seq(S) /\ Len(t) = n - 1
        /\ \A j \in 1..n - 1 : t[j] = IF j < k THEN q[j] ELSE q[j + 1]
    BY <2>1, RemoveAtIs
  <2> DEFINE g == [j \in 1..n - 1 |-> IF j < k THEN f[j] ELSE f[j + 1]]
  <2> HIDE DEF t, n, e
  <2>3. g \in [1..n - 1 -> 1..Len(s)]
    BY <1>1, <1>2, <2>1
  <2>4. ASSUME NEW j \in 1..n - 1 PROVE t[j] = s[g[j]] /\ g[j] # 1
    <3>1. CASE j < k
      <4>1. j \in 1..n /\ j \in 1..k - 1 /\ g[j] = f[j]
        BY <3>1, <1>1, <2>1
      <4>2. QED
        BY <4>1, <3>1, <1>1, <1>2, <2>1, <2>2
    <3>2. CASE ~(j < k)
      <4>1. j + 1 \in 1..n /\ k < j + 1 /\ g[j] = f[j + 1]
        BY <3>2, <1>1, <2>1
      <4>2. f[k] < f[j + 1] /\ f[k] \in 1..Len(s) /\ f[j + 1] \in 1..Len(s)
        BY <4>1, <1>2, <2>1
      <4>3. f[j + 1] # 1
        BY <4>2
      <4>4. QED
        BY <4>1, <4>3, <3>2, <1>2, <2>2
    <3>3. QED
      BY <3>1, <3>2
  <2>5. ASSUME NEW i \in 1..n - 1, NEW j \in 1..n - 1, i < j PROVE g[i] < g[j]
    <3>1. CASE j < k
      BY <1>1, <1>2, <2>1, <2>5, <3>1
    <3>2. CASE ~(j < k) /\ i < k
      BY <1>1, <1>2, <2>1, <2>5, <3>2
    <3>3. CASE ~(j < k) /\ ~(i < k)
      BY <1>1, <1>2, <2>1, <2>5, <3>3
    <3>4. QED
      BY <3>1, <3>2, <3>3
  <2> HIDE DEF g
  <2>6. QED
    BY <2>2, <2>3, <2>4, <2>5, WithinTail DEF t, e
<1>5. QED
  BY <1>3, <1>4, RemoveFirstIs

-----------------------------------------------------------------------------
(* The specification: its types and its queues *)

USE DeviceSessionAssumption
USE DEF Attach, Detach, SetOnline, Enqueue, Delete

\* The types, with what a running handler needs for its own accesses to be typed.
Typed == TypeOK /\ HandlerHasDevice /\ FlushHasWork

LEMMA NoMessages == <<>> \in Seq(Requests) /\ <<>> \in Seq(Answer)
BY EmptySeq

LEMMA TypedInit == Init => Typed
BY NoMessages DEF Init, Typed, TypeOK, HandlerHasDevice, FlushHasWork, Phases

\* Flush writes at most one message and leaves the handler with work or serving.
LEMMA FlushTypes ==
    ASSUME Typed, NEW c \in Conns, NEW ts \in Seq(Requests), Flush(c, ts)
    PROVE  /\ toSend' \in [Conns -> Seq(Requests)]
           /\ phase' \in [Conns -> Phases]
           /\ wire' \in [Conns -> Seq(Requests)]
           /\ \A x \in Conns : x # c => phase'[x] = phase[x] /\ toSend'[x] = toSend[x]
           /\ toSend'[c] = ts
           /\ phase'[c] = IF ts = <<>> THEN "serving" ELSE "flushing"
<1>1. wire' \in [Conns -> Seq(Requests)]
  <2>1. CASE ts = <<>>
    BY <2>1 DEF Flush, Typed, TypeOK
  <2>2. CASE ts # <<>>
    <3>1. Head(ts) \in Requests
      BY <2>2
    <3>2. Written(c, Head(ts)) \in Seq(Requests)
      BY <3>1 DEF Written, Typed, TypeOK
    <3>3. QED
      BY <2>2, <3>2 DEF Flush, Typed, TypeOK
  <2>3. QED
    BY <2>1, <2>2
<1>2. QED
  BY <1>1 DEF Flush, Typed, TypeOK, Phases

LEMMA TypedNext == Typed /\ [Next]_vars => Typed'
<1> SUFFICES ASSUME Typed, [Next]_vars PROVE Typed'
  OBVIOUS
<1> USE DEF Typed, TypeOK, HandlerHasDevice, FlushHasWork, Phases
<1>1. ASSUME NEW c \in Conns, Refuse(c) PROVE Typed'
  BY <1>1 DEF Refuse
<1>2. ASSUME NEW c \in Conns, Register(c) PROVE Typed'
  BY <1>2 DEF Register, network
<1>3. ASSUME NEW c \in Conns, AckReturns(c) PROVE Typed'
  <2>1. queue[dev[c]] \in Seq(Requests) /\ Flush(c, queue[dev[c]])
    BY <1>3 DEF AckReturns
  <2>2. QED
    BY <1>3, <2>1, FlushTypes DEF AckReturns
<1>4. ASSUME NEW c \in Conns, FlushReturns(c) PROVE Typed'
  <2>1. toSend[c] # <<>> /\ dev[c] \in Devices
    BY <1>4 DEF FlushReturns
  <2>2. Head(toSend[c]) \in Requests /\ Tail(toSend[c]) \in Seq(Requests)
    BY <2>1
  <2>3. queue' \in [Devices -> Seq(Requests)]
    BY <1>4, <2>1, <2>2, RemoveFirstType DEF FlushReturns
  <2>4. owed' \subseteq Devices \X Requests
    BY <1>4 DEF FlushReturns
  <2>5. Flush(c, Tail(toSend[c]))
    BY <1>4 DEF FlushReturns
  <2>6. QED
    BY <1>4, <2>2, <2>3, <2>4, <2>5, FlushTypes DEF FlushReturns
<1>5. ASSUME NEW c \in Conns, HandlerEnds(c) PROVE Typed'
  BY <1>5, NoMessages DEF HandlerEnds, network
<1>6. ASSUME NEW c \in Conns, Receive(c) PROVE Typed'
  <2> DEFINE m == Head(back[c])
  <2>1. m \in Answer /\ back[c] # <<>>
    BY <1>6 DEF Receive
  <2>2. log' \in [Requests -> Logged \cup {NoLog}]
    <3>1. CASE log[m.req] = NoLog
      BY <1>6, <3>1 DEF Receive
    <3>2. CASE log[m.req] # NoLog
      <4>1. log[m.req] \in Logged /\ m.status \in {"success", "fail"}
        BY <2>1, <3>2 DEF Answer
      <4>2. [log[m.req] EXCEPT !.status = m.status] \in Logged
        BY <4>1 DEF Logged
      <4>3. log' = [log EXCEPT ![m.req] = [log[m.req] EXCEPT !.status = m.status]]
        BY <1>6, <3>2 DEF Receive
      <4>4. QED
        BY <2>1, <4>2, <4>3 DEF Answer
    <3>3. QED
      BY <3>1, <3>2
  <2>3. back' \in [Conns -> Seq(Answer)]
    BY <1>6, <2>1 DEF Receive
  <2>4. QED
    BY <1>6, <2>2, <2>3 DEF Receive
<1>7. ASSUME NEW c \in Conns, Touch(c) PROVE Typed'
  BY <1>7 DEF Touch, network
<1>8. ASSUME NEW p \in Callers, NEW d \in Devices, NEW r \in Requests, Dispatch(p, d, r)
      PROVE  Typed'
  <2>1. log' \in [Requests -> Logged \cup {NoLog}]
    BY <1>8 DEF Dispatch, CreateLog, Logged
  <2>2. owed' \subseteq Devices \X Requests
    BY <1>8 DEF Dispatch
  <2>3. CASE connections[d] = None
    <3>1. queue' = [queue EXCEPT ![d] = Append(@, r)] /\ call' = call /\ wire' = wire
      BY <1>8, <2>3 DEF Dispatch
    <3>2. queue' \in [Devices -> Seq(Requests)]
      BY <3>1
    <3>3. QED
      BY <1>8, <2>1, <2>2, <3>1, <3>2 DEF Dispatch
  <2>4. CASE connections[d] # None
    <3>1. connections[d] \in Conns
      BY <2>4
    <3>2. Written(connections[d], r) \in Seq(Requests)
      BY <3>1 DEF Written
    <3>3. wire' \in [Conns -> Seq(Requests)]
      BY <1>8, <2>4, <3>2 DEF Dispatch
    <3>4. call' \in [Callers -> Sending \cup {Idle}]
      <4> DEFINE rec == [pc |-> "sending", dev |-> d, req |-> r, ws |-> connections[d]]
      <4>1. rec \in Sending
        BY <3>1 DEF Sending
      <4>2. call' = [call EXCEPT ![p] = rec]
        BY <1>8, <2>4 DEF Dispatch
      <4> HIDE DEF rec
      <4>3. QED
        BY <4>1, <4>2
    <3>5. queue' = queue
      BY <1>8, <2>4 DEF Dispatch
    <3>6. QED
      BY <1>8, <2>1, <2>2, <3>3, <3>4, <3>5 DEF Dispatch
  <2>5. QED
    BY <2>3, <2>4
<1>9. ASSUME NEW p \in Callers, DispatchReturns(p) PROVE Typed'
  BY <1>9 DEF DispatchReturns, network
<1>10. ASSUME NEW p \in Callers, DispatchRaises(p) PROVE Typed'
  <2>1. call[p] \in Sending
    BY <1>10 DEF DispatchRaises
  <2>2. call[p].dev \in Devices /\ call[p].req \in Requests
    BY <2>1 DEF Sending
  <2>3. queue' \in [Devices -> Seq(Requests)]
    BY <1>10, <2>2 DEF DispatchRaises
  <2>4. QED
    BY <1>10, <2>2, <2>3 DEF DispatchRaises, network
<1>11. ASSUME Restart PROVE Typed'
  BY <1>11, NoMessages DEF Restart
<1>12. ASSUME NEW d \in Devices, NEW c \in Conns, Connect(d, c) PROVE Typed'
  BY <1>12, NoMessages DEF Connect
<1>13. ASSUME NEW c \in Conns, Break(c) PROVE Typed'
  <2>1. wire' \in [Conns -> Seq(Requests)]
    BY <1>13, PrefixType DEF Break
  <2>2. back' \in [Conns -> Seq(Answer)]
    BY <1>13, PrefixType DEF Break
  <2>3. QED
    BY <1>13, <2>1, <2>2 DEF Break, server
<1>14. ASSUME NEW d \in Devices, Leave(d) PROVE Typed'
  BY <1>14, NoMessages DEF Leave, server
<1>15. ASSUME NEW d \in Devices, Handle(d) PROVE Typed'
  <2> DEFINE c == cli[d]
  <2>1. c \in Conns /\ wire[c] # <<>>
    BY <1>15 DEF Handle
  <2>2. Head(wire[c]) \in Requests /\ wire' \in [Conns -> Seq(Requests)]
    BY <1>15, <2>1 DEF Handle
  <2>3. back' \in [Conns -> Seq(Answer)]
    <3>1. CASE link[c] = "down"
      BY <1>15, <3>1 DEF Handle
    <3>2. CASE link[c] # "down"
      <4>1. PICK s \in Outcomes :
              back' = [back EXCEPT ![c] = Append(@, [req |-> Head(wire[c]), status |-> s])]
        BY <1>15, <3>2 DEF Handle
      <4>2. [req |-> Head(wire[c]), status |-> s] \in Answer
        BY <2>2 DEF Answer
      <4>3. QED
        BY <2>1, <4>1, <4>2
    <3>3. QED
      BY <3>1, <3>2
  <2>4. QED
    BY <1>15, <2>2, <2>3 DEF Handle, server
<1>16. CASE UNCHANGED vars
  BY <1>16 DEF vars, server, network
<1>17. QED
  BY <1>1, <1>2, <1>3, <1>4, <1>5, <1>6, <1>7, <1>8, <1>9, <1>10, <1>11, <1>12,
     <1>13, <1>14, <1>15, <1>16 DEF Next, HandlerStep

\* Type correctness: every variable stays in its type, a handler with a device id
\* has one of the devices, and a handler that flushes has a message to flush.
THEOREM TypeCorrect == Spec => []TypeOK
<1>1. Spec => []Typed
  BY TypedInit, TypedNext, PTL DEF Spec
<1>2. Typed => TypeOK
  BY DEF Typed
<1>3. QED
  BY <1>1, <1>2, PTL

-----------------------------------------------------------------------------
(* The connection table *)

Attached == AttachedHandlerRuns /\ AttachedIsOnline

LEMMA AttachedNext == Typed /\ Attached /\ [Next]_vars => Attached'
<1> SUFFICES ASSUME Typed, Attached, [Next]_vars PROVE Attached'
  OBVIOUS
<1> USE DEF Attached, AttachedHandlerRuns, AttachedIsOnline, Registered
<1>a. /\ phase \in [Conns -> Phases] /\ dev \in [Conns -> Devices \cup {None}]
      /\ connections \in [Devices -> Conns \cup {None}] /\ online \in [Devices -> BOOLEAN]
      /\ \A c \in Conns : phase[c] # "free" => dev[c] \in Devices
  BY DEF Typed, TypeOK, HandlerHasDevice
<1>1. ASSUME NEW c \in Conns, Refuse(c) PROVE Attached'
  BY <1>a, <1>1 DEF Refuse
<1>2. ASSUME NEW c \in Conns, Register(c) PROVE Attached'
  BY <1>a, <1>2 DEF Register
<1>3. ASSUME NEW c \in Conns, AckReturns(c) PROVE Attached'
  BY <1>a, <1>3 DEF AckReturns, Flush
<1>4. ASSUME NEW c \in Conns, FlushReturns(c) PROVE Attached'
  BY <1>a, <1>4 DEF FlushReturns, Flush
<1>5. ASSUME NEW c \in Conns, HandlerEnds(c) PROVE Attached'
  BY <1>a, <1>5 DEF HandlerEnds
<1>6. ASSUME NEW c \in Conns, Touch(c) PROVE Attached'
  BY <1>a, <1>6 DEF Touch
<1>7. ASSUME NEW p \in Callers, DispatchRaises(p) PROVE Attached'
  BY <1>a, <1>7 DEF DispatchRaises
<1>8. ASSUME Restart PROVE Attached'
  BY <1>a, <1>8 DEF Restart
<1>9. ASSUME NEW d \in Devices, NEW c \in Conns, Connect(d, c) PROVE Attached'
  BY <1>a, <1>9 DEF Connect, Unused
<1>10. ASSUME UNCHANGED <<phase, dev, connections, online>> PROVE Attached'
  BY <1>10
<1>11. QED
  BY <1>1, <1>2, <1>3, <1>4, <1>5, <1>6, <1>7, <1>8, <1>9, <1>10
  DEF Next, HandlerStep, Receive, Dispatch, DispatchReturns, Break, Leave, Handle,
      vars, server, network

\* A dispatch always picks a registered handler of its own device, and a device
\* that can be dispatched to is online=1 in the database.
THEOREM AttachedCorrect == Spec => [](AttachedHandlerRuns /\ AttachedIsOnline)
<1>1. Init => Typed /\ Attached
  BY TypedInit DEF Init, Attached, AttachedHandlerRuns, AttachedIsOnline
<1>2. Typed /\ Attached /\ [Next]_vars => (Typed /\ Attached)'
  BY TypedNext, AttachedNext
<1>3. Typed /\ Attached => AttachedHandlerRuns /\ AttachedIsOnline
  BY DEF Attached
<1>4. QED
  BY <1>1, <1>2, <1>3, PTL DEF Spec

\* A device that dispatches reach over a connection is shown online.
THEOREM AttachedIsOnlineCorrect == Spec => []AttachedIsOnline
BY AttachedCorrect, PTL

-----------------------------------------------------------------------------
(* The offline queue *)

Backlog == BacklogIsSentInOrder /\ ServedDeviceHasNoBacklog

\* What Backlog says of one device.
Covered(d, c, q, ts, ph) ==
    /\ ph = "flushing" => IsWithin(q, ts)
    /\ ph = "serving" => q = <<>>

LEMMA BacklogIs ==
    Backlog <=> \A d \in Devices : connections[d] # None =>
        Covered(d, connections[d], queue[d], toSend[connections[d]], phase[connections[d]])
BY DEF Backlog, BacklogIsSentInOrder, ServedDeviceHasNoBacklog, Covered

\* Deleting an entry from the queue leaves it covered.
LEMMA CoveredAfterDelete ==
    ASSUME NEW d, NEW c, NEW q \in Seq(Requests), NEW ts \in Seq(Requests), NEW ph,
           NEW r \in Requests, Covered(d, c, q, ts, ph)
    PROVE  Covered(d, c, RemoveFirst(q, r), ts, ph)
<1>1. ASSUME ph = "flushing" PROVE IsWithin(RemoveFirst(q, r), ts)
  BY <1>1, WithinAfterRemoveFirst DEF Covered
<1>2. ASSUME ph = "serving" PROVE RemoveFirst(q, r) = <<>>
  BY <1>2 DEF Covered, RemoveFirst
<1>3. QED
  BY <1>1, <1>2 DEF Covered

\* Finishing the head of the flush on both sides leaves the rest covered, and when
\* nothing is left to flush the queue is empty.
LEMMA CoveredAfterFlush ==
    ASSUME NEW d, NEW c, NEW q \in Seq(Requests), NEW ts \in Seq(Requests), ts # <<>>,
           Covered(d, c, q, ts, "flushing")
    PROVE  Covered(d, c, RemoveFirst(q, Head(ts)), Tail(ts),
                   IF Tail(ts) = <<>> THEN "serving" ELSE "flushing")
<1>1. IsWithin(RemoveFirst(q, Head(ts)), Tail(ts))
  BY WithinAfterHead DEF Covered
<1>2. RemoveFirst(q, Head(ts)) \in Seq(Requests)
  BY RemoveFirstType
<1>3. Tail(ts) = <<>> => RemoveFirst(q, Head(ts)) = <<>>
  BY <1>1, <1>2, WithinNothing
<1>4. QED
  BY <1>1, <1>3 DEF Covered

LEMMA BacklogNext == Typed /\ Attached /\ Backlog /\ [Next]_vars => Backlog'
<1> SUFFICES ASSUME Typed, Attached, Backlog, [Next]_vars,
                    NEW d \in Devices, connections'[d] # None
             PROVE  Covered(d, connections'[d], queue'[d], toSend'[connections'[d]],
                            phase'[connections'[d]])
  BY BacklogIs DEF Backlog, BacklogIsSentInOrder, ServedDeviceHasNoBacklog, Covered
<1> DEFINE c == connections[d]
           Goal == Covered(d, connections'[d], queue'[d], toSend'[connections'[d]],
                           phase'[connections'[d]])
<1>a. /\ phase \in [Conns -> Phases] /\ dev \in [Conns -> Devices \cup {None}]
      /\ connections \in [Devices -> Conns \cup {None}]
      /\ queue \in [Devices -> Seq(Requests)] /\ toSend \in [Conns -> Seq(Requests)]
      /\ \A x \in Conns : phase[x] # "free" => dev[x] \in Devices
      /\ \A x \in Conns : phase[x] = "flushing" => toSend[x] # <<>>
  BY DEF Typed, TypeOK, HandlerHasDevice, FlushHasWork
\* Before the step, if the device was attached already.
<1>b. c # None => /\ c \in Conns /\ phase[c] \in Registered /\ dev[c] = d
                  /\ Covered(d, c, queue[d], toSend[c], phase[c])
  BY <1>a, BacklogIs DEF Attached, AttachedHandlerRuns
<1>c. ASSUME connections'[d] = c, queue'[d] = queue[d], toSend'[c] = toSend[c],
             phase'[c] = phase[c]
      PROVE  Goal
  BY <1>b, <1>c
<1>1. ASSUME NEW x \in Conns, Refuse(x) PROVE Goal
  <2>1. connections'[d] = c
    BY <1>1 DEF Refuse
  <2>2. x # c
    BY <2>1, <1>1, <1>b DEF Refuse, Registered
  <2>3. QED
    BY <1>1, <1>a, <1>b, <1>c, <2>1, <2>2 DEF Refuse
<1>2. ASSUME NEW x \in Conns, Register(x) PROVE Goal
  <2>1. CASE dev[x] = d
    BY <1>2, <1>a, <2>1 DEF Register, Covered
  <2>2. CASE dev[x] # d
    <3>1. connections'[d] = c
      BY <1>2, <1>a, <2>2 DEF Register
    <3>2. x # c
      BY <3>1, <1>b, <2>2
    <3>3. QED
      BY <1>2, <1>a, <1>b, <1>c, <3>1, <3>2 DEF Register
  <2>3. QED
    BY <2>1, <2>2
<1>3. ASSUME NEW x \in Conns, AckReturns(x) PROVE Goal
  <2>1. /\ connections'[d] = c /\ queue' = queue /\ dev[x] \in Devices
        /\ Flush(x, queue[dev[x]]) /\ queue[dev[x]] \in Seq(Requests)
    BY <1>3, <1>a DEF AckReturns
  <2>2. CASE x = c
    <3>1. dev[x] = d
      BY <2>1, <2>2, <1>b
    <3>2. /\ toSend'[c] = queue[d]
          /\ phase'[c] = IF queue[d] = <<>> THEN "serving" ELSE "flushing"
      BY <2>1, <2>2, <3>1, FlushTypes
    <3>3. IsWithin(queue[d], queue[d])
      BY <1>a, WithinItself
    <3>4. QED
      BY <2>1, <3>2, <3>3 DEF Covered
  <2>3. CASE x # c
    <3>1. toSend'[c] = toSend[c] /\ phase'[c] = phase[c]
      BY <2>1, <2>3, <1>b, FlushTypes
    <3>2. QED
      BY <2>1, <3>1, <1>c
  <2>4. QED
    BY <2>2, <2>3
<1>4. ASSUME NEW x \in Conns, FlushReturns(x) PROVE Goal
  <2> DEFINE r == Head(toSend[x])
             rest == Tail(toSend[x])
  <2>1. /\ phase[x] = "flushing" /\ toSend[x] # <<>> /\ toSend[x] \in Seq(Requests)
        /\ dev[x] \in Devices /\ connections'[d] = c /\ Flush(x, rest)
        /\ queue' = [queue EXCEPT ![dev[x]] = RemoveFirst(@, r)]
    BY <1>4, <1>a DEF FlushReturns
  <2>2. r \in Requests /\ rest \in Seq(Requests)
    BY <2>1
  <2>3. CASE x = c
    <3>1. dev[x] = d /\ Covered(d, c, queue[d], toSend[x], "flushing")
      BY <2>1, <2>3, <1>b
    <3>2. Covered(d, c, RemoveFirst(queue[d], r), rest,
                  IF rest = <<>> THEN "serving" ELSE "flushing")
      BY <2>1, <3>1, <1>a, CoveredAfterFlush
    <3>3. queue'[d] = RemoveFirst(queue[d], r)
      BY <2>1, <3>1, <1>a
    <3>4. toSend'[c] = rest /\ phase'[c] = IF rest = <<>> THEN "serving" ELSE "flushing"
      BY <2>1, <2>2, <2>3, FlushTypes
    <3>5. QED
      BY <2>1, <3>2, <3>3, <3>4
  <2>4. CASE x # c
    <3>a. c # None /\ c \in Conns
      BY <2>1, <1>b
    <3>b. \A y \in Conns : y # x => phase'[y] = phase[y] /\ toSend'[y] = toSend[y]
      BY <2>1, <2>2, FlushTypes
    <3>1. toSend'[c] = toSend[c] /\ phase'[c] = phase[c] /\ c # None
      BY <2>4, <3>a, <3>b
    <3>2. CASE dev[x] = d
      <4>1. queue'[d] = RemoveFirst(queue[d], r)
        BY <2>1, <3>2, <1>a
      <4>2. Covered(d, c, RemoveFirst(queue[d], r), toSend[c], phase[c])
        BY <1>a, <1>b, <2>2, <3>1, CoveredAfterDelete
      <4>3. QED
        BY <2>1, <3>1, <4>1, <4>2
    <3>3. CASE dev[x] # d
      BY <2>1, <3>1, <3>3, <1>a, <1>c
    <3>4. QED
      BY <3>2, <3>3
  <2>5. QED
    BY <2>3, <2>4
<1>5. ASSUME NEW x \in Conns, HandlerEnds(x) PROVE Goal
  <2>1. d # dev[x] /\ connections'[d] = c
    BY <1>5, <1>a DEF HandlerEnds, Registered
  <2>2. x # c
    BY <2>1, <1>b
  <2>3. QED
    BY <1>5, <1>a, <1>b, <1>c, <2>1, <2>2 DEF HandlerEnds
<1>6. ASSUME NEW p \in Callers, NEW e \in Devices, NEW r \in Requests, Dispatch(p, e, r)
      PROVE  Goal
  <2>1. connections' = connections /\ toSend' = toSend /\ phase' = phase
    BY <1>6 DEF Dispatch
  <2>2. queue'[d] = queue[d]
    BY <1>6, <1>a, <2>1 DEF Dispatch
  <2>3. QED
    BY <2>1, <2>2, <1>c
<1>7. ASSUME NEW p \in Callers, DispatchRaises(p) PROVE Goal
  <2>1. call[p].dev # d
    BY <1>7, <1>a DEF DispatchRaises
  <2>2. QED
    BY <1>7, <1>a, <1>c, <2>1 DEF DispatchRaises
<1>8. ASSUME Restart PROVE Goal
  BY <1>8 DEF Restart
<1>9. ASSUME NEW e \in Devices, NEW x \in Conns, Connect(e, x) PROVE Goal
  <2>1. connections'[d] = c /\ x # c
    BY <1>9 DEF Connect, Unused
  <2>2. QED
    BY <1>9, <1>a, <1>b, <1>c, <2>1 DEF Connect
<1>10. ASSUME UNCHANGED <<connections, queue, toSend, phase>> PROVE Goal
  BY <1>10, <1>c
<1>11. QED
  BY <1>1, <1>2, <1>3, <1>4, <1>5, <1>6, <1>7, <1>8, <1>9, <1>10
  DEF Next, HandlerStep, Receive, Touch, DispatchReturns, Break, Leave, Handle,
      vars, server, network

\* A device that is attached and served has nothing waiting in the offline queue,
\* whatever handlers of its older connections and failing dispatches do meanwhile,
\* because the queue is within what its handler has still to flush.
THEOREM BacklogCorrect == Spec => [](ServedDeviceHasNoBacklog /\ BacklogIsSentInOrder)
<1> DEFINE IInv == Typed /\ Attached /\ Backlog
<1>1. Init => IInv
  BY TypedInit DEF Init, Attached, AttachedHandlerRuns, AttachedIsOnline,
     Backlog, BacklogIsSentInOrder, ServedDeviceHasNoBacklog
<1>2. IInv /\ [Next]_vars => IInv'
  BY TypedNext, AttachedNext, BacklogNext
<1>3. IInv => ServedDeviceHasNoBacklog /\ BacklogIsSentInOrder
  BY DEF Backlog
<1>4. QED
  BY <1>1, <1>2, <1>3, PTL DEF Spec

\* While the attached handler flushes, what waits is a subsequence of what it has still
\* to send, repeated request ids included, although other handlers delete from the same
\* queue.
THEOREM BacklogIsSentInOrderCorrect == Spec => []BacklogIsSentInOrder
BY BacklogCorrect, PTL

-----------------------------------------------------------------------------
(* No message is forgotten *)

LEMMA ForgottenNext == Typed /\ NothingForgotten /\ [Next]_vars => NothingForgotten'
<1> SUFFICES ASSUME Typed, NothingForgotten, [Next]_vars,
                    NEW d \in Devices, NEW r \in Requests, <<d, r>> \in owed'
             PROVE  InQueue(d, r)' \/ InFlight(d, r)'
  BY DEF NothingForgotten
<1> DEFINE Goal == InQueue(d, r)' \/ InFlight(d, r)'
<1>a. /\ queue \in [Devices -> Seq(Requests)] /\ toSend \in [Conns -> Seq(Requests)]
      /\ call \in [Callers -> Sending \cup {Idle}]
      /\ \A x \in Conns : phase[x] # "free" => dev[x] \in Devices
      /\ \A x \in Conns : phase[x] = "flushing" => toSend[x] # <<>>
  BY DEF Typed, TypeOK, HandlerHasDevice, FlushHasWork
<1>b. <<d, r>> \in owed => InQueue(d, r) \/ InFlight(d, r)
  BY DEF NothingForgotten
<1>1. ASSUME NEW x \in Conns, FlushReturns(x) PROVE Goal
  <2> DEFINE m == Head(toSend[x])
  <2>1. /\ <<d, r>> \in owed /\ ~(dev[x] = d /\ m = r) /\ call' = call /\ dev[x] \in Devices
        /\ queue' = [queue EXCEPT ![dev[x]] = RemoveFirst(@, m)]
    BY <1>1, <1>a DEF FlushReturns
  <2>2. CASE InFlight(d, r)
    BY <2>1, <2>2 DEF InFlight
  <2>3. CASE InQueue(d, r)
    <3>1. CASE dev[x] = d
      <4>1. queue'[d] = RemoveFirst(queue[d], m) /\ m # r
        BY <2>1, <3>1, <1>a
      <4>2. r \in ToSet(queue[d]) /\ queue[d] \in Seq(Requests)
        BY <2>3, <1>a DEF InQueue
      <4>3. r \in ToSet(queue'[d])
        BY <4>1, <4>2, RemoveFirstKeepsOthers
      <4>4. QED
        BY <4>3 DEF InQueue
    <3>2. CASE dev[x] # d
      BY <2>1, <2>3, <3>2, <1>a DEF InQueue
    <3>3. QED
      BY <3>1, <3>2
  <2>4. QED
    BY <2>1, <2>2, <2>3, <1>b
<1>2. ASSUME NEW p \in Callers, NEW e \in Devices, NEW q \in Requests, Dispatch(p, e, q)
      PROVE  Goal
  <2>1. owed' = owed \cup {<<e, q>>} /\ call[p] = Idle
    BY <1>2 DEF Dispatch
  <2>2. CASE connections[e] = None
    <3>1. queue' = [queue EXCEPT ![e] = Append(@, q)] /\ call' = call
      BY <1>2, <2>2 DEF Dispatch
    <3>2. ToSet(queue'[e]) = ToSet(queue[e]) \cup {q} /\ (d # e => queue'[d] = queue[d])
      BY <3>1, <1>a, ToSetOfAppend
    <3>3. (<<d, r>> = <<e, q>> \/ InQueue(d, r)) => InQueue(d, r)'
      BY <3>2 DEF InQueue
    <3>4. InFlight(d, r) => InFlight(d, r)'
      BY <3>1 DEF InFlight
    <3>5. QED
      BY <2>1, <3>3, <3>4, <1>b
  <2>3. CASE connections[e] # None
    <3> DEFINE rec == [pc |-> "sending", dev |-> e, req |-> q, ws |-> connections[e]]
    <3>1. queue' = queue /\ call' = [call EXCEPT ![p] = rec]
      BY <1>2, <2>3 DEF Dispatch
    <3>2. call'[p] = rec /\ \A z \in Callers : z # p => call'[z] = call[z]
      BY <3>1, <1>a
    <3>3. <<d, r>> = <<e, q>> => InFlight(d, r)'
      BY <3>2 DEF InFlight
    <3>4. InFlight(d, r) => InFlight(d, r)'
      BY <3>2, <2>1 DEF InFlight, Idle
    <3>5. InQueue(d, r) => InQueue(d, r)'
      BY <3>1 DEF InQueue
    <3>6. QED
      BY <2>1, <3>3, <3>4, <3>5, <1>b
  <2>4. QED
    BY <2>2, <2>3
<1>3. ASSUME NEW p \in Callers, DispatchReturns(p) PROVE Goal
  <2>1. /\ queue' = queue /\ <<d, r>> \in owed /\ <<d, r>> # <<call[p].dev, call[p].req>>
        /\ \A z \in Callers : z # p => call'[z] = call[z]
    BY <1>3, <1>a DEF DispatchReturns
  <2>2. InFlight(d, r) => InFlight(d, r)'
    BY <2>1 DEF InFlight
  <2>3. QED
    BY <2>1, <2>2, <1>b DEF InQueue
<1>4. ASSUME NEW p \in Callers, DispatchRaises(p) PROVE Goal
  <2> DEFINE e == call[p].dev
             q == call[p].req
  <2>1. call[p] \in Sending /\ e \in Devices /\ q \in Requests
    <3>1. call[p] \in Sending
      BY <1>4, <1>a DEF DispatchRaises
    <3>2. QED
      BY <3>1 DEF Sending
  <2>2. /\ queue' = [queue EXCEPT ![e] = Append(@, q)] /\ owed' = owed
        /\ \A z \in Callers : z # p => call'[z] = call[z]
    BY <1>4, <1>a DEF DispatchRaises
  <2>3. ToSet(queue'[e]) = ToSet(queue[e]) \cup {q} /\ (d # e => queue'[d] = queue[d])
    BY <2>1, <2>2, <1>a, ToSetOfAppend
  <2>4. InQueue(d, r) => InQueue(d, r)'
    BY <2>3 DEF InQueue
  <2>5. InFlight(d, r) => InFlight(d, r)' \/ InQueue(d, r)'
    <3>1. ASSUME NEW z \in Callers, call[z].pc = "sending", call[z].dev = d, call[z].req = r
          PROVE  InFlight(d, r)' \/ InQueue(d, r)'
      BY <3>1, <2>2, <2>3 DEF InFlight, InQueue
    <3>2. QED
      BY <3>1 DEF InFlight
  <2>6. QED
    BY <2>2, <2>4, <2>5, <1>b
<1>5. ASSUME Restart PROVE Goal
  BY <1>5 DEF Restart
<1>6. ASSUME UNCHANGED <<queue, call, owed>> PROVE Goal
  BY <1>6, <1>b DEF InQueue, InFlight
<1>7. QED
  BY <1>1, <1>2, <1>3, <1>4, <1>5, <1>6
  DEF Next, HandlerStep, Refuse, Register, AckReturns, HandlerEnds, Receive, Touch,
      Connect, Break, Leave, Handle, vars, server, network

\* Within one process of the server, an accepted message that no send has taken is
\* queued for its device or held by a coroutine that queues it when the send fails.
THEOREM NothingForgottenCorrect == Spec => []NothingForgotten
<1>1. Init => Typed /\ NothingForgotten
  BY TypedInit DEF Init, NothingForgotten
<1>2. Typed /\ NothingForgotten /\ [Next]_vars => (Typed /\ NothingForgotten)'
  BY TypedNext, ForgottenNext
<1>3. QED
  BY <1>1, <1>2, PTL DEF Spec

-----------------------------------------------------------------------------
(* The module keeps the promise of Delivery *)

LEMMA DeliveryInit == Init => D!Init
<1> SUFFICES ASSUME Init PROVE D!Init
  OBVIOUS
<1>1. Held = {}
  BY DEF Init, Held, InQueue, InFlight, Idle, ToSet
<1>2. QED
  BY <1>1 DEF Init, D!Init

\* What Held becomes when only one message may come or go.
LEMMA HeldChanges ==
    ASSUME NEW d \in Devices, NEW r \in Requests,
           \A e \in Devices, q \in Requests : <<e, q>> # <<d, r>> =>
               (<<e, q>> \in Held' <=> <<e, q>> \in Held)
    PROVE  /\ Held' \in {Held, Held \ {<<d, r>>}, Held \cup {<<d, r>>}}
           /\ <<d, r>> \in Held' => Held' = Held \cup {<<d, r>>}
           /\ <<d, r>> \in Held => Held' \in {Held, Held \ {<<d, r>>}}
           /\ (<<d, r>> \in Held' <=> <<d, r>> \in Held) => Held' = Held
<1>1. /\ Held \subseteq Devices \X Requests /\ Held' \subseteq Devices \X Requests
  BY DEF Held
<1> HIDE DEF Held
<1>2. \A x \in Devices \X Requests : x # <<d, r>> => (x \in Held' <=> x \in Held)
  OBVIOUS
<1>3. CASE <<d, r>> \in Held'
  <2>1. Held' = Held \cup {<<d, r>>}
    BY <1>1, <1>2, <1>3
  <2>2. <<d, r>> \in Held => Held \cup {<<d, r>>} = Held
    OBVIOUS
  <2>3. QED
    BY <1>3, <2>1, <2>2
<1>4. CASE <<d, r>> \notin Held'
  <2>1. Held' = Held \ {<<d, r>>}
    BY <1>1, <1>2, <1>4
  <2>2. <<d, r>> \notin Held => Held \ {<<d, r>>} = Held
    OBVIOUS
  <2>3. QED
    BY <1>4, <2>1, <2>2
<1>5. QED
  BY <1>3, <1>4

LEMMA DeliveryNext == Typed /\ NothingForgotten /\ [Next]_vars => [D!Next]_(D!vars)
<1> SUFFICES ASSUME Typed, NothingForgotten, [Next]_vars PROVE [D!Next]_(D!vars)
  OBVIOUS
<1> DEFINE Goal == D!Next \/ UNCHANGED <<owed, log, Held>>
<1>a. /\ queue \in [Devices -> Seq(Requests)] /\ toSend \in [Conns -> Seq(Requests)]
      /\ call \in [Callers -> Sending \cup {Idle}] /\ back \in [Conns -> Seq(Answer)]
      /\ \A x \in Conns : phase[x] # "free" => dev[x] \in Devices
      /\ \A x \in Conns : phase[x] = "flushing" => toSend[x] # <<>>
  BY DEF Typed, TypeOK, HandlerHasDevice, FlushHasWork
<1>b. /\ \A e \in Devices, q \in Requests :
            <<e, q>> \in Held <=> InQueue(e, q) \/ InFlight(e, q)
      /\ \A e \in Devices, q \in Requests :
            <<e, q>> \in Held' <=> InQueue(e, q)' \/ InFlight(e, q)'
  BY DEF Held
<1>c. \A e \in Devices, q \in Requests : <<e, q>> \in owed => <<e, q>> \in Held
  BY <1>b DEF NothingForgotten
<1>1. ASSUME NEW x \in Conns, FlushReturns(x) PROVE Goal
  <2>0. /\ dev[x] \in Devices /\ Head(toSend[x]) \in Requests
        /\ call' = call /\ log' = log
        /\ owed' = owed \ {<<dev[x], Head(toSend[x])>>}
        /\ queue' = [queue EXCEPT ![dev[x]] = RemoveFirst(@, Head(toSend[x]))]
    BY <1>1, <1>a DEF FlushReturns
  <2>1. PICK d \in Devices, r \in Requests :
            /\ d \in Devices /\ r \in Requests /\ call' = call /\ log' = log
            /\ owed' = owed \ {<<d, r>>}
            /\ queue' = [queue EXCEPT ![d] = RemoveFirst(@, r)]
    BY <2>0
  <2>2. /\ queue'[d] = RemoveFirst(queue[d], r) /\ queue[d] \in Seq(Requests)
        /\ \A e \in Devices : e # d => queue'[e] = queue[e]
    BY <2>1, <1>a
  <2>3. \A e \in Devices, q \in Requests : InFlight(e, q)' <=> InFlight(e, q)
    BY <2>1 DEF InFlight
  <2>4. /\ ToSet(queue'[d]) \subseteq ToSet(queue[d])
        /\ \A q \in ToSet(queue[d]) : q # r => q \in ToSet(queue'[d])
    BY <2>2, RemoveFirstAddsNothing, RemoveFirstKeepsOthers
  <2>5. \A e \in Devices, q \in Requests : <<e, q>> # <<d, r>> =>
            (InQueue(e, q)' <=> InQueue(e, q))
    BY <2>2, <2>4 DEF InQueue
  <2>6. InQueue(d, r)' => InQueue(d, r)
    BY <2>4 DEF InQueue
  <2>7. \A e \in Devices, q \in Requests : <<e, q>> # <<d, r>> =>
            (<<e, q>> \in Held' <=> <<e, q>> \in Held)
    BY <1>b, <2>3, <2>5
  <2>8. CASE <<d, r>> \in Held
    <3>1. Held' \in {Held, Held \ {<<d, r>>}}
      BY <2>1, <2>7, <2>8, HeldChanges
    <3>2. D!HandOver(d, r)
      BY <2>1, <2>8, <3>1 DEF D!HandOver
    <3>3. QED
      BY <2>1, <3>2 DEF D!Next
  <2>9. CASE <<d, r>> \notin Held
    <3>1. <<d, r>> \notin Held' /\ owed' = owed
      BY <2>1, <2>3, <2>6, <2>9, <1>b, <1>c
    <3>2. Held' = Held
      BY <2>1, <2>7, <2>9, <3>1, HeldChanges
    <3>3. QED
      BY <2>1, <3>1, <3>2
  <2>10. QED
    BY <2>8, <2>9
<1>2. ASSUME NEW p \in Callers, NEW d \in Devices, NEW r \in Requests, Dispatch(p, d, r)
      PROVE  Goal
  <2>1. owed' = owed \cup {<<d, r>>} /\ call[p] = Idle /\ CreateLog(d, r)
    BY <1>2 DEF Dispatch
  <2>2. /\ <<d, r>> \in Held'
        /\ \A e \in Devices, q \in Requests : <<e, q>> # <<d, r>> =>
              (<<e, q>> \in Held' <=> <<e, q>> \in Held)
    <3>1. CASE connections[d] = None
      <4>1. queue' = [queue EXCEPT ![d] = Append(@, r)] /\ call' = call
        BY <1>2, <3>1 DEF Dispatch
      <4>2. /\ ToSet(queue'[d]) = ToSet(queue[d]) \cup {r}
            /\ \A e \in Devices : e # d => queue'[e] = queue[e]
        BY <4>1, <1>a, ToSetOfAppend
      <4>3. \A e \in Devices, q \in Requests : InFlight(e, q)' <=> InFlight(e, q)
        BY <4>1 DEF InFlight
      <4>4. QED
        BY <1>b, <4>2, <4>3 DEF InQueue
    <3>2. CASE connections[d] # None
      <4> DEFINE rec == [pc |-> "sending", dev |-> d, req |-> r, ws |-> connections[d]]
      <4>1. queue' = queue /\ call' = [call EXCEPT ![p] = rec]
        BY <1>2, <3>2 DEF Dispatch
      <4>2. /\ call'[p] = rec /\ call[p].pc = "idle"
            /\ \A z \in Callers : z # p => call'[z] = call[z]
        BY <4>1, <2>1, <1>a DEF Idle
      <4>3. InFlight(d, r)'
        BY <4>2 DEF InFlight
      <4>4. \A e \in Devices, q \in Requests : <<e, q>> # <<d, r>> =>
                (InFlight(e, q)' <=> InFlight(e, q))
        BY <4>2 DEF InFlight
      <4>5. QED
        BY <1>b, <4>1, <4>3, <4>4 DEF InQueue
    <3>3. QED
      BY <3>1, <3>2
  <2>3. Held' = Held \cup {<<d, r>>}
    BY <2>2, HeldChanges
  <2>4. D!Accept(d, r)
    BY <2>1, <2>3 DEF D!Accept, CreateLog
  <2>5. QED
    BY <2>4 DEF D!Next
<1>3. ASSUME NEW p \in Callers, DispatchReturns(p) PROVE Goal
  <2> DEFINE d == call[p].dev
             r == call[p].req
  <2>1. call[p] \in Sending
    BY <1>3, <1>a DEF DispatchReturns
  <2>2. d \in Devices /\ r \in Requests /\ call[p].pc = "sending"
    BY <2>1 DEF Sending
  <2>3. /\ owed' = owed \ {<<d, r>>} /\ queue' = queue /\ log' = log
        /\ call'[p].pc = "idle" /\ \A z \in Callers : z # p => call'[z] = call[z]
    BY <1>3, <1>a DEF DispatchReturns, Idle, network
  <2>4. InFlight(d, r)
    BY <2>2 DEF InFlight
  <2>5. \A e \in Devices, q \in Requests : <<e, q>> # <<d, r>> =>
            (InFlight(e, q)' <=> InFlight(e, q))
    BY <2>3 DEF InFlight
  <2> HIDE DEF d, r
  <2>6. /\ <<d, r>> \in Held
        /\ \A e \in Devices, q \in Requests : <<e, q>> # <<d, r>> =>
              (<<e, q>> \in Held' <=> <<e, q>> \in Held)
    BY <1>b, <2>2, <2>3, <2>4, <2>5 DEF InQueue
  <2>7. Held' \in {Held, Held \ {<<d, r>>}}
    BY <2>2, <2>6, HeldChanges
  <2>8. D!HandOver(d, r)
    BY <2>3, <2>6, <2>7 DEF D!HandOver
  <2>9. QED
    BY <2>2, <2>8 DEF D!Next
<1>4. ASSUME NEW p \in Callers, DispatchRaises(p) PROVE Goal
  <2> DEFINE d == call[p].dev
             r == call[p].req
  <2>1. call[p] \in Sending
    BY <1>4, <1>a DEF DispatchRaises
  <2>2. d \in Devices /\ r \in Requests /\ call[p].pc = "sending"
    BY <2>1 DEF Sending
  <2>3. /\ queue' = [queue EXCEPT ![d] = Append(@, r)] /\ owed' = owed /\ log' = log
        /\ call'[p].pc = "idle" /\ \A z \in Callers : z # p => call'[z] = call[z]
    BY <1>4, <1>a DEF DispatchRaises, Idle, network
  <2>4. InFlight(d, r)
    BY <2>2 DEF InFlight
  <2>5. \A e \in Devices, q \in Requests : <<e, q>> # <<d, r>> =>
            (InFlight(e, q)' <=> InFlight(e, q))
    BY <2>3 DEF InFlight
  <2> HIDE DEF d, r
  <2>6. /\ ToSet(queue'[d]) = ToSet(queue[d]) \cup {r}
        /\ \A e \in Devices : e # d => queue'[e] = queue[e]
    BY <2>2, <2>3, <1>a, ToSetOfAppend
  <2>7. /\ <<d, r>> \in Held /\ <<d, r>> \in Held'
        /\ \A e \in Devices, q \in Requests : <<e, q>> # <<d, r>> =>
              (<<e, q>> \in Held' <=> <<e, q>> \in Held)
    BY <1>b, <2>2, <2>4, <2>5, <2>6 DEF InQueue
  <2>8. Held' = Held
    BY <2>2, <2>7, HeldChanges
  <2>9. QED
    BY <2>3, <2>8
<1>5. ASSUME NEW x \in Conns, Receive(x) PROVE Goal
  <2> DEFINE a == Head(back[x])
  <2>1. a \in Answer
    <3>1. back[x] \in Seq(Answer) /\ back[x] # <<>>
      BY <1>5, <1>a DEF Receive
    <3>2. QED
      BY <3>1
  <2>2. a.req \in Requests /\ a.status \in Outcomes
    BY <2>1 DEF Answer
  <2>3. UNCHANGED <<queue, call, owed>>
    BY <1>5 DEF Receive
  <2>4. Held' = Held /\ owed' = owed
    BY <2>3 DEF Held, InQueue, InFlight
  <2>5. CASE log[a.req] = NoLog
    BY <1>5, <2>4, <2>5 DEF Receive
  <2>6. CASE log[a.req] # NoLog
    <3>1. log' = [log EXCEPT ![a.req].status = a.status]
      BY <1>5, <2>6 DEF Receive
    <3>2. D!Confirm(a.req, a.status)
      BY <2>4, <2>6, <3>1 DEF D!Confirm
    <3>3. QED
      BY <2>2, <3>2 DEF D!Next
  <2>7. QED
    BY <2>5, <2>6
<1>6. ASSUME Restart PROVE Goal
  <2>1. Held' = {} /\ owed' = {} /\ log' = log
    BY <1>6 DEF Restart, Held, InQueue, InFlight, Idle, ToSet
  <2>2. QED
    BY <2>1 DEF D!Next, D!Forget
<1>7. ASSUME UNCHANGED <<queue, call, owed, log>> PROVE Goal
  BY <1>7 DEF Held, InQueue, InFlight
<1>8. Goal
  BY <1>1, <1>2, <1>3, <1>4, <1>5, <1>6, <1>7
  DEF Next, HandlerStep, Refuse, Register, AckReturns, HandlerEnds, Touch,
      Connect, Break, Leave, Handle, vars, server, network
<1>9. QED
  BY <1>8 DEF D!vars

\* The server keeps what dispatching promises: whatever connections, flushes, failing
\* sends and answers do, each step accepts a message, hands one over, records an
\* answer, ends the process, or changes nothing that Delivery speaks of.
THEOREM DeliveryCorrect == Spec => DeliverySpec
<1>1. Init => Typed /\ NothingForgotten
  BY TypedInit DEF Init, NothingForgotten
<1>2. Typed /\ NothingForgotten /\ [Next]_vars => (Typed /\ NothingForgotten)'
  BY TypedNext, ForgottenNext
<1>3. QED
  BY <1>1, <1>2, DeliveryInit, DeliveryNext, PTL DEF Spec, DeliverySpec, D!Spec
=============================================================================
