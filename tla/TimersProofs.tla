---------------------------- MODULE TimersProofs ----------------------------
(***************************************************************************)
(* The timers fire in order, none that is due is left when the loop goes   *)
(* to sleep, and it never sleeps past one: the tree stays sorted, without  *)
(* duplicates, through every order of handlers that set and kill timers.   *)
(***************************************************************************)
EXTENDS Timers, SequenceTheorems, FiniteSetTheorems, TLAPS

(* The order of the tree. *)

Before(a, b) == a.left < b.left \/ (a.left = b.left /\ a.armedFor >= b.armedFor)

Sorted(q, heap) ==
    \A i, j \in 1 .. Len(q) : i < j => Before(heap[q[i]], heap[q[j]])

Distinct(q) == \A i, j \in 1 .. Len(q) : q[i] = q[j] => i = j

\* What the order needs to know of a timer.
Placed(r) == r.left \in Int /\ r.armedFor \in Nat

\* A set of positions that holds all those before each of its own is a prefix.
LEMMA PrefixOfPositions ==
    ASSUME NEW n \in Nat, NEW S \in SUBSET (1 .. n),
           \A i \in S : \A j \in 1 .. i : j \in S
    PROVE  Cardinality(S) \in 0 .. n /\ S = 1 .. Cardinality(S)
<1>1. IsFiniteSet(1 .. n) /\ Cardinality(1 .. n) = n
  BY FS_Interval
<1>2. IsFiniteSet(S) /\ Cardinality(S) <= n
  BY <1>1, FS_Subset
<1>3. Cardinality(S) \in Nat
  BY <1>2, FS_CardinalityType
<1>4. ASSUME NEW i \in S PROVE i <= Cardinality(S)
  <2>1. (1 .. i) \in SUBSET S
    OBVIOUS
  <2>2. Cardinality(1 .. i) = i
    BY FS_Interval
  <2> QED
    BY <2>1, <2>2, <1>2, FS_Subset
<1>5. S \in SUBSET (1 .. Cardinality(S))
  BY <1>3, <1>4
<1>6. IsFiniteSet(1 .. Cardinality(S)) /\ Cardinality(1 .. Cardinality(S)) = Cardinality(S)
  BY <1>3, FS_Interval
<1>7. 1 .. Cardinality(S) = S
  BY <1>5, <1>6, FS_Subset
<1> QED
  BY <1>2, <1>3, <1>7

\* r is q with t between the timers at p - 1 and at p: the ones before are as
\* early as t or earlier, the ones behind are later.
Between(p, q, t, heap, r) ==
    /\ \A i \in 1 .. p - 1 : heap[q[i]].left <= heap[t].left
    /\ \A i \in p .. Len(q) : heap[q[i]].left > heap[t].left
    /\ \A i \in 1 .. Len(q) + 1 :
          r[i] = IF i < p THEN q[i] ELSE IF i = p THEN t ELSE q[i - 1]

\* What insert_timer returns: t at some position, the earlier ones and those as
\* early before it, the later ones behind it.
LEMMA InsertedAt ==
    ASSUME NEW S, NEW q \in Seq(S), NEW t \in S, NEW heap,
           \A u \in S : Placed(heap[u]), Sorted(q, heap)
    PROVE  /\ Inserted(q, t, heap) \in Seq(S)
           /\ Len(Inserted(q, t, heap)) = Len(q) + 1
           /\ \E p \in 1 .. Len(q) + 1 : Between(p, q, t, heap, Inserted(q, t, heap))
<1> DEFINE earlier == {i \in DOMAIN q : heap[q[i]].left <= heap[t].left}
           p == Cardinality(earlier) + 1
<1>1. DOMAIN q = 1 .. Len(q) /\ Len(q) \in Nat /\ \A i \in 1 .. Len(q) : q[i] \in S
  BY LenProperties
<1>2. \A i \in earlier : \A j \in 1 .. i : j \in earlier
  BY <1>1 DEF Sorted, Before, Placed
<1>3. Cardinality(earlier) \in 0 .. Len(q) /\ earlier = 1 .. Cardinality(earlier)
  <2>1. earlier \in SUBSET (1 .. Len(q))
    BY <1>1
  <2> HIDE DEF earlier
  <2> QED
    BY <1>1, <1>2, <2>1, PrefixOfPositions
<1>4. p \in 1 .. Len(q) + 1 /\ earlier = 1 .. p - 1
  <2> DEFINE c == Cardinality(earlier)
  <2>1. c \in 0 .. Len(q) /\ earlier = 1 .. c /\ p = c + 1
    BY <1>3
  <2> HIDE DEF earlier, c, p
  <2> QED
    BY <1>1, <2>1
<1>5. /\ \A i \in 1 .. p - 1 : heap[q[i]].left <= heap[t].left
      /\ \A i \in p .. Len(q) : heap[q[i]].left > heap[t].left
  <2>1. \A i \in 1 .. p - 1 : i \in earlier
    BY <1>4
  <2>2. ASSUME NEW i \in p .. Len(q) PROVE heap[q[i]].left > heap[t].left
    <3>1. i \notin earlier /\ i \in DOMAIN q
      <4> HIDE DEF earlier, p
      <4> QED
        BY <1>1, <1>4
    <3> QED
      BY <1>1, <3>1 DEF Placed
  <2>3. ASSUME NEW i \in 1 .. p - 1 PROVE heap[q[i]].left <= heap[t].left
    BY <2>1
  <2> QED
    BY <2>2, <2>3
<1> HIDE DEF p
<1>6. Inserted(q, t, heap) = (SubSeq(q, 1, p - 1) \o <<t>>) \o SubSeq(q, p, Len(q))
  BY DEF Inserted, InsertAt, p
<1>7. /\ SubSeq(q, 1, p - 1) \in Seq(S) /\ Len(SubSeq(q, 1, p - 1)) = p - 1
      /\ \A i \in 1 .. p - 1 : SubSeq(q, 1, p - 1)[i] = q[i]
  BY <1>1, <1>4, SubSeqProperties
<1>8. /\ SubSeq(q, p, Len(q)) \in Seq(S) /\ Len(SubSeq(q, p, Len(q))) = Len(q) - p + 1
      /\ \A i \in 1 .. Len(q) - p + 1 : SubSeq(q, p, Len(q))[i] = q[p + i - 1]
  BY <1>1, <1>4, SubSeqProperties
<1>9. <<t>> \in Seq(S) /\ Len(<<t>>) = 1 /\ <<t>>[1] = t
  OBVIOUS
<1> DEFINE a == SubSeq(q, 1, p - 1)
           b == SubSeq(q, p, Len(q))
           ab == a \o <<t>>
<1>10. /\ ab \in Seq(S) /\ Len(ab) = p
       /\ \A i \in 1 .. p : ab[i] = IF i < p THEN q[i] ELSE t
  <2> HIDE DEF a
  <2>1. a \in Seq(S) /\ Len(a) = p - 1 /\ \A i \in 1 .. p - 1 : a[i] = q[i]
    BY <1>7 DEF a
  <2>2. /\ ab \in Seq(S) /\ Len(ab) = p
        /\ \A i \in 1 .. p : ab[i] = IF i <= p - 1 THEN a[i] ELSE <<t>>[i - (p - 1)]
    BY <2>1, <1>4, <1>9, ConcatProperties
  <2> QED
    BY <2>1, <2>2, <1>4, <1>9
<1>11. /\ ab \o b \in Seq(S) /\ Len(ab \o b) = Len(q) + 1
       /\ \A i \in 1 .. Len(q) + 1 : (ab \o b)[i] = IF i <= p THEN ab[i] ELSE b[i - p]
  <2> HIDE DEF ab, b
  <2>1. b \in Seq(S) /\ Len(b) = Len(q) - p + 1
    BY <1>8 DEF b
  <2>2. ab \in Seq(S) /\ Len(ab) = p
    BY <1>10
  <2>3. /\ ab \o b \in Seq(S) /\ Len(ab \o b) = Len(ab) + Len(b)
        /\ \A i \in 1 .. Len(ab) + Len(b) :
              (ab \o b)[i] = IF i <= Len(ab) THEN ab[i] ELSE b[i - Len(ab)]
    BY <2>1, <2>2, ConcatProperties
  <2>4. Len(ab) + Len(b) = Len(q) + 1
    BY <2>1, <2>2, <1>1, <1>4
  <2> QED
    BY <2>2, <2>3, <2>4
<1>12. \A i \in 1 .. Len(q) + 1 :
          (ab \o b)[i] = IF i < p THEN q[i] ELSE IF i = p THEN t ELSE q[i - 1]
  <2> HIDE DEF ab, b
  <2>1. \A i \in 1 .. Len(q) - p + 1 : b[i] = q[p + i - 1]
    BY <1>8 DEF b
  <2>2. SUFFICES ASSUME NEW i \in 1 .. Len(q) + 1
                 PROVE  (ab \o b)[i] = IF i < p THEN q[i] ELSE IF i = p THEN t ELSE q[i - 1]
    OBVIOUS
  <2>3. CASE i <= p
    BY <2>3, <1>4, <1>10, <1>11
  <2>4. CASE i > p
    <3>1. i - p \in 1 .. Len(q) - p + 1 /\ p + (i - p) - 1 = i - 1
      BY <2>4, <1>1, <1>4
    <3>2. b[i - p] = q[i - 1]
      BY <2>1, <3>1
    <3> QED
      BY <2>4, <3>2, <1>4, <1>11
  <2> QED
    <3>1. i <= p \/ i > p
      BY <1>1, <1>4
    <3> QED
      BY <2>3, <2>4, <3>1
<1> QED
  BY <1>4, <1>5, <1>6, <1>11, <1>12 DEF Between

\* A timer that is inserted keeps the tree sorted and without duplicates.
LEMMA InsertedKeeps ==
    ASSUME NEW S, NEW q \in Seq(S), NEW t \in S, NEW heap,
           \A u \in S : Placed(heap[u]), heap[t].armedFor = 0,
           Sorted(q, heap), Distinct(q), t \notin ToSet(q)
    PROVE  /\ Inserted(q, t, heap) \in Seq(S)
           /\ Sorted(Inserted(q, t, heap), heap)
           /\ Distinct(Inserted(q, t, heap))
<1> DEFINE r == Inserted(q, t, heap)
<1>1. DOMAIN q = 1 .. Len(q) /\ Len(q) \in Nat /\ \A i \in 1 .. Len(q) : q[i] \in S
  BY LenProperties
<1>2. \A i \in 1 .. Len(q) : q[i] # t
  BY <1>1 DEF ToSet
<1>3. r \in Seq(S) /\ Len(r) = Len(q) + 1
  BY InsertedAt
<1>4. PICK p \in 1 .. Len(q) + 1 :
         /\ \A i \in 1 .. p - 1 : heap[q[i]].left <= heap[t].left
         /\ \A i \in p .. Len(q) : heap[q[i]].left > heap[t].left
         /\ \A i \in 1 .. Len(q) + 1 :
               r[i] = IF i < p THEN q[i] ELSE IF i = p THEN t ELSE q[i - 1]
  <2>1. \E p \in 1 .. Len(q) + 1 : Between(p, q, t, heap, r)
    BY InsertedAt
  <2> QED
    BY <2>1 DEF Between
<1> HIDE DEF r
<1>5. ASSUME NEW i \in 1 .. Len(r), NEW j \in 1 .. Len(r), i < j
      PROVE  Before(heap[r[i]], heap[r[j]])
  <2>1. CASE j < p
    BY <1>1, <1>3, <1>4, <1>5, <2>1 DEF Sorted
  <2>2. CASE j = p
    <3>1. r[j] = t /\ r[i] = q[i] /\ i \in 1 .. p - 1 /\ i \in 1 .. Len(q)
      BY <1>1, <1>3, <1>4, <1>5, <2>2
    <3>2. heap[q[i]].left <= heap[t].left /\ Placed(heap[q[i]]) /\ Placed(heap[t])
      BY <1>1, <1>4, <3>1
    <3> QED
      BY <3>1, <3>2 DEF Before, Placed
  <2>3. CASE j > p /\ i = p
    <3>1. r[i] = t /\ r[j] = q[j - 1] /\ j - 1 \in p .. Len(q) /\ j - 1 \in 1 .. Len(q)
      BY <1>1, <1>3, <1>4, <1>5, <2>3
    <3>2. heap[q[j - 1]].left > heap[t].left /\ Placed(heap[q[j - 1]]) /\ Placed(heap[t])
      BY <1>1, <1>4, <3>1
    <3> QED
      BY <3>1, <3>2 DEF Before, Placed
  <2>4. CASE j > p /\ i < p
    <3>1. i \in 1 .. Len(q) /\ j - 1 \in 1 .. Len(q) /\ i < j - 1
      BY <1>1, <1>3, <1>4, <1>5, <2>4
    <3>2. r[i] = q[i] /\ r[j] = q[j - 1]
      BY <1>1, <1>3, <1>4, <1>5, <2>4
    <3> QED
      BY <3>1, <3>2 DEF Sorted
  <2>5. CASE j > p /\ i > p
    <3>1. i - 1 \in 1 .. Len(q) /\ j - 1 \in 1 .. Len(q) /\ i - 1 < j - 1
      BY <1>1, <1>3, <1>4, <1>5, <2>5
    <3>2. r[i] = q[i - 1] /\ r[j] = q[j - 1]
      BY <1>1, <1>3, <1>4, <1>5, <2>5
    <3> QED
      BY <3>1, <3>2 DEF Sorted
  <2> QED
    BY <2>1, <2>2, <2>3, <2>4, <2>5, <1>3, <1>4
<1>6. ASSUME NEW i \in 1 .. Len(r), NEW j \in 1 .. Len(r), i < j
      PROVE  r[i] # r[j]
  <2>1. CASE j = p
    BY <1>1, <1>2, <1>3, <1>4, <1>6, <2>1
  <2>2. CASE i = p
    BY <1>1, <1>2, <1>3, <1>4, <1>6, <2>2
  <2>3. CASE i # p /\ j # p
    <3> DEFINE at(k) == IF k < p THEN k ELSE k - 1
    <3>1. at(i) \in 1 .. Len(q) /\ at(j) \in 1 .. Len(q) /\ at(i) # at(j)
      BY <1>1, <1>3, <1>4, <1>6, <2>3
    <3>2. r[i] = q[at(i)] /\ r[j] = q[at(j)]
      BY <1>1, <1>3, <1>4, <1>6, <2>3
    <3> QED
      BY <3>1, <3>2 DEF Distinct
  <2> QED
    BY <2>1, <2>2, <2>3
<1>7. Sorted(r, heap)
  BY <1>5 DEF Sorted
<1>8. Distinct(r)
  BY <1>1, <1>3, <1>6 DEF Distinct
<1> QED
  BY <1>3, <1>7, <1>8 DEF r

\* Nothing but the timer is inserted.
LEMMA InsertedElements ==
    ASSUME NEW S, NEW q \in Seq(S), NEW t \in S, NEW heap,
           \A u \in S : Placed(heap[u]), Sorted(q, heap)
    PROVE  ToSet(Inserted(q, t, heap)) \subseteq ToSet(q) \cup {t}
<1> DEFINE r == Inserted(q, t, heap)
<1>1. DOMAIN q = 1 .. Len(q) /\ Len(q) \in Nat
  BY LenProperties
<1>2. r \in Seq(S) /\ Len(r) = Len(q) + 1
  BY InsertedAt
<1>3. PICK p \in 1 .. Len(q) + 1 : Between(p, q, t, heap, r)
  BY InsertedAt
<1> HIDE DEF r
<1>4. DOMAIN r = 1 .. Len(q) + 1
  BY <1>2, LenProperties
<1>5. ASSUME NEW i \in 1 .. Len(q) + 1 PROVE r[i] \in ToSet(q) \cup {t}
  <2>1. r[i] = IF i < p THEN q[i] ELSE IF i = p THEN t ELSE q[i - 1]
    BY <1>3 DEF Between
  <2>2. i < p => i \in DOMAIN q
    BY <1>1
  <2>3. i > p => i - 1 \in DOMAIN q
    BY <1>1
  <2> QED
    BY <2>1, <2>2, <2>3 DEF ToSet
<1>6. ToSet(r) \subseteq ToSet(q) \cup {t}
  BY <1>4, <1>5 DEF ToSet
<1> QED
  BY <1>6 DEF r

\* Taking one out of the tree leaves the others in their order.
LEMMA RemovedKeeps ==
    ASSUME NEW S, NEW q \in Seq(S), NEW heap, NEW k \in 1 .. Len(q),
           Sorted(q, heap), Distinct(q)
    PROVE  /\ RemoveAt(q, k) \in Seq(S \ {q[k]})
           /\ Sorted(RemoveAt(q, k), heap)
           /\ Distinct(RemoveAt(q, k))
           /\ ToSet(RemoveAt(q, k)) = ToSet(q) \ {q[k]}
<1>1. DOMAIN q = 1 .. Len(q) /\ Len(q) \in Nat /\ \A i \in 1 .. Len(q) : q[i] \in S
  BY LenProperties
<1> DEFINE T == S \ {q[k]}
           a == SubSeq(q, 1, k - 1)
           b == SubSeq(q, k + 1, Len(q))
           r == a \o b
<1>2. \A i \in 1 .. Len(q) : i # k => q[i] \in T
  BY <1>1 DEF Distinct
<1>3. a \in Seq(T) /\ Len(a) = k - 1 /\ \A i \in 1 .. k - 1 : a[i] = q[i]
  <2>1. \A i \in 1 .. k - 1 : q[i] \in T
    BY <1>1, <1>2
  <2> HIDE DEF T
  <2> QED
    BY <2>1, <1>1, SubSeqProperties
<1>4. /\ b \in Seq(T) /\ Len(b) = Len(q) - k
      /\ \A i \in 1 .. Len(q) - k : b[i] = q[k + i]
  <2>1. \A i \in k + 1 .. Len(q) : q[i] \in T
    BY <1>1, <1>2
  <2> HIDE DEF T
  <2>2. /\ b \in Seq(T) /\ Len(b) = IF k + 1 <= Len(q) THEN Len(q) - (k + 1) + 1 ELSE 0
        /\ \A i \in 1 .. Len(q) - (k + 1) + 1 : b[i] = q[(k + 1) + i - 1]
    BY <2>1, <1>1, SubSeqProperties
  <2> HIDE DEF b
  <2>3. Len(b) = Len(q) - k
    <3>1. CASE k + 1 <= Len(q)
      BY <1>1, <2>2, <3>1
    <3>2. CASE k = Len(q)
      BY <1>1, <2>2, <3>2
    <3>3. k + 1 <= Len(q) \/ k = Len(q)
      <4>1. Len(q) \in Nat /\ k \in 1 .. Len(q)
        BY <1>1
      <4> QED
        BY <4>1
    <3> QED
      BY <3>1, <3>2, <3>3
  <2>4. ASSUME NEW i \in 1 .. Len(q) - k PROVE b[i] = q[k + i]
    <3>1. i \in 1 .. Len(q) - (k + 1) + 1 /\ (k + 1) + i - 1 = k + i
      BY <1>1
    <3> QED
      BY <2>2, <3>1
  <2> QED
    BY <2>2, <2>3, <2>4
<1> HIDE DEF a, b, T
<1>5. /\ r \in Seq(T) /\ Len(r) = Len(q) - 1
      /\ \A i \in 1 .. Len(q) - 1 : r[i] = IF i < k THEN q[i] ELSE q[i + 1]
  <2>1. /\ r \in Seq(T) /\ Len(r) = Len(a) + Len(b)
        /\ \A i \in 1 .. Len(a) + Len(b) :
              r[i] = IF i <= Len(a) THEN a[i] ELSE b[i - Len(a)]
    BY <1>3, <1>4, ConcatProperties
  <2> HIDE DEF r
  <2>2. Len(a) + Len(b) = Len(q) - 1
    BY <1>1, <1>3, <1>4
  <2>3. ASSUME NEW i \in 1 .. Len(q) - 1
        PROVE  r[i] = IF i < k THEN q[i] ELSE q[i + 1]
    <3>1. CASE i < k
      BY <1>1, <1>3, <2>1, <2>2, <3>1
    <3>2. CASE i >= k
      <4>1. i - (k - 1) \in 1 .. Len(q) - k /\ k + (i - (k - 1)) = i + 1
        BY <1>1, <3>2
      <4>2. r[i] = b[i - (k - 1)]
        BY <1>1, <1>3, <2>1, <2>2, <3>2
      <4>3. b[i - (k - 1)] = q[k + (i - (k - 1))]
        BY <1>4, <4>1
      <4> QED
        BY <1>1, <4>1, <4>2, <4>3, <3>2
    <3> QED
      BY <3>1, <3>2
  <2> QED
    BY <2>1, <2>2, <2>3
<1>6. RemoveAt(q, k) = r
  BY DEF RemoveAt, a, b
<1> HIDE DEF r
<1> DEFINE at(i) == IF i < k THEN i ELSE i + 1
<1>7. \A i \in 1 .. Len(r) : at(i) \in 1 .. Len(q) /\ at(i) # k /\ r[i] = q[at(i)]
  BY <1>1, <1>5
<1>8. \A i, j \in 1 .. Len(r) : i < j => at(i) < at(j)
  BY <1>1, <1>5
<1>9. Sorted(r, heap)
  <2> HIDE DEF at
  <2> QED
    BY <1>7, <1>8 DEF Sorted
<1>10. Distinct(r)
  <2>1. \A i, j \in 1 .. Len(r) : at(i) = at(j) => i = j
    BY <1>1, <1>5
  <2> HIDE DEF at
  <2> QED
    BY <1>7, <2>1 DEF Distinct
<1>11. ToSet(r) = ToSet(q) \ {q[k]}
  <2>1. DOMAIN r = 1 .. Len(r)
    BY <1>5, LenProperties
  <2>2. \A j \in 1 .. Len(q) : j # k => \E i \in 1 .. Len(r) : at(i) = j
    <3> SUFFICES ASSUME NEW j \in 1 .. Len(q), j # k
                 PROVE  \E i \in 1 .. Len(r) : at(i) = j
      OBVIOUS
    <3>1. CASE j < k
      <4>1. j \in 1 .. Len(r) /\ at(j) = j
        BY <1>1, <1>5, <3>1
      <4> QED
        BY <4>1
    <3>2. CASE j > k
      <4>1. j - 1 \in 1 .. Len(r) /\ at(j - 1) = j
        BY <1>1, <1>5, <3>2
      <4> QED
        BY <4>1
    <3> QED
      BY <1>1, <3>1, <3>2
  <2>3. ToSet(r) \subseteq ToSet(q) \ {q[k]}
    <3> HIDE DEF at
    <3> QED
      BY <1>1, <1>7, <2>1 DEF ToSet, Distinct
  <2>4. ASSUME NEW x \in ToSet(q) \ {q[k]} PROVE x \in ToSet(r)
    <3>1. PICK j \in 1 .. Len(q) : x = q[j]
      BY <1>1 DEF ToSet
    <3>2. PICK i \in 1 .. Len(r) : at(i) = j
      BY <2>2, <3>1
    <3>3. r[i] = x
      BY <1>7, <3>1, <3>2
    <3> QED
      BY <2>1, <3>3 DEF ToSet
  <2> QED
    BY <2>3, <2>4
<1> QED
  BY <1>5, <1>6, <1>9, <1>10, <1>11 DEF T

-----------------------------------------------------------------------------
(* The inductive invariant. *)

\* The tree is sorted and holds no timer twice; the timer whose handler runs is
\* allocated and out of the tree; intervals are what their seconds give.
IInv ==
    /\ TypeOK
    /\ Sorted(queue, timer) /\ Distinct(queue)
    /\ IF phase = "handler" THEN firing \in DOMAIN timer /\ ~Armed(firing)
                            ELSE firing = NULL
    /\ \A t \in DOMAIN timer : timer[t].interval = Interval(timer[t].seconds)

\* The timers of a tree may be looked up in any heap that agrees on them.
LEMMA SortedIn ==
    ASSUME NEW S, NEW q \in Seq(S), NEW old, NEW new, Sorted(q, old),
           \A u \in ToSet(q) : new[u] = old[u]
    PROVE  Sorted(q, new)
<1>1. DOMAIN q = 1 .. Len(q)
  BY LenProperties
<1>2. \A i \in 1 .. Len(q) : new[q[i]] = old[q[i]]
  BY <1>1 DEF ToSet
<1> QED
  BY <1>2 DEF Sorted

\* Timers in the tree are allocated.
LEMMA ArmedAllocated ==
    ASSUME TypeOK
    PROVE  ToSet(queue) \subseteq DOMAIN timer
<1>1. queue \in Seq(DOMAIN timer)
  BY DEF TypeOK
<1>2. DOMAIN queue = 1 .. Len(queue) /\ \A i \in 1 .. Len(queue) : queue[i] \in DOMAIN timer
  BY <1>1, LenProperties
<1> QED
  BY <1>2 DEF ToSet

\* The product of holy_set_timeout, with its wrap and without.
LEMMA IntervalType ==
    ASSUME NEW s \in Seconds
    PROVE  Interval(s) \in Nat /\ s * UsPerSecond \in Nat
<1>1. s \in Nat /\ UsPerSecond \in Nat
  BY TimersAssumption
<1>2. s * UsPerSecond \in Nat
  BY <1>1
<1>3. U32 \in Nat /\ U32 > 0
  BY TimersAssumption
<1>4. \A x \in Nat : x % U32 \in Nat
  BY <1>3
<1> QED
  BY <1>2, <1>4 DEF Interval

\* An empty tree.
LEMMA InitIInv == Init => IInv
<1> SUFFICES ASSUME Init PROVE IInv
  OBVIOUS
<1>1. queue \in Seq(DOMAIN timer) /\ Len(queue) = 0
  BY EmptySeq DEF Init
<1>2. TypeOK
  BY <1>1 DEF Init, TypeOK
<1> QED
  BY <1>1, <1>2 DEF IInv, Init, Sorted, Distinct

\* A timer is set, from outside or by a handler in the middle of a pass.
LEMMA SetTimerKeeps ==
    ASSUME IInv, NEW t \in Timer, NEW s \in Seconds, NEW oneshot \in BOOLEAN,
           SetTimer(t, s, oneshot)
    PROVE  IInv'
<1> DEFINE new == [left |-> Interval(s), due |-> s * UsPerSecond,
                   interval |-> Interval(s), seconds |-> s,
                   oneshot |-> oneshot, armedFor |-> 0]
           S == DOMAIN timer \cup {t}
<1>1. t \notin DOMAIN timer /\ timer' = [u \in S |-> IF u # t THEN timer[u] ELSE new]
      /\ queue' = Inserted(queue, t, timer') /\ UNCHANGED <<phase, wakeIn, passAge, firing>>
  BY DEF SetTimer
<1>2. new \in TimerRec
  BY IntervalType DEF TimerRec
<1>3. DOMAIN timer' = S /\ S \subseteq Timer /\ timer' \in [S -> TimerRec]
  BY <1>1, <1>2 DEF IInv, TypeOK
<1>4. \A u \in S : Placed(timer'[u])
  BY <1>3 DEF Placed, TimerRec
<1>5. queue \in Seq(S) /\ t \notin ToSet(queue)
  BY <1>1, ArmedAllocated, SeqMonotonic DEF IInv, TypeOK
<1>6. Sorted(queue, timer')
  <2>1. \A u \in ToSet(queue) : timer'[u] = timer[u]
    BY <1>1, <1>5, ArmedAllocated DEF IInv
  <2> QED
    BY <1>5, <2>1, SortedIn DEF IInv
<1>7. timer'[t].armedFor = 0
  BY <1>1
<1>8. queue' \in Seq(S) /\ Sorted(queue', timer') /\ Distinct(queue')
  BY <1>1, <1>4, <1>5, <1>6, <1>7, InsertedKeeps DEF IInv
<1>9. TypeOK'
  BY <1>1, <1>3, <1>8 DEF IInv, TypeOK
<1>10. ASSUME phase = "handler" PROVE firing \in S /\ firing \notin ToSet(queue')
  <2>1. firing \in DOMAIN timer /\ firing # t /\ firing \notin ToSet(queue)
    BY <1>1, <1>10 DEF IInv, Armed
  <2>2. ToSet(queue') \subseteq ToSet(queue) \cup {t}
    <3>1. t \in S
      OBVIOUS
    <3> HIDE DEF S
    <3> QED
      BY <3>1, <1>1, <1>4, <1>5, <1>6, InsertedElements
  <2> QED
    BY <2>1, <2>2
<1>11. \A u \in S : timer'[u].interval = Interval(timer'[u].seconds)
  BY <1>1 DEF IInv
<1> QED
  BY <1>1, <1>3, <1>8, <1>9, <1>10, <1>11 DEF IInv, Armed

\* Killing a timer takes it out of the tree and frees it.
LEMMA KillTimerKeeps ==
    ASSUME IInv, NEW t \in Timer, KillTimer(t)
    PROVE  IInv'
<1>1. PICK k \in DOMAIN queue : queue[k] = t /\ queue' = RemoveAt(queue, k)
  BY DEF KillTimer
<1>2. timer' = [u \in DOMAIN timer \ {t} |-> timer[u]]
      /\ UNCHANGED <<phase, wakeIn, passAge, firing>>
  BY DEF KillTimer
<1>3. queue \in Seq(DOMAIN timer) /\ k \in 1 .. Len(queue) /\ Armed(t)
  BY <1>1, LenProperties DEF IInv, TypeOK, Armed, ToSet
<1>4. /\ queue' \in Seq(DOMAIN timer \ {t}) /\ Sorted(queue', timer)
      /\ Distinct(queue') /\ ToSet(queue') = ToSet(queue) \ {t}
  BY <1>1, <1>3, RemovedKeeps DEF IInv
<1>5. DOMAIN timer' = DOMAIN timer \ {t} /\ \A u \in DOMAIN timer' : timer'[u] = timer[u]
  BY <1>2
<1>6. Sorted(queue', timer')
  <2>1. \A u \in ToSet(queue') : timer'[u] = timer[u]
    BY <1>4, <1>5, ArmedAllocated DEF IInv
  <2> QED
    BY <1>4, <2>1, SortedIn
<1>7. TypeOK'
  <2>1. firing \in DOMAIN timer' \cup {NULL}
    BY <1>2, <1>3, <1>5 DEF IInv, TypeOK
  <2> QED
    BY <1>2, <1>4, <1>5, <2>1 DEF IInv, TypeOK
<1>8. (phase = "handler" => firing \in DOMAIN timer /\ ~Armed(firing))'
  BY <1>2, <1>3, <1>4, <1>5 DEF IInv, Armed
<1> QED
  BY <1>2, <1>4, <1>5, <1>6, <1>7, <1>8 DEF IInv

\* Time passes for all the armed timers alike.
LEMMA TickKeeps ==
    ASSUME IInv, Tick
    PROVE  IInv'
<1> DEFINE ticked(t) == [timer[t] EXCEPT !.left = @ - 1, !.due = @ - 1,
                                         !.armedFor = @ + 1]
<1>1. /\ timer' = [t \in DOMAIN timer |-> IF Armed(t) THEN ticked(t) ELSE timer[t]]
      /\ wakeIn' = (IF phase = "asleep" THEN wakeIn - 1 ELSE wakeIn)
      /\ passAge' = (IF phase = "handler" THEN passAge + 1 ELSE passAge)
      /\ UNCHANGED <<queue, phase, firing>>
  BY DEF Tick
<1>2. ASSUME NEW t \in DOMAIN timer
      PROVE  /\ ticked(t) \in TimerRec
             /\ ticked(t).left = timer[t].left - 1
             /\ ticked(t).armedFor = timer[t].armedFor + 1
             /\ ticked(t).interval = timer[t].interval
             /\ ticked(t).seconds = timer[t].seconds
  <2>1. timer[t] \in TimerRec
    BY DEF IInv, TypeOK
  <2>2. /\ timer[t].left - 1 \in Int /\ timer[t].due - 1 \in Int
        /\ timer[t].armedFor + 1 \in Nat
    BY <2>1 DEF TimerRec
  <2> QED
    BY <2>1, <2>2 DEF TimerRec
<1> HIDE DEF ticked
<1>3. DOMAIN timer' = DOMAIN timer /\ timer' \in [DOMAIN timer -> TimerRec]
  BY <1>1, <1>2 DEF IInv, TypeOK
<1>4. TypeOK'
  BY <1>1, <1>3 DEF IInv, TypeOK
<1>5. Sorted(queue, timer')
  <2>1. DOMAIN queue = 1 .. Len(queue)
    BY LenProperties DEF IInv, TypeOK
  <2>2. ASSUME NEW i \in 1 .. Len(queue)
        PROVE  /\ timer'[queue[i]].left = timer[queue[i]].left - 1
               /\ timer'[queue[i]].armedFor = timer[queue[i]].armedFor + 1
               /\ Placed(timer[queue[i]])
    <3>1. queue[i] \in ToSet(queue) /\ queue[i] \in DOMAIN timer
      BY <2>1, ArmedAllocated DEF ToSet, IInv
    <3> QED
      BY <1>1, <1>2, <3>1 DEF Armed, IInv, TypeOK, TimerRec, Placed
  <2>3. ASSUME NEW i \in 1 .. Len(queue), NEW j \in 1 .. Len(queue), i < j
        PROVE  Before(timer'[queue[i]], timer'[queue[j]])
    <3>1. Before(timer[queue[i]], timer[queue[j]])
      BY <2>3 DEF IInv, Sorted
    <3> DEFINE a == timer[queue[i]]
               b == timer[queue[j]]
    <3>2. /\ timer'[queue[i]].left = a.left - 1 /\ timer'[queue[i]].armedFor = a.armedFor + 1
          /\ timer'[queue[j]].left = b.left - 1 /\ timer'[queue[j]].armedFor = b.armedFor + 1
          /\ Placed(a) /\ Placed(b)
      BY <2>2
    <3> HIDE DEF a, b
    <3>3. Before(a, b)
      BY <3>1 DEF a, b
    <3> QED
      BY <3>2, <3>3 DEF Before, Placed
  <2> QED
    BY <2>3 DEF Sorted
<1>6. \A t \in DOMAIN timer' : timer'[t].interval = Interval(timer'[t].seconds)
  BY <1>1, <1>2, <1>3 DEF IInv
<1> QED
  BY <1>1, <1>3, <1>4, <1>5, <1>6 DEF IInv, Armed

\* The first timer leaves the tree for its handler.
LEMMA FireKeeps ==
    ASSUME IInv, Fire
    PROVE  IInv'
<1>1. /\ queue # <<>> /\ firing' = Head(queue) /\ queue' = Tail(queue)
      /\ phase' = "handler" /\ UNCHANGED <<timer, wakeIn, passAge>>
  BY DEF Fire, FirstIsDue
<1> DEFINE S == DOMAIN timer
<1>2. queue \in Seq(S) /\ Len(queue) \in Nat /\ DOMAIN queue = 1 .. Len(queue)
      /\ \A i \in 1 .. Len(queue) : queue[i] \in S
  BY LenProperties DEF IInv, TypeOK
<1>3. /\ queue' \in Seq(S) /\ Len(queue') = Len(queue) - 1
      /\ \A i \in 1 .. Len(queue') : queue'[i] = queue[i + 1]
  <2> HIDE DEF S
  <2> QED
    BY <1>1, <1>2, HeadTailProperties
<1>4. Len(queue) > 0 /\ firing' = queue[1]
  BY <1>1, <1>2, EmptySeq
<1>5. DOMAIN queue' = 1 .. Len(queue) - 1
  BY <1>3, LenProperties
<1>6. Sorted(queue', timer)
  BY <1>2, <1>3 DEF IInv, Sorted
<1>7. Distinct(queue')
  BY <1>2, <1>3 DEF IInv, Distinct
<1>8. firing' \in S /\ firing' \notin ToSet(queue')
  <2>1. \A i \in 1 .. Len(queue) - 1 : queue'[i] # queue[1]
    BY <1>2, <1>3, <1>4 DEF IInv, Distinct
  <2> QED
    BY <1>2, <1>4, <1>5, <2>1 DEF ToSet
<1>9. TypeOK'
  BY <1>1, <1>3, <1>8 DEF IInv, TypeOK
<1> QED
  BY <1>1, <1>6, <1>7, <1>8, <1>9 DEF IInv, Armed

\* The timer of the handler is freed, or goes back to the tree.
LEMMA ReturnKeeps ==
    ASSUME IInv, Return
    PROVE  IInv'
<1>1. /\ phase = "handler" /\ phase' = "pass" /\ firing' = NULL
      /\ UNCHANGED <<wakeIn, passAge>>
      /\ firing \in DOMAIN timer /\ firing \notin ToSet(queue)
  BY DEF Return, IInv, Armed
<1>2. CASE timer[firing].oneshot
  <2> DEFINE S == DOMAIN timer \ {firing}
  <2>1. timer' = [t \in S |-> timer[t]] /\ queue' = queue
    BY <1>2 DEF Return
  <2>2. queue \in Seq(S)
    <3>1. queue \in Seq(DOMAIN timer)
      BY DEF IInv, TypeOK
    <3>2. Len(queue) \in Nat /\ DOMAIN queue = 1 .. Len(queue)
          /\ queue \in [1 .. Len(queue) -> DOMAIN timer]
      BY <3>1, LenProperties
    <3>3. \A i \in 1 .. Len(queue) : queue[i] \in S
      BY <1>1, <3>2 DEF ToSet
    <3>4. queue \in [1 .. Len(queue) -> S]
      BY <3>2, <3>3
    <3> QED
      BY <3>2, <3>4
  <2>3. Sorted(queue', timer')
    <3>1. \A u \in ToSet(queue) : timer'[u] = timer[u]
      BY <1>1, <2>1, ArmedAllocated DEF IInv
    <3> QED
      BY <2>1, <2>2, <3>1, SortedIn DEF IInv
  <2>4. TypeOK'
    BY <1>1, <2>1, <2>2 DEF IInv, TypeOK
  <2> QED
    BY <1>1, <2>1, <2>3, <2>4 DEF IInv
<1>3. CASE ~timer[firing].oneshot
  <2> DEFINE S == DOMAIN timer
             new == Rearmed(firing)
  <2>1. timer' = [timer EXCEPT ![firing] = new] /\ queue' = Inserted(queue, firing, timer')
    BY <1>3 DEF Return
  <2>2. /\ new \in TimerRec /\ new.armedFor = 0
        /\ new.interval = timer[firing].interval /\ new.seconds = timer[firing].seconds
    <3>1. timer[firing] \in TimerRec /\ passAge \in Nat
      BY <1>1 DEF IInv, TypeOK
    <3>2. timer[firing].seconds \in Seconds
      BY <3>1 DEF TimerRec
    <3>3. timer[firing].seconds * UsPerSecond \in Nat
      BY <3>2, IntervalType
    <3>4. timer[firing].interval - passAge \in Int
      BY <3>1 DEF TimerRec
    <3>5. timer[firing].seconds * UsPerSecond - passAge \in Int
      <4> DEFINE d == timer[firing].seconds * UsPerSecond
      <4>1. d \in Nat
        BY <3>3
      <4> HIDE DEF d
      <4>2. d - passAge \in Int
        BY <3>1, <4>1
      <4> QED
        BY <4>2 DEF d
    <3> DEFINE l == timer[firing].interval - passAge
               d == timer[firing].seconds * UsPerSecond - passAge
    <3>6. new = [timer[firing] EXCEPT !.left = l, !.due = d, !.armedFor = 0]
      BY DEF Rearmed
    <3> HIDE DEF new, l, d
    <3>7. l \in Int /\ d \in Int
      BY <3>4, <3>5 DEF l, d
    <3> QED
      BY <3>1, <3>6, <3>7 DEF TimerRec
  <2> HIDE DEF new
  <2>3. DOMAIN timer' = S /\ timer' \in [S -> TimerRec]
    BY <1>1, <2>1, <2>2 DEF IInv, TypeOK
  <2>4. \A u \in S : u # firing => timer'[u] = timer[u]
    BY <2>1
  <2>5. timer'[firing] = new
    BY <1>1, <2>1
  <2>6. queue \in Seq(S)
    BY DEF IInv, TypeOK
  <2>7. Sorted(queue, timer')
    <3>1. \A u \in ToSet(queue) : timer'[u] = timer[u]
      BY <1>1, <2>4, ArmedAllocated DEF IInv
    <3> QED
      BY <2>6, <3>1, SortedIn DEF IInv
  <2>8. \A u \in S : Placed(timer'[u])
    BY <2>3 DEF Placed, TimerRec
  <2>9. queue' \in Seq(S) /\ Sorted(queue', timer') /\ Distinct(queue')
    BY <1>1, <2>1, <2>2, <2>5, <2>6, <2>7, <2>8, InsertedKeeps DEF IInv
  <2>10. TypeOK'
    BY <1>1, <2>3, <2>9 DEF IInv, TypeOK
  <2>11. \A t \in DOMAIN timer' : timer'[t].interval = Interval(timer'[t].seconds)
    BY <1>1, <2>2, <2>3, <2>4, <2>5 DEF IInv
  <2> QED
    BY <1>1, <2>9, <2>10, <2>11 DEF IInv
<1> QED
  BY <1>2, <1>3

\* The sleep is a number of milliseconds.
LEMMA MinTimeoutType ==
    ASSUME IInv
    PROVE  MinTimeout * UsPerMs \in Int
<1>0. UsPerMs \in Nat \ {0} /\ MinWaitMs \in Nat /\ IdleWaitMs \in Nat
  BY TimersAssumption
<1>1. CASE queue = <<>>
  <2>1. MinTimeout = IdleWaitMs
    BY <1>1 DEF MinTimeout
  <2> QED
    BY <1>0, <2>1
<1>2. CASE queue # <<>>
  <2> DEFINE us == timer[Head(queue)].left
  <2>1. us \in Int
    BY <1>2, HeadTailProperties DEF IInv, TypeOK, TimerRec
  <2> HIDE DEF us
  <2>2. us \div UsPerMs \in Int
    BY <1>0, <2>1
  <2>3. WaitMs(us) \in Int
    BY <1>0, <2>2 DEF WaitMs
  <2>4. MinTimeout = WaitMs(us)
    BY <1>2 DEF MinTimeout, us
  <2> QED
    BY <1>0, <2>3, <2>4
<1> QED
  BY <1>1, <1>2

\* Every step keeps the invariant.
LEMMA StepIInv == IInv /\ [Next]_vars => IInv'
<1> SUFFICES ASSUME IInv, [Next]_vars PROVE IInv'
  OBVIOUS
<1>1. ASSUME NEW t \in Timer, NEW s \in Seconds, NEW oneshot \in BOOLEAN,
             SetTimer(t, s, oneshot)
      PROVE  IInv'
  BY <1>1, SetTimerKeeps
<1>2. ASSUME NEW t \in Timer, KillTimer(t) PROVE IInv'
  BY <1>2, KillTimerKeeps
<1>3. CASE Tick
  BY <1>3, TickKeeps
<1>4. CASE WakeUp \/ WakeByEvent
  BY <1>4 DEF WakeUp, WakeByEvent, IInv, TypeOK, Armed
<1>5. CASE BeginPass
  BY <1>5 DEF BeginPass, IInv, TypeOK, Armed
<1>6. CASE Fire
  BY <1>6, FireKeeps
<1>7. CASE Return
  BY <1>7, ReturnKeeps
<1>8. CASE EndPass
  BY <1>8, MinTimeoutType DEF EndPass, IInv, TypeOK, Armed
<1>9. CASE UNCHANGED vars
  BY <1>9 DEF vars, IInv, TypeOK, Armed
<1> QED
  BY <1>1, <1>2, <1>3, <1>4, <1>5, <1>6, <1>7, <1>8, <1>9 DEF Next, Callers, Loop

\* The tree is sorted, holds no timer twice and only allocated ones, whatever
\* handlers set and kill during a pass (timer.c:17-53, 101-129).
THEOREM TreeInvariant == Spec => []IInv
<1>1. Init => IInv
  BY InitIInv
<1>2. IInv /\ [Next]_vars => IInv'
  BY StepIInv
<1> QED
  BY <1>1, <1>2, PTL DEF Spec

\* The queue, the timers and the phases of the loop keep their types: no timer is
\* freed that is still in the tree (timer.c:41-53).
THEOREM TypeCorrect == Spec => []TypeOK
<1>1. IInv => TypeOK
  BY DEF IInv
<1> QED
  BY <1>1, TreeInvariant, PTL

-----------------------------------------------------------------------------
(* The order of firing and the sleep. *)

\* The head of the tree is before every other armed timer.
LEMMA HeadIsFirst ==
    ASSUME IInv, NEW u, Armed(u)
    PROVE  /\ queue # <<>> /\ Head(queue) \in DOMAIN timer
           /\ Placed(timer[Head(queue)]) /\ Placed(timer[u])
           /\ u # Head(queue) => Before(timer[Head(queue)], timer[u])
<1>1. /\ queue \in Seq(DOMAIN timer) /\ DOMAIN queue = 1 .. Len(queue) /\ Len(queue) \in Nat
      /\ \A i \in 1 .. Len(queue) : queue[i] \in DOMAIN timer
  BY LenProperties DEF IInv, TypeOK
<1>2. PICK k \in 1 .. Len(queue) : queue[k] = u
  BY <1>1 DEF Armed, ToSet
<1>3. 1 \in 1 .. Len(queue) /\ Head(queue) = queue[1] /\ queue # <<>>
  BY <1>1, <1>2
<1>4. \A t \in DOMAIN timer : Placed(timer[t])
  BY DEF IInv, TypeOK, TimerRec, Placed
<1>5. u # Head(queue) => 1 < k
  BY <1>1, <1>2, <1>3
<1>6. u # Head(queue) => Before(timer[Head(queue)], timer[u])
  BY <1>2, <1>3, <1>5 DEF IInv, Sorted
<1> QED
  BY <1>1, <1>2, <1>3, <1>4, <1>6

\* A handler starts only in Fire, and ends only in Return; the loop goes to sleep
\* only in EndPass.
LEMMA Handlers ==
    ASSUME IInv, [Next]_vars
    PROVE  /\ \A t \in Timer : firing # t /\ firing' = t => Fire
           /\ phase = "handler" /\ phase' = "pass" => Return
           /\ phase = "pass" /\ phase' = "asleep" => EndPass
<1>1. NULL \notin Timer
  BY TimersAssumption
<1>2. CASE UNCHANGED vars
  BY <1>2 DEF vars
<1>3. CASE Tick
  BY <1>3 DEF Tick
<1>4. ASSUME NEW t \in Timer, NEW s \in Seconds, NEW oneshot \in BOOLEAN,
             SetTimer(t, s, oneshot)
      PROVE  UNCHANGED <<phase, firing>>
  BY <1>4 DEF SetTimer
<1>5. ASSUME NEW t \in Timer, KillTimer(t) PROVE UNCHANGED <<phase, firing>>
  BY <1>5 DEF KillTimer
<1>6. CASE WakeUp \/ WakeByEvent \/ BeginPass \/ EndPass
  BY <1>6 DEF WakeUp, WakeByEvent, BeginPass, EndPass
<1>7. CASE Fire
  BY <1>7 DEF Fire
<1>8. CASE Return
  BY <1>1, <1>8 DEF Return
<1> QED
  BY <1>2, <1>3, <1>4, <1>5, <1>6, <1>7, <1>8 DEF Next, Callers, Loop

\* The timer that fires is the first to be due, and of equal ones the one armed
\* earlier, in every interleaving of ticks, handlers, insertions and removals.
THEOREM InOrder == Spec => FiresInOrder
<1>1. ASSUME IInv, [Next]_vars, NEW t \in Timer, NEW u \in Timer,
             firing # t, firing' = t, Armed(u), u # t
      PROVE  \/ timer[t].left < timer[u].left
             \/ /\ timer[t].left = timer[u].left
                /\ timer[t].armedFor >= timer[u].armedFor
  <2>1. Fire
    BY <1>1, Handlers
  <2>2. t = Head(queue)
    BY <1>1, <2>1 DEF Fire
  <2>3. Before(timer[t], timer[u])
    BY <1>1, <2>2, HeadIsFirst
  <2> QED
    BY <2>3 DEF Before
<1>2. IInv /\ [Next]_vars =>
         [\A t, u \in Timer :
             (firing # t /\ firing' = t /\ Armed(u) /\ u # t)
                 => \/ timer[t].left < timer[u].left
                    \/ /\ timer[t].left = timer[u].left
                       /\ timer[t].armedFor >= timer[u].armedFor]_vars
  BY <1>1
<1> QED
  BY <1>2, TreeInvariant, PTL DEF Spec, FiresInOrder

\* No timer that is due at the clock of the pass is left when the loop sleeps.
THEOREM NoneDueLeft == Spec => NothingDueLeft
<1>1. ASSUME IInv, [Next]_vars, phase = "pass", phase' = "asleep", NEW t \in ToSet(queue)
      PROVE  timer[t].left + passAge > 0
  <2>1. EndPass /\ Armed(t)
    BY <1>1, Handlers DEF Armed
  <2>2. /\ queue # <<>> /\ Placed(timer[Head(queue)]) /\ Placed(timer[t])
        /\ t # Head(queue) => Before(timer[Head(queue)], timer[t])
    BY <1>1, <2>1, HeadIsFirst
  <2>3. ~(timer[Head(queue)].left + passAge <= 0) /\ passAge \in Nat
    BY <1>1, <2>1, <2>2 DEF EndPass, FirstIsDue, IInv, TypeOK
  <2> QED
    BY <2>2, <2>3 DEF Before, Placed
<1>2. IInv /\ [Next]_vars =>
         [(phase = "pass" /\ phase' = "asleep")
             => \A t \in ToSet(queue) : timer[t].left + passAge > 0]_vars
  BY <1>1
<1> QED
  BY <1>2, TreeInvariant, PTL DEF Spec, NothingDueLeft

\* The division of the sleep to milliseconds only shortens it.
LEMMA WaitMsShort ==
    ASSUME NEW us \in Int
    PROVE  \/ WaitMs(us) * UsPerMs <= us
           \/ WaitMs(us) * UsPerMs <= MinWaitMs * UsPerMs
<1>1. UsPerMs \in Nat /\ UsPerMs > 0 /\ MinWaitMs \in Nat
  BY TimersAssumption
<1> DEFINE ms == us \div UsPerMs
<1>2. ms \in Int /\ ms * UsPerMs <= us
  BY <1>1
<1> HIDE DEF ms
<1>3. CASE ms > MinWaitMs
  BY <1>2, <1>3 DEF WaitMs, ms
<1>4. CASE ~(ms > MinWaitMs)
  <2>1. WaitMs(us) = MinWaitMs
    BY <1>4 DEF WaitMs, ms
  <2> QED
    BY <1>1, <2>1
<1> QED
  BY <1>3, <1>4

\* The loop never plans to sleep past a timer but for its shortest sleep.
THEOREM SleepsInTime == Spec => NeverOversleeps
<1>1. ASSUME IInv, [Next]_vars, phase = "pass", phase' = "asleep", NEW t \in ToSet(queue)
      PROVE  wakeIn' <= timer[t].left \/ wakeIn' <= MinWaitMs * UsPerMs
  <2> DEFINE us == timer[Head(queue)].left
  <2>1. EndPass /\ Armed(t)
    BY <1>1, Handlers DEF Armed
  <2>2. /\ queue # <<>> /\ Placed(timer[Head(queue)]) /\ Placed(timer[t])
        /\ t # Head(queue) => Before(timer[Head(queue)], timer[t])
    BY <1>1, <2>1, HeadIsFirst
  <2>3. us \in Int /\ timer[t].left \in Int /\ us <= timer[t].left
    BY <2>2 DEF Before, Placed
  <2>4. wakeIn' = WaitMs(us) * UsPerMs
    BY <2>1, <2>2 DEF EndPass, MinTimeout
  <2> HIDE DEF us
  <2>5. wakeIn' <= us \/ wakeIn' <= MinWaitMs * UsPerMs
    BY <2>3, <2>4, WaitMsShort
  <2>6. wakeIn' \in Int
    BY <1>1, StepIInv DEF IInv, TypeOK
  <2> QED
    BY <2>3, <2>5, <2>6
<1>2. IInv /\ [Next]_vars =>
         [(phase = "pass" /\ phase' = "asleep")
             => \A t \in ToSet(queue) :
                   wakeIn' <= timer[t].left \/ wakeIn' <= MinWaitMs * UsPerMs]_vars
  BY <1>1
<1> QED
  BY <1>2, TreeInvariant, PTL DEF Spec, NeverOversleeps

\* A pass fires no timer twice, provided no delay is a multiple of 2^32
\* microseconds: the interval of such a delay is 0.
THEOREM OncePerPass ==
    ASSUME \A s \in Seconds : Interval(s) # 0
    PROVE  Spec => NoCatchUp
<1>1. ASSUME IInv, [Next]_vars, NEW t \in Timer, phase = "handler", phase' = "pass",
             firing = t, t \in DOMAIN timer'
      PROVE  timer'[t].left + passAge' > 0
  <2>1. Return /\ t \in DOMAIN timer
    BY <1>1, Handlers DEF IInv
  <2>2. ~timer[t].oneshot
    BY <1>1, <2>1 DEF Return
  <2>3. timer'[t] = Rearmed(t) /\ passAge' = passAge
    BY <1>1, <2>1, <2>2 DEF Return
  <2>4. timer[t].interval = Interval(timer[t].seconds) /\ timer[t].seconds \in Seconds
        /\ passAge \in Nat
    BY <1>1, <2>1 DEF IInv, TypeOK, TimerRec
  <2>5. timer[t].interval \in Nat /\ timer[t].interval # 0
    BY <2>4, IntervalType
  <2>6. timer'[t].left = timer[t].interval - passAge
    <3>1. timer[t] \in TimerRec
      BY <1>1, <2>1 DEF IInv, TypeOK
    <3> QED
      BY <2>3, <3>1 DEF Rearmed, TimerRec
  <2> QED
    BY <2>3, <2>4, <2>5, <2>6
<1>2. IInv /\ [Next]_vars =>
         [\A t \in Timer :
             (phase = "handler" /\ phase' = "pass" /\ firing = t /\ t \in DOMAIN timer')
                 => timer'[t].left + passAge' > 0]_vars
  BY <1>1
<1> QED
  BY <1>2, TreeInvariant, PTL DEF Spec, NoCatchUp

-----------------------------------------------------------------------------
(* The width of the delays. *)

\* When the timers are due is where their callers wanted it, and the one whose
\* handler runs is due.
Punctual ==
    /\ \A t \in DOMAIN timer : timer[t].due = timer[t].left
    /\ phase = "handler" => timer[firing].left <= 0

DelaysFit == \A s \in Seconds : s * UsPerSecond < U32

\* Without a wrap the interval is the delay.
LEMMA IntervalFits ==
    ASSUME DelaysFit, NEW s \in Seconds
    PROVE  Interval(s) = s * UsPerSecond
<1> DEFINE us == s * UsPerSecond
<1>1. us \in Nat /\ us < U32 /\ U32 \in Nat
  BY IntervalType, TimersAssumption DEF DelaysFit
<1> HIDE DEF us
<1>2. us % U32 = us
  BY <1>1
<1> QED
  BY <1>2 DEF Interval, us

\* Every step keeps that no timer is before its time.
LEMMA StepPunctual ==
    ASSUME DelaysFit, IInv, Punctual, [Next]_vars
    PROVE  Punctual'
<1>1. \A t \in DOMAIN timer : timer[t] \in TimerRec
  BY DEF IInv, TypeOK
<1>2. ASSUME NEW t \in Timer, NEW s \in Seconds, NEW oneshot \in BOOLEAN,
             SetTimer(t, s, oneshot)
      PROVE  Punctual'
  <2>1. Interval(s) = s * UsPerSecond
    BY IntervalFits
  <2>2. /\ t \notin DOMAIN timer /\ DOMAIN timer' = DOMAIN timer \cup {t}
        /\ \A u \in DOMAIN timer : timer'[u] = timer[u]
        /\ timer'[t].due = s * UsPerSecond /\ timer'[t].left = Interval(s)
        /\ UNCHANGED <<phase, firing>>
    BY <1>2 DEF SetTimer
  <2> QED
    BY <2>1, <2>2 DEF Punctual, IInv
<1>3. ASSUME NEW t \in Timer, KillTimer(t) PROVE Punctual'
  <2>1. /\ timer' = [u \in DOMAIN timer \ {t} |-> timer[u]] /\ UNCHANGED <<phase, firing>>
        /\ Armed(t)
    BY <1>3 DEF KillTimer, Armed, ToSet
  <2>2. phase = "handler" => firing \in DOMAIN timer \ {t}
    BY <2>1 DEF IInv
  <2> QED
    BY <2>1, <2>2 DEF Punctual
<1>4. CASE Tick
  <2>1. /\ DOMAIN timer' = DOMAIN timer /\ UNCHANGED <<phase, firing>>
        /\ \A t \in DOMAIN timer : timer'[t] =
              IF Armed(t) THEN [timer[t] EXCEPT !.left = @ - 1, !.due = @ - 1,
                                                !.armedFor = @ + 1]
              ELSE timer[t]
    BY <1>4 DEF Tick
  <2>2. ASSUME NEW t \in DOMAIN timer PROVE timer'[t].due = timer'[t].left
    <3>1. timer[t].due = timer[t].left /\ timer[t] \in TimerRec
      BY <1>1 DEF Punctual
    <3> QED
      BY <2>1, <3>1 DEF TimerRec
  <2> QED
    BY <2>1, <2>2 DEF Punctual, IInv
<1>5. CASE WakeUp \/ WakeByEvent \/ BeginPass \/ EndPass
  BY <1>5 DEF WakeUp, WakeByEvent, BeginPass, EndPass, Punctual
<1>6. CASE Fire
  <2>1. /\ firing' = Head(queue) /\ phase' = "handler" /\ timer' = timer
        /\ queue # <<>> /\ timer[Head(queue)].left + passAge <= 0
    BY <1>6 DEF Fire, FirstIsDue
  <2>2. timer[Head(queue)].left \in Int /\ passAge \in Nat
    BY <1>1, <2>1, HeadTailProperties DEF IInv, TypeOK, TimerRec
  <2> QED
    BY <2>1, <2>2 DEF Punctual
<1>7. CASE Return
  <2>1. phase' = "pass" /\ firing \in DOMAIN timer
    BY <1>7 DEF Return, IInv
  <2>2. CASE timer[firing].oneshot
    BY <1>7, <2>1, <2>2 DEF Return, Punctual
  <2>3. CASE ~timer[firing].oneshot
    <3>1. timer' = [timer EXCEPT ![firing] = Rearmed(firing)]
      BY <1>7, <2>3 DEF Return
    <3>2. timer[firing].interval = timer[firing].seconds * UsPerSecond
      BY <1>1, <2>1, IntervalFits DEF IInv, TimerRec
    <3>3. Rearmed(firing).due = Rearmed(firing).left
      BY <1>1, <2>1, <3>2 DEF Rearmed, TimerRec
    <3> QED
      BY <2>1, <3>1, <3>3 DEF Punctual
  <2> QED
    BY <2>2, <2>3
<1>8. CASE UNCHANGED vars
  BY <1>8 DEF vars, Punctual
<1> QED
  BY <1>2, <1>3, <1>4, <1>5, <1>6, <1>7, <1>8 DEF Next, Callers, Loop

\* Delays that fit in 32 bits of microseconds are never cut short: the wrap is
\* the only way for a timer to fire early.
THEOREM EarlyOnlyByWrap ==
    ASSUME DelaysFit
    PROVE  Spec => []NeverEarly
<1>1. Init => Punctual
  BY DEF Init, Punctual
<1>2. IInv /\ Punctual /\ [Next]_vars => Punctual'
  BY StepPunctual
<1>3. IInv /\ Punctual => NeverEarly
  BY DEF IInv, Punctual, NeverEarly
<1> QED
  BY <1>1, <1>2, <1>3, TreeInvariant, PTL DEF Spec

=============================================================================
