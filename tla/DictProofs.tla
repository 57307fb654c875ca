----------------------------- MODULE DictProofs -----------------------------
(***************************************************************************)
(* Proofs about Dict: the table is exact, and it implements Map.           *)
(***************************************************************************)
EXTENDS Dict, FiniteSetTheorems, TLAPS

\* TableExact is inductive with the types and the finiteness of the table.
DInv ==
    /\ TypeOK
    /\ TableExact
    /\ IsFiniteSet(Present)

-----------------------------------------------------------------------------
(* Buckets and chains. *)

\* Every key has a bucket (dict.c:4).
LEMMA HashInBucket ==
    ASSUME NEW k \in Key
    PROVE  Hash(k) \in Bucket
<1>1. Size \in Nat \ {0}
    BY DictAssumption
<1>2. CASE k.t = "int"
    <2>1. k.v \in Nat
        BY <1>2, DictAssumption
    <2>2. Hash(k) = k.v % Size
        BY <1>2 DEF Hash
    <2> QED
        BY <1>1, <2>1, <2>2 DEF Bucket
<1>3. CASE k.t = "str"
    <2>1. StrHash[k.v] \in Nat
        BY <1>3, DictAssumption
    <2>2. Hash(k) = StrHash[k.v] % Size
        BY <1>3 DEF Hash
    <2> QED
        BY <1>1, <2>1, <2>2 DEF Bucket
<1> QED
    BY <1>2, <1>3, DictAssumption

\* list_del drops one pair and keeps the others in order.
LEMMA RemovedFacts ==
    ASSUME NEW c \in Seq(Pair), NEW i \in DOMAIN c
    PROVE  /\ Removed(c, i) \in Seq(Pair)
           /\ Len(Removed(c, i)) = Len(c) - 1
           /\ \A j \in DOMAIN Removed(c, i) :
                 Removed(c, i)[j] = IF j < i THEN c[j] ELSE c[j + 1]
<1>1. Len(c) \in Nat /\ DOMAIN c = 1 .. Len(c) /\ Len(c) - 1 \in Nat
    OBVIOUS
<1>2. \A j \in 1 .. Len(c) - 1 : (IF j < i THEN c[j] ELSE c[j + 1]) \in Pair
    BY <1>1
<1>3. Removed(c, i) \in [1 .. Len(c) - 1 -> Pair]
    BY <1>2 DEF Removed
<1> QED
    BY <1>1, <1>3 DEF Removed

\* A key is found where it is.
LEMMA PositionFound ==
    ASSUME DInv, NEW k \in Key, NEW i \in DOMAIN kvs[Hash(k)],
           kvs[Hash(k)][i].key = k
    PROVE  Has(k) /\ Position(k) = i
<1>1. Hash(k) \in Bucket
    BY HashInBucket
<1>2. Has(k)
    BY DEF Has
<1>3. /\ Position(k) \in DOMAIN kvs[Hash(k)]
      /\ kvs[Hash(k)][Position(k)].key = k
    BY <1>2 DEF Has, Position
<1> QED
    BY <1>1, <1>2, <1>3 DEF DInv, TableExact, KeysUnique

\* A key that is there is found where Position says.
LEMMA PositionOf ==
    ASSUME NEW k \in Key, Has(k)
    PROVE  /\ Position(k) \in DOMAIN kvs[Hash(k)]
           /\ kvs[Hash(k)][Position(k)].key = k
    BY DEF Has, Position

\* The chain of a key without the key: the other pairs of the bucket, each
\* once, and no pair of the key (dict.c:100-104).
LEMMA WithoutFacts ==
    ASSUME DInv, NEW k \in Key
    PROVE  LET c == kvs[Hash(k)]
               w == Without(k)
           IN  /\ w \in Seq(Pair)
               /\ \A j \in DOMAIN w : w[j].key # k /\ \E i \in DOMAIN c : w[j] = c[i]
               /\ \A i \in DOMAIN c : c[i].key # k => \E j \in DOMAIN w : w[j] = c[i]
               /\ \A i, j \in DOMAIN w : w[i].key = w[j].key => i = j
<1> DEFINE c == kvs[Hash(k)]
           p == Position(k)
           w == Without(k)
<1>1. Hash(k) \in Bucket /\ c \in Seq(Pair)
    BY HashInBucket DEF DInv, TypeOK
<1>2. \A i, j \in DOMAIN c : c[i].key = c[j].key => i = j
    BY <1>1 DEF DInv, TableExact, KeysUnique
<1>3. CASE ~Has(k)
    <2>1. w = c
        BY <1>3 DEF Without
    <2>2. \A j \in DOMAIN c : c[j].key # k
        BY <1>3 DEF Has
    <2> QED
        BY <1>1, <1>2, <2>1, <2>2
<1>4. CASE Has(k)
    <2>1. p \in DOMAIN c /\ c[p].key = k
        BY <1>4, PositionOf
    <2>2. w = Removed(c, p)
        BY <1>4 DEF Without
    <2> HIDE DEF c, p, w
    <2>3. /\ w \in Seq(Pair) /\ Len(w) = Len(c) - 1
          /\ \A j \in DOMAIN w : w[j] = IF j < p THEN c[j] ELSE c[j + 1]
        BY <1>1, <2>1, <2>2, RemovedFacts
    <2>4. /\ DOMAIN c = 1 .. Len(c) /\ DOMAIN w = 1 .. Len(c) - 1
          /\ Len(c) \in Nat /\ p \in Nat
        BY <1>1, <2>1, <2>3
    <2>5. \A j \in DOMAIN w : w[j].key # k /\ \E i \in DOMAIN c : w[j] = c[i]
        <3> TAKE j \in DOMAIN w
        <3>1. CASE j < p
            BY <1>2, <2>1, <2>3, <2>4, <3>1
        <3>2. CASE ~(j < p)
            BY <1>2, <2>1, <2>3, <2>4, <3>2
        <3> QED
            BY <3>1, <3>2
    <2>6. \A i \in DOMAIN c : c[i].key # k => \E j \in DOMAIN w : w[j] = c[i]
        <3> TAKE i \in DOMAIN c
        <3> HAVE c[i].key # k
        <3>1. i # p
            BY <2>1
        <3>2. CASE i < p
            <4>1. i \in DOMAIN w /\ w[i] = c[i]
                BY <2>1, <2>3, <2>4, <3>2
            <4> QED
                BY <4>1
        <3>3. CASE i > p
            <4>1. i - 1 \in DOMAIN w /\ w[i - 1] = c[i]
                BY <2>1, <2>3, <2>4, <3>3
            <4> QED
                BY <4>1
        <3> QED
            BY <2>4, <3>1, <3>2, <3>3
    <2>7. \A i, j \in DOMAIN w : w[i].key = w[j].key => i = j
        <3> TAKE i, j \in DOMAIN w
        <3> HAVE w[i].key = w[j].key
        <3>1. PICK x \in DOMAIN c : w[i] = c[x] /\ x = IF i < p THEN i ELSE i + 1
            BY <2>1, <2>3, <2>4
        <3>2. PICK y \in DOMAIN c : w[j] = c[y] /\ y = IF j < p THEN j ELSE j + 1
            BY <2>1, <2>3, <2>4
        <3>3. x = y
            BY <1>2, <3>1, <3>2
        <3> QED
            BY <2>4, <3>1, <3>2, <3>3
    <2> QED
        BY <2>3, <2>5, <2>6, <2>7 DEF c, w
<1> QED
    BY <1>3, <1>4

-----------------------------------------------------------------------------
(* One chain is replaced. *)

ValueOf(k) == kvs[Hash(k)][Position(k)].value

\* The new chain of k's bucket holds pairs of that bucket, no key twice.
ChainOf(k, a) ==
    /\ a \in Seq(Pair)
    /\ \A i \in DOMAIN a : Hash(a[i].key) = Hash(k)
    /\ \A i, j \in DOMAIN a : a[i].key = a[j].key => i = j

\* The order of the table survives, and so do the other buckets.
LEMMA ChainReplaced ==
    ASSUME DInv, NEW k \in Key, NEW a, ChainOf(k, a),
           kvs' = [kvs EXCEPT ![Hash(k)] = a]
    PROVE  /\ kvs' \in [Bucket -> Seq(Pair)]
           /\ kvs'[Hash(k)] = a
           /\ InOwnBucket' /\ KeysUnique'
           /\ \A q \in Key : Hash(q) # Hash(k) =>
                 (Has(q)' <=> Has(q)) /\ ValueOf(q)' = ValueOf(q)
<1>1. /\ Hash(k) \in Bucket /\ kvs \in [Bucket -> Seq(Pair)]
      /\ InOwnBucket /\ KeysUnique
    BY HashInBucket DEF DInv, TypeOK, TableExact
<1>2. kvs' \in [Bucket -> Seq(Pair)]
    BY <1>1 DEF ChainOf
<1>3. /\ kvs'[Hash(k)] = a
      /\ \A b \in Bucket : b # Hash(k) => kvs'[b] = kvs[b]
    BY <1>1
<1>4. InOwnBucket'
    BY <1>1, <1>3 DEF InOwnBucket, ChainOf, Hash
<1>5. KeysUnique'
    BY <1>1, <1>3 DEF KeysUnique, ChainOf
<1>6. ASSUME NEW q \in Key, Hash(q) # Hash(k)
      PROVE  (Has(q)' <=> Has(q)) /\ ValueOf(q)' = ValueOf(q)
    <2>1. kvs'[Hash(q)] = kvs[Hash(q)]
        BY <1>3, <1>6, HashInBucket
    <2> QED
        BY <2>1 DEF Has, ValueOf, Position, Hash
<1> QED
    BY <1>2, <1>3, <1>4, <1>5, <1>6

\* A set: the key is there with the new value, the others are as they were.
LEMMA SetFacts ==
    ASSUME DInv, NEW k \in Key, NEW v \in Value,
           kvs' = [kvs EXCEPT ![Hash(k)] =
                      Append(Without(k), [key |-> k, value |-> v])]
    PROVE  /\ kvs' \in [Bucket -> Seq(Pair)] /\ InOwnBucket' /\ KeysUnique'
           /\ Has(k)' /\ ValueOf(k)' = v
           /\ \A q \in Key : q # k =>
                 (Has(q)' <=> Has(q)) /\ (Has(q) => ValueOf(q)' = ValueOf(q))
<1> DEFINE c == kvs[Hash(k)]
           w == Without(k)
           e == [key |-> k, value |-> v]
           a == Append(w, e)
<1>1. /\ w \in Seq(Pair) /\ e \in Pair /\ e.key = k /\ e.value = v
      /\ \A j \in DOMAIN w : w[j].key # k /\ \E i \in DOMAIN c : w[j] = c[i]
      /\ \A i \in DOMAIN c : c[i].key # k => \E j \in DOMAIN w : w[j] = c[i]
      /\ \A i, j \in DOMAIN w : w[i].key = w[j].key => i = j
    BY WithoutFacts DEF Pair
<1>2. /\ \A i \in DOMAIN c : Hash(c[i].key) = Hash(k)
      /\ KeysUnique
    BY HashInBucket DEF DInv, TableExact, InOwnBucket
<1>3. kvs' = [kvs EXCEPT ![Hash(k)] = a]
    OBVIOUS
<1> HIDE DEF c, w, e
<1>4. /\ a \in Seq(Pair) /\ Len(a) = Len(w) + 1
      /\ DOMAIN a = 1 .. Len(w) + 1 /\ DOMAIN w = 1 .. Len(w) /\ Len(w) \in Nat
      /\ \A j \in DOMAIN w : a[j] = w[j]
      /\ a[Len(w) + 1] = e
    BY <1>1
<1> HIDE DEF a
<1>5. ChainOf(k, a)
    <2>1. \A i \in DOMAIN a : Hash(a[i].key) = Hash(k)
        BY <1>1, <1>2, <1>4
    <2>2. \A i, j \in DOMAIN a : a[i].key = a[j].key => i = j
        BY <1>1, <1>4
    <2> QED
        BY <1>4, <2>1, <2>2 DEF ChainOf
<1>6. /\ kvs' \in [Bucket -> Seq(Pair)] /\ InOwnBucket' /\ KeysUnique'
      /\ kvs'[Hash(k)] = a
      /\ \A q \in Key : Hash(q) # Hash(k) =>
            (Has(q)' <=> Has(q)) /\ ValueOf(q)' = ValueOf(q)
    BY <1>3, <1>5, ChainReplaced
<1>7. Has(k)' /\ ValueOf(k)' = v
    <2>1. Has(k)'
        BY <1>1, <1>4, <1>6 DEF Has, Hash
    <2>2. Position(k)' \in DOMAIN a /\ a[Position(k)'].key = k
        BY <2>1, <1>6 DEF Has, Position, Hash
    <2>3. Position(k)' = Len(w) + 1
        BY <2>2, <1>1, <1>4
    <2> QED
        BY <2>1, <2>3, <1>1, <1>4, <1>6 DEF ValueOf, Hash
<1>8. ASSUME NEW q \in Key, q # k, Hash(q) = Hash(k)
      PROVE  (Has(q)' <=> Has(q)) /\ (Has(q) => ValueOf(q)' = ValueOf(q))
    <2>1. Has(q) <=> \E i \in DOMAIN c : c[i].key = q
        BY <1>8 DEF Has, c
    <2>2. Has(q)' <=> \E i \in DOMAIN a : a[i].key = q
        BY <1>6, <1>8 DEF Has, Hash
    <2>3. \A i \in DOMAIN a : a[i].key = q => \E x \in DOMAIN c : a[i] = c[x]
        BY <1>1, <1>4, <1>8
    <2>4. \A x \in DOMAIN c : c[x].key = q => \E i \in DOMAIN a : a[i] = c[x]
        BY <1>1, <1>4, <1>8
    <2>5. ASSUME Has(q)
          PROVE  ValueOf(q)' = ValueOf(q)
        <3>1. Has(q)'
            BY <2>1, <2>2, <2>4, <2>5
        <3>2. Position(q)' \in DOMAIN a /\ a[Position(q)'].key = q
            BY <3>1, <1>6, <1>8 DEF Has, Position, Hash
        <3>3. PICK x \in DOMAIN c : a[Position(q)'] = c[x]
            BY <3>2, <2>3
        <3>4. Position(q) = x
            BY <3>2, <3>3, <1>8, PositionFound DEF c
        <3> QED
            BY <3>3, <3>4, <1>6, <1>8 DEF ValueOf, Hash, c
    <2> QED
        BY <2>1, <2>2, <2>3, <2>4, <2>5
<1> QED
    BY <1>6, <1>7, <1>8

\* A delete: the key is gone, the others are as they were.
LEMMA DelFacts ==
    ASSUME DInv, NEW k \in Key,
           kvs' = [kvs EXCEPT ![Hash(k)] = Without(k)]
    PROVE  /\ kvs' \in [Bucket -> Seq(Pair)] /\ InOwnBucket' /\ KeysUnique'
           /\ ~Has(k)'
           /\ \A q \in Key : q # k =>
                 (Has(q)' <=> Has(q)) /\ (Has(q) => ValueOf(q)' = ValueOf(q))
<1> DEFINE c == kvs[Hash(k)]
           w == Without(k)
<1>1. /\ w \in Seq(Pair)
      /\ \A j \in DOMAIN w : w[j].key # k /\ \E i \in DOMAIN c : w[j] = c[i]
      /\ \A i \in DOMAIN c : c[i].key # k => \E j \in DOMAIN w : w[j] = c[i]
      /\ \A i, j \in DOMAIN w : w[i].key = w[j].key => i = j
    BY WithoutFacts
<1>2. /\ \A i \in DOMAIN c : Hash(c[i].key) = Hash(k)
      /\ kvs' = [kvs EXCEPT ![Hash(k)] = w]
    BY HashInBucket DEF DInv, TableExact, InOwnBucket
<1> HIDE DEF c, w
<1>3. ChainOf(k, w)
    BY <1>1, <1>2 DEF ChainOf
<1>4. /\ kvs' \in [Bucket -> Seq(Pair)] /\ InOwnBucket' /\ KeysUnique'
      /\ kvs'[Hash(k)] = w
      /\ \A q \in Key : Hash(q) # Hash(k) =>
            (Has(q)' <=> Has(q)) /\ ValueOf(q)' = ValueOf(q)
    BY <1>2, <1>3, ChainReplaced
<1>5. ~Has(k)'
    BY <1>1, <1>4 DEF Has, Hash
<1>6. ASSUME NEW q \in Key, q # k, Hash(q) = Hash(k)
      PROVE  (Has(q)' <=> Has(q)) /\ (Has(q) => ValueOf(q)' = ValueOf(q))
    <2>1. Has(q) <=> \E i \in DOMAIN c : c[i].key = q
        BY <1>6 DEF Has, c
    <2>2. Has(q)' <=> \E i \in DOMAIN w : w[i].key = q
        BY <1>4, <1>6 DEF Has, Hash
    <2>3. \A x \in DOMAIN c : c[x].key = q => \E i \in DOMAIN w : w[i] = c[x]
        BY <1>1, <1>6
    <2>4. ASSUME Has(q)
          PROVE  ValueOf(q)' = ValueOf(q)
        <3>1. Has(q)'
            BY <2>1, <2>2, <2>3, <2>4
        <3>2. Position(q)' \in DOMAIN w /\ w[Position(q)'].key = q
            BY <3>1, <1>4, <1>6 DEF Has, Position, Hash
        <3>3. PICK x \in DOMAIN c : w[Position(q)'] = c[x]
            BY <3>2, <1>1
        <3>4. Position(q) = x
            BY <3>2, <3>3, <1>6, PositionFound DEF c
        <3> QED
            BY <3>3, <3>4, <1>4, <1>6 DEF ValueOf, Hash, c
    <2> QED
        BY <1>1, <2>1, <2>2, <2>3, <2>4
<1> QED
    BY <1>4, <1>5, <1>6

-----------------------------------------------------------------------------
(* The invariant. *)

\* A pair that is found holds a value of the table.
LEMMA ValueTyped ==
    ASSUME DInv, NEW k \in Key, Has(k)
    PROVE  ValueOf(k) \in Value
<1>1. kvs[Hash(k)] \in Seq(Pair)
    BY HashInBucket DEF DInv, TypeOK
<1>2. kvs[Hash(k)][Position(k)] \in Pair
    BY <1>1, PositionOf
<1> QED
    BY <1>2 DEF ValueOf, Pair

\* An empty dictionary.
LEMMA InitInv == Init => DInv
<1> SUFFICES ASSUME Init PROVE DInv
    OBVIOUS
<1>1. \A k \in Key : ~Has(k)
    BY HashInBucket DEF Init, Has
<1>2. Present = {}
    BY <1>1 DEF Present
<1>3. IsFiniteSet(Present) /\ Cardinality(Present) = 0
    BY <1>2, FS_EmptySet
<1>4. TypeOK
    BY DEF Init, TypeOK
<1>5. InOwnBucket /\ KeysUnique
    BY DEF Init, InOwnBucket, KeysUnique
<1> QED
    BY <1>3, <1>4, <1>5 DEF Init, DInv, TableExact

\* The counts follow the set of keys that are present.
LEMMA SetKeepsInv ==
    ASSUME DInv, NEW k \in Key, NEW v \in Value, Set(k, v)
    PROVE  DInv'
<1>1. /\ kvs' \in [Bucket -> Seq(Pair)] /\ InOwnBucket' /\ KeysUnique'
      /\ Has(k)'
      /\ \A q \in Key : q # k => (Has(q)' <=> Has(q))
    BY SetFacts DEF Set
<1>2. Present' = Present \cup {k}
    BY <1>1 DEF Present
<1>3. /\ IsFiniteSet(Present') /\ IsFiniteSet(Present)
      /\ Cardinality(Present) \in Nat
      /\ Cardinality(Present') = IF Has(k) THEN Cardinality(Present)
                                           ELSE Cardinality(Present) + 1
    <2>1. k \in Present <=> Has(k)
        BY DEF Present
    <2> QED
        BY <1>2, <2>1, FS_AddElement, FS_CardinalityType DEF DInv
<1>4. /\ count = Cardinality(Present) /\ blocks = 3 * count
      /\ count \in Nat /\ blocks \in Nat
    BY DEF DInv, TableExact, TypeOK
<1>5. count' = Cardinality(Present') /\ blocks' = 3 * count' /\ count' \in Nat
    BY <1>3, <1>4 DEF Set
<1>6. TypeOK'
    BY <1>1, <1>5 DEF Set, TypeOK
<1> QED
    BY <1>1, <1>3, <1>5, <1>6 DEF DInv, TableExact

\* del unlinks the one pair of its key and frees its blocks.
LEMMA DelKeepsInv ==
    ASSUME DInv, NEW k \in Key, Del(k)
    PROVE  DInv'
<1>1. /\ kvs' \in [Bucket -> Seq(Pair)] /\ InOwnBucket' /\ KeysUnique'
      /\ ~Has(k)'
      /\ \A q \in Key : q # k => (Has(q)' <=> Has(q))
    BY DelFacts DEF Del
<1>2. Present' = Present \ {k}
    BY <1>1 DEF Present
<1>3. /\ IsFiniteSet(Present') /\ IsFiniteSet(Present)
      /\ Cardinality(Present) \in Nat /\ Cardinality(Present') \in Nat
      /\ Cardinality(Present') = IF Has(k) THEN Cardinality(Present) - 1
                                           ELSE Cardinality(Present)
    <2>1. k \in Present <=> Has(k)
        BY DEF Present
    <2> QED
        BY <1>2, <2>1, FS_RemoveElement, FS_CardinalityType DEF DInv
<1>4. /\ count = Cardinality(Present) /\ blocks = 3 * count
      /\ count \in Nat /\ blocks \in Nat
    BY DEF DInv, TableExact, TypeOK
<1>5. count' = Cardinality(Present') /\ blocks' = 3 * count' /\ count' \in Nat
    BY <1>3, <1>4 DEF Del
<1>6. TypeOK'
    BY <1>1, <1>5 DEF DInv, Del, TypeOK
<1> QED
    BY <1>1, <1>3, <1>5, <1>6 DEF DInv, TableExact

\* A cleared table has no pairs, and its counts are zero again.
LEMMA ClearKeepsInv ==
    ASSUME DInv, Clear
    PROVE  DInv' /\ \A k \in Key : ~Has(k)'
<1>1. kvs' = [b \in Bucket |-> <<>>]
    BY DEF Clear
<1>2. \A k \in Key : ~Has(k)'
    BY <1>1, HashInBucket DEF Has, Hash
<1>3. Present' = {}
    BY <1>2 DEF Present
<1>4. IsFiniteSet(Present') /\ Cardinality(Present') = 0
    BY <1>3, FS_EmptySet
<1>5. /\ count = Cardinality(Present) /\ blocks = 3 * count
      /\ count \in Nat /\ blocks \in Nat
    BY DEF DInv, TableExact, TypeOK
<1>6. count' = 0 /\ blocks' = 0
    BY <1>5 DEF Clear
<1>7. InOwnBucket' /\ KeysUnique'
    BY <1>1 DEF InOwnBucket, KeysUnique
<1>8. TypeOK'
    BY <1>1, <1>6 DEF DInv, Clear, TypeOK
<1> QED
    BY <1>2, <1>4, <1>6, <1>7, <1>8 DEF DInv, TableExact

\* Every call keeps the chains.
LEMMA NextKeepsInv ==
    ASSUME DInv, [Next]_vars
    PROVE  DInv'
<1>1. ASSUME NEW k \in Key, NEW v \in Value, Set(k, v)
      PROVE  DInv'
    BY <1>1, SetKeepsInv
<1>2. ASSUME NEW k \in Key, Del(k)
      PROVE  DInv'
    BY <1>2, DelKeepsInv
<1>3. CASE Clear
    BY <1>3, ClearKeepsInv
<1>4. ASSUME UNCHANGED <<kvs, count, blocks>>,
             ret' \in Value \cup BOOLEAN \cup {NULL}
      PROVE  DInv'
    <2>1. Present' = Present
        BY <1>4 DEF Present, Has, Hash
    <2>2. InOwnBucket' /\ KeysUnique'
        BY <1>4 DEF DInv, TableExact, InOwnBucket, KeysUnique, Hash, Bucket
    <2> QED
        BY <1>4, <2>1, <2>2 DEF DInv, TableExact, TypeOK
<1>5. ASSUME NEW k \in Key, SetFails(k)
      PROVE  DInv'
    BY <1>4, <1>5 DEF SetFails
<1>6. ASSUME NEW k \in Key, Get(k)
      PROVE  DInv'
    <2>1. ret' = IF Has(k) THEN ValueOf(k) ELSE NULL
        BY <1>6 DEF Get, ValueOf
    <2> QED
        BY <1>4, <1>6, <2>1, ValueTyped DEF Get
<1>7. CASE GetFails
    BY <1>4, <1>7 DEF GetFails
<1>8. CASE UNCHANGED vars
    BY <1>4, <1>8 DEF vars, DInv, TypeOK
<1> QED
    BY <1>1, <1>2, <1>3, <1>5, <1>6, <1>7, <1>8 DEF Next

\* The types of the table (dict.h:12-14).
THEOREM DictTypeCorrect == Spec => []TypeOK
<1>1. DInv => TypeOK
    BY DEF DInv
<1> QED
    BY InitInv, NextKeepsInv, <1>1, PTL DEF Spec

\* No key is twice in the table, every pair can be found in the bucket of its
\* key, and count and the memory in use are exact, after any calls and any
\* failures of allocation (dict.c:26-142).
THEOREM TableStaysExact == Spec => []TableExact
<1>1. DInv => TableExact
    BY DEF DInv
<1> QED
    BY InitInv, NextKeepsInv, <1>1, PTL DEF Spec

-----------------------------------------------------------------------------
(* The refinement. *)

\* The map that a table stands for.
TheMap == [k \in Present |-> ValueOf(k)]

\* The map that the chains stand for has the keys that are present ...
LEMMA MapDomain == DOMAIN TheMap = Present
    BY DEF TheMap

\* ... and their values.
LEMMA MapIs == TheMap = [k \in Present |-> kvs[Hash(k)][Position(k)].value]
    BY DEF TheMap, ValueOf

\* Every step of the table is a step of the map, or none.
LEMMA StepRefines ==
    ASSUME DInv, [Next]_vars
    PROVE  [M!Next]_(M!vars)
<1>1. ASSUME NEW k \in Key, NEW v \in Value, Set(k, v)
      PROVE  M!Set(k, v)
    <2>1. /\ Has(k)' /\ ValueOf(k)' = v
          /\ \A q \in Key : q # k =>
                (Has(q)' <=> Has(q)) /\ (Has(q) => ValueOf(q)' = ValueOf(q))
        BY <1>1, SetFacts DEF Set
    <2>2. Present' = Present \cup {k}
        BY <2>1 DEF Present
    <2>3. TheMap' = [j \in Present \cup {k} |-> IF j = k THEN v ELSE TheMap[j]]
        BY <2>1, <2>2 DEF TheMap, Present
    <2>4. ret' = TRUE
        BY <1>1 DEF Set
    <2> QED
        BY <2>3, <2>4, MapDomain DEF M!Set, TheMap, ValueOf
<1>2. ASSUME NEW k \in Key, Del(k)
      PROVE  M!Del(k)
    <2>1. /\ ~Has(k)'
          /\ \A q \in Key : q # k =>
                (Has(q)' <=> Has(q)) /\ (Has(q) => ValueOf(q)' = ValueOf(q))
        BY <1>2, DelFacts DEF Del
    <2>2. Present' = Present \ {k}
        BY <2>1 DEF Present
    <2>3. TheMap' = [j \in Present \ {k} |-> TheMap[j]]
        BY <2>1, <2>2 DEF TheMap, Present
    <2>4. ret' = ret
        BY <1>2 DEF Del
    <2> QED
        BY <2>3, <2>4, MapDomain DEF M!Del, TheMap, ValueOf
<1>3. CASE Clear
    <2>1. Present' = {}
        BY <1>3, ClearKeepsInv DEF Present
    <2>2. TheMap' = [k \in {} |-> NULL]
        BY <2>1 DEF TheMap
    <2>3. M!Clear
        BY <1>3, <2>2 DEF Clear, M!Clear, TheMap, ValueOf
    <2> QED
        BY <2>3 DEF M!Next
<1>4. ASSUME UNCHANGED kvs
      PROVE  TheMap' = TheMap
    BY <1>4 DEF TheMap, ValueOf, Present, Has, Position, Hash
<1>5. ASSUME NEW k \in Key, SetFails(k)
      PROVE  M!SetFails
    BY <1>4, <1>5 DEF SetFails, M!SetFails, TheMap, ValueOf
<1>6. ASSUME NEW k \in Key, Get(k)
      PROVE  M!Get(k)
    <2>1. k \in Present <=> Has(k)
        BY DEF Present
    <2>2. ret' = IF k \in Present THEN TheMap[k] ELSE NULL
        BY <1>6, <2>1 DEF Get, TheMap, ValueOf
    <2>3. TheMap' = TheMap
        BY <1>4, <1>6 DEF Get
    <2> QED
        BY <2>2, <2>3, MapDomain DEF M!Get, TheMap, ValueOf
<1>7. CASE GetFails
    <2>1. TheMap' = TheMap /\ ret' = NULL
        BY <1>4, <1>7 DEF GetFails
    <2>2. M!GetFails
        BY <2>1 DEF M!GetFails, TheMap, ValueOf
    <2> QED
        BY <2>2 DEF M!Next
<1>8. CASE UNCHANGED vars
    <2>1. TheMap' = TheMap /\ ret' = ret
        BY <1>4, <1>8 DEF vars
    <2> QED
        BY <2>1 DEF M!vars, TheMap, ValueOf
<1> QED
    BY <1>1, <1>2, <1>3, <1>5, <1>6, <1>7, <1>8 DEF Next, M!Next

\* The empty table is the empty map.
LEMMA InitRefines == Init => M!Init
<1> SUFFICES ASSUME Init PROVE M!Init
    OBVIOUS
<1>1. \A k \in Key : ~Has(k)
    BY HashInBucket DEF Init, Has
<1>2. Present = {}
    BY <1>1 DEF Present
<1>3. TheMap = [k \in {} |-> NULL]
    BY <1>2 DEF TheMap
<1> QED
    BY <1>3 DEF Init, M!Init, TheMap, ValueOf

\* A dict_t is a finite map, for every set of keys, hash and sequence of calls
\* (dict.c:89-177).
THEOREM DictImplementsMap == Spec => ImplementsMap
<1>1. Init => DInv
    BY InitInv
<1>2. DInv /\ [Next]_vars => DInv'
    BY NextKeepsInv
<1>3. DInv /\ [Next]_vars => [M!Next]_(M!vars)
    BY StepRefines
<1>4. Init => M!Init
    BY InitRefines
<1> QED
    BY <1>1, <1>2, <1>3, <1>4, PTL DEF Spec, M!Spec, ImplementsMap

=============================================================================
