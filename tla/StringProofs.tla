---------------------------- MODULE StringProofs ----------------------------
(***************************************************************************)
(* Facts about sequences and about the operators of Strings, for texts of  *)
(* any length, that the proofs about Connection and Packet rest on.        *)
(*                                                                         *)
(* FlattenSeq and Collect are recursive functions.  They are unfolded by   *)
(* an induction on sets of numbers (Induction, from the well-foundedness   *)
(* of < on Nat): a function that satisfies the recursive equation is built *)
(* step by step, so that the one that CHOOSE finds satisfies it too.  So   *)
(* is FoldLeft over the items of a path (ResolvedIs).                      *)
(***************************************************************************)
EXTENDS Strings, SequenceTheorems, WellFoundedInduction, TLAPS

-----------------------------------------------------------------------------
(* Concatenations. *)

\* A set that holds 0 and the successor of each of its numbers holds every number.
LEMMA Induction ==
    ASSUME NEW S, 0 \in S, \A n \in S \cap Nat : n + 1 \in S
    PROVE  Nat \subseteq S
<1> DEFINE T == Nat \ S
           R == {ss \in Nat \X Nat : ss[1] < ss[2]}
<1>1. SUFFICES ASSUME T # {} PROVE FALSE
  OBVIOUS
<1>2. IsWellFoundedOn(R, Nat)
  BY NatLessThanWellFounded DEF OpToRel
<1>3. PICK x \in T : \A y \in T : ~(<<y, x>> \in R)
  <2>1. T \subseteq Nat
    OBVIOUS
  <2> HIDE DEF R, T
  <2> QED
    BY <1>1, <1>2, <2>1, WFMin
<1>4. x \in Nat /\ x \notin S /\ x # 0 /\ x - 1 \in Nat
  BY <1>3
<1>5. x - 1 \in T
  <2>1. SUFFICES ASSUME x - 1 \in S PROVE FALSE
    BY <1>4
  <2>2. (x - 1) + 1 \in S
    BY <1>4, <2>1
  <2> QED
    BY <1>4, <2>2
<1>6. <<x - 1, x>> \in R
  BY <1>4
<1> QED
  BY <1>3, <1>5, <1>6

\* f holds the concatenations of the first 1, ..., m sequences of s.
Joins(s, m, f) == f = [i \in 1 .. m |-> IF i = 1 THEN s[i] ELSE f[i - 1] \o s[i]]

\* There is such an f for every number of sequences.
LEMMA JoinsExist ==
    ASSUME NEW s, NEW m \in Nat
    PROVE  \E f : Joins(s, m, f)
<1> DEFINE S == {n \in Nat : \E f : Joins(s, n, f)}
<1>1. 0 \in S
  <2>1. Joins(s, 0, [i \in 1 .. 0 |-> 0])
    BY DEF Joins
  <2> QED
    BY <2>1
<1>2. ASSUME NEW n \in S \cap Nat PROVE n + 1 \in S
  <2>1. PICK f : f = [i \in 1 .. n |-> IF i = 1 THEN s[i] ELSE f[i - 1] \o s[i]]
    BY DEF Joins
  <2> DEFINE g == [i \in 1 .. n + 1 |->
                      IF i = 1 THEN s[i] ELSE f[i - 1] \o s[i]]
  <2>2. ASSUME NEW i \in 1 .. n PROVE f[i] = g[i]
    <3>1. i \in 1 .. n + 1
      OBVIOUS
    <3>2. g[i] = IF i = 1 THEN s[i] ELSE f[i - 1] \o s[i]
      BY <3>1
    <3>3. f[i] = IF i = 1 THEN s[i] ELSE f[i - 1] \o s[i]
      <4> HIDE DEF g
      <4> QED
        BY <2>1
    <3> QED
      BY <3>2, <3>3
  <2>3. g = [i \in 1 .. n + 1 |-> IF i = 1 THEN s[i] ELSE g[i - 1] \o s[i]]
    <3>1. ASSUME NEW i \in 1 .. n + 1, i # 1 PROVE f[i - 1] = g[i - 1]
      <4>1. i - 1 \in 1 .. n
        BY <3>1
      <4> HIDE DEF g
      <4> QED
        BY <2>2, <4>1
    <3> QED
      BY <3>1
  <2>4. Joins(s, n + 1, g)
    BY <2>3 DEF Joins
  <2> HIDE DEF g
  <2> QED
    BY <2>4
<1>3. Nat \subseteq S
  <2> HIDE DEF S
  <2> QED
    BY <1>1, <1>2, Induction
<1> QED
  BY <1>3

\* Sequences that agree on a prefix have the same concatenations of it.
LEMMA JoinsAgree ==
    ASSUME NEW s, NEW t, NEW k \in Nat, NEW m \in Nat, k <= m,
           NEW f, NEW g, Joins(s, k, f), Joins(t, m, g),
           \A i \in 1 .. k : s[i] = t[i]
    PROVE  \A i \in 1 .. k : f[i] = g[i]
<1> DEFINE S == {i \in Nat : i \in 1 .. k => f[i] = g[i]}
<1>1. /\ f = [i \in 1 .. k |-> IF i = 1 THEN s[i] ELSE f[i - 1] \o s[i]]
      /\ g = [i \in 1 .. m |-> IF i = 1 THEN t[i] ELSE g[i - 1] \o t[i]]
  BY DEF Joins
<1>2. 0 \in S
  OBVIOUS
<1>3. ASSUME NEW i \in S \cap Nat PROVE i + 1 \in S
  <2>1. SUFFICES ASSUME i + 1 \in 1 .. k PROVE f[i + 1] = g[i + 1]
    OBVIOUS
  <2>2. s[i + 1] = t[i + 1] /\ i + 1 \in 1 .. k /\ i + 1 \in 1 .. m
    BY <2>1
  <2>3. CASE i = 0
    <3>1. f[1] = s[1] /\ g[1] = t[1]
      BY <1>1, <2>2, <2>3
    <3> QED
      BY <2>2, <2>3, <3>1
  <2>4. CASE i # 0
    <3>1. i \in 1 .. k /\ f[i] = g[i]
      BY <2>1, <2>4
    <3>2. f[i + 1] = f[i] \o s[i + 1] /\ g[i + 1] = g[i] \o t[i + 1]
      <4>1. (i + 1) - 1 = i /\ i + 1 # 1
        BY <2>4
      <4>2. f[i + 1] = f[(i + 1) - 1] \o s[i + 1]
        BY <1>1, <2>2, <4>1
      <4>3. g[i + 1] = g[(i + 1) - 1] \o t[i + 1]
        BY <1>1, <2>2, <4>1
      <4> QED
        BY <4>1, <4>2, <4>3
    <3> QED
      BY <2>2, <3>1, <3>2
  <2> QED
    BY <2>3, <2>4
<1>4. Nat \subseteq S
  <2> HIDE DEF S
  <2> QED
    BY <1>2, <1>3, Induction
<1> QED
  BY <1>4

\* FlattenSeq is the last of these concatenations.
LEMMA FlattenJoins ==
    ASSUME NEW U, NEW s \in Seq(U), s # <<>>, NEW f, Joins(s, Len(s), f)
    PROVE  FlattenSeq(s) = f[Len(s)]
<1> DEFINE c == CHOOSE h : h = [i \in 1 .. Len(s) |-> IF i = 1 THEN s[i] ELSE h[i - 1] \o s[i]]
<1>1. Len(s) \in Nat \ {0}
  OBVIOUS
<1>2. FlattenSeq(s) = c[Len(s)]
  BY <1>1 DEF FlattenSeq
<1>3. Joins(s, Len(s), c)
  BY DEF Joins
<1> HIDE DEF c
<1>4. f[Len(s)] = c[Len(s)]
  <2>1. \A i \in 1 .. Len(s) : f[i] = c[i]
    BY <1>1, <1>3, JoinsAgree
  <2> QED
    BY <1>1, <2>1
<1> QED
  BY <1>2, <1>4

\* A set that holds the empty sequence and each extension of its sequences by one
\* element holds every sequence.
LEMMA SequenceInduction ==
    ASSUME NEW U, NEW S, <<>> \in S,
           \A s \in Seq(U) \cap S : \A x \in U : Append(s, x) \in S
    PROVE  Seq(U) \subseteq S
<1> DEFINE N == {n \in Nat : \A s \in Seq(U) : Len(s) = n => s \in S}
<1>1. 0 \in N
  <2>1. ASSUME NEW s \in Seq(U), Len(s) = 0 PROVE s = <<>>
    BY <2>1
  <2> QED
    BY <2>1
<1>2. ASSUME NEW n \in N \cap Nat PROVE n + 1 \in N
  <2>1. SUFFICES ASSUME NEW s \in Seq(U), Len(s) = n + 1 PROVE s \in S
    OBVIOUS
  <2>2. PICK front \in Seq(U), x \in U : s = Append(front, x)
    BY <2>1, SequenceEmptyOrAppend
  <2>3. Len(front) = n
    BY <2>1, <2>2, AppendProperties
  <2> QED
    BY <2>2, <2>3
<1>3. Nat \subseteq N
  <2> HIDE DEF N
  <2> QED
    BY <1>1, <1>2, Induction
<1>4. ASSUME NEW s \in Seq(U) PROVE s \in S
  <2>1. Len(s) \in N
    BY <1>3
  <2> QED
    BY <2>1
<1> QED
  BY <1>4

\* Nothing concatenated is nothing.
LEMMA FlattenNone == FlattenSeq(<<>>) = <<>>
  BY DEF FlattenSeq

\* One sequence more is appended to the concatenation.
LEMMA FlattenExtends ==
    ASSUME NEW U, NEW s \in Seq(U), NEW t \in Seq(U), NEW m \in Nat, NEW n \in Nat \ {0},
           Len(s) = n, Len(t) = m, m = n + 1, \A i \in 1 .. n : s[i] = t[i]
    PROVE  FlattenSeq(t) = FlattenSeq(s) \o t[m]
<1>1. s # <<>> /\ t # <<>>
  OBVIOUS
<1>2. PICK f : Joins(s, n, f)
  BY JoinsExist
<1>3. PICK g : Joins(t, m, g)
  BY JoinsExist
<1>4. FlattenSeq(s) = f[n] /\ FlattenSeq(t) = g[m]
  BY <1>1, <1>2, <1>3, FlattenJoins
<1>5. \A i \in 1 .. n : f[i] = g[i]
  <2>1. n \in Nat /\ n <= m
    OBVIOUS
  <2> QED
    BY <1>2, <1>3, <2>1, JoinsAgree, SMTT(30)
<1>6. g = [i \in 1 .. m |-> IF i = 1 THEN t[i] ELSE g[i - 1] \o t[i]]
  BY <1>3 DEF Joins
<1>7. m \in 1 .. m /\ m # 1 /\ m - 1 = n /\ n \in 1 .. n
  OBVIOUS
<1>8. g[m] = g[m - 1] \o t[m]
  BY <1>6, <1>7
<1> QED
  BY <1>4, <1>5, <1>7, <1>8

\* The concatenation of one sequence is that sequence.
LEMMA FlattenOne ==
    ASSUME NEW x
    PROVE  FlattenSeq(<<x>>) = x
<1>1. <<x>> \in Seq({x}) /\ <<x>> # <<>> /\ Len(<<x>>) = 1 /\ <<x>>[1] = x
  OBVIOUS
<1>2. PICK f : Joins(<<x>>, 1, f)
  BY JoinsExist
<1>3. f = [i \in 1 .. 1 |-> IF i = 1 THEN <<x>>[i] ELSE f[i - 1] \o <<x>>[i]]
  BY <1>2 DEF Joins
<1>4. f[1] = x
  BY <1>1, <1>3
<1> QED
  BY <1>1, <1>2, <1>4, FlattenJoins

\* FlattenSeq of a sequence with one more element.
LEMMA FlattenAdds ==
    ASSUME NEW V, NEW s \in Seq(Seq(V)), NEW x \in Seq(V)
    PROVE  FlattenSeq(Append(s, x)) = FlattenSeq(s) \o x
<1>1. CASE s = <<>>
  <2>1. Append(s, x) = <<x>>
    BY <1>1
  <2> QED
    BY <1>1, <2>1, FlattenOne, FlattenNone, ConcatEmptySeq
<1>2. CASE s # <<>>
  <2>1. /\ Append(s, x) \in Seq(Seq(V)) /\ Len(Append(s, x)) = Len(s) + 1
        /\ Append(s, x)[Len(s) + 1] = x /\ \A i \in 1 .. Len(s) : Append(s, x)[i] = s[i]
    BY AppendProperties
  <2>2. PICK n \in Nat \ {0}, m \in Nat : n = Len(s) /\ m = n + 1
    BY <1>2
  <2>3. FlattenSeq(Append(s, x)) = FlattenSeq(s) \o Append(s, x)[m]
    BY <2>1, <2>2, FlattenExtends
  <2> QED
    BY <2>1, <2>2, <2>3
<1> QED
  BY <1>1, <1>2

\* The concatenation of sequences over V is a sequence over V.
LEMMA FlattenType ==
    ASSUME NEW V, NEW s \in Seq(Seq(V))
    PROVE  FlattenSeq(s) \in Seq(V)
<1> DEFINE S == {t \in Seq(Seq(V)) : FlattenSeq(t) \in Seq(V)}
<1>1. <<>> \in S
  BY FlattenNone, EmptySeq
<1>2. ASSUME NEW t \in Seq(Seq(V)) \cap S, NEW x \in Seq(V) PROVE Append(t, x) \in S
  <2>1. Append(t, x) \in Seq(Seq(V))
    BY AppendProperties
  <2>2. FlattenSeq(Append(t, x)) = FlattenSeq(t) \o x
    BY FlattenAdds
  <2>3. FlattenSeq(t) \o x \in Seq(V)
    BY ConcatProperties
  <2> QED
    BY <2>1, <2>2, <2>3
<1>3. Seq(Seq(V)) \subseteq S
  <2> HIDE DEF S
  <2> QED
    BY <1>1, <1>2, SequenceInduction
<1> QED
  BY <1>3

\* FlattenSeq distributes over concatenation.
LEMMA FlattenConcat ==
    ASSUME NEW V, NEW s \in Seq(Seq(V)), NEW t \in Seq(Seq(V))
    PROVE  FlattenSeq(s \o t) = FlattenSeq(s) \o FlattenSeq(t)
<1> DEFINE S == {u \in Seq(Seq(V)) : FlattenSeq(s \o u) = FlattenSeq(s) \o FlattenSeq(u)}
<1>1. FlattenSeq(s) \in Seq(V)
  BY FlattenType
<1>2. <<>> \in S
  <2>1. s \o <<>> = s /\ FlattenSeq(s) \o <<>> = FlattenSeq(s)
    BY <1>1, ConcatEmptySeq
  <2> QED
    BY <2>1, FlattenNone, EmptySeq
<1>3. ASSUME NEW u \in Seq(Seq(V)) \cap S, NEW x \in Seq(V) PROVE Append(u, x) \in S
  <2>1. Append(u, x) \in Seq(Seq(V))
    BY AppendProperties
  <2>2. s \o Append(u, x) = Append(s \o u, x)
    <3>1. Append(u, x) = u \o <<x>> /\ Append(s \o u, x) = (s \o u) \o <<x>>
      BY AppendIsConcat, ConcatProperties
    <3>2. (s \o u) \o <<x>> = s \o (u \o <<x>>)
      BY ConcatAssociative, SMTT(30)
    <3> QED
      BY <3>1, <3>2
  <2>3. s \o u \in Seq(Seq(V)) /\ FlattenSeq(u) \in Seq(V)
    BY ConcatProperties, FlattenType
  <2>4. FlattenSeq(s \o Append(u, x)) = (FlattenSeq(s) \o FlattenSeq(u)) \o x
    BY <2>2, <2>3, FlattenAdds
  <2>5. FlattenSeq(Append(u, x)) = FlattenSeq(u) \o x
    BY FlattenAdds
  <2>6. (FlattenSeq(s) \o FlattenSeq(u)) \o x = FlattenSeq(s) \o (FlattenSeq(u) \o x)
    <3>1. FlattenSeq(s) \in Seq(V) /\ FlattenSeq(u) \in Seq(V) /\ x \in Seq(V)
      BY <1>1, <2>3
    <3> QED
      BY <3>1, ConcatAssociative, SMTT(30)
  <2> QED
    BY <2>1, <2>4, <2>5, <2>6
<1>4. Seq(Seq(V)) \subseteq S
  <2> HIDE DEF S
  <2> QED
    BY <1>2, <1>3, SequenceInduction
<1> QED
  BY <1>4

\* The concatenation of non-empty sequences is empty only if there are none.
LEMMA FlattenEmpty ==
    ASSUME NEW V, NEW s \in Seq(Seq(V) \ {<<>>})
    PROVE  /\ s \in Seq(Seq(V))
           /\ FlattenSeq(s) = <<>> <=> s = <<>>
<1>1. ASSUME NEW t \in Seq(Seq(V) \ {<<>>}) PROVE t \in Seq(Seq(V))
  BY SeqMonotonic
<1>2. ASSUME s # <<>> PROVE FlattenSeq(s) # <<>>
  <2>1. PICK front \in Seq(Seq(V) \ {<<>>}), x \in Seq(V) \ {<<>>} : s = Append(front, x)
    BY <1>2, SequenceEmptyOrAppend
  <2>2. FlattenSeq(s) = FlattenSeq(front) \o x /\ FlattenSeq(front) \in Seq(V)
    BY <1>1, <2>1, FlattenAdds, FlattenType
  <2> QED
    BY <2>2, ConcatEqualIffEmpty
<1> QED
  BY <1>1, <1>2, FlattenNone

\* The elements of s behind position a up to position b.
Slice(s, a, b) == SubSeq(s, a + 1, b)

\* Type, length and elements of a slice.
LEMMA SliceIs ==
    ASSUME NEW V, NEW s \in Seq(V), NEW a \in Nat, NEW b \in Nat, a <= b, b <= Len(s)
    PROVE  /\ Slice(s, a, b) \in Seq(V) /\ Len(Slice(s, a, b)) = b - a
           /\ \A j \in 1 .. b - a : Slice(s, a, b)[j] = s[a + j]
<1>1. Len(s) \in Nat /\ \A j \in 1 .. Len(s) : s[j] \in V
  OBVIOUS
<1>2. PICK m \in Int : m = a + 1
  OBVIOUS
<1>3. \A j \in m .. b : s[j] \in V
  BY <1>1, <1>2
<1>4. /\ SubSeq(s, m, b) \in Seq(V)
      /\ Len(SubSeq(s, m, b)) = IF m <= b THEN b - m + 1 ELSE 0
      /\ \A j \in 1 .. b - m + 1 : SubSeq(s, m, b)[j] = s[m + j - 1]
  BY <1>1, <1>2, <1>3, SubSeqProperties
<1> QED
  BY <1>1, <1>2, <1>4 DEF Slice

\* A slice from the start.
LEMMA FirstIs ==
    ASSUME NEW V, NEW s \in Seq(V), NEW b \in Nat, b <= Len(s)
    PROVE  /\ Slice(s, 0, b) = SubSeq(s, 1, b)
           /\ Slice(s, 0, b) \in Seq(V) /\ Len(Slice(s, 0, b)) = b
           /\ \A j \in 1 .. b : Slice(s, 0, b)[j] = s[j]
<1>1. \A j \in 1 .. b : s[j] \in V
  OBVIOUS
<1>2. /\ SubSeq(s, 1, b) \in Seq(V) /\ Len(SubSeq(s, 1, b)) = b
      /\ \A j \in 1 .. b : SubSeq(s, 1, b)[j] = s[j]
  BY <1>1, SubSeqProperties
<1>3. 0 + 1 = 1
  OBVIOUS
<1> QED
  BY <1>2, <1>3 DEF Slice

\* A slice to the end.
LEMMA RestIs ==
    ASSUME NEW V, NEW s \in Seq(V), NEW a \in Nat, a <= Len(s)
    PROVE  /\ Slice(s, a, Len(s)) \in Seq(V) /\ Len(Slice(s, a, Len(s))) = Len(s) - a
           /\ \A j \in 1 .. Len(s) - a : Slice(s, a, Len(s))[j] = s[a + j]
<1>1. PICK b \in Nat : b = Len(s) /\ a <= b /\ b <= Len(s)
  OBVIOUS
<1>2. /\ Slice(s, a, b) \in Seq(V) /\ Len(Slice(s, a, b)) = b - a
      /\ \A j \in 1 .. b - a : Slice(s, a, b)[j] = s[a + j]
  BY <1>1, SliceIs, ZenonT(30)
<1> QED
  BY <1>1, <1>2

\* Two slices that meet are one.
LEMMA SlicesJoin ==
    ASSUME NEW V, NEW s \in Seq(V), NEW a \in Nat, NEW b \in Nat, NEW c \in Nat,
           a <= b, b <= c, c <= Len(s)
    PROVE  Slice(s, a, b) \o Slice(s, b, c) = Slice(s, a, c)
<1>1. PICK m \in 1 .. Len(s) + 1 : m = a + 1
  OBVIOUS
<1>2. b \in m - 1 .. Len(s) /\ c \in b .. Len(s)
  BY <1>1
<1>3. SubSeq(s, m, b) \o SubSeq(s, b + 1, c) = SubSeq(s, m, c)
  BY <1>1, <1>2, ConcatAdjacentSubSeq
<1> QED
  BY <1>1, <1>3 DEF Slice

\* A slice of no length.
LEMMA SliceNone ==
    ASSUME NEW s, NEW a \in Nat
    PROVE  Slice(s, a, a) = <<>>
BY SubSeqEmpty DEF Slice

\* The slice that is everything.
LEMMA SliceFull ==
    ASSUME NEW V, NEW s \in Seq(V)
    PROVE  Slice(s, 0, Len(s)) = s
BY SubSeqFull DEF Slice

\* A set that holds the empty sequence and each sequence that has one element more
\* in front than one of its sequences holds every sequence.
LEMMA ConsInduction ==
    ASSUME NEW U, NEW S, <<>> \in S,
           \A s \in Seq(U) \cap S : \A x \in U : Cons(x, s) \in S
    PROVE  Seq(U) \subseteq S
<1> DEFINE N == {n \in Nat : \A s \in Seq(U) : Len(s) = n => s \in S}
<1>1. 0 \in N
  <2>1. ASSUME NEW s \in Seq(U), Len(s) = 0 PROVE s = <<>>
    BY <2>1
  <2> QED
    BY <2>1
<1>2. ASSUME NEW n \in N \cap Nat PROVE n + 1 \in N
  <2>1. SUFFICES ASSUME NEW s \in Seq(U), Len(s) = n + 1 PROVE s \in S
    OBVIOUS
  <2>2. /\ s # <<>> /\ Head(s) \in U /\ Tail(s) \in Seq(U) /\ Len(Tail(s)) = n
        /\ \A i \in 1 .. n : Tail(s)[i] = s[i + 1]
        /\ Head(s) = s[1]
    <3>1. s # <<>>
      BY <2>1
    <3> QED
      BY <2>1, <3>1, HeadTailProperties
  <2>3. s = Cons(Head(s), Tail(s))
    BY <2>1, <2>2 DEF Cons
  <2> QED
    BY <2>2, <2>3
<1>3. Nat \subseteq N
  <2> HIDE DEF N
  <2> QED
    BY <1>1, <1>2, Induction
<1> QED
  BY <1>3

-----------------------------------------------------------------------------
(* The first place of something. *)

\* The least of a set of numbers.
LEMMA MinIs ==
    ASSUME NEW S \in SUBSET Int, NEW m \in S, \A x \in S : m <= x
    PROVE  Min(S) = m
<1> DEFINE c == CHOOSE x \in S : \A y \in S : x <= y
<1>1. c \in S /\ \A y \in S : c <= y
  OBVIOUS
<1> HIDE DEF c
<1>2. c = m
  BY <1>1
<1> QED
  BY <1>2 DEF Min, c

\* The greatest of a set of numbers.
LEMMA MaxIs ==
    ASSUME NEW S \in SUBSET Int, NEW m \in S, \A x \in S : m >= x
    PROVE  Max(S) = m
<1> DEFINE c == CHOOSE x \in S : \A y \in S : x >= y
<1>1. c \in S /\ \A y \in S : c >= y
  OBVIOUS
<1> HIDE DEF c
<1>2. c = m
  BY <1>1
<1> QED
  BY <1>2 DEF Max, c

\* What is before and after the first c of a text.
LEMMA UntilFirst ==
    ASSUME NEW V, NEW s \in Seq(V), NEW c, NEW k \in 1 .. Len(s), s[k] = c,
           \A j \in 1 .. k - 1 : s[j] # c
    PROVE  /\ Until(s, c) = Slice(s, 0, k - 1) /\ Len(Until(s, c)) = k - 1
           /\ After(s, c) = Slice(s, k, Len(s))
<1> DEFINE I == {i \in 1 .. Len(s) : s[i] = c}
<1>1. Min(I) = k /\ I # {}
  <2>1. I \in SUBSET Int /\ k \in I /\ \A x \in I : k <= x
    OBVIOUS
  <2> HIDE DEF I
  <2> QED
    BY <2>1, MinIs
<1>2. Until(s, c) = SubSeq(s, 1, k - 1)
  <2>1. Until(s, c) = LET i == IF I # {} THEN Min(I) ELSE 0
                      IN  IF i = 0 THEN s ELSE SubSeq(s, 1, i - 1)
    BY DEF Until, Before, SelectInSeq
  <2> HIDE DEF I
  <2> QED
    BY <1>1, <2>1
<1>3. k - 1 \in Nat /\ k - 1 <= Len(s) /\ k \in Nat /\ (k - 1) + 2 = k + 1
  OBVIOUS
<1>4. Slice(s, 0, k - 1) = SubSeq(s, 1, k - 1) /\ Len(Slice(s, 0, k - 1)) = k - 1
  <2>1. PICK b \in Nat : b = k - 1 /\ b <= Len(s)
    BY <1>3
  <2>2. Slice(s, 0, b) = SubSeq(s, 1, b) /\ Len(Slice(s, 0, b)) = b
    BY <2>1, FirstIs
  <2> QED
    BY <2>1, <2>2
<1>5. After(s, c) = SubSeq(s, k + 1, Len(s))
  BY <1>2, <1>3, <1>4 DEF After, From
<1> QED
  BY <1>2, <1>4, <1>5 DEF Slice

\* A text without c.
LEMMA UntilNone ==
    ASSUME NEW V, NEW s \in Seq(V), NEW c, \A j \in 1 .. Len(s) : s[j] # c
    PROVE  Until(s, c) = s /\ After(s, c) = <<>>
<1>1. Until(s, c) = s
  BY DEF Until, SelectInSeq
<1>2. Len(s) \in Nat /\ Len(s) + 2 \in Int /\ Len(s) < Len(s) + 2
  OBVIOUS
<1>3. SubSeq(s, Len(s) + 2, Len(s)) = <<>>
  BY <1>2, SubSeqEmpty
<1> QED
  BY <1>1, <1>3 DEF After, From

\* Types and elements of what is around a separator.
LEMMA Around ==
    ASSUME NEW V, NEW x \in Seq(V), NEW c \in V, NEW y \in Seq(V)
    PROVE  /\ x \o <<c>> \o y \in Seq(V) /\ Len(x \o <<c>> \o y) = Len(x) + 1 + Len(y)
           /\ \A i \in 1 .. Len(x) : (x \o <<c>> \o y)[i] = x[i]
           /\ (x \o <<c>> \o y)[Len(x) + 1] = c
           /\ \A i \in 1 .. Len(y) : (x \o <<c>> \o y)[Len(x) + 1 + i] = y[i]
<1>1. <<c>> \in Seq(V) /\ Len(<<c>>) = 1 /\ <<c>>[1] = c
  OBVIOUS
<1>2. /\ x \o <<c>> \in Seq(V) /\ Len(x \o <<c>>) = Len(x) + 1
      /\ \A i \in 1 .. Len(x) + 1 :
            (x \o <<c>>)[i] = IF i <= Len(x) THEN x[i] ELSE <<c>>[i - Len(x)]
  BY <1>1, ConcatProperties
<1>3. /\ (x \o <<c>>) \o y \in Seq(V) /\ Len((x \o <<c>>) \o y) = (Len(x) + 1) + Len(y)
      /\ \A i \in 1 .. (Len(x) + 1) + Len(y) :
            ((x \o <<c>>) \o y)[i] = IF i <= Len(x) + 1 THEN (x \o <<c>>)[i]
                                     ELSE y[i - (Len(x) + 1)]
  BY <1>2, ConcatProperties
<1>4. Len(x) \in Nat /\ Len(y) \in Nat
  OBVIOUS
<1> HIDE DEF Slice
<1> QED
  BY <1>1, <1>2, <1>3, <1>4, SMTT(30)

\* The parts that a concatenation is made of, as slices.
LEMMA SlicesOfConcat ==
    ASSUME NEW V, NEW x \in Seq(V), NEW y \in Seq(V)
    PROVE  Slice(x \o y, 0, Len(x)) = x /\ Slice(x \o y, Len(x), Len(x) + Len(y)) = y
<1> DEFINE t == x \o y
<1>1. /\ t \in Seq(V) /\ Len(t) = Len(x) + Len(y)
      /\ \A i \in 1 .. Len(x) + Len(y) : t[i] = IF i <= Len(x) THEN x[i] ELSE y[i - Len(x)]
  BY ConcatProperties
<1>2. Len(x) \in Nat /\ Len(y) \in Nat /\ Len(x) <= Len(t)
  BY <1>1
<1> HIDE DEF t
<1>3. /\ Slice(t, 0, Len(x)) \in Seq(V) /\ Len(Slice(t, 0, Len(x))) = Len(x)
      /\ \A j \in 1 .. Len(x) : Slice(t, 0, Len(x))[j] = t[j]
  BY <1>1, <1>2, FirstIs
<1>4. Slice(t, 0, Len(x)) = x
  <2>1. \A j \in 1 .. Len(x) : Slice(t, 0, Len(x))[j] = x[j]
    BY <1>1, <1>2, <1>3
  <2> QED
    BY <1>3, <2>1, SeqEqual
<1>5. /\ Slice(t, Len(x), Len(t)) \in Seq(V) /\ Len(Slice(t, Len(x), Len(t))) = Len(t) - Len(x)
      /\ \A j \in 1 .. Len(t) - Len(x) : Slice(t, Len(x), Len(t))[j] = t[Len(x) + j]
  <2>1. t \in Seq(V) /\ Len(x) \in Nat /\ Len(x) <= Len(t)
    BY <1>1, <1>2
  <2> QED
    BY <2>1, RestIs
<1>6. Slice(t, Len(x), Len(t)) = y
  <2>1. Len(Slice(t, Len(x), Len(t))) = Len(y) /\ Len(t) - Len(x) = Len(y)
    BY <1>1, <1>2, <1>5
  <2>2. ASSUME NEW j \in 1 .. Len(y) PROVE Slice(t, Len(x), Len(t))[j] = y[j]
    <3>1. Len(x) + j \in 1 .. Len(x) + Len(y) /\ ~(Len(x) + j <= Len(x))
          /\ (Len(x) + j) - Len(x) = j
      BY <1>2
    <3>2. t[Len(x) + j] = y[j]
      BY <1>1, <3>1
    <3> QED
      BY <1>5, <2>1, <3>2
  <2> QED
    BY <1>5, <2>1, <2>2, SeqEqual
<1> QED
  BY <1>1, <1>4, <1>6 DEF t

-----------------------------------------------------------------------------
(* Collect: the loop over a text. *)

\* Each step of a loop over the places up to n goes on.
GoesOn(head, next, n) ==
    /\ DOMAIN head \subseteq 0 .. n
    /\ \A i \in DOMAIN head : next[i] \in Nat /\ next[i] > i

\* f collects from every place from n + 1 - k on.
Collects(head, next, n, k, f) ==
    \A i \in Nat : i + k > n =>
        f[i] = IF i \in DOMAIN head THEN head[i] \o f[next[i]] ELSE <<>>

\* f collects from every place.
Loop(head, next, f) ==
    f = [i \in Nat |-> IF i \in DOMAIN head THEN head[i] \o f[next[i]] ELSE <<>>]

\* There is such an f, if each step of the loop goes on.
LEMMA CollectsExists ==
    ASSUME NEW n \in Nat, NEW head, NEW next, GoesOn(head, next, n)
    PROVE  \E f : Loop(head, next, f)
<1>1. DOMAIN head \subseteq 0 .. n /\ \A i \in DOMAIN head : next[i] \in Nat /\ next[i] > i
  BY DEF GoesOn
<1> DEFINE Fcn(f) == f = [i \in Nat |-> f[i]]
           S == {k \in Nat : \E f : Fcn(f) /\ Collects(head, next, n, k, f)}
<1>2. 0 \in S
  <2> DEFINE g == [i \in Nat |-> <<>>]
  <2>1. Collects(head, next, n, 0, g)
    BY <1>1 DEF Collects
  <2>2. Fcn(g)
    OBVIOUS
  <2> QED
    BY <2>1, <2>2
<1>3. ASSUME NEW k \in S \cap Nat PROVE k + 1 \in S
  <2>1. PICK f : Fcn(f) /\ Collects(head, next, n, k, f)
    OBVIOUS
  <2> DEFINE g == [i \in Nat |-> IF i + k = n
                                 THEN IF i \in DOMAIN head THEN head[i] \o f[next[i]] ELSE <<>>
                                 ELSE f[i]]
  <2>2. \A i \in Nat : i + k > n => g[i] = f[i]
    OBVIOUS
  <2>3. \A i \in Nat : i + k = n =>
            g[i] = IF i \in DOMAIN head THEN head[i] \o f[next[i]] ELSE <<>>
    OBVIOUS
  <2>4. Fcn(g)
    OBVIOUS
  <2> HIDE DEF g
  <2>5. ASSUME NEW i \in Nat, i + k >= n, i \in DOMAIN head PROVE g[next[i]] = f[next[i]]
    <3>1. next[i] \in Nat /\ next[i] + k > n
      BY <1>1, <2>5
    <3> QED
      BY <2>2, <3>1
  <2>6. ASSUME NEW i \in Nat, i + (k + 1) > n
        PROVE  g[i] = IF i \in DOMAIN head THEN head[i] \o g[next[i]] ELSE <<>>
    <3>1. CASE i + k > n
      <4>1. f[i] = IF i \in DOMAIN head THEN head[i] \o f[next[i]] ELSE <<>>
        BY <2>1, <3>1 DEF Collects
      <4> QED
        BY <2>2, <2>5, <3>1, <4>1
    <3>2. CASE i + k = n
      BY <2>3, <2>5, <3>2
    <3>3. i + k > n \/ i + k = n
      <4>1. k \in Nat
        OBVIOUS
      <4> HIDE DEF S
      <4> QED
        BY <2>6, <4>1
    <3> QED
      BY <3>1, <3>2, <3>3
  <2>7. Collects(head, next, n, k + 1, g)
    BY <2>6 DEF Collects
  <2> QED
    BY <2>4, <2>7
<1>4. n + 1 \in S
  <2>1. Nat \subseteq S
    <3> HIDE DEF S
    <3> QED
      BY <1>2, <1>3, Induction
  <2> QED
    BY <2>1
<1>5. PICK f : Fcn(f) /\ Collects(head, next, n, n + 1, f)
  BY <1>4
<1>6. \A i \in Nat : f[i] = IF i \in DOMAIN head THEN head[i] \o f[next[i]] ELSE <<>>
  <2>1. \A i \in Nat : i + (n + 1) > n
    OBVIOUS
  <2> QED
    BY <1>5, <2>1 DEF Collects
<1>7. Loop(head, next, f)
  BY <1>5, <1>6 DEF Loop
<1> QED
  BY <1>7

\* One step of the loop.
LEMMA CollectStep ==
    ASSUME NEW n \in Nat, NEW head, NEW next, GoesOn(head, next, n)
    PROVE  \A i \in Nat :
              Collect(head, next, i) = IF i \in DOMAIN head
                                       THEN head[i] \o Collect(head, next, next[i]) ELSE <<>>
<1> DEFINE c == CHOOSE f : f = [i \in Nat |-> IF i \in DOMAIN head THEN head[i] \o f[next[i]]
                                              ELSE <<>>]
<1>1. c = [i \in Nat |-> IF i \in DOMAIN head THEN head[i] \o c[next[i]] ELSE <<>>]
  <2>1. \E f : Loop(head, next, f)
    BY CollectsExists
  <2>2. c = CHOOSE f : Loop(head, next, f)
    BY DEF Loop
  <2>3. Loop(head, next, c)
    BY <2>1, <2>2
  <2> QED
    BY <2>3 DEF Loop
<1>2. \A i : Collect(head, next, i) = c[i]
  BY DEF Collect
<1> HIDE DEF c
<1> QED
  BY <1>1, <1>2

\* The first loop, from place d on, goes over the n places of the second.
Shifted(head, next, head2, next2, n, d) ==
    /\ DOMAIN head = 1 .. n + d /\ DOMAIN head2 = 1 .. n
    /\ \A i \in DOMAIN head : next[i] \in Nat /\ next[i] > i
    /\ \A i \in 1 .. n : /\ next2[i] \in Nat /\ next2[i] > i
                         /\ head[i + d] = head2[i] /\ next[i + d] = next2[i] + d

\* A loop over the rest of a text collects what the loop over the text collects
\* from there on.
LEMMA CollectShifts ==
    ASSUME NEW n \in Nat, NEW d \in Nat, NEW head, NEW next, NEW head2, NEW next2,
           Shifted(head, next, head2, next2, n, d)
    PROVE  Collect(head, next, 1 + d) = Collect(head2, next2, 1)
<1> DEFINE S == {k \in Nat : \A i \in Nat \ {0} : i + k > n =>
                    Collect(head, next, i + d) = Collect(head2, next2, i)}
<1>1. /\ DOMAIN head = 1 .. n + d /\ DOMAIN head2 = 1 .. n
      /\ \A i \in DOMAIN head : next[i] \in Nat /\ next[i] > i
      /\ \A i \in 1 .. n : /\ next2[i] \in Nat /\ next2[i] > i
                           /\ head[i + d] = head2[i] /\ next[i + d] = next2[i] + d
  BY DEF Shifted
<1>2. \A i \in Nat :
          Collect(head, next, i) = IF i \in DOMAIN head
                                   THEN head[i] \o Collect(head, next, next[i]) ELSE <<>>
  <2>1. PICK m \in Nat : m = n + d
    OBVIOUS
  <2>2. GoesOn(head, next, m)
    BY <1>1, <2>1 DEF GoesOn
  <2> QED
    BY <2>2, CollectStep
<1>3. \A i \in Nat :
          Collect(head2, next2, i) = IF i \in DOMAIN head2
                                     THEN head2[i] \o Collect(head2, next2, next2[i]) ELSE <<>>
  <2>1. GoesOn(head2, next2, n)
    BY <1>1 DEF GoesOn
  <2> QED
    BY <2>1, CollectStep
<1>4. 0 \in S
  <2>1. ASSUME NEW i \in Nat \ {0}, i > n
        PROVE  Collect(head, next, i + d) = Collect(head2, next2, i)
    <3>1. i + d \in Nat /\ i + d \notin DOMAIN head /\ i \in Nat /\ i \notin DOMAIN head2
      BY <1>1, <2>1
    <3> QED
      BY <1>2, <1>3, <3>1
  <2> QED
    BY <2>1
<1>5. ASSUME NEW k \in S \cap Nat PROVE k + 1 \in S
  <2>1. ASSUME NEW i \in Nat \ {0}, i + (k + 1) > n
        PROVE  Collect(head, next, i + d) = Collect(head2, next2, i)
    <3>1. CASE i + k > n
      BY <3>1
    <3>2. CASE i > n
      <4>1. i + k > n
        BY <3>2
      <4> QED
        BY <4>1
    <3>3. CASE i + k = n
      <4>1. i \in 1 .. n /\ i \in Nat /\ i + d \in Nat /\ i + d \in 1 .. n + d
        BY <3>3
      <4>2. next2[i] \in Nat \ {0} /\ next2[i] + k > n
        BY <1>1, <3>3, <4>1
      <4>3. Collect(head, next, next2[i] + d) = Collect(head2, next2, next2[i])
        BY <4>2
      <4>4. Collect(head, next, i + d) = head[i + d] \o Collect(head, next, next[i + d])
        BY <1>1, <1>2, <4>1
      <4>5. Collect(head2, next2, i) = head2[i] \o Collect(head2, next2, next2[i])
        BY <1>1, <1>3, <4>1
      <4> QED
        BY <1>1, <4>1, <4>3, <4>4, <4>5
    <3> QED
      BY <2>1, <3>1, <3>3
  <2> QED
    BY <2>1
<1>6. n \in S
  <2>1. Nat \subseteq S
    <3> HIDE DEF S
    <3> QED
      BY <1>4, <1>5, Induction
  <2> QED
    BY <2>1
<1> QED
  BY <1>6

-----------------------------------------------------------------------------
(* Items: what is between separators. *)

\* A set of numbers that is not empty has a least one.
LEMMA LeastExists ==
    ASSUME NEW S \in SUBSET Nat, S # {}
    PROVE  \E m \in S : \A x \in S : m <= x
<1> DEFINE R == {ss \in Nat \X Nat : ss[1] < ss[2]}
<1>1. IsWellFoundedOn(R, Nat)
  BY NatLessThanWellFounded DEF OpToRel
<1>2. PICK m \in S : \A x \in S : ~(<<x, m>> \in R)
  <2> HIDE DEF R
  <2> QED
    BY <1>1, WFMin
<1>3. ASSUME NEW x \in S, x < m PROVE FALSE
  <2>1. x \in Nat /\ m \in Nat
    OBVIOUS
  <2>2. <<x, m>> \in R
    BY <1>3, <2>1
  <2> QED
    BY <1>2, <2>2
<1> QED
  BY <1>3

\* The part before a separator is a text.
LEMMA UntilType ==
    ASSUME NEW V, NEW s \in Seq(V), NEW c
    PROVE  Until(s, c) \in Seq(V) /\ Len(Until(s, c)) \in Nat
<1> DEFINE I == {i \in 1 .. Len(s) : s[i] = c}
<1>1. CASE I = {}
  <2>1. \A j \in 1 .. Len(s) : s[j] # c
    BY <1>1
  <2>2. Until(s, c) = s
    BY <2>1, UntilNone
  <2> QED
    BY <2>2
<1>2. CASE I # {}
  <2>1. PICK k \in I : \A x \in I : k <= x
    <3>1. I \in SUBSET Nat
      OBVIOUS
    <3> HIDE DEF I
    <3> QED
      BY <1>2, <3>1, LeastExists
  <2>2. k \in 1 .. Len(s) /\ s[k] = c /\ \A j \in 1 .. k - 1 : s[j] # c
    BY <2>1
  <2>3. Until(s, c) = Slice(s, 0, k - 1) /\ Len(Until(s, c)) = k - 1
    BY <2>2, UntilFirst
  <2>4. PICK b \in Nat : b = k - 1 /\ b <= Len(s)
    BY <2>2
  <2>5. Slice(s, 0, b) \in Seq(V)
    BY <2>4, FirstIs
  <2> QED
    BY <2>3, <2>4, <2>5
<1> QED
  BY <1>1, <1>2

\* The rest of a text from a place on.
LEMMA FromIs ==
    ASSUME NEW V, NEW s \in Seq(V), NEW i \in 1 .. Len(s)
    PROVE  /\ From(s, i) \in Seq(V) /\ Len(From(s, i)) = Len(s) - i + 1
           /\ \A j \in 1 .. Len(s) - i + 1 : From(s, i)[j] = s[i + j - 1]
<1>1. \A j \in i .. Len(s) : s[j] \in V
  OBVIOUS
<1>2. Len(s) \in Int /\ i \in Int /\ i <= Len(s)
  OBVIOUS
<1> QED
  BY <1>1, <1>2, SubSeqProperties DEF From

\* The rest of the second of two texts.
LEMMA FromOfConcat ==
    ASSUME NEW V, NEW x \in Seq(V), NEW y \in Seq(V), NEW i \in 1 .. Len(y)
    PROVE  From(x \o y, i + Len(x)) = From(y, i)
<1>1. Len(x \o y) = Len(x) + Len(y) /\ Len(x) \in Nat /\ Len(y) \in Nat
  BY ConcatProperties
<1>2. PICK m \in Len(x) + 1 .. Len(x) + Len(y) : m = i + Len(x)
  BY <1>1
<1>3. Len(x) + Len(y) \in Len(x) + 1 .. Len(x) + Len(y)
  BY <1>1
<1>4. SubSeq(x \o y, m, Len(x) + Len(y)) = SubSeq(y, m - Len(x), (Len(x) + Len(y)) - Len(x))
  BY <1>3, SubSeqOfConcat2
<1>5. m - Len(x) = i /\ (Len(x) + Len(y)) - Len(x) = Len(y)
  BY <1>1, <1>2
<1> QED
  BY <1>1, <1>2, <1>4, <1>5 DEF From

ItemAt(s, c)   == [i \in DOMAIN s |-> Until(From(s, i), c)]
ItemHead(s, c) == [i \in DOMAIN s |-> IF ItemAt(s, c)[i] = <<>> THEN <<>>
                                      ELSE <<ItemAt(s, c)[i]>>]
ItemNext(s, c) == [i \in DOMAIN s |-> i + Len(ItemAt(s, c)[i]) + 1]

\* What is at each place of a text when foreach_item_in_str is there.
ItemsRun(s, c) ==
    /\ Items(s, c) = Collect(ItemHead(s, c), ItemNext(s, c), 1)
    /\ DOMAIN ItemHead(s, c) = 1 .. Len(s)
    /\ \A i \in 1 .. Len(s) :
          /\ ItemAt(s, c)[i] = Until(From(s, i), c)
          /\ ItemHead(s, c)[i] = IF ItemAt(s, c)[i] = <<>> THEN <<>>
                                 ELSE <<ItemAt(s, c)[i]>>
          /\ ItemNext(s, c)[i] = i + Len(ItemAt(s, c)[i]) + 1
          /\ ItemNext(s, c)[i] \in Nat /\ ItemNext(s, c)[i] > i

\* The loop of foreach_item_in_str goes on.
LEMMA ItemsLoop ==
    ASSUME NEW V, NEW s \in Seq(V), NEW c
    PROVE  ItemsRun(s, c)
<1>1. Items(s, c) = Collect(ItemHead(s, c), ItemNext(s, c), 1)
  BY DEF Items, ItemHead, ItemNext, ItemAt
<1>2. DOMAIN s = 1 .. Len(s) /\ Len(s) \in Nat
  OBVIOUS
<1>3. ASSUME NEW i \in 1 .. Len(s) PROVE Len(Until(From(s, i), c)) \in Nat
  <2>1. From(s, i) \in Seq(V)
    BY FromIs
  <2> QED
    BY <2>1, UntilType
<1>4. \A i \in 1 .. Len(s) : ItemAt(s, c)[i] = Until(From(s, i), c)
  BY <1>2 DEF ItemAt
<1>5. \A i \in 1 .. Len(s) : ItemNext(s, c)[i] = i + Len(ItemAt(s, c)[i]) + 1
  BY <1>2 DEF ItemNext
<1>6. \A i \in 1 .. Len(s) : ItemHead(s, c)[i] = IF ItemAt(s, c)[i] = <<>> THEN <<>>
                                                ELSE <<ItemAt(s, c)[i]>>
  BY <1>2 DEF ItemHead
<1>7. \A i \in 1 .. Len(s) : ItemNext(s, c)[i] \in Nat /\ ItemNext(s, c)[i] > i
  BY <1>3, <1>4, <1>5
<1>8. DOMAIN ItemHead(s, c) = 1 .. Len(s)
  BY <1>2 DEF ItemHead
<1> QED
  BY <1>1, <1>4, <1>5, <1>6, <1>7, <1>8 DEF ItemsRun

\* The items of an empty text.
LEMMA ItemsNone ==
    ASSUME NEW c
    PROVE  Items(<<>>, c) = <<>>
<1>1. <<>> \in Seq({}) /\ Len(<<>>) = 0
  OBVIOUS
<1> DEFINE h == ItemHead(<<>>, c)
           n == ItemNext(<<>>, c)
<1>2. Items(<<>>, c) = Collect(h, n, 1) /\ DOMAIN h = 1 .. 0
  BY <1>1, ItemsLoop DEF ItemsRun
<1> HIDE DEF h, n
<1>3. \A i \in Nat : Collect(h, n, i) = IF i \in DOMAIN h THEN h[i] \o Collect(h, n, n[i])
                                        ELSE <<>>
  <2>1. 0 \in Nat /\ GoesOn(h, n, 0)
    BY <1>2 DEF GoesOn
  <2> QED
    BY <2>1, CollectStep
<1> QED
  BY <1>2, <1>3

\* The first item of a text is x, if x has no separator.
LEMMA ItemsFirst ==
    ASSUME NEW V, NEW s \in Seq(V), s # <<>>, NEW c, NEW x,
           Until(s, c) = x, x # <<>>
    PROVE  Items(s, c) = <<x>> \o Collect(ItemHead(s, c), ItemNext(s, c), 1 + (Len(x) + 1))
<1> DEFINE h == ItemHead(s, c)
           n == ItemNext(s, c)
<1>1. From(s, 1) = s
  BY SubSeqFull DEF From
<1>2. Len(s) \in Nat \ {0} /\ 1 \in 1 .. Len(s)
  OBVIOUS
<1>3. /\ Items(s, c) = Collect(h, n, 1) /\ DOMAIN h = 1 .. Len(s)
      /\ \A i \in 1 .. Len(s) : n[i] \in Nat /\ n[i] > i
  BY ItemsLoop DEF ItemsRun
<1>4. h[1] = <<x>> /\ n[1] = 1 + Len(x) + 1
  <2>1. ItemsRun(s, c)
    BY ItemsLoop
  <2>2. ItemAt(s, c)[1] = x
    BY <1>1, <1>2, <2>1 DEF ItemsRun
  <2> QED
    BY <1>2, <2>1, <2>2 DEF ItemsRun
<1> HIDE DEF h, n
<1>5. \A i \in Nat : Collect(h, n, i) = IF i \in DOMAIN h THEN h[i] \o Collect(h, n, n[i])
                                        ELSE <<>>
  <2>1. PICK m \in Nat : m = Len(s)
    BY <1>2
  <2>2. GoesOn(h, n, m)
    BY <1>3, <2>1 DEF GoesOn
  <2> QED
    BY <2>2, CollectStep
<1>6. Collect(h, n, 1) = h[1] \o Collect(h, n, n[1])
  BY <1>2, <1>3, <1>5
<1>7. Len(x) \in Nat /\ 1 + Len(x) + 1 = 1 + (Len(x) + 1)
  <2>1. Len(x) \in Nat
    BY UntilType
  <2> QED
    BY <2>1
<1> QED
  BY <1>3, <1>4, <1>6, <1>7 DEF h, n

\* The items of a text with a separator: what is before it and those after it.
LEMMA ItemsCut ==
    ASSUME NEW V, NEW x \in Seq(V), x # <<>>, NEW c \in V, NEW y \in Seq(V),
           \A j \in 1 .. Len(x) : x[j] # c
    PROVE  Items(x \o <<c>> \o y, c) = Cons(x, Items(y, c))
<1> DEFINE s == x \o <<c>> \o y
<1>1. PICK d \in Nat : d = Len(x) + 1
  OBVIOUS
<1>2. /\ s \in Seq(V) /\ Len(s) = Len(x) + 1 + Len(y)
      /\ \A i \in 1 .. Len(x) : s[i] = x[i]
      /\ s[Len(x) + 1] = c
  BY Around
<1>3. x \o <<c>> \in Seq(V) /\ Len(x \o <<c>>) = d /\ s = (x \o <<c>>) \o y
      /\ Len(x) \in Nat /\ Len(y) \in Nat
  BY <1>1
<1>4. Len(s) = Len(y) + d
  BY <1>1, <1>2, <1>3
<1>5. \A i \in 1 .. Len(y) : From(s, i + d) = From(y, i)
  <2> HIDE DEF s
  <2>1. \A i \in 1 .. Len(y) : From((x \o <<c>>) \o y, i + Len(x \o <<c>>)) = From(y, i)
    BY <1>3, FromOfConcat
  <2> QED
    BY <1>3, <2>1
<1> HIDE DEF s
<1>6. Until(s, c) = x
  <2>1. d \in 1 .. Len(s) /\ s[d] = c /\ \A j \in 1 .. d - 1 : s[j] # c /\ d - 1 = Len(x)
    BY <1>1, <1>2, <1>3
  <2>2. Until(s, c) = Slice(s, 0, Len(x))
    <3>1. Until(s, c) = Slice(s, 0, d - 1)
      BY <1>2, <2>1, UntilFirst, SMTT(20)
    <3> QED
      BY <1>1, <1>3, <3>1
  <2>3. /\ Slice(s, 0, Len(x)) \in Seq(V) /\ Len(Slice(s, 0, Len(x))) = Len(x)
        /\ \A j \in 1 .. Len(x) : Slice(s, 0, Len(x))[j] = s[j]
    <3>1. Len(x) <= Len(s)
      BY <1>2, <1>3
    <3> QED
      BY <1>2, <1>3, <3>1, FirstIs
  <2>4. Slice(s, 0, Len(x)) = x
    BY <1>2, <2>3, SeqEqual
  <2> QED
    BY <2>2, <2>4
<1>7. Items(s, c) = <<x>> \o Collect(ItemHead(s, c), ItemNext(s, c), 1 + d)
  <2>1. s # <<>>
    BY <1>2, <1>3
  <2> QED
    BY <1>1, <1>2, <1>6, <2>1, ItemsFirst
<1>8. Collect(ItemHead(s, c), ItemNext(s, c), 1 + d) = Items(y, c)
  <2> DEFINE h == ItemHead(s, c)
             n == ItemNext(s, c)
             g == ItemHead(y, c)
             m == ItemNext(y, c)
  <2>1. ItemsRun(s, c) /\ ItemsRun(y, c)
    BY <1>2, ItemsLoop
  <2>2. /\ DOMAIN h = 1 .. Len(s)
        /\ \A i \in 1 .. Len(s) : n[i] \in Nat /\ n[i] > i
    BY <1>2, <2>1 DEF ItemsRun
  <2>3. /\ DOMAIN g = 1 .. Len(y) /\ Items(y, c) = Collect(g, m, 1)
        /\ \A i \in 1 .. Len(y) : m[i] \in Nat /\ m[i] > i
    BY <2>1 DEF ItemsRun
  <2>4. ASSUME NEW i \in 1 .. Len(y) PROVE h[i + d] = g[i] /\ n[i + d] = m[i] + d
    <3>1. i + d \in 1 .. Len(s)
      BY <1>1, <1>3, <1>4
    <3>2. ItemAt(s, c)[i + d] = ItemAt(y, c)[i]
      <4>1. ItemAt(s, c)[i + d] = Until(From(s, i + d), c)
        BY <2>1, <3>1 DEF ItemsRun
      <4>2. ItemAt(y, c)[i] = Until(From(y, i), c)
        BY <2>1 DEF ItemsRun
      <4> QED
        BY <1>5, <4>1, <4>2
    <3>3. PICK a : a = ItemAt(y, c)[i]
      OBVIOUS
    <3>4. h[i + d] = (IF a = <<>> THEN <<>> ELSE <<a>>) /\ n[i + d] = (i + d) + Len(a) + 1
      BY <2>1, <3>1, <3>2, <3>3 DEF ItemsRun
    <3>5. g[i] = (IF a = <<>> THEN <<>> ELSE <<a>>) /\ m[i] = i + Len(a) + 1 /\ m[i] \in Nat
      BY <2>1, <3>3 DEF ItemsRun
    <3>6. Len(a) \in Nat
      <4>1. From(y, i) \in Seq(V)
        BY FromIs
      <4>2. a = Until(From(y, i), c)
        BY <2>1, <3>3 DEF ItemsRun
      <4> QED
        BY <4>1, <4>2, UntilType
    <3> HIDE DEF h, n, g, m
    <3> QED
      BY <3>4, <3>5, <3>6
  <2> HIDE DEF h, n, g, m
  <2>5. PICK k \in Nat : k = Len(y)
    BY <1>3
  <2>6. Shifted(h, n, g, m, k, d)
    BY <1>4, <2>2, <2>3, <2>4, <2>5 DEF Shifted
  <2>7. Collect(h, n, 1 + d) = Collect(g, m, 1)
    BY <2>6, CollectShifts
  <2> QED
    BY <2>3, <2>7 DEF h, n
<1> QED
  BY <1>7, <1>8 DEF s, Cons

\* A text without a separator is one item.
LEMMA ItemsOne ==
    ASSUME NEW V, NEW x \in Seq(V), x # <<>>, NEW c, \A j \in 1 .. Len(x) : x[j] # c
    PROVE  Items(x, c) = <<x>>
<1> DEFINE h == ItemHead(x, c)
           n == ItemNext(x, c)
<1>1. Until(x, c) = x
  BY UntilNone
<1>2. Items(x, c) = <<x>> \o Collect(h, n, 1 + (Len(x) + 1))
  BY <1>1, ItemsFirst
<1>3. /\ DOMAIN h = 1 .. Len(x)
      /\ \A i \in 1 .. Len(x) : n[i] \in Nat /\ n[i] > i
  BY ItemsLoop DEF ItemsRun
<1> HIDE DEF h, n
<1>4. PICK m \in Nat : m = Len(x)
  OBVIOUS
<1>5. \A i \in Nat : Collect(h, n, i) = IF i \in DOMAIN h THEN h[i] \o Collect(h, n, n[i])
                                        ELSE <<>>
  <2>1. GoesOn(h, n, m)
    BY <1>3, <1>4 DEF GoesOn
  <2> QED
    BY <2>1, CollectStep
<1>6. Collect(h, n, 1 + (Len(x) + 1)) = <<>>
  <2>1. 1 + (Len(x) + 1) \in Nat /\ 1 + (Len(x) + 1) \notin DOMAIN h
    BY <1>3, <1>4
  <2> QED
    BY <1>5, <2>1
<1>7. <<x>> \in Seq({x})
  OBVIOUS
<1> QED
  BY <1>2, <1>6, <1>7, ConcatEmptySeq

-----------------------------------------------------------------------------
(* Texts and searches.                                                     *)

\* A set of numbers that is bounded and not empty has a greatest one.
LEMMA GreatestExists ==
    ASSUME NEW S, S # {}, NEW n \in Nat, \A x \in S : x \in Nat /\ x <= n
    PROVE  \E m \in S : \A x \in S : x <= m
<1> DEFINE T == {n - x : x \in S}
<1>1. T \in SUBSET Nat /\ T # {}
  OBVIOUS
<1>2. PICK k \in T : \A x \in T : k <= x
  <2> HIDE DEF T
  <2> QED
    BY <1>1, LeastExists
<1>3. PICK m \in S : k = n - m
  OBVIOUS
<1>4. ASSUME NEW x \in S PROVE x <= m
  <2>1. k <= n - x
    BY <1>2
  <2> HIDE DEF T
  <2> QED
    BY <1>3, <2>1
<1> QED
  BY <1>4

\* Two texts of known lengths, one after the other.
LEMMA ConcatIs ==
    ASSUME NEW V, NEW s \in Seq(V), NEW t \in Seq(V)
    PROVE  /\ s \o t \in Seq(V) /\ Len(s \o t) = Len(s) + Len(t)
           /\ \A i \in 1 .. Len(s) : (s \o t)[i] = s[i]
           /\ \A i \in 1 .. Len(t) : (s \o t)[Len(s) + i] = t[i]
<1>1. PICK m \in Nat, n \in Nat : Len(s) = m /\ Len(t) = n
  OBVIOUS
<1>2. s \o t \in Seq(V) /\ Len(s \o t) = m + n
  BY <1>1, ConcatProperties
<1>3. \A i \in 1 .. m + n : (s \o t)[i] = IF i <= m THEN s[i] ELSE t[i - m]
  BY <1>1, ConcatProperties
<1>4. ASSUME NEW i \in 1 .. m PROVE (s \o t)[i] = s[i]
  <2>1. i \in 1 .. m + n /\ i <= m
    OBVIOUS
  <2> QED
    BY <1>3, <2>1
<1>5. ASSUME NEW i \in 1 .. n PROVE (s \o t)[m + i] = t[i]
  <2>1. m + i \in 1 .. m + n /\ ~(m + i <= m) /\ (m + i) - m = i
    OBVIOUS
  <2> QED
    BY <1>3, <2>1
<1> QED
  BY <1>1, <1>2, <1>4, <1>5

\* A text that begins with another.
LEMMA StartsWithIs ==
    ASSUME NEW V, NEW s \in Seq(V), NEW p \in Seq(V), Len(p) <= Len(s)
    PROVE  StartsWith(s, p) <=> \A i \in 1 .. Len(p) : s[i] = p[i]
<1>1. PICK n \in Nat : n = Len(p) /\ n <= Len(s)
  OBVIOUS
<1>2. SubSeq(p, 1, Len(p)) = p
  BY SubSeqFull
<1>3. /\ Slice(s, 0, n) = SubSeq(s, 1, n) /\ Slice(s, 0, n) \in Seq(V)
      /\ Len(Slice(s, 0, n)) = n /\ \A j \in 1 .. n : Slice(s, 0, n)[j] = s[j]
  BY <1>1, FirstIs
<1>4. ASSUME \A i \in 1 .. n : s[i] = p[i] PROVE p = Slice(s, 0, n)
  <2>1. \A i \in 1 .. Len(p) : p[i] = Slice(s, 0, n)[i]
    BY <1>1, <1>3, <1>4
  <2> QED
    BY <1>1, <1>3, <2>1, SeqEqual
<1>5. StartsWith(s, p) <=> p = Slice(s, 0, n)
  BY <1>1, <1>2, <1>3 DEF StartsWith, IsPrefix
<1> QED
  BY <1>1, <1>3, <1>4, <1>5

\* A sequence of one element.
LEMMA OneIs ==
    ASSUME NEW V, NEW x \in V
    PROVE  <<x>> \in Seq(V)
  OBVIOUS

\* A sequence with one element more in front.
LEMMA ConsIs ==
    ASSUME NEW V, NEW x \in V, NEW s \in Seq(V)
    PROVE  /\ Cons(x, s) \in Seq(V) /\ Len(Cons(x, s)) = Len(s) + 1 /\ Cons(x, s)[1] = x
           /\ Cons(x, s) # <<>>
           /\ \A i \in 1 .. Len(s) : Cons(x, s)[i + 1] = s[i]
<1>1. <<x>> \in Seq(V) /\ Len(<<x>>) = 1 /\ <<x>>[1] = x
  OBVIOUS
<1>2. PICK p \in Seq(V) : p = <<x>>
  BY <1>1
<1>3. /\ p \o s \in Seq(V) /\ Len(p \o s) = Len(p) + Len(s)
      /\ \A i \in 1 .. Len(p) : (p \o s)[i] = p[i]
      /\ \A i \in 1 .. Len(s) : (p \o s)[Len(p) + i] = s[i]
  BY ConcatIs
<1>4. 1 \in 1 .. Len(p) /\ Len(s) \in Nat /\ Len(p) = 1
  BY <1>1, <1>2
<1>5. \A i \in 1 .. Len(s) : Len(p) + i = i + 1
  BY <1>4
<1>6. Cons(x, s) = p \o s
  BY <1>2 DEF Cons
<1>7. Len(Cons(x, s)) # 0
  BY <1>3, <1>4, <1>6
<1> QED
  BY <1>1, <1>2, <1>3, <1>4, <1>5, <1>6, <1>7

\* A sequence that is not empty has a first element.
LEMMA HasFirst ==
    ASSUME NEW V, NEW s \in Seq(V), s # <<>>
    PROVE  \E x \in V, r \in Seq(V) : s = Cons(x, r)
<1>1. Head(s) \in V /\ Tail(s) \in Seq(V) /\ s = <<Head(s)>> \o Tail(s)
  BY HeadTailProperties
<1> QED
  BY <1>1 DEF Cons

\* The types of concatenations of texts.
LEMMA ConcatType ==
    ASSUME NEW V, NEW x \in Seq(V), NEW y \in Seq(V)
    PROVE  x \o y \in Seq(V)
  BY ConcatProperties

\* A concatenation of one character more in front.
LEMMA ConsConcat ==
    ASSUME NEW V, NEW c \in V, NEW y \in Seq(V)
    PROVE  <<c>> \o y = Cons(c, y) /\ <<c>> \in Seq(V)
  BY DEF Cons

\* What is before the first separator and after it.
LEMMA UntilAround ==
    ASSUME NEW V, NEW x \in Seq(V), NEW c \in V, NEW y \in Seq(V), \A j \in 1 .. Len(x) : x[j] # c
    PROVE  Until(x \o <<c>> \o y, c) = x /\ After(x \o <<c>> \o y, c) = y
<1>1. PICK s \in Seq(V) : s = x \o <<c>> \o y
  BY Around
<1>2. PICK m \in Nat, n \in Nat : m = Len(x) /\ n = Len(y)
  OBVIOUS
<1>3. /\ Len(s) = m + 1 + n /\ \A i \in 1 .. m : s[i] = x[i]
      /\ s[m + 1] = c
  BY <1>1, <1>2, Around
<1>4. m + 1 \in 1 .. Len(s) /\ \A j \in 1 .. (m + 1) - 1 : s[j] # c
  BY <1>2, <1>3
<1>5. Until(s, c) = Slice(s, 0, (m + 1) - 1) /\ After(s, c) = Slice(s, m + 1, Len(s))
  BY <1>3, <1>4, UntilFirst
<1>6. Slice(s, 0, m) = x
  <2>1. PICK z \in Seq(V) : z = <<c>> \o y
    <3>1. <<c>> \in Seq(V)
      BY ConsConcat
    <3> QED
      BY <3>1, ConcatType
  <2>2. s = x \o z
    BY <1>1, <2>1
  <2> QED
    BY <1>2, <2>1, <2>2, SlicesOfConcat
<1>7. Slice(s, m + 1, (m + 1) + n) = y
  <2>1. PICK z \in Seq(V) : z = x \o <<c>>
    <3>1. <<c>> \in Seq(V)
      BY ConsConcat
    <3> QED
      BY <3>1, ConcatType
  <2>2. s = z \o y
    BY <1>1, <2>1
  <2>3. Len(z) = m + 1
    BY <1>2, <2>1
  <2>4. Slice(z \o y, Len(z), Len(z) + Len(y)) = y
    BY <2>1, SlicesOfConcat
  <2> QED
    BY <1>2, <2>2, <2>3, <2>4
<1>8. (m + 1) - 1 = m /\ Len(s) = (m + 1) + n
  BY <1>2, <1>3
<1> QED
  BY <1>1, <1>5, <1>6, <1>7, <1>8

\* t is s with x in front.
InFront(t, x, s, n) ==
    /\ DOMAIN t = 1 .. n + 1 /\ DOMAIN s = 1 .. n /\ t[1] = x
    /\ \A i \in 1 .. n : t[i + 1] = s[i]

\* Texts concatenated: the first, and then the others.
LEMMA FlattenCons ==
    ASSUME NEW V, NEW x \in Seq(V), NEW s \in Seq(Seq(V)), NEW t \in Seq(Seq(V)),
           NEW n \in Nat, InFront(t, x, s, n)
    PROVE  FlattenSeq(t) = x \o FlattenSeq(s)
<1>1. /\ Len(s) = n /\ Len(t) = n + 1 /\ t[1] = x
      /\ \A i \in 1 .. n : t[i + 1] = s[i]
  BY DEF InFront
<1>2. PICK p \in Seq(Seq(V)) : p = <<x>>
  <2>1. <<x>> \in Seq(Seq(V))
    BY OneIs
  <2> QED
    BY <2>1
<1>3. /\ p \o s \in Seq(Seq(V)) /\ Len(p \o s) = n + 1 /\ (p \o s)[1] = x
      /\ \A i \in 1 .. n : (p \o s)[i + 1] = s[i]
  <2>1. p \o s = Cons(x, s)
    BY <1>2 DEF Cons
  <2>2. /\ Cons(x, s) \in Seq(Seq(V)) /\ Len(Cons(x, s)) = Len(s) + 1 /\ Cons(x, s)[1] = x
        /\ \A i \in 1 .. Len(s) : Cons(x, s)[i + 1] = s[i]
    BY ConsIs
  <2> QED
    BY <1>1, <2>1, <2>2
<1>4. FlattenSeq(p) = x
  BY <1>2, FlattenOne
<1>5. t = p \o s
  <2>1. ASSUME NEW i \in 1 .. n + 1 PROVE t[i] = (p \o s)[i]
    <3>1. CASE i = 1
      BY <1>1, <1>3, <3>1
    <3>2. CASE i # 1
      <4>1. PICK j \in 1 .. n : i = j + 1
        BY <3>2
      <4> QED
        BY <1>1, <1>3, <4>1
    <3> QED
      BY <3>1, <3>2
  <2> QED
    BY <1>1, <1>3, <2>1, SeqEqual
<1>6. FlattenSeq(p \o s) = FlattenSeq(p) \o FlattenSeq(s)
  BY <1>1, <1>2, FlattenConcat
<1> QED
  BY <1>5, <1>6, <1>4

\* The texts over V that have a character and no c.
Plain(V, c) == Seq(V \ {c}) \ {<<>>}

\* They are texts over V.
LEMMA PlainIs ==
    ASSUME NEW V, NEW c, NEW x \in Plain(V, c)
    PROVE  x \in Seq(V) /\ x # <<>> /\ \A j \in 1 .. Len(x) : x[j] # c
<1>1. x \in Seq(V \ {c}) /\ x # <<>>
  BY DEF Plain
<1>2. \A j \in 1 .. Len(x) : x[j] \in V /\ x[j] # c
  BY <1>1
<1>3. x \in Seq(V)
  BY <1>1, SeqMonotonic
<1> QED
  BY <1>1, <1>2, <1>3

\* A character before two others.
LEMMA ThreeOf ==
    ASSUME NEW V, NEW a \in V, NEW b \in V, NEW c \in V
    PROVE  <<a>> \o <<b, c>> = <<a, b, c>> /\ <<a, b, c>> \in Seq(V)
<1>1. <<b, c>> \in Seq(V) /\ <<a, b, c>> \in Seq(V)
  OBVIOUS
<1>2. PICK p \in Seq(V), q \in Seq(V) : p = <<b, c>> /\ q = <<a, b, c>>
  BY <1>1
<1>3. Len(p) = 2 /\ p[1] = b /\ p[2] = c /\ Len(q) = 3 /\ q[1] = a /\ q[2] = b /\ q[3] = c
  BY <1>2
<1>4. /\ Cons(a, p) \in Seq(V) /\ Len(Cons(a, p)) = Len(p) + 1 /\ Cons(a, p)[1] = a
      /\ \A i \in 1 .. Len(p) : Cons(a, p)[i + 1] = p[i]
  BY ConsIs
<1>5. Cons(a, p)[2] = b /\ Cons(a, p)[3] = c
  <2>1. 1 \in 1 .. Len(p) /\ 2 \in 1 .. Len(p) /\ 1 + 1 = 2 /\ 2 + 1 = 3
    BY <1>3
  <2> QED
    BY <1>3, <1>4, <2>1
<1>6. Cons(a, p) = q
  <2>1. \A i \in 1 .. Len(q) : i \in {1, 2, 3}
    BY <1>3
  <2>2. \A i \in 1 .. Len(q) : Cons(a, p)[i] = q[i]
    BY <1>3, <1>4, <1>5, <2>1
  <2> QED
    BY <1>3, <1>4, <2>2, SeqEqual
<1> QED
  BY <1>2, <1>6 DEF Cons

\* A text that has something in front is not empty.
LEMMA NotEmpty ==
    ASSUME NEW V, NEW x \in Seq(V), x # <<>>, NEW y \in Seq(V)
    PROVE  x \o y # <<>>
<1>1. Len(x \o y) = Len(x) + Len(y)
  BY ConcatIs
<1>2. Len(x) # 0 /\ Len(x) \in Nat /\ Len(y) \in Nat
  BY EmptySeq
<1>3. Len(x \o y) # 0
  BY <1>1, <1>2
<1> QED
  BY <1>3

\* Texts one for each element of a sequence.
LEMMA EachIs ==
    ASSUME NEW V, NEW n \in Nat, NEW f, DOMAIN f = 1 .. n, \A i \in 1 .. n : f[i] \in V,
           f = [i \in DOMAIN f |-> f[i]]
    PROVE  f \in Seq(V) /\ Len(f) = n
  BY IsASeq

\* What is trimmed from the left is what is before the first other character.
LEMMA TrimLeftFirst ==
    ASSUME NEW V, NEW s \in Seq(V), NEW c, NEW k \in 1 .. Len(s), s[k] # c,
           \A j \in 1 .. k - 1 : s[j] = c
    PROVE  TrimLeft(s, c) = From(s, k)
<1> DEFINE I == {i \in 1 .. Len(s) : s[i] # c}
<1>1. Min(I) = k /\ I # {}
  <2>1. I \in SUBSET Int /\ k \in I /\ \A x \in I : k <= x
    OBVIOUS
  <2> HIDE DEF I
  <2> QED
    BY <2>1, MinIs
<1>2. TrimLeft(s, c) = LET i == IF I # {} THEN Min(I) ELSE 0
                       IN  IF i = 0 THEN <<>> ELSE From(s, i)
  BY DEF TrimLeft, SelectInSeq
<1>3. k # 0
  OBVIOUS
<1> HIDE DEF I
<1> QED
  BY <1>1, <1>2, <1>3

\* A text whose last character is another loses nothing on the right.
LEMMA TrimRightNone ==
    ASSUME NEW V, NEW s \in Seq(V), s # <<>>, NEW c, s[Len(s)] # c
    PROVE  TrimRight(s, c) = s
<1> DEFINE I == {i \in 1 .. Len(s) : s[i] # c}
<1>1. PICK n \in Nat \ {0} : n = Len(s)
  BY EmptySeq
<1>2. Max(I) = n /\ I # {}
  <2>1. I \in SUBSET Int /\ n \in I /\ \A x \in I : n >= x
    BY <1>1
  <2> HIDE DEF I
  <2> QED
    BY <2>1, MaxIs
<1>3. TrimRight(s, c) = SubSeq(s, 1, IF I # {} THEN Max(I) ELSE 0)
  BY DEF TrimRight, SelectLastInSeq
<1> HIDE DEF I
<1> QED
  BY <1>1, <1>2, <1>3, SubSeqFull

\* A name without c at its ends is not trimmed.
LEMMA TrimNone ==
    ASSUME NEW V, NEW x \in Seq(V), x # <<>>, NEW c, x[1] # c, x[Len(x)] # c
    PROVE  Trim(x, c) = x
<1>1. 1 \in 1 .. Len(x) /\ \A j \in 1 .. 1 - 1 : x[j] = c
  BY EmptySeq
<1>2. TrimLeft(x, c) = From(x, 1)
  BY <1>1, TrimLeftFirst
<1>3. From(x, 1) = x
  BY SubSeqFull DEF From
<1> QED
  BY <1>2, <1>3, TrimRightNone DEF Trim

\* One c before it is trimmed.
LEMMA TrimOne ==
    ASSUME NEW V, NEW x \in Seq(V), x # <<>>, NEW c \in V, x[1] # c, x[Len(x)] # c
    PROVE  Trim(<<c>> \o x, c) = x
<1>1. PICK s \in Seq(V) : s = Cons(c, x)
  BY ConsIs
<1>2. PICK n \in Nat \ {0} : n = Len(x)
  BY EmptySeq
<1>3. Len(s) = n + 1 /\ s[1] = c /\ \A i \in 1 .. n : s[i + 1] = x[i]
  <2>1. /\ Len(Cons(c, x)) = Len(x) + 1 /\ Cons(c, x)[1] = c
        /\ \A i \in 1 .. Len(x) : Cons(c, x)[i + 1] = x[i]
    BY ConsIs
  <2> QED
    BY <1>1, <1>2, <2>1
<1>4. 2 \in 1 .. Len(s) /\ s[2] # c /\ \A j \in 1 .. 2 - 1 : s[j] = c
  <2>1. 1 \in 1 .. n /\ 1 + 1 = 2
    BY <1>2
  <2>2. s[2] = x[1]
    BY <1>3, <2>1
  <2> QED
    BY <1>2, <1>3, <2>2
<1>5. TrimLeft(s, c) = From(s, 2)
  BY <1>4, TrimLeftFirst
<1>6. From(s, 2) = x
  <2>1. PICK r \in Seq(V) : r = From(s, 2)
    BY <1>4, FromIs
  <2>2. Len(r) = n /\ \A j \in 1 .. n : r[j] = s[2 + j - 1]
    <3>1. Len(s) - 2 + 1 = n
      BY <1>2, <1>3
    <3>2. /\ Len(From(s, 2)) = Len(s) - 2 + 1
          /\ \A j \in 1 .. Len(s) - 2 + 1 : From(s, 2)[j] = s[2 + j - 1]
      BY <1>4, FromIs
    <3> QED
      BY <2>1, <3>1, <3>2
  <2>3. \A j \in 1 .. n : 2 + j - 1 = j + 1
    OBVIOUS
  <2>4. \A j \in 1 .. n : r[j] = x[j]
    BY <1>3, <2>2, <2>3
  <2> QED
    BY <1>2, <2>1, <2>2, <2>4, SeqEqual
<1> QED
  BY <1>1, <1>5, <1>6, TrimRightNone DEF Trim, Cons

\* The greatest of the places up to n is one of them.
LEMMA MaxIn ==
    ASSUME NEW n \in Nat, NEW S \in SUBSET (1 .. n), S # {}
    PROVE  Max(S) \in S /\ \A i \in S : Max(S) >= i
<1>1. \A x \in S : x \in Nat /\ x <= n
  OBVIOUS
<1>2. PICK m \in S : \A x \in S : x <= m
  BY <1>1, GreatestExists
<1>3. S \in SUBSET Int /\ \A x \in S : m >= x
  <2>1. \A x \in S : x \in Int /\ m \in Int /\ m >= x
    BY <1>2
  <2> QED
    BY <2>1
<1>4. Max(S) = m
  BY <1>3, MaxIs
<1> QED
  BY <1>3, <1>4

\* A separator before a text that has a character in front.
LEMMA SeparatorBlank ==
    ASSUME NEW V, NEW a \in V, NEW b \in V, NEW x \in Seq(V)
    PROVE  <<a, b>> \o x = <<a>> \o (<<b>> \o x)
<1>1. <<a>> \in Seq(V) /\ <<b>> \in Seq(V)
  OBVIOUS
<1>2. <<a>> \o <<b>> = <<a, b>>
  <2>1. <<b>> \in Seq(V) /\ <<a, b>> \in Seq(V)
    OBVIOUS
  <2>2. PICK p \in Seq(V), q \in Seq(V) : p = <<b>> /\ q = <<a, b>>
    BY <2>1
  <2>3. Len(p) = 1 /\ p[1] = b /\ Len(q) = 2 /\ q[1] = a /\ q[2] = b
    BY <2>2
  <2>4. /\ Cons(a, p) \in Seq(V) /\ Len(Cons(a, p)) = Len(p) + 1 /\ Cons(a, p)[1] = a
        /\ \A i \in 1 .. Len(p) : Cons(a, p)[i + 1] = p[i]
    BY ConsIs
  <2>5. 1 \in 1 .. Len(p) /\ 1 + 1 = 2
    BY <2>3
  <2>6. Len(Cons(a, p)) = Len(q) /\ Cons(a, p)[1] = q[1] /\ Cons(a, p)[2] = q[2]
    BY <2>3, <2>4, <2>5
  <2>7. \A i \in 1 .. Len(q) : i \in {1, 2}
    BY <2>3
  <2>8. \A i \in 1 .. Len(q) : Cons(a, p)[i] = q[i]
    BY <2>6, <2>7
  <2>9. Cons(a, p) = q
    BY <2>4, <2>6, <2>8, SeqEqual
  <2> QED
    BY <2>2, <2>9 DEF Cons
<1>3. (<<a>> \o <<b>>) \o x = <<a>> \o (<<b>> \o x)
  BY <1>1, ConcatAssociative
<1> QED
  BY <1>2, <1>3

\* p is in s at place i.
Occurs(s, p, i) == \A j \in 1 .. Len(p) : s[i + j - 1] = p[j]

\* What holy_memfind compares at one place.
LEMMA OccursIs ==
    ASSUME NEW V, NEW s \in Seq(V), NEW p \in Seq(V), NEW i \in Nat \ {0},
           i + Len(p) - 1 <= Len(s)
    PROVE  SubSeq(s, i, i + Len(p) - 1) = p <=> Occurs(s, p, i)
<1>1. PICK m \in Nat, n \in Nat : m = Len(p) /\ n = Len(s)
  OBVIOUS
<1>2. PICK a \in Nat, b \in Nat : a = i - 1 /\ b = i + m - 1
  <2>1. i - 1 \in Nat /\ i + m - 1 \in Nat
    OBVIOUS
  <2> QED
    BY <2>1
<1>3. a <= b /\ b <= Len(s) /\ b - a = m /\ a + 1 = i
  BY <1>1, <1>2
<1>4. /\ Slice(s, a, b) \in Seq(V) /\ Len(Slice(s, a, b)) = b - a
      /\ \A j \in 1 .. b - a : Slice(s, a, b)[j] = s[a + j]
  <2>1. a <= b /\ b <= Len(s) /\ s \in Seq(V)
    BY <1>3
  <2>2. Slice(s, a, b) \in Seq(V) /\ Len(Slice(s, a, b)) = b - a
    BY <2>1, SliceIs
  <2>3. \A j \in 1 .. b - a : Slice(s, a, b)[j] = s[a + j]
    BY <2>1, SliceIs
  <2> QED
    BY <2>2, <2>3
<1>5. PICK r \in Seq(V) : r = Slice(s, a, b)
  BY <1>4
<1>6. Len(r) = m /\ \A j \in 1 .. m : r[j] = s[i + j - 1]
  <2>1. \A j \in 1 .. m : a + j = i + j - 1
    BY <1>2
  <2> QED
    BY <1>3, <1>4, <1>5, <2>1
<1>7. SubSeq(s, i, i + Len(p) - 1) = r
  BY <1>1, <1>2, <1>3, <1>5 DEF Slice
<1>8. r = p <=> \A j \in 1 .. m : r[j] = p[j]
  BY <1>1, <1>6, SeqEqual
<1> QED
  BY <1>1, <1>6, <1>7, <1>8 DEF Occurs

\* Where a search ends that finds what it looks for.
LEMMA FindFirst ==
    ASSUME NEW V, NEW s \in Seq(V), NEW p \in Seq(V), p # <<>>,
           NEW from \in Nat \ {0}, NEW to \in Nat, to <= Len(s),
           NEW k \in from .. to + 1 - Len(p), Occurs(s, p, k),
           \A i \in from .. k - 1 : ~Occurs(s, p, i)
    PROVE  Find(s, p, from, to) = k
<1> DEFINE H == {i \in from .. to + 1 - Len(p) : SubSeq(s, i, i + Len(p) - 1) = p}
<1>1. PICK m \in Nat, n \in Nat : m = Len(p) /\ n = Len(s)
  OBVIOUS
<1>2. ASSUME NEW i \in from .. to + 1 - m PROVE i \in H <=> Occurs(s, p, i)
  <2>1. i \in Nat \ {0} /\ i + Len(p) - 1 <= Len(s)
    BY <1>1
  <2>2. SubSeq(s, i, i + Len(p) - 1) = p <=> Occurs(s, p, i)
    BY <2>1, OccursIs
  <2> QED
    BY <1>1, <2>2
<1>3. \A i \in H : i \in from .. to + 1 - m
  BY <1>1
<1>4. Find(s, p, from, to) = IF p = <<>> \/ H = {} THEN 0 ELSE Min(H)
  BY DEF Find
<1> HIDE DEF H
<1>5. k \in from .. to + 1 - m
  BY <1>1
<1>6. H \in SUBSET Int /\ k \in H /\ \A i \in H : k <= i
  <2>1. k \in H
    BY <1>2, <1>5
  <2>2. ASSUME NEW i \in H PROVE i \in Int /\ k <= i
    <3>1. i \in from .. to + 1 - m /\ i \in Int /\ k \in Int
      BY <1>3, <1>5
    <3>2. Occurs(s, p, i)
      BY <1>2, <3>1
    <3>3. i \notin from .. k - 1
      BY <3>2
    <3> QED
      BY <3>1, <3>3
  <2> QED
    BY <2>1, <2>2
<1>7. Min(H) = k
  BY <1>6, MinIs
<1> QED
  BY <1>4, <1>6, <1>7

\* A search that finds nothing.
LEMMA FindNone ==
    ASSUME NEW V, NEW s \in Seq(V), NEW p \in Seq(V),
           NEW from \in Nat \ {0}, NEW to \in Nat, to <= Len(s),
           \A i \in from .. to + 1 - Len(p) : ~Occurs(s, p, i)
    PROVE  Find(s, p, from, to) = 0
<1>1. PICK m \in Nat, n \in Nat : m = Len(p) /\ n = Len(s)
  OBVIOUS
<1>2. ASSUME NEW i \in from .. to + 1 - m PROVE SubSeq(s, i, i + Len(p) - 1) # p
  <2>1. i \in Nat \ {0} /\ i + Len(p) - 1 <= Len(s)
    BY <1>1
  <2>2. SubSeq(s, i, i + Len(p) - 1) = p <=> Occurs(s, p, i)
    BY <2>1, OccursIs
  <2> QED
    BY <1>1, <2>2
<1>3. {i \in from .. to + 1 - Len(p) : SubSeq(s, i, i + Len(p) - 1) = p} = {}
  BY <1>1, <1>2
<1> QED
  BY <1>3 DEF Find

\* q is a, b and c, one after the other.
Triple(q, a, b, c) ==
    /\ Len(q) = Len(a) + Len(b) + Len(c)
    /\ \A i \in 1 .. Len(a) : q[i] = a[i]
    /\ \A i \in 1 .. Len(b) : q[Len(a) + i] = b[i]
    /\ \A i \in 1 .. Len(c) : q[Len(a) + Len(b) + i] = c[i]

\* Three texts concatenated.
LEMMA ThreeTexts ==
    ASSUME NEW V, NEW a \in Seq(V), NEW b \in Seq(V), NEW c \in Seq(V)
    PROVE  a \o b \o c \in Seq(V) /\ Triple(a \o b \o c, a, b, c)
<1>1. PICK k \in Nat, l \in Nat, m \in Nat : k = Len(a) /\ l = Len(b) /\ m = Len(c)
  OBVIOUS
<1>2. PICK p \in Seq(V) : p = a \o b
  BY ConcatType
<1>3. /\ Len(p) = k + l /\ \A i \in 1 .. k : p[i] = a[i]
      /\ \A i \in 1 .. l : p[k + i] = b[i]
  <2>1. /\ Len(a \o b) = Len(a) + Len(b)
        /\ \A i \in 1 .. Len(a) : (a \o b)[i] = a[i]
        /\ \A i \in 1 .. Len(b) : (a \o b)[Len(a) + i] = b[i]
    BY ConcatIs
  <2> QED
    BY <1>1, <1>2, <2>1
<1>4. /\ p \o c \in Seq(V) /\ Len(p \o c) = Len(p) + Len(c)
      /\ \A i \in 1 .. Len(p) : (p \o c)[i] = p[i]
      /\ \A i \in 1 .. Len(c) : (p \o c)[Len(p) + i] = c[i]
  BY ConcatIs
<1>5. PICK q \in Seq(V) : q = p \o c
  BY <1>4
<1>6. /\ Len(q) = k + l + m /\ \A i \in 1 .. k + l : q[i] = p[i]
      /\ \A i \in 1 .. m : q[k + l + i] = c[i]
  BY <1>1, <1>3, <1>4, <1>5
<1>7. \A i \in 1 .. k : q[i] = a[i]
  <2>1. \A i \in 1 .. k : i \in 1 .. k + l
    OBVIOUS
  <2> QED
    BY <1>3, <1>6, <2>1
<1>8. \A i \in 1 .. l : q[k + i] = b[i]
  <2>1. \A i \in 1 .. l : k + i \in 1 .. k + l
    OBVIOUS
  <2> QED
    BY <1>3, <1>6, <2>1
<1>9. q = a \o b \o c
  BY <1>2, <1>5
<1> QED
  BY <1>1, <1>6, <1>7, <1>8, <1>9 DEF Triple

\* A search that finds something.
LEMMA FindSome ==
    ASSUME NEW V, NEW s \in Seq(V), NEW p \in Seq(V), p # <<>>,
           NEW from \in Nat \ {0}, NEW to \in Nat, to <= Len(s),
           NEW k \in from .. to + 1 - Len(p), Occurs(s, p, k)
    PROVE  Find(s, p, from, to) # 0
<1> DEFINE H == {i \in from .. to + 1 - Len(p) : SubSeq(s, i, i + Len(p) - 1) = p}
<1>1. PICK m \in Nat : m = Len(p)
  OBVIOUS
<1>2. k \in H
  <2>1. k \in Nat \ {0} /\ k + Len(p) - 1 <= Len(s)
    BY <1>1
  <2> QED
    BY <2>1, OccursIs
<1>3. \A i \in H : i \in Nat \ {0}
  BY <1>1
<1>4. Find(s, p, from, to) = IF p = <<>> \/ H = {} THEN 0 ELSE Min(H)
  BY DEF Find
<1> HIDE DEF H
<1>5. PICK l \in H : \A i \in H : l <= i
  <2>1. H \in SUBSET Nat
    BY <1>3
  <2> QED
    BY <1>2, <2>1, LeastExists
<1>6. Min(H) = l
  <2>1. H \in SUBSET Int
    BY <1>3
  <2> QED
    BY <1>5, <2>1, MinIs
<1> QED
  BY <1>2, <1>3, <1>4, <1>6

\* r is x, then c, then more.
Cut(r, x, c) ==
    /\ Len(x) + 1 \in 1 .. Len(r) /\ r[Len(x) + 1] = c
    /\ \A j \in 1 .. Len(x) : r[j] = x[j] /\ x[j] # c

\* What is before c in such a text.
LEMMA UntilBefore ==
    ASSUME NEW V, NEW r \in Seq(V), NEW x \in Seq(V), NEW c, Cut(r, x, c)
    PROVE  Until(r, c) = x
<1>1. PICK l \in Nat, k \in 1 .. Len(r) : l = Len(x) /\ k = l + 1
  BY DEF Cut
<1>2. r[k] = c /\ k - 1 = l /\ l <= Len(r)
  BY <1>1 DEF Cut
<1>3. (\A j \in 1 .. k - 1 : r[j] # c) /\ \A j \in 1 .. l : r[j] = x[j]
  BY <1>1 DEF Cut
<1>4. Until(r, c) = Slice(r, 0, k - 1)
  BY <1>2, <1>3, UntilFirst
<1>5. PICK w \in Seq(V) : w = Slice(r, 0, l)
  BY <1>2, FirstIs
<1>6. Len(w) = l /\ \A j \in 1 .. l : w[j] = r[j]
  BY <1>2, <1>5, FirstIs
<1>7. w = x
  BY <1>1, <1>3, <1>6, SeqEqual
<1> QED
  BY <1>2, <1>4, <1>5, <1>7

\* A search finds nothing or a place where it looks.
LEMMA FindBounds ==
    ASSUME NEW s, NEW p, NEW from \in Nat, NEW to \in Nat, Len(p) \in Nat
    PROVE  Find(s, p, from, to) = 0 \/ Find(s, p, from, to) \in from .. to + 1 - Len(p)
<1> DEFINE H == {i \in from .. to + 1 - Len(p) : SubSeq(s, i, i + Len(p) - 1) = p}
<1>1. Find(s, p, from, to) = IF p = <<>> \/ H = {} THEN 0 ELSE Min(H)
  BY DEF Find
<1>2. \A i \in H : i \in from .. to + 1 - Len(p) /\ i \in Nat
  OBVIOUS
<1> HIDE DEF H
<1>3. ASSUME H # {} PROVE Min(H) \in H
  <2>1. H \in SUBSET Nat
    BY <1>2
  <2>2. PICK l \in H : \A i \in H : l <= i
    BY <1>3, <2>1, LeastExists
  <2>3. H \in SUBSET Int
    BY <1>2
  <2>4. Min(H) = l
    BY <2>2, <2>3, MinIs
  <2> QED
    BY <2>4
<1> QED
  BY <1>1, <1>2, <1>3

-----------------------------------------------------------------------------
(* Parts and ends of a text.                                              *)

\* What foreach_item_in_str finds after the first separators.
LEMMA ItemsSkip ==
    ASSUME NEW V, NEW c \in V, NEW y \in Seq(V)
    PROVE  Items(<<c>> \o y, c) = Items(y, c)
<1>1. PICK x \in Seq(V) : x = <<c>>
  BY OneIs
<1>2. Len(x) = 1 /\ x[1] = c
  BY <1>1
<1>3. PICK s \in Seq(V) : s = x \o y
  BY ConcatIs
<1>4. PICK k \in Nat : k = Len(y)
  OBVIOUS
<1>5. Len(s) = k + 1 /\ s[1] = c
  <2>1. /\ Len(x \o y) = Len(x) + Len(y)
        /\ \A i \in 1 .. Len(x) : (x \o y)[i] = x[i]
    BY ConcatIs
  <2> QED
    BY <1>2, <1>3, <1>4, <2>1
<1>6. \A i \in 1 .. k : From(s, i + 1) = From(y, i)
  <2>1. \A i \in 1 .. Len(y) : From(x \o y, i + Len(x)) = From(y, i)
    BY FromOfConcat
  <2> QED
    BY <1>2, <1>3, <1>4, <2>1
<1>7. Until(s, c) = <<>>
  <2>1. 1 \in 1 .. Len(s) /\ \A j \in 1 .. 1 - 1 : s[j] # c
    BY <1>5
  <2>2. Until(s, c) = Slice(s, 0, 1 - 1)
    BY <1>5, <2>1, UntilFirst
  <2>3. Slice(s, 0, 0) = <<>>
    BY SliceNone
  <2> QED
    BY <2>2, <2>3
<1> DEFINE h == ItemHead(s, c)
           n == ItemNext(s, c)
           g == ItemHead(y, c)
           m == ItemNext(y, c)
<1>8. ItemsRun(s, c) /\ ItemsRun(y, c)
  BY ItemsLoop
<1>9. /\ DOMAIN h = 1 .. k + 1 /\ Items(s, c) = Collect(h, n, 1)
      /\ \A i \in 1 .. k + 1 : n[i] \in Nat /\ n[i] > i
  BY <1>5, <1>8 DEF ItemsRun
<1>10. /\ DOMAIN g = 1 .. k /\ Items(y, c) = Collect(g, m, 1)
       /\ \A i \in 1 .. k : m[i] \in Nat /\ m[i] > i
  BY <1>4, <1>8 DEF ItemsRun
<1>11. ASSUME NEW i \in 1 .. k PROVE h[i + 1] = g[i] /\ n[i + 1] = m[i] + 1
  <2>1. i + 1 \in 1 .. Len(s) /\ i \in 1 .. Len(y)
    BY <1>4, <1>5
  <2>2. PICK a : a = ItemAt(y, c)[i]
    OBVIOUS
  <2>3. a = Until(From(y, i), c) /\ ItemAt(s, c)[i + 1] = Until(From(s, i + 1), c)
    BY <1>8, <2>1, <2>2 DEF ItemsRun
  <2>4. ItemAt(s, c)[i + 1] = a
    BY <1>6, <2>3
  <2>5. h[i + 1] = (IF a = <<>> THEN <<>> ELSE <<a>>) /\ n[i + 1] = (i + 1) + Len(a) + 1
    BY <1>8, <2>1, <2>4 DEF ItemsRun
  <2>6. g[i] = (IF a = <<>> THEN <<>> ELSE <<a>>) /\ m[i] = i + Len(a) + 1
    BY <1>8, <2>1, <2>2 DEF ItemsRun
  <2>7. Len(a) \in Nat
    <3>1. From(y, i) \in Seq(V)
      BY <2>1, FromIs
    <3> QED
      BY <2>3, <3>1, UntilType
  <2> HIDE DEF h, n, g, m
  <2> QED
    BY <2>5, <2>6, <2>7
<1>12. h[1] = <<>> /\ n[1] = 2
  <2>1. From(s, 1) = s
    BY SubSeqFull DEF From
  <2>2. 1 \in 1 .. Len(s)
    BY <1>5
  <2>3. ItemAt(s, c)[1] = <<>>
    BY <1>7, <1>8, <2>1, <2>2 DEF ItemsRun
  <2>4. h[1] = <<>> /\ n[1] = 1 + Len(<<>>) + 1
    BY <1>8, <2>2, <2>3 DEF ItemsRun
  <2> QED
    BY <2>4
<1> HIDE DEF h, n, g, m
<1>13. Collect(h, n, 1 + 1) = Collect(g, m, 1)
  <2>1. Shifted(h, n, g, m, k, 1)
    BY <1>9, <1>10, <1>11 DEF Shifted
  <2> QED
    BY <2>1, CollectShifts
<1>14. Collect(h, n, 1) = <<>> \o Collect(h, n, 2)
  <2>1. GoesOn(h, n, k + 1)
    BY <1>9 DEF GoesOn
  <2>2. k + 1 \in Nat /\ 1 \in DOMAIN h
    BY <1>9
  <2>3. PICK b \in Nat : b = k + 1
    BY <2>2
  <2>4. \A i \in Nat : Collect(h, n, i) = IF i \in DOMAIN h THEN h[i] \o Collect(h, n, n[i])
                                          ELSE <<>>
    BY <2>1, <2>3, CollectStep
  <2> QED
    BY <1>12, <2>2, <2>4
<1> QED
  BY <1>1, <1>3, <1>9, <1>10, <1>13, <1>14

\* The first c in a text.
LEMMA FirstOf ==
    ASSUME NEW V, NEW s \in Seq(V), NEW c, NEW l \in 1 .. Len(s), s[l] = c
    PROVE  \E k \in 1 .. Len(s) : s[k] = c /\ \A j \in 1 .. k - 1 : s[j] # c
<1> DEFINE S == {i \in 1 .. Len(s) : s[i] = c}
<1>1. S \in SUBSET Nat /\ S # {}
  OBVIOUS
<1>2. PICK k \in S : \A i \in S : k <= i
  <2> HIDE DEF S
  <2> QED
    BY <1>1, LeastExists
<1>3. k \in 1 .. Len(s) /\ s[k] = c
  OBVIOUS
<1>4. ASSUME NEW j \in 1 .. k - 1, s[j] = c PROVE FALSE
  <2>1. j \in 1 .. Len(s) /\ ~(k <= j)
    BY <1>3
  <2>2. j \in S
    BY <1>4, <2>1
  <2> HIDE DEF S
  <2> QED
    BY <1>2, <2>1, <2>2
<1> QED
  BY <1>3, <1>4

\* The items of a text are texts without the separator, none of them empty.
LEMMA ItemsPlain ==
    ASSUME NEW V, NEW s \in Seq(V), NEW c \in V
    PROVE  Items(s, c) \in Seq(Plain(V, c))
<1> DEFINE S == {n \in Nat : \A t \in Seq(V) : Len(t) <= n => Items(t, c) \in Seq(Plain(V, c))}
<1>0. <<>> \in Seq(Plain(V, c))
  OBVIOUS
<1>1. 0 \in S
  <2>1. ASSUME NEW t \in Seq(V), Len(t) <= 0 PROVE Items(t, c) \in Seq(Plain(V, c))
    <3>1. t = <<>>
      BY <2>1, EmptySeq
    <3> QED
      BY <1>0, <3>1, ItemsNone
  <2> QED
    BY <2>1
<1>2. ASSUME NEW n \in S \cap Nat PROVE n + 1 \in S
  <2>1. ASSUME NEW t \in Seq(V), Len(t) <= n + 1 PROVE Items(t, c) \in Seq(Plain(V, c))
    <3>1. CASE \A j \in 1 .. Len(t) : t[j] # c
      <4>1. CASE t = <<>>
        BY <1>0, <4>1, ItemsNone
      <4>2. CASE t # <<>>
        <5>1. t \in Seq(V \ {c})
          BY <3>1
        <5>2. t \in Plain(V, c)
          BY <4>2, <5>1 DEF Plain
        <5>3. Items(t, c) = <<t>>
          BY <3>1, <4>2, ItemsOne
        <5> QED
          BY <5>2, <5>3, OneIs
      <4> QED
        BY <4>1, <4>2
    <3>2. CASE \E l \in 1 .. Len(t) : t[l] = c
      <4>1. PICK k \in 1 .. Len(t) : t[k] = c /\ \A j \in 1 .. k - 1 : t[j] # c
        BY <3>2, FirstOf
      <4>2. PICK x \in Seq(V) : x = Slice(t, 0, k - 1)
        BY FirstIs
      <4>3. Len(x) = k - 1 /\ \A j \in 1 .. k - 1 : x[j] = t[j]
        <5>1. k - 1 \in Nat /\ k - 1 <= Len(t)
          OBVIOUS
        <5> QED
          BY <4>2, <5>1, FirstIs
      <4>4. PICK y \in Seq(V) : y = Slice(t, k, Len(t))
        BY RestIs
      <4>5. Len(y) = Len(t) - k /\ \A j \in 1 .. Len(t) - k : y[j] = t[k + j]
        <5>1. k \in Nat /\ k <= Len(t)
          OBVIOUS
        <5>2. /\ Len(Slice(t, k, Len(t))) = Len(t) - k
              /\ \A j \in 1 .. Len(t) - k : Slice(t, k, Len(t))[j] = t[k + j]
          BY <5>1, RestIs
        <5> QED
          BY <4>4, <5>2
      <4>6. t = x \o <<c>> \o y
        <5>1. PICK z \in Seq(V) : z = x \o <<c>> \o y
          BY Around
        <5>2. /\ Len(z) = Len(x) + 1 + Len(y)
              /\ \A i \in 1 .. Len(x) : z[i] = x[i]
              /\ z[Len(x) + 1] = c
              /\ \A i \in 1 .. Len(y) : z[Len(x) + 1 + i] = y[i]
          BY <5>1, Around
        <5>3. PICK m \in Nat : m = Len(t)
          OBVIOUS
        <5>4. Len(z) = m
          BY <4>3, <4>5, <5>2, <5>3
        <5>5. ASSUME NEW i \in 1 .. m PROVE z[i] = t[i]
          <6>1. CASE i < k
            <7>1. i \in 1 .. k - 1
              BY <6>1
            <7> QED
              BY <4>3, <5>2, <7>1
          <6>2. CASE i = k
            <7>1. Len(x) + 1 = k
              BY <4>3
            <7> QED
              BY <4>1, <5>2, <6>2, <7>1
          <6>3. CASE i > k
            <7>1. PICK j \in 1 .. m - k : i = k + j
              <8>1. i - k \in 1 .. m - k /\ i = k + (i - k)
                BY <6>3
              <8> QED
                BY <8>1
            <7>2. Len(x) + 1 = k
              BY <4>3
            <7>3. j \in 1 .. Len(y) /\ y[j] = t[k + j]
              BY <4>5, <5>3, <7>1
            <7>4. z[k + j] = y[j]
              BY <5>2, <7>2, <7>3
            <7> QED
              BY <7>1, <7>3, <7>4
          <6> QED
            BY <6>1, <6>2, <6>3
        <5>6. z = t
          BY <5>3, <5>4, <5>5, SeqEqual
        <5> QED
          BY <5>1, <5>6
      <4>7. Items(y, c) \in Seq(Plain(V, c))
        <5>1. Len(y) <= n
          <6>1. PICK m \in Nat : m = Len(t)
            OBVIOUS
          <6>2. Len(y) = m - k /\ k >= 1 /\ m <= n + 1
            BY <2>1, <4>5, <6>1
          <6> QED
            BY <6>2
        <5> QED
          BY <5>1
      <4>8. CASE x = <<>>
        <5>1. t = <<c>> \o y
          <6>1. PICK w \in Seq(V) : w = <<c>>
            BY OneIs
          <6>2. x \o w = w
            BY <4>8, <6>1
          <6> QED
            BY <4>6, <6>1, <6>2
        <5>2. Items(t, c) = Items(y, c)
          BY <5>1, ItemsSkip
        <5> QED
          BY <4>7, <5>2
      <4>9. CASE x # <<>>
        <5>1. \A j \in 1 .. Len(x) : x[j] # c
          BY <4>1, <4>3
        <5>2. Items(x \o <<c>> \o y, c) = Cons(x, Items(y, c))
          BY <4>9, <5>1, ItemsCut
        <5>3. x \in Plain(V, c)
          <6>1. x \in Seq(V \ {c})
            BY <5>1
          <6> QED
            BY <4>9, <6>1 DEF Plain
        <5> QED
          BY <4>6, <4>7, <5>2, <5>3, ConsIs
      <4> QED
        BY <4>8, <4>9
    <3> QED
      BY <3>1, <3>2
  <2> QED
    BY <2>1
<1> HIDE DEF S
<1>3. Nat \subseteq S
  BY <1>1, <1>2, Induction
<1>4. Len(s) \in S
  BY <1>3
<1> QED
  BY <1>4 DEF S

\* What is left when c is trimmed at the end does not end in c.
LEMMA TrimRightIs ==
    ASSUME NEW V, NEW s \in Seq(V), NEW c
    PROVE  /\ TrimRight(s, c) \in Seq(V)
           /\ TrimRight(s, c) # <<>> => TrimRight(s, c)[Len(TrimRight(s, c))] # c
           /\ TrimRight(TrimRight(s, c), c) = TrimRight(s, c)
<1> DEFINE I == {i \in 1 .. Len(s) : s[i] # c}
<1>1. PICK n \in Nat : n = Len(s)
  OBVIOUS
<1>2. PICK k \in 0 .. n : /\ k = IF I # {} THEN Max(I) ELSE 0
                          /\ k # 0 => s[k] # c
  <2>1. CASE I = {}
    BY <2>1
  <2>2. CASE I # {}
    <3>1. I \in SUBSET (1 .. n)
      BY <1>1
    <3>2. Max(I) \in I
      <4> HIDE DEF I
      <4> QED
        BY <2>2, <3>1, MaxIn
    <3>3. Max(I) \in 1 .. n /\ s[Max(I)] # c
      BY <3>1, <3>2
    <3> HIDE DEF I
    <3> QED
      BY <2>2, <3>3
  <2> QED
    BY <2>1, <2>2
<1>3. TrimRight(s, c) = SubSeq(s, 1, k)
  BY <1>2 DEF TrimRight, SelectLastInSeq
<1> HIDE DEF I
<1>4. PICK w \in Seq(V) : w = TrimRight(s, c)
  BY <1>1, <1>3, FirstIs
<1>5. Len(w) = k /\ \A j \in 1 .. k : w[j] = s[j]
  <2>1. k \in Nat /\ k <= Len(s)
    BY <1>1
  <2>2. SubSeq(s, 1, k) = Slice(s, 0, k)
    BY DEF Slice
  <2> QED
    BY <1>3, <1>4, <2>1, <2>2, FirstIs
<1>6. w # <<>> => w[Len(w)] # c
  <2>1. w # <<>> => k # 0 /\ k \in 1 .. k
    BY <1>5, EmptySeq
  <2> QED
    BY <1>2, <1>5, <2>1
<1>7. TrimRight(w, c) = w
  <2>1. CASE w = <<>>
    <3>1. {i \in 1 .. Len(<<>>) : <<>>[i] # c} = {}
      OBVIOUS
    <3>2. TrimRight(<<>>, c) = SubSeq(<<>>, 1, 0)
      BY <3>1 DEF TrimRight, SelectLastInSeq
    <3> QED
      BY <2>1, <3>2, SubSeqEmpty
  <2>2. CASE w # <<>>
    BY <1>6, <2>2, TrimRightNone
  <2> QED
    BY <2>1, <2>2
<1> QED
  BY <1>4, <1>6, <1>7

\* One c more at the end is trimmed with the others.
LEMMA TrimRightMore ==
    ASSUME NEW V, NEW s \in Seq(V), NEW c \in V
    PROVE  TrimRight(s \o <<c>>, c) = TrimRight(s, c)
<1>1. PICK w \in Seq(V) : w = s \o <<c>>
  BY OneIs, ConcatIs
<1>2. PICK n \in Nat : n = Len(s)
  OBVIOUS
<1>3. Len(w) = n + 1 /\ w[n + 1] = c /\ \A i \in 1 .. n : w[i] = s[i]
  <2>1. PICK x \in Seq(V) : x = <<c>>
    BY OneIs
  <2>2. Len(x) = 1 /\ x[1] = c
    BY <2>1
  <2>3. /\ Len(s \o x) = Len(s) + Len(x)
        /\ \A i \in 1 .. Len(s) : (s \o x)[i] = s[i]
        /\ \A i \in 1 .. Len(x) : (s \o x)[Len(s) + i] = x[i]
    BY ConcatIs
  <2> QED
    BY <1>1, <1>2, <2>1, <2>2, <2>3
<1> DEFINE I == {i \in 1 .. n : s[i] # c}
           J == {i \in 1 .. n + 1 : w[i] # c}
<1>4. I = J
  <2>1. \A i \in 1 .. n + 1 : i \in 1 .. n \/ i = n + 1
    OBVIOUS
  <2>2. \A i \in 1 .. n : i \in 1 .. n + 1
    OBVIOUS
  <2> QED
    BY <1>3, <2>1, <2>2
<1>5. /\ TrimRight(s, c) = SubSeq(s, 1, IF I # {} THEN Max(I) ELSE 0)
      /\ TrimRight(w, c) = SubSeq(w, 1, IF J # {} THEN Max(J) ELSE 0)
  BY <1>2, <1>3 DEF TrimRight, SelectLastInSeq
<1>6. PICK k \in 0 .. n : k = IF I # {} THEN Max(I) ELSE 0
  <2>1. I \in SUBSET (1 .. n)
    OBVIOUS
  <2> HIDE DEF I
  <2>2. I # {} => Max(I) \in I
    BY <2>1, MaxIn
  <2>3. I # {} => Max(I) \in 0 .. n
    <3>1. \A x \in 1 .. n : x \in 0 .. n
      OBVIOUS
    <3> QED
      BY <2>1, <2>2, <3>1
  <2> QED
    BY <2>3
<1> HIDE DEF I, J
<1>7. SubSeq(s, 1, k) = SubSeq(w, 1, k)
  <2>1. k \in Nat /\ k <= Len(s) /\ k <= Len(w) /\ \A i \in 1 .. k : w[i] = s[i]
    BY <1>2, <1>3
  <2>2. PICK a \in Seq(V) : a = Slice(s, 0, k)
    BY <2>1, FirstIs
  <2>3. PICK b \in Seq(V) : b = Slice(w, 0, k)
    BY <2>1, FirstIs
  <2>4. a = SubSeq(s, 1, k) /\ Len(a) = k /\ \A i \in 1 .. k : a[i] = s[i]
    BY <2>1, <2>2, FirstIs
  <2>5. b = SubSeq(w, 1, k) /\ Len(b) = k /\ \A i \in 1 .. k : b[i] = w[i]
    BY <2>1, <2>3, FirstIs
  <2>6. a = b
    BY <2>1, <2>4, <2>5, SeqEqual
  <2> QED
    BY <2>4, <2>5, <2>6
<1> QED
  BY <1>1, <1>4, <1>5, <1>6, <1>7

\* All but the last of a sequence.
LEMMA FrontIs ==
    ASSUME NEW V, NEW w \in Seq(V), w # <<>>
    PROVE  /\ Front(w) \in Seq(V) /\ Len(Front(w)) = Len(w) - 1
           /\ \A l \in 1 .. Len(w) - 1 : Front(w)[l] = w[l]
<1>1. PICK n \in Nat : n = Len(w)
  OBVIOUS
<1>2. n # 0
  BY <1>1
<1>3. PICK b \in Nat : b = n - 1 /\ b <= n
  BY <1>2
<1>4. /\ Slice(w, 0, b) \in Seq(V) /\ Len(Slice(w, 0, b)) = b - 0
      /\ \A j \in 1 .. b - 0 : Slice(w, 0, b)[j] = w[0 + j]
  <2>1. 0 \in Nat /\ 0 <= b /\ b <= Len(w)
    BY <1>1, <1>3
  <2> QED
    BY <2>1, SliceIs
<1>5. Front(w) = Slice(w, 0, b)
  BY <1>1, <1>3 DEF Front, Slice
<1> QED
  BY <1>1, <1>3, <1>4, <1>5

\* A text that starts with a character.
LEMMA StartsWithOne ==
    ASSUME NEW V, NEW s \in Seq(V), NEW c \in V
    PROVE  StartsWith(s, <<c>>) <=> s # <<>> /\ s[1] = c
<1>1. PICK p \in Seq(V) : p = <<c>>
  BY OneIs
<1>2. Len(p) = 1 /\ p[1] = c
  BY <1>1
<1>3. CASE s = <<>>
  <2>1. ~(Len(p) <= Len(s))
    BY <1>2, <1>3
  <2>2. IsPrefix(p, s) => Len(p) <= Len(s)
    BY DEF IsPrefix
  <2> QED
    BY <1>1, <1>3, <2>1, <2>2 DEF StartsWith
<1>4. CASE s # <<>>
  <2>1. Len(p) <= Len(s)
    BY <1>2, <1>4
  <2>2. StartsWith(s, p) <=> \A i \in 1 .. Len(p) : s[i] = p[i]
    BY <2>1, StartsWithIs
  <2> QED
    BY <1>1, <1>2, <1>4, <2>2
<1> QED
  BY <1>3, <1>4

\* What a text joined to another starts with, and what comes after.
LEMMA AfterPrefix ==
    ASSUME NEW V, NEW x \in Seq(V), NEW y \in Seq(V)
    PROVE  StartsWith(x \o y, x) /\ From(x \o y, Len(x) + 1) = y
<1>1. /\ x \o y \in Seq(V) /\ Len(x \o y) = Len(x) + Len(y)
      /\ \A i \in 1 .. Len(x) : (x \o y)[i] = x[i]
  BY ConcatIs
<1>2. PICK w \in Seq(V) : w = x \o y
  BY <1>1
<1>3. Len(x) <= Len(w)
  BY <1>1, <1>2
<1>4. StartsWith(w, x) <=> \A i \in 1 .. Len(x) : w[i] = x[i]
  BY <1>3, StartsWithIs
<1>5. Slice(w, Len(x), Len(x) + Len(y)) = y
  BY <1>2, SlicesOfConcat
<1>6. From(w, Len(x) + 1) = Slice(w, Len(x), Len(x) + Len(y))
  BY <1>1, <1>2 DEF From, Slice
<1> QED
  BY <1>1, <1>2, <1>4, <1>5, <1>6

-----------------------------------------------------------------------------
(* holy_get_real_path, item by item.                                       *)

\* What FoldLeft computes of the sets of the first m items.
Iter(items, m, g) ==
    g = [s \in SUBSET (1 .. m) |-> IF s = {} THEN <<>>
                                   ELSE Resolve(g[s \ {Max(s)}], items[Max(s)])]

\* There is such a function.
LEMMA IterExists ==
    ASSUME NEW items, NEW n \in Nat
    PROVE  \E g : Iter(items, n, g)
<1> DEFINE S == {m \in Nat : \E g : Iter(items, m, g)}
<1>1. 0 \in S
  <2> DEFINE g == [s \in SUBSET (1 .. 0) |-> <<>>]
  <2>1. \A s \in SUBSET (1 .. 0) : s = {}
    OBVIOUS
  <2>2. Iter(items, 0, g)
    BY <2>1 DEF Iter
  <2> HIDE DEF g
  <2> QED
    BY <2>2
<1>2. ASSUME NEW m \in S \cap Nat PROVE m + 1 \in S
  <2>1. PICK g : Iter(items, m, g)
    OBVIOUS
  <2>2. \A s \in SUBSET (1 .. m) :
           g[s] = IF s = {} THEN <<>> ELSE Resolve(g[s \ {Max(s)}], items[Max(s)])
    BY <2>1 DEF Iter
  <2>3. PICK n1 \in Nat : n1 = m + 1
    OBVIOUS
  <2> DEFINE h == [s \in SUBSET (1 .. n1) |->
                      IF n1 \in s THEN Resolve(g[s \ {n1}], items[n1]) ELSE g[s]]
  <2>4. ASSUME NEW s \in SUBSET (1 .. n1)
        PROVE  h[s] = IF s = {} THEN <<>> ELSE Resolve(h[s \ {Max(s)}], items[Max(s)])
    <3>1. CASE n1 \in s
      <4>1. Max(s) = n1
        <5>1. s \in SUBSET Int /\ \A x \in s : n1 >= x
          OBVIOUS
        <5> QED
          BY <3>1, <5>1, MaxIs
      <4>2. s \ {n1} \in SUBSET (1 .. n1) /\ n1 \notin s \ {n1}
        OBVIOUS
      <4>3. h[s \ {n1}] = g[s \ {n1}]
        BY <4>2
      <4> QED
        BY <3>1, <4>1, <4>3
    <3>2. CASE n1 \notin s /\ s # {}
      <4>1. s \in SUBSET (1 .. m)
        <5>1. \A x \in 1 .. n1 : x # n1 => x \in 1 .. m
          BY <2>3
        <5> QED
          BY <3>2, <5>1
      <4>2. PICK x : x = Max(s)
        OBVIOUS
      <4>3. s \ {x} \in SUBSET (1 .. n1) /\ n1 \notin s \ {x}
        BY <3>2
      <4>4. h[s] = g[s] /\ h[s \ {x}] = g[s \ {x}]
        BY <3>2, <4>3
      <4>5. g[s] = Resolve(g[s \ {x}], items[x])
        BY <2>2, <3>2, <4>1, <4>2
      <4> QED
        BY <3>2, <4>2, <4>4, <4>5
    <3>3. CASE s = {}
      <4>1. {} \in SUBSET (1 .. m)
        OBVIOUS
      <4>2. g[{}] = <<>>
        BY <2>2, <4>1
      <4> QED
        BY <3>3, <4>2
    <3> QED
      BY <3>1, <3>2, <3>3
  <2>5. h = [s \in SUBSET (1 .. n1) |-> h[s]]
    OBVIOUS
  <2> HIDE DEF h
  <2>6. Iter(items, n1, h)
    BY <2>4, <2>5 DEF Iter
  <2> QED
    BY <2>3, <2>6
<1> HIDE DEF S
<1>3. Nat \subseteq S
  BY <1>1, <1>2, Induction
<1> QED
  BY <1>3 DEF S

\* What is kept of each of the first items.
Steps(items, n, f) ==
    f[0] = <<>> /\ \A k \in 0 .. n - 1 : f[k + 1] = Resolve(f[k], items[k + 1])

\* What holy_get_real_path keeps, item by item.
LEMMA ResolvedIs ==
    ASSUME NEW V, NEW items \in Seq(V), NEW n \in Nat, n = Len(items)
    PROVE  \E f : Steps(items, n, f) /\ FoldLeft(Resolve, <<>>, items) = f[n]
<1> DEFINE c == CHOOSE g : g = [s \in SUBSET DOMAIN items |->
                                   IF s = {} THEN <<>>
                                   ELSE Resolve(g[s \ {Max(s)}], items[Max(s)])]
           f == [k \in 0 .. n |-> c[1 .. k]]
<1>1. DOMAIN items = 1 .. n
  OBVIOUS
<1>2. FoldLeft(Resolve, <<>>, items) = c[DOMAIN items]
  BY DEF FoldLeft, MapThenFoldSet
<1>3. Iter(items, n, c)
  <2>1. \E g : g = [s \in SUBSET DOMAIN items |->
                      IF s = {} THEN <<>> ELSE Resolve(g[s \ {Max(s)}], items[Max(s)])]
    <3>1. PICK g : Iter(items, n, g)
      BY IterExists
    <3>2. g = [s \in SUBSET DOMAIN items |->
                  IF s = {} THEN <<>> ELSE Resolve(g[s \ {Max(s)}], items[Max(s)])]
      BY <1>1, <3>1 DEF Iter
    <3> QED
      BY <3>2
  <2>2. c = [s \in SUBSET DOMAIN items |->
                      IF s = {} THEN <<>> ELSE Resolve(c[s \ {Max(s)}], items[Max(s)])]
    BY <2>1
  <2> HIDE DEF c
  <2> QED
    BY <1>1, <2>2 DEF Iter
<1>4. \A k \in 0 .. n : f[k] = c[1 .. k]
  OBVIOUS
<1> HIDE DEF c, f
<1>5. \A s \in SUBSET (1 .. n) :
         c[s] = IF s = {} THEN <<>> ELSE Resolve(c[s \ {Max(s)}], items[Max(s)])
  BY <1>3 DEF Iter
<1>6. f[0] = <<>>
  <2>1. 1 .. 0 = {} /\ {} \in SUBSET (1 .. n) /\ 0 \in 0 .. n
    OBVIOUS
  <2>2. c[{}] = <<>>
    BY <1>5, <2>1
  <2> QED
    BY <1>4, <2>1, <2>2
<1>7. ASSUME NEW k \in 0 .. n - 1 PROVE f[k + 1] = Resolve(f[k], items[k + 1])
  <2>1. PICK m \in 1 .. n : m = k + 1
    <3>1. k + 1 \in 1 .. n
      OBVIOUS
    <3> QED
      BY <3>1
  <2>2. PICK s : s = 1 .. m
    OBVIOUS
  <2>3. s \in SUBSET (1 .. n) /\ s # {} /\ s \ {m} = 1 .. k
    <3>1. \A x \in 1 .. m : x \in 1 .. n
      OBVIOUS
    <3>2. m \in 1 .. m
      OBVIOUS
    <3>3. \A x \in Int : (x \in 1 .. m /\ x # m) <=> x \in 1 .. k
      BY <2>1
    <3>4. (1 .. m) \ {m} = 1 .. k
      <4>1. \A x : x \in 1 .. m => x \in Int
        OBVIOUS
      <4>2. \A x : x \in 1 .. k => x \in Int
        OBVIOUS
      <4>3. \A x : x \in (1 .. m) \ {m} <=> x \in 1 .. k
        BY <3>3, <4>1, <4>2, Zenon
      <4> QED
        BY <4>3, ZenonT(30)
    <3> QED
      BY <2>2, <3>1, <3>2, <3>4
  <2>4. Max(s) = m
    <3>1. s \in SUBSET Int /\ m \in s /\ \A x \in s : m >= x
      BY <2>2
    <3> QED
      BY <3>1, MaxIs
  <2>5. c[s] = Resolve(c[1 .. k], items[m])
    BY <1>5, <2>3, <2>4
  <2>6. k \in 0 .. n /\ m \in 0 .. n
    BY <2>1
  <2> QED
    BY <1>4, <2>1, <2>2, <2>5, <2>6
<1>8. n \in 0 .. n
  OBVIOUS
<1> QED
  BY <1>1, <1>2, <1>4, <1>6, <1>7, <1>8 DEF Steps

-----------------------------------------------------------------------------
(* holy_guess_mime_type.                                                   *)

\* A sequence reversed.
LEMMA ReverseIs ==
    ASSUME NEW W, NEW s \in Seq(W)
    PROVE  /\ Reverse(s) \in Seq(W) /\ Len(Reverse(s)) = Len(s)
           /\ \A i \in 1 .. Len(s) : Reverse(s)[i] = s[Len(s) - i + 1]
<1>1. PICK n \in Nat : n = Len(s)
  OBVIOUS
<1> DEFINE r == [i \in 1 .. n |-> s[(n - i) + 1]]
<1>2. Reverse(s) = r
  BY <1>1 DEF Reverse
<1>3. \A i \in 1 .. n : r[i] = s[n - i + 1] /\ s[n - i + 1] \in W
  <2>1. \A i \in 1 .. n : n - i + 1 \in 1 .. n
    OBVIOUS
  <2> QED
    BY <1>1, <2>1
<1>4. DOMAIN r = 1 .. n /\ r = [i \in DOMAIN r |-> r[i]]
  OBVIOUS
<1> HIDE DEF r
<1>5. r \in Seq(W) /\ Len(r) = n
  <2>1. \A i \in 1 .. n : r[i] \in W
    BY <1>3
  <2> QED
    BY <1>4, <2>1, EachIs
<1> QED
  BY <1>1, <1>2, <1>3, <1>5

\* What the end of a name says of its characters.
LEMMA EndsWithIs ==
    ASSUME NEW W, NEW s \in Seq(W), NEW p \in Seq(W), p # <<>>
    PROVE  EndsWith(s, p) <=>
              /\ Len(s) >= Len(p)
              /\ \A i \in 2 .. Len(p) : s[Len(s) - Len(p) + i] = p[i]
<1>1. PICK n \in Nat, m \in Nat \ {0} : n = Len(s) /\ m = Len(p)
  BY EmptySeq
<1>2. EndsWith(s, p) <=> n >= m /\ StartsWith(Reverse(s), Reverse(Tail(p)))
  BY <1>1 DEF EndsWith, IsSuffix, StartsWith
<1>3. PICK t \in Seq(W) : t = Tail(p)
  BY HeadTailProperties
<1>4. PICK k \in Nat : k = m - 1
  BY <1>1
<1>5. Len(t) = k /\ \A i \in 1 .. k : t[i] = p[i + 1]
  <2>1. /\ Len(Tail(p)) = Len(p) - 1
        /\ \A i \in 1 .. Len(Tail(p)) : Tail(p)[i] = p[i + 1]
    BY HeadTailProperties
  <2> QED
    BY <1>1, <1>3, <1>4, <2>1
<1>6. PICK a \in Seq(W) : a = Reverse(s) /\ Len(a) = n /\ \A i \in 1 .. n : a[i] = s[n - i + 1]
  BY <1>1, ReverseIs
<1>7. PICK b \in Seq(W) : b = Reverse(t) /\ Len(b) = k /\ \A i \in 1 .. k : b[i] = t[k - i + 1]
  <2>1. /\ Reverse(t) \in Seq(W) /\ Len(Reverse(t)) = Len(t)
        /\ \A i \in 1 .. Len(t) : Reverse(t)[i] = t[Len(t) - i + 1]
    BY ReverseIs
  <2> QED
    BY <1>5, <2>1
<1>8. CASE n >= m
  <2>1. Len(b) <= Len(a)
    BY <1>4, <1>6, <1>7, <1>8
  <2>2. StartsWith(a, b) <=> \A i \in 1 .. Len(b) : a[i] = b[i]
    BY <2>1, StartsWithIs
  <2>3. ASSUME NEW i \in 1 .. k PROVE a[i] = s[n - i + 1] /\ b[i] = p[m - i + 1]
    <3>1. i \in 1 .. n /\ k - i + 1 \in 1 .. k /\ (k - i + 1) + 1 = m - i + 1
      BY <1>4, <1>8
    <3>2. t[k - i + 1] = p[m - i + 1]
      BY <1>5, <3>1
    <3> QED
      BY <1>6, <1>7, <3>1, <3>2
  <2>4. ASSUME \A i \in 1 .. k : s[n - i + 1] = p[m - i + 1]
        PROVE  \A i \in 2 .. m : s[n - m + i] = p[i]
    <3>1. ASSUME NEW i \in 2 .. m PROVE s[n - m + i] = p[i]
      <4>1. PICK j \in 1 .. k : j = m - i + 1
        <5>1. m - i + 1 \in 1 .. k
          BY <1>4
        <5> QED
          BY <5>1
      <4>2. n - j + 1 = n - m + i /\ m - j + 1 = i
        BY <4>1
      <4> QED
        BY <2>4, <4>2
    <3> QED
      BY <3>1
  <2>5. ASSUME \A i \in 2 .. m : s[n - m + i] = p[i]
        PROVE  \A i \in 1 .. k : s[n - i + 1] = p[m - i + 1]
    <3>1. ASSUME NEW i \in 1 .. k PROVE s[n - i + 1] = p[m - i + 1]
      <4>1. PICK j \in 2 .. m : j = m - i + 1
        <5>1. m - i + 1 \in 2 .. m
          BY <1>4
        <5> QED
          BY <5>1
      <4>2. n - m + j = n - i + 1
        BY <4>1
      <4> QED
        BY <2>5, <4>1, <4>2
    <3> QED
      BY <3>1
  <2> QED
    BY <1>1, <1>2, <1>3, <1>6, <1>7, <1>8, <2>2, <2>3, <2>4, <2>5
<1>9. CASE ~(n >= m)
  BY <1>1, <1>2, <1>9
<1> QED
  BY <1>8, <1>9

\* The type that the last characters of a name tell.
TypeByEnd(s) ==
    LET z == s[Len(s)]
        y == s[Len(s) - 1]
        x == s[Len(s) - 2]
    IN  IF z \in {"l", "m"} THEN "text/html"
        ELSE IF z = "s" THEN IF y = "s" THEN "text/css" ELSE "application/x-javascript"
        ELSE IF z = "t" THEN "text"
        ELSE IF z = "o" THEN "image/x-icon"
        ELSE IF z = "g" THEN IF y = "o" THEN "text"
                             ELSE IF y = "v" THEN "image/svg+xml" ELSE "image/jpeg"
        ELSE IF y = "d" THEN "application/pdf"
        ELSE IF y = "w" THEN "application/x-shockwave-flash"
        ELSE IF y = "i" /\ x = "g" THEN "image/gif" ELSE "mage/tiff"

\* The characters of the ends that tell a type.
Letters == {".", "c", "d", "e", "f", "g", "h", "i", "j", "l", "m", "o", "p", "s", "t", "v", "w",
            "x"}

\* Every type that fits a name is the one that its last characters tell.
LEMMA TypesAgree ==
    ASSUME NEW W, Letters \subseteq W, NEW s \in Seq(W), NEW j \in DOMAIN MimeTypes,
           EndsWith(s, MimeTypes[j][1])
    PROVE  MimeTypes[j][2] = TypeByEnd(s)
<1>1. ASSUME NEW p \in Seq(W), p # <<>>, EndsWith(s, p)
      PROVE  \A i \in 2 .. Len(p) : s[Len(s) - Len(p) + i] = p[i]
  BY <1>1, EndsWithIs
<1>2. PICK n \in Nat : n = Len(s)
  OBVIOUS
<1>24. /\ "." \in W /\ "c" \in W /\ "d" \in W /\ "e" \in W /\ "f" \in W /\ "g" \in W /\ "h" \in W
       /\ "i" \in W /\ "j" \in W /\ "l" \in W /\ "m" \in W /\ "o" \in W /\ "p" \in W /\ "s" \in W
       /\ "t" \in W /\ "v" \in W /\ "w" \in W /\ "x" \in W
  BY DEF Letters
<1>3. ASSUME NEW x \in W, NEW y \in W, NEW z \in W, EndsWith(s, <<".", x, y, z>>)
      PROVE  s[n] = z /\ s[n - 1] = y /\ s[n - 2] = x
  <2>1. PICK p \in Seq(W) : p = <<".", x, y, z>>
    <3>1. <<".", x, y, z>> \in Seq(W)
      BY <1>24
    <3> QED
      BY <3>1
  <2>2. Len(p) = 4 /\ p[4] = z /\ p[3] = y /\ p[2] = x
    BY <2>1
  <2>3. p # <<>>
    <3>1. p = <<>> => Len(p) = 0
      OBVIOUS
    <3> QED
      BY <2>2, <3>1
  <2>4. \A i \in 2 .. Len(p) : s[Len(s) - Len(p) + i] = p[i]
    BY <1>1, <1>3, <2>1, <2>3
  <2>7. \A i \in 2 .. 4 : s[n - 4 + i] = p[i]
    BY <1>2, <2>2, <2>4
  <2>5. s[n - 4 + 4] = p[4] /\ s[n - 4 + 3] = p[3] /\ s[n - 4 + 2] = p[2]
    <3>1. 4 \in 2 .. 4 /\ 3 \in 2 .. 4 /\ 2 \in 2 .. 4
      OBVIOUS
    <3> QED
      BY <2>7, <3>1
  <2>6. n - 4 + 4 = n /\ n - 4 + 3 = n - 1 /\ n - 4 + 2 = n - 2
    OBVIOUS
  <2> QED
    BY <2>2, <2>5, <2>6
<1>4. ASSUME NEW w \in W, NEW x \in W, NEW y \in W, NEW z \in W, EndsWith(s, <<".", w, x, y, z>>)
      PROVE  s[n] = z /\ s[n - 1] = y /\ s[n - 2] = x
  <2>1. PICK p \in Seq(W) : p = <<".", w, x, y, z>>
    <3>1. <<".", w, x, y, z>> \in Seq(W)
      BY <1>24
    <3> QED
      BY <3>1
  <2>2. Len(p) = 5 /\ p[5] = z /\ p[4] = y /\ p[3] = x
    BY <2>1
  <2>3. p # <<>>
    <3>1. p = <<>> => Len(p) = 0
      OBVIOUS
    <3> QED
      BY <2>2, <3>1
  <2>4. \A i \in 2 .. Len(p) : s[Len(s) - Len(p) + i] = p[i]
    BY <1>1, <1>4, <2>1, <2>3
  <2>7. \A i \in 2 .. 5 : s[n - 5 + i] = p[i]
    BY <1>2, <2>2, <2>4
  <2>5. s[n - 5 + 5] = p[5] /\ s[n - 5 + 4] = p[4] /\ s[n - 5 + 3] = p[3]
    <3>1. 5 \in 2 .. 5 /\ 4 \in 2 .. 5 /\ 3 \in 2 .. 5
      OBVIOUS
    <3> QED
      BY <2>7, <3>1
  <2>6. n - 5 + 5 = n /\ n - 5 + 4 = n - 1 /\ n - 5 + 3 = n - 2
    OBVIOUS
  <2> QED
    BY <2>2, <2>5, <2>6
<1>5. ASSUME NEW y \in W, NEW z \in W, EndsWith(s, <<".", y, z>>)
      PROVE  s[n] = z /\ s[n - 1] = y
  <2>1. PICK p \in Seq(W) : p = <<".", y, z>>
    <3>1. <<".", y, z>> \in Seq(W)
      BY <1>24
    <3> QED
      BY <3>1
  <2>2. Len(p) = 3 /\ p[3] = z /\ p[2] = y
    BY <2>1
  <2>3. p # <<>>
    <3>1. p = <<>> => Len(p) = 0
      OBVIOUS
    <3> QED
      BY <2>2, <3>1
  <2>4. \A i \in 2 .. Len(p) : s[Len(s) - Len(p) + i] = p[i]
    BY <1>1, <1>5, <2>1, <2>3
  <2>7. \A i \in 2 .. 3 : s[n - 3 + i] = p[i]
    BY <1>2, <2>2, <2>4
  <2>5. s[n - 3 + 3] = p[3] /\ s[n - 3 + 2] = p[2]
    <3>1. 3 \in 2 .. 3 /\ 2 \in 2 .. 3
      OBVIOUS
    <3> QED
      BY <2>7, <3>1
  <2>6. n - 3 + 3 = n /\ n - 3 + 2 = n - 1
    OBVIOUS
  <2> QED
    BY <2>2, <2>5, <2>6
<1>6. TypeByEnd(s) =
         IF s[n] \in {"l", "m"} THEN "text/html"
         ELSE IF s[n] = "s" THEN IF s[n - 1] = "s" THEN "text/css" ELSE "application/x-javascript"
         ELSE IF s[n] = "t" THEN "text"
         ELSE IF s[n] = "o" THEN "image/x-icon"
         ELSE IF s[n] = "g" THEN IF s[n - 1] = "o" THEN "text"
                                 ELSE IF s[n - 1] = "v" THEN "image/svg+xml" ELSE "image/jpeg"
         ELSE IF s[n - 1] = "d" THEN "application/pdf"
         ELSE IF s[n - 1] = "w" THEN "application/x-shockwave-flash"
         ELSE IF s[n - 1] = "i" /\ s[n - 2] = "g" THEN "image/gif" ELSE "mage/tiff"
  BY <1>2 DEF TypeByEnd
<1>7. DOMAIN MimeTypes = 1 .. 16
  BY DEF MimeTypes
<1>8. CASE j = 1
  <2>1. MimeTypes[1][1] = <<".", "h", "t", "m", "l">> /\ MimeTypes[1][2] = "text/html"
    BY DEF MimeTypes
  <2>2. s[n] = "l" /\ s[n - 1] = "m" /\ s[n - 2] = "t"
    BY <1>4, <1>8, <1>24, <2>1
  <2> QED
    BY <1>6, <1>8, <2>1, <2>2
<1>9. CASE j = 2
  <2>1. MimeTypes[2][1] = <<".", "h", "t", "m">> /\ MimeTypes[2][2] = "text/html"
    BY DEF MimeTypes
  <2>2. s[n] = "m" /\ s[n - 1] = "t" /\ s[n - 2] = "h"
    BY <1>3, <1>9, <1>24, <2>1
  <2> QED
    BY <1>6, <1>9, <2>1, <2>2
<1>10. CASE j = 3
  <2>1. MimeTypes[3][1] = <<".", "c", "s", "s">> /\ MimeTypes[3][2] = "text/css"
    BY DEF MimeTypes
  <2>2. s[n] = "s" /\ s[n - 1] = "s" /\ s[n - 2] = "c"
    BY <1>3, <1>10, <1>24, <2>1
  <2> QED
    BY <1>6, <1>10, <2>1, <2>2
<1>11. CASE j = 4
  <2>1. MimeTypes[4][1] = <<".", "j", "s">> /\ MimeTypes[4][2] = "application/x-javascript"
    BY DEF MimeTypes
  <2>2. s[n] = "s" /\ s[n - 1] = "j"
    BY <1>5, <1>11, <1>24, <2>1
  <2> QED
    BY <1>6, <1>11, <2>1, <2>2
<1>12. CASE j = 5
  <2>1. MimeTypes[5][1] = <<".", "t", "x", "t">> /\ MimeTypes[5][2] = "text"
    BY DEF MimeTypes
  <2>2. s[n] = "t" /\ s[n - 1] = "x" /\ s[n - 2] = "t"
    BY <1>3, <1>12, <1>24, <2>1
  <2> QED
    BY <1>6, <1>12, <2>1, <2>2
<1>13. CASE j = 6
  <2>1. MimeTypes[6][1] = <<".", "t", "e", "x", "t">> /\ MimeTypes[6][2] = "text"
    BY DEF MimeTypes
  <2>2. s[n] = "t" /\ s[n - 1] = "x" /\ s[n - 2] = "e"
    BY <1>4, <1>13, <1>24, <2>1
  <2> QED
    BY <1>6, <1>13, <2>1, <2>2
<1>14. CASE j = 7
  <2>1. MimeTypes[7][1] = <<".", "l", "o", "g">> /\ MimeTypes[7][2] = "text"
    BY DEF MimeTypes
  <2>2. s[n] = "g" /\ s[n - 1] = "o" /\ s[n - 2] = "l"
    BY <1>3, <1>14, <1>24, <2>1
  <2> QED
    BY <1>6, <1>14, <2>1, <2>2
<1>15. CASE j = 8
  <2>1. MimeTypes[8][1] = <<".", "i", "c", "o">> /\ MimeTypes[8][2] = "image/x-icon"
    BY DEF MimeTypes
  <2>2. s[n] = "o" /\ s[n - 1] = "c" /\ s[n - 2] = "i"
    BY <1>3, <1>15, <1>24, <2>1
  <2> QED
    BY <1>6, <1>15, <2>1, <2>2
<1>16. CASE j = 9
  <2>1. MimeTypes[9][1] = <<".", "g", "i", "f">> /\ MimeTypes[9][2] = "image/gif"
    BY DEF MimeTypes
  <2>2. s[n] = "f" /\ s[n - 1] = "i" /\ s[n - 2] = "g"
    BY <1>3, <1>16, <1>24, <2>1
  <2> QED
    BY <1>6, <1>16, <2>1, <2>2
<1>17. CASE j = 10
  <2>1. MimeTypes[10][1] = <<".", "j", "p", "g">> /\ MimeTypes[10][2] = "image/jpeg"
    BY DEF MimeTypes
  <2>2. s[n] = "g" /\ s[n - 1] = "p" /\ s[n - 2] = "j"
    BY <1>3, <1>17, <1>24, <2>1
  <2> QED
    BY <1>6, <1>17, <2>1, <2>2
<1>18. CASE j = 11
  <2>1. MimeTypes[11][1] = <<".", "j", "p", "e", "g">> /\ MimeTypes[11][2] = "image/jpeg"
    BY DEF MimeTypes
  <2>2. s[n] = "g" /\ s[n - 1] = "e" /\ s[n - 2] = "p"
    BY <1>4, <1>18, <1>24, <2>1
  <2> QED
    BY <1>6, <1>18, <2>1, <2>2
<1>19. CASE j = 12
  <2>1. MimeTypes[12][1] = <<".", "p", "d", "f">> /\ MimeTypes[12][2] = "application/pdf"
    BY DEF MimeTypes
  <2>2. s[n] = "f" /\ s[n - 1] = "d" /\ s[n - 2] = "p"
    BY <1>3, <1>19, <1>24, <2>1
  <2> QED
    BY <1>6, <1>19, <2>1, <2>2
<1>20. CASE j = 13
  <2>1. MimeTypes[13][1] = <<".", "s", "w", "f">> /\ MimeTypes[13][2] = "application/x-shockwave-flash"
    BY DEF MimeTypes
  <2>2. s[n] = "f" /\ s[n - 1] = "w" /\ s[n - 2] = "s"
    BY <1>3, <1>20, <1>24, <2>1
  <2> QED
    BY <1>6, <1>20, <2>1, <2>2
<1>21. CASE j = 14
  <2>1. MimeTypes[14][1] = <<".", "s", "v", "g">> /\ MimeTypes[14][2] = "image/svg+xml"
    BY DEF MimeTypes
  <2>2. s[n] = "g" /\ s[n - 1] = "v" /\ s[n - 2] = "s"
    BY <1>3, <1>21, <1>24, <2>1
  <2> QED
    BY <1>6, <1>21, <2>1, <2>2
<1>22. CASE j = 15
  <2>1. MimeTypes[15][1] = <<".", "t", "i", "f", "f">> /\ MimeTypes[15][2] = "mage/tiff"
    BY DEF MimeTypes
  <2>2. s[n] = "f" /\ s[n - 1] = "f" /\ s[n - 2] = "i"
    BY <1>4, <1>22, <1>24, <2>1
  <2> QED
    BY <1>6, <1>22, <2>1, <2>2
<1>23. CASE j = 16
  <2>1. MimeTypes[16][1] = <<".", "t", "i", "f">> /\ MimeTypes[16][2] = "mage/tiff"
    BY DEF MimeTypes
  <2>2. s[n] = "f" /\ s[n - 1] = "i" /\ s[n - 2] = "t"
    BY <1>3, <1>23, <1>24, <2>1
  <2> QED
    BY <1>6, <1>23, <2>1, <2>2
<1> QED
  BY <1>7, <1>8, <1>9, <1>10, <1>11, <1>12, <1>13, <1>14, <1>15, <1>16, <1>17, <1>18, <1>19, <1>20, <1>21, <1>22, <1>23

\* The ends of names are texts.
LEMMA MimeEnds ==
    ASSUME NEW W, Letters \subseteq W, NEW j \in DOMAIN MimeTypes
    PROVE  MimeTypes[j][1] \in Seq(W) /\ MimeTypes[j][1] # <<>>
<1>1. DOMAIN MimeTypes = 1 .. 16
  BY DEF MimeTypes
<1>2. /\ "." \in W /\ "c" \in W /\ "d" \in W /\ "e" \in W /\ "f" \in W /\ "g" \in W /\ "h" \in W
      /\ "i" \in W /\ "j" \in W /\ "l" \in W /\ "m" \in W /\ "o" \in W /\ "p" \in W /\ "s" \in W
      /\ "t" \in W /\ "v" \in W /\ "w" \in W /\ "x" \in W
  BY DEF Letters
<1>3. CASE j = 1
  <2>1. MimeTypes[1][1] = <<".", "h", "t", "m", "l">>
    BY DEF MimeTypes
  <2>2. <<".", "h", "t", "m", "l">> \in Seq(W) /\ <<".", "h", "t", "m", "l">> # <<>>
    BY <1>2
  <2> QED
    BY <1>3, <2>1, <2>2
<1>4. CASE j = 2
  <2>1. MimeTypes[2][1] = <<".", "h", "t", "m">>
    BY DEF MimeTypes
  <2>2. <<".", "h", "t", "m">> \in Seq(W) /\ <<".", "h", "t", "m">> # <<>>
    BY <1>2
  <2> QED
    BY <1>4, <2>1, <2>2
<1>5. CASE j = 3
  <2>1. MimeTypes[3][1] = <<".", "c", "s", "s">>
    BY DEF MimeTypes
  <2>2. <<".", "c", "s", "s">> \in Seq(W) /\ <<".", "c", "s", "s">> # <<>>
    BY <1>2
  <2> QED
    BY <1>5, <2>1, <2>2
<1>6. CASE j = 4
  <2>1. MimeTypes[4][1] = <<".", "j", "s">>
    BY DEF MimeTypes
  <2>2. <<".", "j", "s">> \in Seq(W) /\ <<".", "j", "s">> # <<>>
    BY <1>2
  <2> QED
    BY <1>6, <2>1, <2>2
<1>7. CASE j = 5
  <2>1. MimeTypes[5][1] = <<".", "t", "x", "t">>
    BY DEF MimeTypes
  <2>2. <<".", "t", "x", "t">> \in Seq(W) /\ <<".", "t", "x", "t">> # <<>>
    BY <1>2
  <2> QED
    BY <1>7, <2>1, <2>2
<1>8. CASE j = 6
  <2>1. MimeTypes[6][1] = <<".", "t", "e", "x", "t">>
    BY DEF MimeTypes
  <2>2. <<".", "t", "e", "x", "t">> \in Seq(W) /\ <<".", "t", "e", "x", "t">> # <<>>
    BY <1>2
  <2> QED
    BY <1>8, <2>1, <2>2
<1>9. CASE j = 7
  <2>1. MimeTypes[7][1] = <<".", "l", "o", "g">>
    BY DEF MimeTypes
  <2>2. <<".", "l", "o", "g">> \in Seq(W) /\ <<".", "l", "o", "g">> # <<>>
    BY <1>2
  <2> QED
    BY <1>9, <2>1, <2>2
<1>10. CASE j = 8
  <2>1. MimeTypes[8][1] = <<".", "i", "c", "o">>
    BY DEF MimeTypes
  <2>2. <<".", "i", "c", "o">> \in Seq(W) /\ <<".", "i", "c", "o">> # <<>>
    BY <1>2
  <2> QED
    BY <1>10, <2>1, <2>2
<1>11. CASE j = 9
  <2>1. MimeTypes[9][1] = <<".", "g", "i", "f">>
    BY DEF MimeTypes
  <2>2. <<".", "g", "i", "f">> \in Seq(W) /\ <<".", "g", "i", "f">> # <<>>
    BY <1>2
  <2> QED
    BY <1>11, <2>1, <2>2
<1>12. CASE j = 10
  <2>1. MimeTypes[10][1] = <<".", "j", "p", "g">>
    BY DEF MimeTypes
  <2>2. <<".", "j", "p", "g">> \in Seq(W) /\ <<".", "j", "p", "g">> # <<>>
    BY <1>2
  <2> QED
    BY <1>12, <2>1, <2>2
<1>13. CASE j = 11
  <2>1. MimeTypes[11][1] = <<".", "j", "p", "e", "g">>
    BY DEF MimeTypes
  <2>2. <<".", "j", "p", "e", "g">> \in Seq(W) /\ <<".", "j", "p", "e", "g">> # <<>>
    BY <1>2
  <2> QED
    BY <1>13, <2>1, <2>2
<1>14. CASE j = 12
  <2>1. MimeTypes[12][1] = <<".", "p", "d", "f">>
    BY DEF MimeTypes
  <2>2. <<".", "p", "d", "f">> \in Seq(W) /\ <<".", "p", "d", "f">> # <<>>
    BY <1>2
  <2> QED
    BY <1>14, <2>1, <2>2
<1>15. CASE j = 13
  <2>1. MimeTypes[13][1] = <<".", "s", "w", "f">>
    BY DEF MimeTypes
  <2>2. <<".", "s", "w", "f">> \in Seq(W) /\ <<".", "s", "w", "f">> # <<>>
    BY <1>2
  <2> QED
    BY <1>15, <2>1, <2>2
<1>16. CASE j = 14
  <2>1. MimeTypes[14][1] = <<".", "s", "v", "g">>
    BY DEF MimeTypes
  <2>2. <<".", "s", "v", "g">> \in Seq(W) /\ <<".", "s", "v", "g">> # <<>>
    BY <1>2
  <2> QED
    BY <1>16, <2>1, <2>2
<1>17. CASE j = 15
  <2>1. MimeTypes[15][1] = <<".", "t", "i", "f", "f">>
    BY DEF MimeTypes
  <2>2. <<".", "t", "i", "f", "f">> \in Seq(W) /\ <<".", "t", "i", "f", "f">> # <<>>
    BY <1>2
  <2> QED
    BY <1>17, <2>1, <2>2
<1>18. CASE j = 16
  <2>1. MimeTypes[16][1] = <<".", "t", "i", "f">>
    BY DEF MimeTypes
  <2>2. <<".", "t", "i", "f">> \in Seq(W) /\ <<".", "t", "i", "f">> # <<>>
    BY <1>2
  <2> QED
    BY <1>18, <2>1, <2>2
<1> QED
  BY <1>1, <1>3, <1>4, <1>5, <1>6, <1>7, <1>8, <1>9, <1>10, <1>11, <1>12, <1>13, <1>14, <1>15, <1>16, <1>17, <1>18

\* One character in lower case.
Lowered(c) == IF c \in DOMAIN Small THEN Small[c] ELSE c

\* A text in lower case, character by character.
LEMMA ToLowerIs ==
    ASSUME NEW V, NEW s \in Seq(V)
    PROVE  /\ ToLower(s) \in Seq({Lowered(c) : c \in V}) /\ Len(ToLower(s)) = Len(s)
           /\ \A i \in 1 .. Len(s) : ToLower(s)[i] = Lowered(s[i])
<1>1. PICK n \in Nat : n = Len(s) /\ DOMAIN s = 1 .. n
  OBVIOUS
<1>2. PICK f : f = [i \in 1 .. n |-> Lowered(s[i])]
  OBVIOUS
<1>3. ToLower(s) = f
  BY <1>1, <1>2 DEF ToLower, Lowered
<1>4. DOMAIN f = 1 .. n /\ f = [i \in DOMAIN f |-> f[i]] /\ \A i \in 1 .. n : f[i] = Lowered(s[i])
  BY <1>2
<1>5. PICK W : W = {Lowered(c) : c \in V}
  OBVIOUS
<1>6. \A i \in 1 .. n : f[i] \in W
  <2>1. ASSUME NEW i \in 1 .. n PROVE f[i] \in W
    <3>1. s[i] \in V /\ f[i] = Lowered(s[i])
      BY <1>1, <1>4
    <3> QED
      BY <1>5, <3>1
  <2> QED
    BY <2>1
<1>7. f \in Seq(W) /\ Len(f) = n
  BY <1>4, <1>6, EachIs
<1> QED
  BY <1>1, <1>3, <1>4, <1>5, <1>7

\* A name with one of the ends, in lower case, has the type of that end.
LEMMA TypeGuessed ==
    ASSUME NEW V, NEW name, ToLower(name) \in Seq(V), NEW i \in DOMAIN MimeTypes,
           EndsWith(ToLower(name), MimeTypes[i][1])
    PROVE  GuessMimeType(name) = MimeTypes[i][2]
<1>0. PICK s \in Seq(V) : s = ToLower(name)
  OBVIOUS
<1> DEFINE I == {j \in 1 .. Len(MimeTypes) : EndsWith(s, MimeTypes[j][1])}
<1>1. PICK W : W = V \cup Letters
  OBVIOUS
<1>2. V \subseteq W /\ Letters \subseteq W
  BY <1>1
<1>3. s \in Seq(W)
  BY <1>2, SeqMonotonic
<1>4. DOMAIN MimeTypes = 1 .. Len(MimeTypes)
  BY DEF MimeTypes
<1>5. i \in I /\ I \in SUBSET Nat
  BY <1>0, <1>4
<1>6. GuessMimeType(name) = LET k == IF I # {} THEN Min(I) ELSE 0
                            IN  IF k = 0 THEN "application/octet-stream" ELSE MimeTypes[k][2]
  BY <1>0 DEF GuessMimeType, SelectInSeq
<1>7. \A j \in I : j \in DOMAIN MimeTypes /\ EndsWith(s, MimeTypes[j][1]) /\ j # 0
  BY <1>4
<1> HIDE DEF I
<1>8. PICK k \in I : \A j \in I : k <= j
  BY <1>5, LeastExists
<1>9. Min(I) = k
  <2>1. I \in SUBSET Int
    BY <1>5
  <2> QED
    BY <1>8, <2>1, MinIs
<1>10. GuessMimeType(name) = MimeTypes[k][2]
  BY <1>5, <1>6, <1>7, <1>9
<1>11. MimeTypes[k][2] = TypeByEnd(s)
  BY <1>2, <1>3, <1>7, TypesAgree
<1>12. MimeTypes[i][2] = TypeByEnd(s)
  BY <1>0, <1>2, <1>3, TypesAgree
<1> QED
  BY <1>10, <1>11, <1>12

=============================================================================
