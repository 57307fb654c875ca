-------------------------- MODULE ConnectionProofs --------------------------
(***************************************************************************)
(* Connection implements Exchange: the invariant of a connection, its      *)
(* types, the length of what it has to send, and the refinement, for any   *)
(* bodies, buffer size, shapes of answers and number of requests.          *)
(*                                                                         *)
(* Slice(s, a, b) of StringProofs names what is between two points of a    *)
(* request or of an answer; the invariant says where those points are.     *)
(***************************************************************************)
EXTENDS Connection, StringProofs

-----------------------------------------------------------------------------
(* What is before and after a point of a sequence. *)

\* A slice of a slice.
LEMMA SliceOfSlice ==
    ASSUME NEW V, NEW s \in Seq(V), NEW a \in Nat, NEW b \in Nat, a <= b, b <= Len(s),
           NEW k \in Nat, k <= b - a
    PROVE  /\ AtMost(Slice(s, a, b), k) = Slice(s, a, a + k)
           /\ Without(Slice(s, a, b), k) = Slice(s, a + k, b)
<1> DEFINE t == Slice(s, a, b)
<1>0. t \in Seq(V) /\ Len(t) = b - a /\ \A j \in 1 .. b - a : t[j] = s[a + j]
  BY SliceIs
<1>1. /\ t \in Seq(V) /\ Len(t) = b - a /\ \A j \in 1 .. b - a : t[j] = s[a + j]
      /\ a + k \in Nat /\ a + k <= b /\ a <= a + k /\ Len(s) \in Nat
  BY <1>0
<1> HIDE DEF t
<1>2. /\ Slice(s, a, a + k) \in Seq(V) /\ Len(Slice(s, a, a + k)) = k
      /\ \A j \in 1 .. k : Slice(s, a, a + k)[j] = s[a + j]
  <2>1. PICK m \in Nat : m = a + k
    BY <1>1
  <2>2. a <= m /\ m <= Len(s)
    BY <1>1, <2>1
  <2>3. /\ Slice(s, a, m) \in Seq(V) /\ Len(Slice(s, a, m)) = m - a
        /\ \A j \in 1 .. m - a : Slice(s, a, m)[j] = s[a + j]
    BY <2>2, SliceIs
  <2> QED
    BY <2>1, <2>3
<1>3. /\ Slice(s, a + k, b) \in Seq(V) /\ Len(Slice(s, a + k, b)) = b - (a + k)
      /\ \A j \in 1 .. b - (a + k) : Slice(s, a + k, b)[j] = s[(a + k) + j]
  <2>1. PICK m \in Nat : m = a + k
    BY <1>1
  <2>2. m <= b /\ b <= Len(s)
    BY <1>1, <2>1
  <2>3. /\ Slice(s, m, b) \in Seq(V) /\ Len(Slice(s, m, b)) = b - m
        /\ \A j \in 1 .. b - m : Slice(s, m, b)[j] = s[m + j]
    BY <2>2, SliceIs
  <2> QED
    BY <2>1, <2>3
<1>4. /\ Slice(t, 0, k) \in Seq(V) /\ Len(Slice(t, 0, k)) = k
      /\ \A j \in 1 .. k : Slice(t, 0, k)[j] = t[j]
  BY <1>1, FirstIs
<1>5. /\ Slice(t, k, b - a) \in Seq(V) /\ Len(Slice(t, k, b - a)) = (b - a) - k
      /\ \A j \in 1 .. (b - a) - k : Slice(t, k, b - a)[j] = t[k + j]
  <2>1. t \in Seq(V) /\ k <= Len(t)
    BY <1>1
  <2>2. /\ Slice(t, k, Len(t)) \in Seq(V) /\ Len(Slice(t, k, Len(t))) = Len(t) - k
        /\ \A j \in 1 .. Len(t) - k : Slice(t, k, Len(t))[j] = t[k + j]
    BY <2>1, RestIs
  <2> QED
    BY <1>1, <2>2
<1>6. Slice(t, 0, k) = Slice(s, a, a + k)
  <2>1. /\ Slice(t, 0, k) \in Seq(V) /\ Slice(s, a, a + k) \in Seq(V)
        /\ Len(Slice(t, 0, k)) = Len(Slice(s, a, a + k))
    BY <1>2, <1>4
  <2>2. \A j \in 1 .. k : Slice(t, 0, k)[j] = Slice(s, a, a + k)[j]
    <3>1. ASSUME NEW j \in 1 .. k PROVE Slice(t, 0, k)[j] = Slice(s, a, a + k)[j]
      <4>1. t[j] = s[a + j]
        BY <1>1
      <4>2. Slice(t, 0, k)[j] = t[j]
        BY <1>4
      <4>3. Slice(s, a, a + k)[j] = s[a + j]
        BY <1>2
      <4> QED
        BY <4>1, <4>2, <4>3
    <3> QED
      BY <3>1
  <2>3. Len(Slice(t, 0, k)) = k
    BY <1>4
  <2>4. \A j \in 1 .. Len(Slice(t, 0, k)) : Slice(t, 0, k)[j] = Slice(s, a, a + k)[j]
    BY <2>2, <2>3
  <2> QED
    BY <2>1, <2>4, SeqEqual
<1>7. Slice(t, k, b - a) = Slice(s, a + k, b)
  <2>1. \A j \in 1 .. (b - a) - k : t[k + j] = s[(a + k) + j]
    BY <1>1
  <2>2. /\ Slice(t, k, b - a) \in Seq(V) /\ Slice(s, a + k, b) \in Seq(V)
        /\ Len(Slice(t, k, b - a)) = Len(Slice(s, a + k, b))
    BY <1>1, <1>3, <1>5
  <2>3. \A j \in 1 .. Len(Slice(t, k, b - a)) : Slice(t, k, b - a)[j] = Slice(s, a + k, b)[j]
    <3>1. \A j \in 1 .. (b - a) - k :
             Slice(t, k, b - a)[j] = t[k + j] /\ Slice(s, a + k, b)[j] = s[(a + k) + j]
      BY <1>1, <1>3, <1>5
    <3> QED
      BY <1>5, <2>1, <3>1
  <2> QED
    BY <2>2, <2>3, SeqEqual
<1>8. AtMost(t, k) = Slice(t, 0, k) /\ Without(t, k) = Slice(t, k, b - a)
  BY <1>1 DEF AtMost, Without, Slice
<1> QED
  BY <1>6, <1>7, <1>8 DEF t

\* A sequence is what is before a point and what is after it.
LEMMA Split ==
    ASSUME NEW V, NEW s \in Seq(V), NEW k \in 0 .. Len(s)
    PROVE  /\ AtMost(s, k) \in Seq(V) /\ Len(AtMost(s, k)) = k
           /\ Without(s, k) \in Seq(V) /\ Len(Without(s, k)) = Len(s) - k
           /\ s = AtMost(s, k) \o Without(s, k)
           /\ \A j \in 1 .. k : AtMost(s, k)[j] = s[j]
           /\ \A j \in 1 .. Len(s) - k : Without(s, k)[j] = s[k + j]
<1>1. AtMost(s, k) = Slice(s, 0, k) /\ Without(s, k) = Slice(s, k, Len(s))
  BY DEF AtMost, Without, Slice
<1>2. /\ Slice(s, 0, k) \in Seq(V) /\ Len(Slice(s, 0, k)) = k
      /\ \A j \in 1 .. k : Slice(s, 0, k)[j] = s[j]
  BY FirstIs
<1>3. /\ Slice(s, k, Len(s)) \in Seq(V) /\ Len(Slice(s, k, Len(s))) = Len(s) - k
      /\ \A j \in 1 .. Len(s) - k : Slice(s, k, Len(s))[j] = s[k + j]
  BY RestIs
<1>4. s = Slice(s, 0, k) \o Slice(s, k, Len(s))
  <2>1. 0 <= k /\ k <= Len(s) /\ Len(s) \in Nat
    OBVIOUS
  <2>2. Slice(s, 0, k) \o Slice(s, k, Len(s)) = Slice(s, 0, Len(s))
    BY <2>1, SlicesJoin
  <2> QED
    BY <2>2, SliceFull
<1> QED
  BY <1>1, <1>2, <1>3, <1>4

\* So is a concatenation.
LEMMA FlattenSplit ==
    ASSUME NEW V, NEW s \in Seq(Seq(V)), NEW k \in 0 .. Len(s)
    PROVE  FlattenSeq(s) = FlattenSeq(AtMost(s, k)) \o FlattenSeq(Without(s, k))
<1>1. /\ AtMost(s, k) \in Seq(Seq(V)) /\ Without(s, k) \in Seq(Seq(V))
      /\ s = AtMost(s, k) \o Without(s, k)
  BY Split
<1> QED
  BY <1>1, FlattenConcat

\* A concatenation starts with the first sequence.
LEMMA FlattenHead ==
    ASSUME NEW V, NEW s \in Seq(Seq(V)), s # <<>>
    PROVE  /\ Head(s) \in Seq(V) /\ Tail(s) \in Seq(Seq(V))
           /\ FlattenSeq(s) = Head(s) \o FlattenSeq(Tail(s))
<1>1. Len(s) \in Nat \ {0} /\ s[1] \in Seq(V) /\ Head(s) = s[1] /\ 1 \in 0 .. Len(s)
  OBVIOUS
<1>2. /\ AtMost(s, 1) \in Seq(Seq(V)) /\ Len(AtMost(s, 1)) = 1 /\ AtMost(s, 1)[1] = s[1]
      /\ Without(s, 1) \in Seq(Seq(V))
  <2>1. PICK k \in 0 .. Len(s) : k = 1
    BY <1>1
  <2>2. /\ AtMost(s, k) \in Seq(Seq(V)) /\ Len(AtMost(s, k)) = k
        /\ \A j \in 1 .. k : AtMost(s, k)[j] = s[j]
        /\ Without(s, k) \in Seq(Seq(V))
    BY Split
  <2> QED
    BY <2>1, <2>2
<1>3. AtMost(s, 1) = <<s[1]>>
  BY <1>2
<1>4. Tail(s) = Without(s, 1)
  BY TailIsSubSeq DEF Without
<1>5. FlattenSeq(s) = FlattenSeq(AtMost(s, 1)) \o FlattenSeq(Without(s, 1))
  BY <1>1, FlattenSplit
<1> QED
  BY <1>1, <1>2, <1>3, <1>4, <1>5, FlattenOne

-----------------------------------------------------------------------------
(* Answers and their buffers. *)

Buffer == Seq(Unit) \ {<<>>}

\* Type, length and elements of an answer.
LEMMA UnitsAre ==
    ASSUME NEW i \in Nat, NEW n \in Nat
    PROVE  /\ Units(i, n) \in Seq(Unit) /\ Len(Units(i, n)) = n
           /\ \A k \in 1 .. n : Units(i, n)[k] = <<i, k, n>>
<1>1. \A k \in 1 .. n : <<i, k, n>> \in Unit
  BY DEF Unit
<1>2. Units(i, n) \in [1 .. n -> Unit]
  BY <1>1 DEF Units
<1> QED
  BY <1>2 DEF Units

\* The buffers of an answer end one behind the other, the last one at its end.
LEMMA EndsGrow ==
    ASSUME NEW shape \in Shapes
    PROVE  /\ Len(shape) \in Nat \ {0} /\ Last(shape) \in Nat \ {0}
           /\ \A b \in 1 .. Len(shape) :
                 /\ shape[b] \in Nat \ {0} /\ Start(shape, b) \in Nat
                 /\ Start(shape, b) < shape[b] /\ shape[b] <= Last(shape)
<1>1. /\ shape \in Seq(Nat \ {0}) /\ shape # <<>>
      /\ \A b \in 2 .. Len(shape) : shape[b - 1] < shape[b]
  BY ConnectionAssumption
<1>2. Len(shape) \in Nat \ {0} /\ \A b \in 1 .. Len(shape) : shape[b] \in Nat \ {0}
  BY <1>1
<1> DEFINE S == {m \in Nat : m \in 1 .. Len(shape) => \A b \in 1 .. m : shape[b] <= shape[m]}
<1>3. 0 \in S
  OBVIOUS
<1>4. ASSUME NEW m \in S \cap Nat PROVE m + 1 \in S
  <2>1. SUFFICES ASSUME m + 1 \in 1 .. Len(shape), NEW b \in 1 .. m + 1
                 PROVE  shape[b] <= shape[m + 1]
    OBVIOUS
  <2>2. CASE b = m + 1
    BY <1>2, <2>1, <2>2
  <2>3. CASE b \in 1 .. m
    <3>1. m \in 1 .. Len(shape) /\ m + 1 \in 2 .. Len(shape) /\ (m + 1) - 1 = m
      BY <1>2, <2>1, <2>3
    <3>2. shape[b] <= shape[m]
      BY <2>3, <3>1
    <3>3. shape[m] < shape[m + 1]
      BY <1>1, <3>1
    <3> QED
      BY <1>2, <2>1, <2>3, <3>1, <3>2, <3>3
  <2> QED
    BY <2>1, <2>2, <2>3
<1>5. Nat \subseteq S
  <2> HIDE DEF S
  <2> QED
    BY <1>3, <1>4, Induction
<1>6. \A b \in 1 .. Len(shape) : shape[b] <= Last(shape)
  BY <1>2, <1>5 DEF Last
<1>7. ASSUME NEW b \in 1 .. Len(shape) PROVE Start(shape, b) \in Nat /\ Start(shape, b) < shape[b]
  <2>1. CASE b = 1
    BY <1>2, <2>1 DEF Start
  <2>2. CASE b # 1
    BY <1>1, <1>2, <2>2 DEF Start
  <2> QED
    BY <2>1, <2>2
<1> QED
  BY <1>2, <1>6, <1>7 DEF Last

\* Type, length and elements of the buffers of an answer.
LEMMA BuffersAre ==
    ASSUME NEW i \in Nat, NEW shape \in Shapes
    PROVE  /\ Buffers(i, shape) \in Seq(Buffer) /\ Len(Buffers(i, shape)) = Len(shape)
           /\ \A b \in 1 .. Len(shape) :
                 Buffers(i, shape)[b]
                     = SubSeq(Units(i, Last(shape)), Start(shape, b) + 1, shape[b])
<1>1. Len(shape) \in Nat \ {0} /\ Last(shape) \in Nat \ {0}
  BY EndsGrow
<1>2. /\ Units(i, Last(shape)) \in Seq(Unit) /\ Len(Units(i, Last(shape))) = Last(shape)
  BY <1>1, UnitsAre
<1>3. ASSUME NEW b \in 1 .. Len(shape)
      PROVE  SubSeq(Units(i, Last(shape)), Start(shape, b) + 1, shape[b]) \in Buffer
  <2>1. /\ shape[b] \in Nat \ {0} /\ Start(shape, b) \in Nat
        /\ Start(shape, b) < shape[b] /\ shape[b] <= Last(shape)
    BY EndsGrow
  <2>2. PICK m \in Int, n \in Int : m = Start(shape, b) + 1 /\ n = shape[b]
    BY <2>1
  <2>3. \A j \in m .. n : Units(i, Last(shape))[j] \in Unit
    BY <1>1, <1>2, <2>1, <2>2
  <2>4. /\ SubSeq(Units(i, Last(shape)), m, n) \in Seq(Unit)
        /\ Len(SubSeq(Units(i, Last(shape)), m, n)) = IF m <= n THEN n - m + 1 ELSE 0
    BY <2>2, <2>3, SubSeqProperties
  <2>5. Len(SubSeq(Units(i, Last(shape)), m, n)) # 0
    BY <2>1, <2>2, <2>4
  <2> QED
    BY <2>2, <2>4, <2>5 DEF Buffer
<1>4. PICK l \in Nat : l = Len(shape)
  BY <1>1
<1>5. Buffers(i, shape) \in [1 .. l -> Buffer]
  BY <1>3, <1>4 DEF Buffers
<1>6. Buffers(i, shape) \in Seq(Buffer) /\ Len(Buffers(i, shape)) = l
  BY <1>5
<1> QED
  BY <1>4, <1>6 DEF Buffers

\* The units that a sequence of buffers holds.
LEMMA BuffersOf ==
    ASSUME NEW s \in Seq(Buffer)
    PROVE  s \in Seq(Seq(Unit)) /\ FlattenSeq(s) \in Seq(Unit) /\ (FlattenSeq(s) = <<>> <=> s = <<>>)
BY FlattenEmpty, FlattenType DEF Buffer

\* The first buffers of an answer hold its first units.
LEMMA BuffersJoin ==
    ASSUME NEW i \in Nat, NEW shape \in Shapes, NEW now \in 0 .. Len(shape)
    PROVE  FlattenSeq(AtMost(Buffers(i, shape), now))
               = SubSeq(Units(i, Last(shape)), 1, Start(shape, now + 1))
<1> DEFINE bufs == Buffers(i, shape)
           units == Units(i, Last(shape))
           S == {m \in Nat : m \in 0 .. Len(shape) =>
                     FlattenSeq(AtMost(bufs, m)) = SubSeq(units, 1, Start(shape, m + 1))}
<1>1. Len(shape) \in Nat \ {0} /\ Last(shape) \in Nat \ {0}
  BY EndsGrow
<1>2. units \in Seq(Unit) /\ Len(units) = Last(shape)
  BY <1>1, UnitsAre
<1>3. bufs \in Seq(Buffer) /\ bufs \in Seq(Seq(Unit)) /\ Len(bufs) = Len(shape)
  BY BuffersAre, BuffersOf
<1>4. 0 \in S
  <2>1. AtMost(bufs, 0) = <<>> /\ SubSeq(units, 1, 0) = <<>>
    BY SubSeqEmpty DEF AtMost
  <2>2. Start(shape, 0 + 1) = 0
    BY DEF Start
  <2> QED
    BY <2>1, <2>2, FlattenNone
<1>5. ASSUME NEW m \in S \cap Nat PROVE m + 1 \in S
  <2>1. SUFFICES ASSUME m + 1 \in 0 .. Len(shape)
                 PROVE  FlattenSeq(AtMost(bufs, m + 1)) = SubSeq(units, 1, Start(shape, (m + 1) + 1))
    OBVIOUS
  <2>2. PICK b \in 1 .. Len(shape) : b = m + 1
    BY <1>1, <2>1
  <2>3. Start(shape, b + 1) = shape[b]
    BY DEF Start
  <2>4. /\ shape[b] \in Nat \ {0} /\ Start(shape, b) \in Nat
        /\ Start(shape, b) < shape[b] /\ shape[b] <= Last(shape)
    BY EndsGrow
  <2>5. bufs[b] = SubSeq(units, Start(shape, b) + 1, shape[b])
    BY BuffersAre
  <2> HIDE DEF bufs, units
  <2>6. bufs[b] \in Seq(Unit)
    BY <1>3
  <2>7. AtMost(bufs, m) \in Seq(Seq(Unit))
    <3>1. m \in 0 .. Len(bufs)
      BY <1>3, <2>2
    <3> QED
      BY <1>3, <3>1, Split
  <2>8. AtMost(bufs, b) = Append(AtMost(bufs, m), bufs[b])
    <3>1. SubSeq(bufs, 1, b) = SubSeq(bufs, 1, b - 1) \o <<bufs[b]>>
      <4>1. 1 \in 1 .. Len(bufs) /\ b \in 1 .. Len(bufs)
        BY <1>1, <1>3
      <4> QED
        BY <1>3, <4>1, SubSeqRecursiveSecond
    <3>2. Append(AtMost(bufs, m), bufs[b]) = AtMost(bufs, m) \o <<bufs[b]>>
      BY <2>6, <2>7, AppendIsConcat
    <3> QED
      BY <2>2, <3>1, <3>2 DEF AtMost
  <2>9. FlattenSeq(AtMost(bufs, m)) = SubSeq(units, 1, Start(shape, b))
    BY <2>2
  <2>10. FlattenSeq(AtMost(bufs, b)) = SubSeq(units, 1, Start(shape, b)) \o bufs[b]
    BY <2>6, <2>7, <2>8, <2>9, FlattenAdds
  <2>11. SubSeq(units, 1, Start(shape, b)) \o SubSeq(units, Start(shape, b) + 1, shape[b])
             = SubSeq(units, 1, shape[b])
    <3>1. 0 \in Nat /\ 0 <= Start(shape, b) /\ shape[b] \in Nat /\ Start(shape, b) <= shape[b]
      BY <2>4
    <3>2. Slice(units, 0, Start(shape, b)) \o Slice(units, Start(shape, b), shape[b])
             = Slice(units, 0, shape[b])
      BY <1>2, <2>4, <3>1, SlicesJoin, ZenonT(30)
    <3>3. /\ Slice(units, 0, Start(shape, b)) = SubSeq(units, 1, Start(shape, b))
          /\ Slice(units, 0, shape[b]) = SubSeq(units, 1, shape[b])
      <4>1. Start(shape, b) <= Len(units) /\ shape[b] <= Len(units) /\ shape[b] \in Nat
        BY <1>1, <1>2, <2>4
      <4> QED
        BY <1>2, <2>4, <4>1, FirstIs
    <3> QED
      BY <3>2, <3>3 DEF Slice
  <2> QED
    BY <2>2, <2>3, <2>5, <2>10, <2>11
<1>6. Nat \subseteq S
  <2> HIDE DEF S
  <2> QED
    BY <1>4, <1>5, Induction
<1> QED
  BY <1>1, <1>6

\* The buffers a handler writes at once and those it keeps are the two parts of the
\* answer.
LEMMA AnswerCut ==
    ASSUME NEW i \in Nat, NEW shape \in Shapes, NEW now \in 0 .. Len(shape)
    PROVE  \E w, n \in Nat :
              /\ n = Last(shape) /\ w <= n
              /\ AtMost(Buffers(i, shape), now) \in Seq(Buffer)
              /\ Without(Buffers(i, shape), now) \in Seq(Buffer)
              /\ FlattenSeq(AtMost(Buffers(i, shape), now)) = Slice(Units(i, n), 0, w)
              /\ FlattenSeq(Without(Buffers(i, shape), now)) = Slice(Units(i, n), w, n)
              /\ now = Len(shape) => Without(Buffers(i, shape), now) = <<>>
<1> DEFINE bufs == Buffers(i, shape)
           n == Last(shape)
           w == Start(shape, now + 1)
           units == Units(i, n)
           ready == AtMost(bufs, now)
           later == Without(bufs, now)
<1>1. Len(shape) \in Nat \ {0} /\ n \in Nat \ {0}
  BY EndsGrow
<1>2. w \in Nat /\ w <= n
  <2>1. CASE now = 0
    BY <1>1, <2>1 DEF Start
  <2>2. CASE now # 0
    <3>1. now \in 1 .. Len(shape)
      BY <1>1, <2>2
    <3>2. shape[now] \in Nat \ {0} /\ shape[now] <= Last(shape)
      BY <3>1, EndsGrow
    <3>3. Start(shape, now + 1) = shape[now]
      BY <2>2, <3>1 DEF Start
    <3> QED
      BY <3>2, <3>3
  <2> QED
    BY <2>1, <2>2
<1>3. bufs \in Seq(Buffer) /\ Len(bufs) = Len(shape)
  BY BuffersAre
<1>4. units \in Seq(Unit) /\ Len(units) = n
  BY <1>1, UnitsAre
<1>5. FlattenSeq(ready) = SubSeq(units, 1, w)
  BY BuffersJoin
<1>6. FlattenSeq(bufs) = units
  <2>1. PICK all \in 0 .. Len(shape) : all = Len(shape)
    BY <1>1
  <2>2. FlattenSeq(AtMost(bufs, all)) = SubSeq(units, 1, Start(shape, all + 1))
    BY BuffersJoin
  <2>3. Start(shape, all + 1) = n
    BY <1>1, <2>1 DEF Start, Last
  <2> HIDE DEF bufs, units
  <2>4. AtMost(bufs, all) = bufs /\ SubSeq(units, 1, n) = units
    BY <1>3, <1>4, <2>1, SubSeqFull DEF AtMost
  <2> QED
    BY <2>2, <2>3, <2>4
<1> HIDE DEF bufs, units, w, n
<1>7. ready \in Seq(Buffer) /\ later \in Seq(Buffer) /\ Len(later) = Len(bufs) - now
  BY <1>3, Split
<1>8. FlattenSeq(bufs) = FlattenSeq(ready) \o FlattenSeq(later)
  <2>1. bufs \in Seq(Seq(Unit))
    BY <1>3, BuffersOf
  <2> QED
    BY <1>3, <2>1, FlattenSplit
<1>9. Slice(units, 0, w) = SubSeq(units, 1, w)
  BY <1>2, <1>4, FirstIs
<1>10. units = Slice(units, 0, w) \o Slice(units, w, n)
  BY <1>2, <1>4, Split DEF AtMost, Without, Slice
<1>11. FlattenSeq(later) = Slice(units, w, n)
  <2>1. /\ FlattenSeq(later) \in Seq(Unit) /\ Slice(units, 0, w) \in Seq(Unit)
        /\ Slice(units, w, n) \in Seq(Unit)
    <3>1. n \in Nat /\ n <= Len(units) /\ w <= Len(units)
      BY <1>1, <1>2, <1>4
    <3> HIDE DEF ready, later
    <3> QED
      BY <1>2, <1>4, <1>7, <3>1, BuffersOf, SliceIs, FirstIs
  <2>2. Slice(units, 0, w) \o FlattenSeq(later) = Slice(units, 0, w) \o Slice(units, w, n)
    BY <1>5, <1>6, <1>8, <1>9, <1>10
  <2> HIDE DEF later
  <2> QED
    BY <2>1, <2>2, ConcatSimplifications
<1>12. now = Len(shape) => later = <<>>
  BY <1>1, <1>3, <1>7
<1>13. n \in Nat /\ n = Last(shape)
  BY <1>1 DEF n
<1> QED
  BY <1>2, <1>5, <1>7, <1>9, <1>11, <1>12, <1>13 DEF bufs, units

\* What the kernel takes and what stays are the two parts of what was to be sent
\* (connection.c:207-248).
LEMMA TakenUnsent ==
    ASSUME NEW bufs \in Seq(Buffer), NEW whole \in 0 .. Len(bufs), NEW part \in Nat,
           whole + part > 0,
           part > 0 => whole < Len(bufs) /\ part < Len(bufs[whole + 1])
    PROVE  /\ Unsent(bufs, whole, part) \in Seq(Buffer)
           /\ Taken(bufs, whole, part) \in Seq(Unit)
           /\ Taken(bufs, whole, part) # <<>>
           /\ FlattenSeq(bufs) = Taken(bufs, whole, part) \o FlattenSeq(Unsent(bufs, whole, part))
<1> DEFINE sent == AtMost(bufs, whole)
           rest == Without(bufs, whole)
<1>1. /\ sent \in Seq(Buffer) /\ rest \in Seq(Buffer)
      /\ Len(sent) = whole /\ Len(rest) = Len(bufs) - whole
      /\ \A j \in 1 .. Len(bufs) - whole : rest[j] = bufs[whole + j]
  BY Split
<1>2. /\ bufs \in Seq(Seq(Unit))
      /\ sent \in Seq(Seq(Unit)) /\ FlattenSeq(sent) \in Seq(Unit)
      /\ FlattenSeq(sent) = <<>> <=> sent = <<>>
      /\ rest \in Seq(Seq(Unit)) /\ FlattenSeq(rest) \in Seq(Unit)
  <2> HIDE DEF sent, rest
  <2> QED
    BY <1>1, BuffersOf
<1>3. FlattenSeq(bufs) = FlattenSeq(sent) \o FlattenSeq(rest)
  BY <1>2, FlattenSplit
<1>4. CASE part = 0
  <2>1. Taken(bufs, whole, part) = FlattenSeq(sent) /\ Unsent(bufs, whole, part) = rest
    <3>1. FlattenSeq(sent) \o <<>> = FlattenSeq(sent)
      BY <1>2, ConcatEmptySeq
    <3> QED
      BY <1>4, <3>1 DEF Taken, Unsent
  <2>2. sent # <<>>
    BY <1>1, <1>4
  <2> HIDE DEF sent, rest
  <2> QED
    BY <1>1, <1>2, <1>3, <2>1, <2>2
<1>5. CASE part # 0
  <2> DEFINE next == bufs[whole + 1]
             cut  == Without(next, part)
             took == AtMost(next, part)
  <2>1. /\ rest # <<>> /\ Head(rest) = next /\ rest[1] = next
        /\ next \in Seq(Unit) /\ part \in 0 .. Len(next) /\ part < Len(next)
    <3>1. whole + 1 \in 1 .. Len(bufs) /\ 1 \in 1 .. Len(bufs) - whole
      BY <1>5
    <3>2. rest[1] = bufs[whole + 1] /\ bufs[whole + 1] \in Seq(Unit)
      BY <1>1, <1>2, <3>1, SMTT(30)
    <3> QED
      BY <1>1, <1>5, <3>1, <3>2
  <2> HIDE DEF sent, rest, next
  <2>2. /\ took \in Seq(Unit) /\ Len(took) = part
        /\ cut \in Seq(Unit) /\ Len(cut) = Len(next) - part
        /\ next = took \o cut
    <3>1. next \in Seq(Unit) /\ part \in 0 .. Len(next)
      BY <2>1
    <3> QED
      BY <3>1, Split
  <2>3. cut \in Buffer
    BY <2>1, <2>2 DEF Buffer
  <2> DEFINE left == [rest EXCEPT ![1] = cut]
  <2>4. /\ left \in Seq(Buffer) /\ left # <<>> /\ Head(left) = cut /\ Tail(left) = Tail(rest)
    <3>1. 1 \in 1 .. Len(rest)
      BY <1>1, <2>1
    <3>2. /\ left \in Seq(Buffer) /\ Len(left) = Len(rest)
          /\ \A j \in 1 .. Len(rest) : left[j] = IF j = 1 THEN cut ELSE rest[j]
      BY <1>1, <2>3, <3>1, ExceptSeq
    <3>3. left # <<>> /\ Head(left) = cut
      <4> HIDE DEF left, cut
      <4> QED
        BY <3>1, <3>2
    <3>4. Tail(left) = Tail(rest)
      <4> HIDE DEF left, cut
      <4>1. /\ Tail(left) \in Seq(Buffer) /\ Len(Tail(left)) = Len(left) - 1
            /\ \A j \in 1 .. Len(Tail(left)) : Tail(left)[j] = left[j + 1]
        BY <3>2, <3>3, HeadTailProperties
      <4>2. /\ Tail(rest) \in Seq(Buffer) /\ Len(Tail(rest)) = Len(rest) - 1
            /\ \A j \in 1 .. Len(Tail(rest)) : Tail(rest)[j] = rest[j + 1]
        BY <1>1, <2>1, HeadTailProperties
      <4>3. \A j \in 1 .. Len(rest) - 1 : left[j + 1] = rest[j + 1]
        BY <3>2
      <4> QED
        BY <3>2, <4>1, <4>2, <4>3, SeqEqual
    <3> QED
      BY <3>2, <3>3, <3>4
  <2> HIDE DEF cut, left, took
  <2>5. /\ Unsent(bufs, whole, part) = left
        /\ Taken(bufs, whole, part) = FlattenSeq(sent) \o took
    <3>1. Without(rest[1], part) = cut
      BY <2>1 DEF cut
    <3>2. Unsent(bufs, whole, part) = [rest EXCEPT ![1] = Without(rest[1], part)]
      BY <1>5 DEF Unsent, rest
    <3> QED
      BY <1>5, <3>1, <3>2 DEF Taken, sent, next, left, took
  <2> DEFINE more == FlattenSeq(Tail(rest))
  <2>6. left \in Seq(Seq(Unit)) /\ Tail(rest) \in Seq(Seq(Unit)) /\ more \in Seq(Unit)
    BY <1>2, <2>1, <2>4, BuffersOf, HeadTailProperties, FlattenType
  <2>7. FlattenSeq(rest) = next \o more /\ FlattenSeq(left) = cut \o more
    BY <1>2, <2>1, <2>4, <2>6, FlattenHead
  <2> HIDE DEF more
  <2>8. FlattenSeq(bufs) = (FlattenSeq(sent) \o took) \o (cut \o more)
    <3>1. next \o more = took \o (cut \o more)
      <4>1. took \in Seq(Unit) /\ cut \in Seq(Unit) /\ more \in Seq(Unit)
        BY <2>2, <2>6
      <4>2. (took \o cut) \o more = took \o (cut \o more)
        BY <4>1, ConcatAssociative
      <4> QED
        BY <2>2, <4>2
    <3>2. cut \o more \in Seq(Unit)
      BY <2>2, <2>6, ConcatProperties
    <3>3. FlattenSeq(sent) \o (took \o (cut \o more))
              = (FlattenSeq(sent) \o took) \o (cut \o more)
      <4>1. FlattenSeq(sent) \in Seq(Unit) /\ took \in Seq(Unit)
        BY <1>2, <2>2
      <4> DEFINE end == cut \o more
      <4>2. end \in Seq(Unit)
        BY <3>2
      <4> HIDE DEF end
      <4>3. (FlattenSeq(sent) \o took) \o end = FlattenSeq(sent) \o (took \o end)
        BY <4>1, <4>2, ConcatAssociative
      <4> QED
        BY <4>3 DEF end
    <3> QED
      BY <1>3, <2>7, <3>1, <3>3
  <2>9. /\ FlattenSeq(sent) \o took \in Seq(Unit)
        /\ FlattenSeq(sent) \o took # <<>>
    <3>1. took # <<>>
      BY <1>5, <2>2
    <3> QED
      BY <1>2, <2>2, <3>1, ConcatProperties, ConcatEqualIffEmpty
  <2> QED
    BY <2>4, <2>5, <2>7, <2>8, <2>9
<1> QED
  BY <1>4, <1>5

-----------------------------------------------------------------------------
(* The invariant. *)

Waiting == Len(handled) < Len(asked)
Current == asked[Len(asked)]

\* The current request does not have to reach a handler.
Excused == refused \/ spoiled \/ ~Fits(Current)

\* The requests carry their numbers, and at most the last one is unhandled.
Numbered ==
    /\ Len(handled) \in {Len(asked), Len(asked) - 1}
    /\ Len(asked) <= MaxAsk
    /\ \A i \in DOMAIN asked : \E n \in Bodies : asked[i] = Tokens(i, n)

\* recv_buf has the current request from its first token to token a.
Whole(a) ==
    /\ recvBuf = [data |-> Slice(Current, 0, a), left |-> Len(Current) - a]
    /\ a >= 2 /\ a < Len(Current)
    /\ ~refused /\ Fits(Current)

\* recv_buf has something that does not start with the start of a header.
Broken ==
    /\ recvBuf.data # <<>> /\ recvBuf.data[1][2] # -1 /\ recvBuf.left > 0
    /\ Excused

\* The server has read a tokens of the current request, m have arrived, and b
\* are not lost.
Read(a, m, b) ==
    /\ a <= m /\ m <= b /\ b <= Len(Current)
    /\ inbox = Slice(Current, a, m)
    /\ wire = Slice(Current, m, b)
    /\ a = 0 /\ m = 1 => spoiled
    /\ refused => a >= 1
    /\ \/ recvBuf = NoBuf /\ (a >= 1 => Excused)
       \/ Whole(a)
       \/ a >= 1 /\ Broken

Reading ==
    IF Waiting THEN \E a, m, b \in Nat : Read(a, m, b)
    ELSE wire = <<>> /\ inbox = <<>> /\ recvBuf = NoBuf /\ ~refused

\* Only the answer to the last request is still to be completed, and a connection
\* is freed with nothing in flight.
Keeping ==
    /\ held \in [DOMAIN held -> Seq(Buffer)]
    /\ DOMAIN held \subseteq 1 .. Len(handled)
    /\ \A j \in DOMAIN held : held[j] # <<>> => j = Len(asked)
    /\ ~open => held = <<>> /\ sendBuf = <<>> /\ gone # "no"

Owed    == FlattenSeq(LastBuffers(Len(handled)))
Pending == FlattenSeq(sendBuf)

\* The peer has d of the n units of the current answer.
Got(d, n) ==
    IF d = 0 THEN delivered # <<>> => Last(delivered)[1] < Len(asked)
    ELSE delivered # <<>> /\ Last(delivered) = <<Len(asked), d, n>>

\* ... and w have been written.
Sent(d, w, n) ==
    /\ d <= w /\ w <= n
    /\ Pending = Slice(Units(Len(asked), n), d, w)
    /\ Owed = Slice(Units(Len(asked), n), w, n)
    /\ Got(d, n)

Sending ==
    IF Waiting
    THEN /\ ~refused => sendBuf = <<>>
         /\ \A k \in DOMAIN Pending : Pending[k] = Status
         /\ delivered # <<>> => Last(delivered)[1] < Len(asked)
    ELSE IF asked = <<>> THEN sendBuf = <<>> /\ delivered = <<>>
    ELSE open => \E d, w, n \in Nat : Sent(d, w, n)

ReadTypes ==
    /\ asked \in Seq(Tokenised) /\ handled \in Seq(Seq(Token))
    /\ wire \in Seq(Token) /\ inbox \in Seq(Token)
    /\ gone \in {"no", "eof", "reset"}
    /\ recvBuf \in [data : Seq(Token), left : Nat]
    /\ refused \in BOOLEAN /\ spoiled \in BOOLEAN

SendTypes ==
    /\ sendBuf \in Seq(Buffer) /\ sendLen \in Nat /\ interest \in {"in", "out"}
    /\ delivered \in Seq(Unit) /\ open \in BOOLEAN

ReadInv == ReadTypes /\ Numbered /\ Reading
SendInv == SendTypes /\ SendLenExact /\ Keeping /\ Sending

IInv == ReadInv /\ SendInv

-----------------------------------------------------------------------------
(* Requests and what is read of them. *)

\* Type, length and elements of a request.
LEMMA TokensAre ==
    ASSUME NEW i \in 1 .. MaxAsk, NEW n \in Bodies
    PROVE  /\ n \in Nat /\ Tokens(i, n) \in Tokenised
           /\ Tokens(i, n) \in Seq(Token) /\ Len(Tokens(i, n)) = n + 2
           /\ \A p \in 1 .. n + 2 : Tokens(i, n)[p] = <<i, p - 2>>
<1>1. n \in Nat
  BY ConnectionAssumption
<1>2. PICK l \in Nat : l = n + 2
  BY <1>1
<1>3. \A p \in 1 .. l : <<i, p - 2>> \in Token
  BY <1>1, <1>2 DEF Token
<1>4. Tokens(i, n) = [p \in 1 .. l |-> <<i, p - 2>>]
  BY <1>2 DEF Tokens
<1>5. Tokens(i, n) \in [1 .. l -> Token]
  BY <1>3, <1>4
<1>6. Tokens(i, n) \in Seq(Token) /\ Len(Tokens(i, n)) = l
  BY <1>4, <1>5
<1>7. Tokens(i, n) \in Tokenised
  BY DEF Tokenised
<1> QED
  BY <1>1, <1>2, <1>4, <1>6, <1>7

\* The i-th request, n tokens of content.
IsRequest(r, i, n) ==
    /\ i \in 1 .. MaxAsk /\ n \in Nat
    /\ r \in Seq(Token) /\ Len(r) = n + 2
    /\ \A p \in 1 .. n + 2 : r[p] = <<i, p - 2>>

\* The current request is the last one.
LEMMA Counts ==
    ASSUME ReadInv
    PROVE  /\ Len(asked) \in Nat /\ Len(handled) \in Nat
           /\ Waiting => Len(asked) = Len(handled) + 1 /\ Len(asked) \in 1 .. MaxAsk
           /\ ~Waiting => Len(asked) = Len(handled)
BY DEF ReadInv, ReadTypes, Numbered, Waiting

\* ... and it is a request of the peer.
LEMMA CurrentIs ==
    ASSUME ReadInv, Waiting
    PROVE  /\ asked[Len(handled) + 1] = Current
           /\ Current \in Tokenised
           /\ \E n \in Nat : IsRequest(Current, Len(asked), n)
<1>1. Len(asked) = Len(handled) + 1 /\ Len(asked) \in 1 .. MaxAsk
  BY Counts
<1>2. Len(asked) \in DOMAIN asked
  BY <1>1 DEF ReadInv, ReadTypes
<1>3. PICK n \in Bodies : Current = Tokens(Len(asked), n)
  BY <1>2 DEF ReadInv, Numbered, Current
<1>4. IsRequest(Current, Len(asked), n) /\ n \in Nat /\ Current \in Tokenised
  BY <1>1, <1>3, TokensAre DEF IsRequest
<1> QED
  BY <1>1, <1>4 DEF Current

\* strstr finds the end of the header in a part of a request that has it.
LEMMA HeaderEnd ==
    ASSUME NEW r, NEW i, NEW n, IsRequest(r, i, n),
           NEW a \in Nat, NEW f \in Nat, a < f, f <= Len(r)
    PROVE  /\ a <= 1 /\ f >= 2 => HeaderLength(Slice(r, a, f)) = 2 - a
           /\ ~(a <= 1 /\ f >= 2) => HeaderLength(Slice(r, a, f)) = 0
<1> DEFINE s == Slice(r, a, f)
<1>1. s \in Seq(Token) /\ Len(s) = f - a /\ \A j \in 1 .. f - a : s[j] = r[a + j]
  <2>1. r \in Seq(Token) /\ a <= f
    BY DEF IsRequest
  <2> QED
    BY <2>1, SliceIs
<1>2. ASSUME NEW j \in 1 .. f - a PROVE s[j][2] = 0 <=> a + j = 2
  <2>1. a + j \in 1 .. n + 2
    BY DEF IsRequest
  <2>2. s[j] = <<i, (a + j) - 2>>
    BY <1>1, <2>1 DEF IsRequest
  <2> QED
    BY <2>1, <2>2
<1>3. DOMAIN s = 1 .. f - a
  BY <1>1
<1> HIDE DEF s
<1>4. CASE a <= 1 /\ f >= 2
  <2>1. PICK h \in 1 .. f - a : h = 2 - a
    BY <1>4
  <2>2. {j \in 1 .. Len(s) : s[j][2] = 0} = {h}
    BY <1>1, <1>2, <2>1
  <2>3. Min({h}) = h
    BY <2>1 DEF Min
  <2>4. \E p \in DOMAIN s : s[p][2] = 0
    BY <1>2, <1>3, <2>1
  <2>5. HeaderLength(s) = h
    BY <2>2, <2>3, <2>4 DEF HeaderLength, SelectInSeq
  <2> QED
    BY <1>4, <2>1, <2>5 DEF s
<1>5. CASE ~(a <= 1 /\ f >= 2)
  <2>1. ~ \E p \in DOMAIN s : s[p][2] = 0
    BY <1>2, <1>3, <1>5
  <2> QED
    BY <1>5, <2>1 DEF HeaderLength, s
<1> QED
  BY <1>4, <1>5

\* What the first recv takes.
LEMMA FirstPart ==
    ASSUME NEW r, NEW i, NEW n, IsRequest(r, i, n),
           NEW a \in Nat, NEW m \in Nat, a <= m, m <= Len(r),
           inbox = Slice(r, a, m), inbox # <<>>
    PROVE  /\ a < m
           /\ \E f \in Nat : /\ a < f /\ f <= m /\ (f = m \/ f >= a + 2)
                             /\ First = Slice(r, a, f) /\ Len(First) = f - a
                             /\ Without(inbox, Len(First)) = Slice(r, f, m)
<1>1. r \in Seq(Token) /\ Len(inbox) = m - a
  BY SliceIs DEF IsRequest
<1>2. a < m
  <2>1. SUFFICES ASSUME a = m PROVE FALSE
    OBVIOUS
  <2> QED
    BY <2>1, SliceNone
<1>3. BufSize \in Nat /\ BufSize >= 2
  BY ConnectionAssumption
<1>4. PICK k \in Nat : k = Min2(Len(inbox), BufSize)
  <2>1. m - a \in Nat /\ Min2(m - a, BufSize) \in Nat
    BY <1>2, <1>3 DEF Min2
  <2> QED
    BY <1>1, <2>1
<1>5. k <= m - a /\ k >= 1 /\ (k = m - a \/ k >= 2)
  BY <1>1, <1>2, <1>3, <1>4 DEF Min2
<1>6. PICK f \in Nat : f = a + k
  OBVIOUS
<1>7. First = Slice(r, a, f) /\ Without(inbox, k) = Slice(r, f, m)
  BY <1>1, <1>4, <1>5, <1>6, SliceOfSlice DEF First
<1>8. a <= f /\ f <= Len(r)
  BY <1>1, <1>5, <1>6 DEF IsRequest
<1>9. Len(First) = f - a
  BY <1>1, <1>7, <1>8, SliceIs
<1> QED
  BY <1>2, <1>5, <1>6, <1>7, <1>9

\* The tokens of a part of a request.
LEMMA StartIs ==
    ASSUME NEW r, NEW i, NEW n, IsRequest(r, i, n),
           NEW a \in Nat, NEW f \in Nat, a < f, f <= Len(r)
    PROVE  /\ Slice(r, a, f)[1] = <<i, a - 1>>
           /\ \A j \in 1 .. f - a : Slice(r, a, f)[j] = <<i, (a + j) - 2>>
           /\ Slice(r, a, f) # <<>>
<1>1. /\ Slice(r, a, f) \in Seq(Token) /\ Len(Slice(r, a, f)) = f - a
      /\ \A j \in 1 .. f - a : Slice(r, a, f)[j] = r[a + j]
  <2>1. r \in Seq(Token) /\ a <= f
    BY DEF IsRequest
  <2> QED
    BY <2>1, SliceIs
<1>2. \A j \in 1 .. f - a : a + j \in 1 .. n + 2
  BY DEF IsRequest
<1>3. \A j \in 1 .. f - a : Slice(r, a, f)[j] = <<i, (a + j) - 2>>
  BY <1>1, <1>2 DEF IsRequest
<1>4. 1 \in 1 .. f - a /\ (a + 1) - 2 = a - 1
  OBVIOUS
<1>5. Slice(r, a, f)[1] = <<i, (a + 1) - 2>>
  BY <1>3, <1>4
<1> QED
  BY <1>1, <1>3, <1>4, <1>5

-----------------------------------------------------------------------------
(* What the steps share. *)

\* The invariant gives the types.
LEMMA TypesHold == IInv => TypeOK
BY DEF IInv, ReadInv, ReadTypes, SendInv, SendTypes, Keeping, TypeOK, Buffer

\* A step that does not touch the answers keeps what is known of them.
LEMMA SendFrame ==
    ASSUME SendInv, gone' = gone \/ gone' # "no",
           UNCHANGED <<sendVars, held, delivered, open, asked, handled, refused>>
    PROVE  SendInv'
<1>1. /\ UNCHANGED <<sendBuf, sendLen, interest, held, delivered, open, asked, handled, refused>>
      /\ UNCHANGED <<Pending, Owed, Waiting>>
  BY DEF sendVars, Pending, Owed, LastBuffers, Waiting
<1>2. SendTypes' /\ SendLenExact'
  BY <1>1 DEF SendInv, SendTypes, SendLenExact
<1>3. Keeping'
  BY <1>1 DEF SendInv, Keeping
<1>4. Sending'
  BY <1>1 DEF SendInv, Sending, Sent, Got
<1> QED
  BY <1>2, <1>3, <1>4 DEF SendInv

\* A step that does not touch the requests keeps what is known of them.
LEMMA ReadFrame ==
    ASSUME ReadInv,
           UNCHANGED <<asked, handled, wire, inbox, recvBuf, gone, refused, spoiled>>
    PROVE  ReadInv'
<1>1. UNCHANGED <<Waiting, Current>>
  BY DEF Waiting, Current
<1>2. ReadTypes' /\ Numbered'
  BY DEF ReadInv, ReadTypes, Numbered
<1>3. Reading'
  BY <1>1 DEF ReadInv, Reading, Read, Whole, Broken, Excused
<1> QED
  BY <1>2, <1>3 DEF ReadInv

\* The peer's leaving and what the network loses do not matter to the reader.
LEMMA ReadLoses ==
    ASSUME ReadInv, gone' \in {"eof", "reset"}, wire' = <<>>, inbox' = inbox \/ inbox' = <<>>,
           UNCHANGED <<asked, handled, recvBuf, refused, spoiled>>
    PROVE  ReadInv'
<1>1. UNCHANGED <<Waiting, Current>>
  BY DEF Waiting, Current
<1>2. ReadTypes' /\ Numbered'
  BY EmptySeq DEF ReadInv, ReadTypes, Numbered
<1>3. CASE ~Waiting
  BY <1>1, <1>2, <1>3 DEF ReadInv, Reading
<1>4. CASE Waiting
  <2>1. PICK a \in Nat, m \in Nat, b \in Nat : Read(a, m, b)
    BY <1>4 DEF ReadInv, Reading
  <2>2. PICK n \in Nat : IsRequest(Current, Len(asked), n)
    BY <1>4, CurrentIs
  <2>3. Len(Current) \in Nat /\ a <= Len(Current) /\ m <= Len(Current)
    BY <2>1, <2>2 DEF IsRequest, Read
  <2>4. Slice(Current, m, m) = <<>> /\ Slice(Current, a, a) = <<>>
    BY SliceNone
  <2>5. CASE inbox' = inbox
    <3>1. Read(a, m, m)'
      BY <1>1, <2>1, <2>3, <2>4, <2>5 DEF Read, Whole, Broken, Excused
    <3> QED
      BY <1>1, <1>2, <1>4, <3>1 DEF ReadInv, Reading
  <2>6. CASE inbox' = <<>>
    <3>1. Read(a, a, a)'
      BY <1>1, <2>1, <2>3, <2>4, <2>6 DEF Read, Whole, Broken, Excused
    <3> QED
      BY <1>1, <1>2, <1>4, <3>1 DEF ReadInv, Reading
  <2> QED
    BY <2>5, <2>6
<1> QED
  BY <1>3, <1>4

\* write_to_buf adds to what is pending, and to its length.
LEMMA WriteIs ==
    ASSUME SendTypes, SendLenExact, open, open', NEW bufs \in Seq(Buffer), Write(bufs)
    PROVE  /\ sendBuf' \in Seq(Buffer) /\ sendLen' \in Nat /\ interest' \in {"in", "out"}
           /\ SendLenExact'
           /\ Pending \in Seq(Unit) /\ FlattenSeq(bufs) \in Seq(Unit)
           /\ Pending' = Pending \o FlattenSeq(bufs)
           /\ bufs = <<>> => sendBuf' = sendBuf
<1>1. sendBuf \in Seq(Buffer) /\ sendLen = Len(Pending) /\ sendLen \in Nat
  BY DEF SendTypes, SendLenExact, Pending
<1>2. /\ sendBuf \in Seq(Seq(Unit)) /\ Pending \in Seq(Unit)
      /\ bufs \in Seq(Seq(Unit)) /\ FlattenSeq(bufs) \in Seq(Unit)
  BY <1>1, BuffersOf DEF Pending
<1>3. CASE bufs = <<>>
  <2>1. FlattenSeq(bufs) = <<>> /\ UNCHANGED <<sendBuf, sendLen, interest, Pending>>
    BY <1>3, FlattenNone DEF Write, sendVars, Pending
  <2>2. Pending \o <<>> = Pending
    BY <1>2, ConcatEmptySeq
  <2> QED
    BY <1>1, <1>2, <2>1, <2>2 DEF SendTypes, SendLenExact
<1>4. CASE bufs # <<>>
  <2>1. /\ sendBuf' = sendBuf \o bufs /\ sendLen' = sendLen + Len(FlattenSeq(bufs))
        /\ interest' = "out"
    BY <1>4 DEF Write
  <2>2. sendBuf' \in Seq(Buffer) /\ sendBuf' # <<>>
    BY <1>1, <1>4, <2>1, ConcatProperties, ConcatEqualIffEmpty
  <2>3. Pending' = Pending \o FlattenSeq(bufs)
    BY <1>2, <2>1, FlattenConcat DEF Pending
  <2>4. Len(Pending \o FlattenSeq(bufs)) = Len(Pending) + Len(FlattenSeq(bufs))
    BY <1>2, ConcatProperties
  <2>5. sendLen' = Len(Pending') /\ sendLen' \in Nat
    BY <1>1, <1>2, <2>1, <2>3, <2>4
  <2> QED
    BY <1>2, <1>4, <2>1, <2>2, <2>3, <2>5 DEF SendLenExact, Pending
<1> QED
  BY <1>3, <1>4

\* close_conn frees a connection that owes nothing, or does nothing.
LEMMA CloseIs ==
    ASSUME IInv, CloseConn, gone # "no",
           UNCHANGED <<gone, held, delivered, asked, handled, refused>>
    PROVE  /\ SendInv'
           /\ \/ UNCHANGED <<sendVars, open>>
              \/ Owed = <<>> /\ open' = FALSE /\ Pending' = <<>>
           /\ UNCHANGED Owed
<1>0. SendInv /\ UNCHANGED Owed
  BY DEF IInv, Owed, LastBuffers
<1>1. CASE held # <<>>
  <2>1. UNCHANGED <<sendVars, open>>
    BY <1>1 DEF CloseConn
  <2> QED
    BY <1>0, <2>1, SendFrame
<1>2. CASE held = <<>>
  <2>1. /\ open' = FALSE /\ sendBuf' = <<>> /\ sendLen' = 0 /\ interest' = interest
        /\ UNCHANGED <<held, gone, asked, handled>>
    BY <1>2 DEF CloseConn
  <2>2. DOMAIN held = {}
    BY <1>2
  <2>3. Owed = <<>>
    BY <2>2, FlattenNone DEF Owed, LastBuffers
  <2>4. Pending' = <<>>
    BY <2>1, FlattenNone DEF Pending
  <2>5. SendTypes' /\ SendLenExact'
    BY <1>0, <2>1, EmptySeq DEF SendInv, SendTypes, SendLenExact
  <2>6. Keeping'
    BY <1>0, <1>2, <2>1 DEF SendInv, Keeping
  <2>7. Sending'
    BY <1>0, <2>1, <2>4 DEF SendInv, Sending, Waiting
  <2> QED
    BY <1>0, <2>1, <2>3, <2>4, <2>5, <2>6, <2>7 DEF SendInv
<1> QED
  BY <1>1, <1>2

\* While a request is read, no answer is incomplete.
LEMMA OwesNothing ==
    ASSUME IInv, Waiting
    PROVE  Owed = <<>> /\ \A j \in DOMAIN held : held[j] = <<>>
<1>1. Len(handled) # Len(asked) /\ Len(asked) \notin DOMAIN held
  BY Counts DEF IInv, SendInv, Keeping
<1>2. \A j \in DOMAIN held : held[j] = <<>>
  BY <1>1 DEF IInv, SendInv, Keeping
<1> QED
  BY <1>2, FlattenNone DEF Owed, LastBuffers

-----------------------------------------------------------------------------
(* recv_from_peer. *)

\* The whole request reaches its handler.
LEMMA HandleStep ==
    ASSUME IInv, Waiting, open, ~refused, Fits(Current), wire = <<>>,
           inbox' = <<>>, recvBuf' = NoBuf, Handle(Current),
           UNCHANGED <<peerVars, delivered, open>>
    PROVE  IInv' /\ X!Next
<1>1. ReadInv /\ SendInv
  BY DEF IInv
<1>2. /\ Len(asked) \in Nat /\ Len(handled) \in Nat
      /\ Len(asked) = Len(handled) + 1 /\ Len(asked) \in 1 .. MaxAsk
  BY <1>1, Counts
<1>3. /\ asked[Len(handled) + 1] = Current /\ Current \in Tokenised
      /\ \E n \in Nat : IsRequest(Current, Len(asked), n)
  BY <1>1, CurrentIs
<1>4. Current \in Seq(Token) /\ Current[1][1] = Len(asked) /\ asked # <<>>
  <2>1. PICK n \in Nat : IsRequest(Current, Len(asked), n)
    BY <1>3
  <2>2. Current[1] = <<Len(asked), 1 - 2>>
    BY <2>1 DEF IsRequest
  <2> QED
    BY <1>1, <1>2, <2>1, <2>2 DEF IsRequest, ReadInv, ReadTypes
<1>5. /\ handled' = Append(handled, Current) /\ UNCHANGED <<asked, gone, wire, refused, spoiled>>
      /\ UNCHANGED <<delivered, open>>
  BY DEF Handle, peerVars
<1>6. handled' \in Seq(Seq(Token)) /\ Len(handled') = Len(asked)
  BY <1>1, <1>2, <1>4, <1>5, AppendProperties DEF ReadInv, ReadTypes
<1>7. ReadInv'
  <2>1. ReadTypes'
    BY <1>1, <1>5, <1>6, EmptySeq DEF ReadInv, ReadTypes, NoBuf
  <2>2. Numbered' /\ ~Waiting'
    BY <1>1, <1>2, <1>5, <1>6 DEF ReadInv, Numbered, Waiting
  <2>3. Reading'
    BY <1>5, <2>2 DEF Reading
  <2> QED
    BY <2>1, <2>2, <2>3 DEF ReadInv
<1> DEFINE bufs(shape) == Buffers(Len(asked), shape)
<1>7a. PICK shape \in Shapes : \E now \in 0 .. Len(shape) :
         /\ Write(AtMost(bufs(shape), now))
         /\ \/ now = Len(shape) /\ held' = held
            \/ held' = [j \in DOMAIN held \cup {Len(asked)} |->
                           IF j = Len(asked) THEN Without(bufs(shape), now) ELSE held[j]]
  BY <1>4 DEF Handle
<1>8. PICK now \in 0 .. Len(shape) :
         /\ Write(AtMost(bufs(shape), now))
         /\ \/ now = Len(shape) /\ held' = held
            \/ held' = [j \in DOMAIN held \cup {Len(asked)} |->
                           IF j = Len(asked) THEN Without(bufs(shape), now) ELSE held[j]]
  BY <1>7a
<1> DEFINE ready == AtMost(bufs(shape), now)
           later == Without(bufs(shape), now)
<1>9. PICK w \in Nat, n \in Nat :
         /\ n = Last(shape) /\ w <= n
         /\ ready \in Seq(Buffer) /\ later \in Seq(Buffer)
         /\ FlattenSeq(ready) = Slice(Units(Len(asked), n), 0, w)
         /\ FlattenSeq(later) = Slice(Units(Len(asked), n), w, n)
         /\ now = Len(shape) => later = <<>>
  <2> HIDE DEF bufs
  <2> QED
    BY <1>2, AnswerCut DEF bufs
<1> HIDE DEF bufs, ready, later
<1>10. sendBuf = <<>> /\ Pending = <<>> /\ Owed = <<>>
  <2>1. sendBuf = <<>>
    BY <1>1 DEF SendInv, Sending
  <2> QED
    BY <2>1, OwesNothing, FlattenNone DEF Pending
<1>11. /\ sendBuf' \in Seq(Buffer) /\ sendLen' \in Nat /\ interest' \in {"in", "out"}
       /\ SendLenExact' /\ FlattenSeq(ready) \in Seq(Unit)
       /\ Pending' = Pending \o FlattenSeq(ready)
  <2>1. Write(ready)
    BY <1>8 DEF ready
  <2>2. SendTypes /\ SendLenExact /\ open'
    BY <1>1, <1>5 DEF SendInv
  <2> QED
    BY <1>9, <2>1, <2>2, WriteIs
<1>12. Len(asked) \notin DOMAIN held /\ \A j \in DOMAIN held : held[j] = <<>>
  BY <1>1, <1>2, OwesNothing DEF SendInv, Keeping
<1>13. Keeping' /\ Owed' = FlattenSeq(later)
  <2>1. CASE now = Len(shape) /\ held' = held
    <3>1. later = <<>>
      BY <1>9, <2>1
    <3>2. Owed' = <<>>
      BY <1>6, <1>12, <2>1, FlattenNone DEF Owed, LastBuffers
    <3>3. Keeping'
      BY <1>1, <1>2, <1>5, <1>6, <1>12, <2>1 DEF SendInv, Keeping
    <3> QED
      BY <3>1, <3>2, <3>3, FlattenNone
  <2>2. CASE held' = [j \in DOMAIN held \cup {Len(asked)} |->
                         IF j = Len(asked) THEN later ELSE held[j]]
    <3>1. /\ DOMAIN held' = DOMAIN held \cup {Len(asked)} /\ held'[Len(asked)] = later
          /\ \A j \in DOMAIN held : held'[j] = <<>>
      BY <1>12, <2>2
    <3>2. held' \in [DOMAIN held' -> Seq(Buffer)]
      BY <1>9, <1>12, <2>2, EmptySeq
    <3>3. DOMAIN held' \subseteq 1 .. Len(handled')
      BY <1>1, <1>2, <1>6, <3>1 DEF SendInv, Keeping
    <3>4. Keeping'
      BY <1>5, <3>1, <3>2, <3>3 DEF Keeping
    <3>5. Owed' = FlattenSeq(later)
      BY <1>6, <3>1 DEF Owed, LastBuffers
    <3> QED
      BY <3>4, <3>5
  <2> QED
    BY <1>8, <2>1, <2>2 DEF later
<1>14. Pending' = Slice(Units(Len(asked), n), 0, w)
  <2>1. <<>> \o FlattenSeq(ready) = FlattenSeq(ready)
    BY <1>11, ConcatEmptySeq
  <2> QED
    BY <1>9, <1>10, <1>11, <2>1
<1>15. Sending'
  <2>1. ~Waiting' /\ asked' # <<>>
    BY <1>2, <1>4, <1>5, <1>6 DEF Waiting
  <2>2. delivered # <<>> => Last(delivered)[1] < Len(asked)
    BY <1>1 DEF SendInv, Sending
  <2>3. Sent(0, w, n)'
    BY <1>5, <1>9, <1>13, <1>14, <2>2 DEF Sent, Got
  <2> QED
    BY <2>1, <2>3 DEF Sending
<1>16. IInv'
  <2>1. SendTypes'
    BY <1>1, <1>5, <1>11 DEF SendInv, SendTypes
  <2> QED
    BY <1>7, <1>11, <1>13, <1>15, <2>1 DEF IInv, SendInv
<1>17. X!Handle(n, w)
  <2>1. Units(Len(asked), n) \in Seq(Unit) /\ Len(Units(Len(asked), n)) = n
    BY <1>2, UnitsAre
  <2>2. /\ Slice(Units(Len(asked), n), 0, w) = SubSeq(X!Answer(Len(asked), n), 1, w)
        /\ Slice(Units(Len(asked), n), w, n) = SubSeq(X!Answer(Len(asked), n), w + 1, n)
    <3>1. Units(Len(asked), n) = X!Answer(Len(asked), n)
      BY DEF Units, X!Answer
    <3> QED
      BY <1>9, <2>1, <3>1, FirstIs DEF Slice
  <2>3. UNCHANGED <<asked, delivered, refused, spoiled, gone, open>>
    BY <1>5
  <2> QED
    BY <1>3, <1>5, <1>9, <1>11, <1>13, <2>2, <2>3
    DEF X!Handle, X!Waiting, X!Current, Waiting, Owed, Pending
<1>18. n \in {Last(s) : s \in Shapes} /\ w \in 0 .. n
  BY <1>9
<1> QED
  BY <1>16, <1>17, <1>18 DEF X!Next

\* A request that cannot be handled is answered with a status page.
LEMMA RefuseStep ==
    ASSUME IInv, ReadInv', Waiting, open, Excused, SendStatus,
           UNCHANGED <<asked, gone, handled, held, delivered, open>>
    PROVE  IInv' /\ X!Next
<1> DEFINE page == << <<Status>> >>
<1>1. SendInv /\ ReadInv /\ UNCHANGED <<Waiting, Current>>
  BY DEF IInv, Waiting, Current
<1>2. <<Status>> \in Seq(Unit) /\ page \in Seq(Buffer) /\ FlattenSeq(page) = <<Status>>
  <2>1. Status \in Unit
    BY DEF Status, Unit
  <2>2. <<Status>> \in Seq(Unit) /\ <<Status>> # <<>>
    BY <2>1
  <2>3. <<Status>> \in Buffer
    BY <2>2 DEF Buffer
  <2> QED
    BY <2>2, <2>3, FlattenOne
<1>3. Write(page) /\ refused' = TRUE /\ UNCHANGED spoiled
  BY DEF SendStatus
<1> HIDE DEF page
<1>4. /\ sendBuf' \in Seq(Buffer) /\ sendLen' \in Nat /\ interest' \in {"in", "out"}
      /\ SendLenExact' /\ Pending \in Seq(Unit) /\ Pending' = Pending \o <<Status>>
  BY <1>1, <1>2, <1>3, WriteIs DEF SendInv
<1>5. UNCHANGED Owed
  BY DEF Owed, LastBuffers
<1>6. \A k \in DOMAIN Pending' : Pending'[k] = Status
  <2>1. /\ Pending' \in Seq(Unit) /\ Len(Pending') = Len(Pending) + 1
        /\ \A k \in 1 .. Len(Pending) + 1 :
              Pending'[k] = IF k <= Len(Pending) THEN Pending[k]
                            ELSE <<Status>>[k - Len(Pending)]
    BY <1>2, <1>4, ConcatProperties
  <2>2. \A k \in 1 .. Len(Pending) : Pending[k] = Status
    BY <1>1, <1>4 DEF SendInv, Sending
  <2> QED
    BY <1>4, <2>1, <2>2
<1>7. Sending'
  BY <1>1, <1>3, <1>6 DEF SendInv, Sending
<1>8. SendTypes' /\ Keeping'
  BY <1>1, <1>4 DEF SendInv, SendTypes, Keeping
<1>9. Pending' = Append(Pending, Status)
  BY <1>4
<1>10. X!Refuse
  <2>1. Excused => (refused \/ spoiled \/ ~Fits(asked[Len(handled) + 1]))
    BY <1>1, CurrentIs DEF Excused
  <2> QED
    BY <1>3, <1>5, <1>9, <2>1
    DEF X!Refuse, X!Waiting, X!Current, Waiting, Owed, Pending
<1> QED
  BY <1>4, <1>7, <1>8, <1>10 DEF IInv, SendInv, X!Next

\* The content lengths that can be read from a first part with the end of the
\* header.
LEMMA LengthsAre ==
    ASSUME ReadInv, Waiting, NEW n, IsRequest(Current, Len(asked), n),
           NEW a \in {0, 1}, NEW f \in Nat, f >= 2, f <= Len(Current),
           First = Slice(Current, a, f)
    PROVE  /\ Lengths(2 - a) \subseteq {n, 0}
           /\ a = 0 => Lengths(2 - a) = {n}
<1>1. a < f /\ 2 - a \in 1 .. f - a /\ (a + (2 - a)) - 2 = 0
  OBVIOUS
<1>2. /\ First[1] = <<Len(asked), a - 1>>
      /\ First[2 - a] = <<Len(asked), (a + (2 - a)) - 2>>
  BY <1>1, StartIs
<1>3. ContentLength(First[2 - a][1]) = n
  <2>1. First[2 - a][1] = Len(asked) /\ asked[Len(asked)] = Current
    BY <1>2 DEF Current
  <2> QED
    BY <2>1 DEF ContentLength, IsRequest
<1>4. First[1][2] = a - 1
  BY <1>2
<1> QED
  BY <1>3, <1>4 DEF Lengths

\* The reader takes tokens that no handler gets.
LEMMA ReadFurther ==
    ASSUME ReadInv, Waiting, NEW a \in Nat, NEW m \in Nat, NEW b \in Nat, Read(a, m, b),
           NEW c \in Nat, a <= c, c <= m, c >= 1,
           inbox' = Slice(Current, c, m), recvBuf' = NoBuf,
           refused' \in BOOLEAN, Excused',
           UNCHANGED <<asked, handled, wire, gone, spoiled>>
    PROVE  ReadInv'
<1>1. UNCHANGED <<Waiting, Current>>
  BY DEF Waiting, Current
<1>2. PICK n \in Nat : IsRequest(Current, Len(asked), n)
  BY CurrentIs
<1>3. Current \in Seq(Token) /\ m <= Len(Current)
  BY <1>2 DEF IsRequest, Read
<1>4. Slice(Current, c, m) \in Seq(Token)
  BY <1>3, SliceIs
<1>5. ReadTypes' /\ Numbered'
  BY <1>4, EmptySeq DEF ReadInv, ReadTypes, Numbered, NoBuf
<1>6. Read(c, m, b)'
  BY <1>1 DEF Read
<1> QED
  BY <1>1, <1>5, <1>6 DEF ReadInv, Reading

\* What does not start with the start of a header is refused.
LEMMA MalformedStep ==
    ASSUME IInv, Waiting, open, NEW a \in Nat, NEW m \in Nat, NEW b \in Nat,
           Read(a, m, b), m >= 1, Excused,
           NEW data, data[1][2] # -1, HandleData(data)
    PROVE  IInv' /\ X!Next
<1>1. /\ inbox' = <<>> /\ recvBuf' = NoBuf /\ SendStatus
      /\ UNCHANGED <<asked, wire, gone, handled, held, delivered, open>>
  BY DEF HandleData, peerVars
<1>2. refused' = TRUE /\ UNCHANGED spoiled
  BY <1>1 DEF SendStatus
<1>3. Slice(Current, m, m) = <<>>
  BY SliceNone
<1>4. ReadInv'
  <2>1. ReadInv /\ Excused' /\ a <= m /\ refused' \in BOOLEAN
    BY <1>2 DEF IInv, Excused, Read
  <2> QED
    BY <1>1, <1>2, <1>3, <2>1, ReadFurther
<1> QED
  BY <1>1, <1>4, RefuseStep

\* The request is complete in recv_buf.
LEMMA WholeStep ==
    ASSUME IInv, Waiting, open, NEW b \in Nat, b <= Len(Current),
           wire = Slice(Current, Len(Current), b), Len(Current) <= b,
           ~refused, Fits(Current), HandleData(Current)
    PROVE  IInv' /\ X!Next
<1>1. PICK n \in Nat : IsRequest(Current, Len(asked), n)
  BY CurrentIs DEF IInv
<1>2. Current[1] = <<Len(asked), 1 - 2>>
  BY <1>1 DEF IsRequest
<1>3. Current[1][2] = -1
  BY <1>2
<1>4. wire = <<>>
  <2>1. b = Len(Current)
    BY <1>1 DEF IsRequest
  <2> QED
    BY <2>1, SliceNone
<1>5. /\ inbox' = <<>> /\ recvBuf' = NoBuf /\ Handle(Current)
      /\ UNCHANGED <<peerVars, delivered, open>>
  BY <1>3 DEF HandleData
<1> QED
  BY <1>4, <1>5, HandleStep

\* A step that moves a part of a request only is nothing the exchange sees.
LEMMA SilentStep ==
    ASSUME IInv, ReadInv',
           UNCHANGED <<gone, sendVars, open, held, delivered, asked, handled, refused, spoiled>>
    PROVE  IInv' /\ [X!Next]_(X!vars)
<1>1. SendInv'
  BY SendFrame DEF IInv
<1>2. UNCHANGED (X!vars)
  BY DEF X!vars, sendVars, LastBuffers
<1> QED
  BY <1>1, <1>2 DEF IInv

\* The steps of the exchange that close_conn and the wait for more are.
LEMMA CloseStep ==
    ASSUME IInv, ReadInv', CloseConn, gone # "no",
           UNCHANGED <<gone, held, delivered, asked, handled, refused, spoiled>>
    PROVE  IInv' /\ [X!Next]_(X!vars)
<1>1. /\ SendInv'
      /\ \/ UNCHANGED <<sendVars, open>>
         \/ Owed = <<>> /\ open' = FALSE /\ Pending' = <<>>
      /\ UNCHANGED Owed
  BY CloseIs
<1>2. CASE UNCHANGED <<sendVars, open>>
  BY <1>2, SilentStep
<1>3. CASE Owed = <<>> /\ open' = FALSE /\ Pending' = <<>>
  <2>1. X!Close
    BY <1>1, <1>3 DEF X!Close, Owed, Pending
  <2> QED
    BY <1>1, <2>1 DEF X!Next, IInv
<1> QED
  BY <1>1, <1>2, <1>3

\* recv says that the peer has left.
LEMMA RecvClosedStep == IInv /\ RecvClosed => IInv' /\ [X!Next]_(X!vars)
<1> SUFFICES ASSUME IInv, RecvClosed PROVE IInv' /\ [X!Next]_(X!vars)
  OBVIOUS
<1>1. /\ CloseConn /\ gone # "no"
      /\ UNCHANGED <<asked, wire, gone, inbox, recvBuf, handled, held, delivered, refused, spoiled>>
  BY DEF RecvClosed, peerVars, readVars
<1>2. ReadInv'
  BY <1>1, ReadFrame DEF IInv
<1> QED
  BY <1>1, <1>2, CloseStep

\* Tokens on their way belong to the current request.
LEMMA Busy ==
    ASSUME IInv, inbox # <<>> \/ wire # <<>> \/ recvBuf # NoBuf
    PROVE  Waiting /\ \E a, m, b \in Nat : Read(a, m, b)
BY DEF IInv, ReadInv, Reading

\* A part of the body arrives.
LEMMA RecvRestStep == IInv /\ RecvRest => IInv' /\ [X!Next]_(X!vars)
<1> SUFFICES ASSUME IInv, RecvRest PROVE IInv' /\ [X!Next]_(X!vars)
  OBVIOUS
<1>1. open /\ inbox # <<>> /\ recvBuf # NoBuf
  BY DEF RecvRest, Readable
<1>2. Waiting /\ ReadInv /\ ReadTypes
  BY <1>1, Busy DEF IInv, ReadInv
<1>3. PICK a \in Nat, m \in Nat, b \in Nat : Read(a, m, b)
  BY <1>1, Busy
<1>4. PICK n \in Nat : IsRequest(Current, Len(asked), n)
  BY <1>2, CurrentIs
<1>5. /\ Current \in Seq(Token) /\ Len(Current) = n + 2
      /\ a <= m /\ m <= b /\ b <= Len(Current) /\ m <= Len(Current)
      /\ inbox = Slice(Current, a, m) /\ wire = Slice(Current, m, b)
  BY <1>3, <1>4 DEF IsRequest, Read
<1>6. a < m /\ inbox \in Seq(Token) /\ Len(inbox) = m - a
  <2>1. a < m
    BY <1>1, <1>4, <1>5, FirstPart
  <2>2. a <= m /\ m <= Len(Current) /\ Current \in Seq(Token)
    BY <1>5
  <2>3. Slice(Current, a, m) \in Seq(Token) /\ Len(Slice(Current, a, m)) = m - a
    BY <2>2, SliceIs, ZenonT(30)
  <2> QED
    BY <1>5, <2>1, <2>3
<1> DEFINE got  == Min2(Len(inbox), recvBuf.left)
           data == recvBuf.data \o AtMost(inbox, got)
<1>7. /\ recvBuf.data \in Seq(Token) /\ recvBuf.left \in Nat
      /\ got \in Nat /\ got <= Len(inbox) /\ got <= recvBuf.left
      /\ got = Len(inbox) \/ got = recvBuf.left
  BY <1>2, <1>6 DEF ReadTypes, Min2
<1>8. IF got = recvBuf.left
      THEN HandleData(data)
      ELSE /\ recvBuf' = [data |-> data, left |-> recvBuf.left - got]
           /\ inbox' = Without(inbox, got)
           /\ UNCHANGED <<peerVars, handled, sendVars, held, delivered, refused,
                          spoiled, open>>
  BY DEF RecvRest
<1> HIDE DEF got, data
<1>9. AtMost(inbox, got) \in Seq(Token) /\ data \in Seq(Token)
  <2>1. got \in 0 .. Len(inbox)
    BY <1>6, <1>7
  <2>2. AtMost(inbox, got) \in Seq(Token)
    BY <1>6, <2>1, Split
  <2> QED
    BY <1>7, <2>2, ConcatProperties DEF data
\* The body is not complete: what is left to prove is that the reader's invariant
\* holds behind position m.
<1>10. ASSUME got # recvBuf.left, NEW c \in Nat, c = m, Read(c, m, b)'
       PROVE  IInv' /\ [X!Next]_(X!vars)
  <2>1. /\ recvBuf' = [data |-> data, left |-> recvBuf.left - got]
        /\ got = Len(inbox) /\ inbox' = Without(inbox, got)
        /\ UNCHANGED <<asked, wire, gone, handled, sendVars, held, delivered, refused,
                       spoiled, open>>
    BY <1>7, <1>8, <1>10 DEF peerVars
  <2>2. inbox' = <<>>
    BY <1>6, <2>1, SubSeqEmpty DEF Without
  <2>3. UNCHANGED <<Waiting, Current>>
    BY <2>1 DEF Waiting, Current
  <2>4. recvBuf' \in [data : Seq(Token), left : Nat]
    <3>1. recvBuf.left - got \in Nat
      BY <1>7
    <3> QED
      BY <1>9, <2>1, <3>1
  <2>5. ReadTypes' /\ Numbered'
    BY <1>2, <2>1, <2>2, <2>4, EmptySeq DEF ReadInv, ReadTypes, Numbered
  <2>6. ReadInv'
    BY <1>2, <1>10, <2>3, <2>5 DEF ReadInv, Reading
  <2> QED
    BY <2>1, <2>6, SilentStep
<1>11. CASE Whole(a)
  <2>1. /\ recvBuf.data = Slice(Current, 0, a) /\ recvBuf.left = Len(Current) - a
        /\ a >= 2 /\ a < Len(Current) /\ ~refused /\ Fits(Current)
    BY <1>11 DEF Whole
  <2>2. got = m - a
    BY <1>5, <1>6, <1>7, <2>1
  <2>3. AtMost(inbox, got) = inbox
    BY <1>6, <2>2, SubSeqFull DEF AtMost
  <2>4. data = Slice(Current, 0, m)
    <3>1. 0 <= a /\ 0 \in Nat
      OBVIOUS
    <3>2. Slice(Current, 0, a) \o Slice(Current, a, m) = Slice(Current, 0, m)
      BY <1>5, <3>1, SlicesJoin
    <3> QED
      BY <1>5, <2>1, <2>3, <3>2 DEF data
  <2>5. CASE got = recvBuf.left
    <3>1. m = Len(Current)
      BY <1>5, <2>1, <2>2, <2>5
    <3>2. data = Current
      BY <1>5, <2>4, <3>1, SliceFull
    <3>3. HandleData(Current)
      BY <1>8, <2>5, <3>2
    <3> QED
      BY <1>1, <1>2, <1>5, <2>1, <3>1, <3>3, WholeStep
  <2>6. CASE got # recvBuf.left
    <3>1. /\ recvBuf' = [data |-> data, left |-> recvBuf.left - got]
          /\ got = Len(inbox) /\ inbox' = Without(inbox, got)
          /\ UNCHANGED <<asked, wire, refused, spoiled, handled>>
      BY <1>7, <1>8, <2>6 DEF peerVars
    <3>2. inbox' = <<>>
      BY <1>6, <3>1, SubSeqEmpty DEF Without
    <3>3. UNCHANGED Current
      BY <3>1 DEF Current
    <3>4. m < Len(Current) /\ recvBuf.left - got = Len(Current) - m
      BY <1>5, <1>7, <2>1, <2>2, <2>6
    <3>5. Whole(m)'
      BY <1>6, <2>1, <2>4, <3>1, <3>3, <3>4 DEF Whole
    <3>6. Slice(Current, m, m) = <<>>
      BY SliceNone
    <3>7. Read(m, m, b)'
      BY <1>5, <1>6, <2>1, <3>1, <3>2, <3>3, <3>5, <3>6 DEF Read
    <3> QED
      BY <1>10, <2>6, <3>7
  <2> QED
    BY <2>5, <2>6
<1>12. CASE a >= 1 /\ Broken
  <2>1. /\ recvBuf.data # <<>> /\ recvBuf.data[1][2] # -1 /\ recvBuf.left > 0 /\ Excused
    BY <1>12 DEF Broken
  <2>2. data # <<>> /\ data[1] = recvBuf.data[1]
    <3>1. 1 \in 1 .. Len(recvBuf.data)
      BY <1>7, <2>1
    <3>2. /\ Len(data) = Len(recvBuf.data) + Len(AtMost(inbox, got))
          /\ \A i \in 1 .. Len(recvBuf.data) + Len(AtMost(inbox, got)) :
                data[i] = IF i <= Len(recvBuf.data) THEN recvBuf.data[i]
                          ELSE AtMost(inbox, got)[i - Len(recvBuf.data)]
      BY <1>7, <1>9, ConcatProperties DEF data
    <3>3. Len(AtMost(inbox, got)) \in Nat /\ Len(recvBuf.data) \in Nat
      BY <1>7, <1>9
    <3> QED
      BY <1>9, <3>1, <3>2, <3>3
  <2>3. CASE got = recvBuf.left
    <3>1. HandleData(data) /\ data[1][2] # -1 /\ m >= 1
      BY <1>6, <1>8, <2>1, <2>2, <2>3
    <3> QED
      BY <1>1, <1>2, <1>3, <2>1, <3>1, MalformedStep
  <2>4. CASE got # recvBuf.left
    <3>1. /\ recvBuf' = [data |-> data, left |-> recvBuf.left - got]
          /\ got = Len(inbox) /\ inbox' = Without(inbox, got)
          /\ UNCHANGED <<asked, wire, refused, spoiled, handled>>
      BY <1>7, <1>8, <2>4 DEF peerVars
    <3>2. inbox' = <<>>
      BY <1>6, <3>1, SubSeqEmpty DEF Without
    <3>3. UNCHANGED Current
      BY <3>1 DEF Current
    <3>4. Broken'
      BY <1>7, <2>1, <2>2, <2>4, <3>1, <3>3 DEF Broken, Excused
    <3>5. Slice(Current, m, m) = <<>>
      BY SliceNone
    <3>6. Read(m, m, b)'
      BY <1>5, <1>6, <1>12, <3>1, <3>2, <3>3, <3>4, <3>5 DEF Read
    <3> QED
      BY <1>10, <2>4, <3>6
  <2> QED
    BY <2>3, <2>4
<1> QED
  BY <1>1, <1>3, <1>11, <1>12 DEF Read

\* No end of a header in the first part, or too much content.
LEMMA RecvRefusedStep == IInv /\ RecvRefused => IInv' /\ [X!Next]_(X!vars)
<1> SUFFICES ASSUME IInv, RecvRefused PROVE IInv' /\ X!Next
  OBVIOUS
<1>1. /\ open /\ inbox # <<>> /\ recvBuf = NoBuf /\ SendStatus
      /\ inbox' = Without(inbox, Len(First))
      /\ HeaderLength(First) # 0 => \E l \in Lengths(HeaderLength(First)) : ~Acceptable(l)
      /\ UNCHANGED <<asked, wire, gone, recvBuf, handled, held, delivered, open>>
  BY DEF RecvRefused, Readable, peerVars
<1>2. Waiting /\ ReadInv
  BY <1>1, Busy DEF IInv
<1>3. PICK a \in Nat, m \in Nat, b \in Nat : Read(a, m, b)
  BY <1>1, Busy
<1>4. PICK n \in Nat : IsRequest(Current, Len(asked), n)
  BY <1>2, CurrentIs
<1>5. /\ Len(Current) = n + 2 /\ a <= m /\ m <= Len(Current)
      /\ inbox = Slice(Current, a, m)
  BY <1>3, <1>4 DEF IsRequest, Read
<1>6. PICK f \in Nat :
         /\ a < f /\ f <= m /\ (f = m \/ f >= a + 2)
         /\ First = Slice(Current, a, f)
         /\ Without(inbox, Len(First)) = Slice(Current, f, m)
  BY <1>1, <1>4, <1>5, FirstPart
<1>7. refused' = TRUE /\ UNCHANGED <<spoiled, Current>>
  BY <1>1 DEF SendStatus, Current
<1>8. Excused
  <2>1. CASE a >= 1
    <3>1. ~Whole(a) /\ ~Broken
      <4>1. recvBuf.left = 0
        BY <1>1 DEF NoBuf
      <4> QED
        BY <1>5, <4>1 DEF Whole, Broken
    <3> QED
      BY <1>3, <2>1, <3>1 DEF Read
  <2>2. CASE a = 0 /\ f < 2
    <3>1. m = 1
      BY <1>6, <2>2
    <3> QED
      BY <1>3, <2>2, <3>1 DEF Read, Excused
  <2>3. CASE a = 0 /\ f >= 2
    <3>1. f <= Len(Current) /\ a < f /\ a \in {0, 1}
      BY <1>5, <1>6, <2>3
    <3>2. HeaderLength(First) = 2 - a
      BY <1>4, <1>6, <2>3, <3>1, HeaderEnd
    <3>3. Lengths(2 - a) = {n}
      BY <1>2, <1>4, <1>6, <2>3, <3>1, LengthsAre
    <3>4. ~Acceptable(n)
      BY <1>1, <2>3, <3>2, <3>3
    <3> QED
      BY <1>5, <3>4 DEF Acceptable, Fits, Excused
  <2> QED
    BY <2>1, <2>2, <2>3
<1>9. ReadInv'
  <2>1. Excused' /\ refused' \in BOOLEAN /\ recvBuf' = NoBuf /\ a <= f /\ f >= 1
    BY <1>1, <1>6, <1>7 DEF Excused
  <2> QED
    BY <1>1, <1>2, <1>3, <1>6, <1>7, <2>1, ReadFurther
<1> QED
  BY <1>1, <1>2, <1>8, <1>9, RefuseStep

\* The first part of a request, or all of it.
LEMMA RecvFirstStep == IInv /\ RecvFirst => IInv' /\ [X!Next]_(X!vars)
<1> SUFFICES ASSUME IInv, RecvFirst PROVE IInv' /\ [X!Next]_(X!vars)
  OBVIOUS
<1>1. open /\ inbox # <<>> /\ recvBuf = NoBuf /\ HeaderLength(First) # 0
  BY DEF RecvFirst, Readable
<1>2. Waiting /\ ReadInv /\ ReadTypes
  BY <1>1, Busy DEF IInv, ReadInv
<1>3. PICK a \in Nat, m \in Nat, b \in Nat : Read(a, m, b)
  BY <1>1, Busy
<1>4. PICK n \in Nat : IsRequest(Current, Len(asked), n)
  BY <1>2, CurrentIs
<1>5. /\ Current \in Seq(Token) /\ Len(Current) = n + 2
      /\ a <= m /\ m <= b /\ b <= Len(Current) /\ m <= Len(Current)
      /\ inbox = Slice(Current, a, m) /\ wire = Slice(Current, m, b)
      /\ refused => a >= 1
  BY <1>3, <1>4 DEF IsRequest, Read
<1>6. a < m /\ inbox \in Seq(Token) /\ Len(inbox) = m - a
  <2>1. a < m
    BY <1>1, <1>4, <1>5, FirstPart
  <2>2. a <= m /\ m <= Len(Current) /\ Current \in Seq(Token)
    BY <1>5
  <2>3. Slice(Current, a, m) \in Seq(Token) /\ Len(Slice(Current, a, m)) = m - a
    BY <2>2, SliceIs, ZenonT(30)
  <2> QED
    BY <1>5, <2>1, <2>3
<1>7. PICK f \in Nat : a < f /\ f <= m /\ First = Slice(Current, a, f)
  BY <1>1, <1>4, <1>5, FirstPart
<1>8. a \in {0, 1} /\ f >= 2 /\ f <= Len(Current) /\ HeaderLength(First) = 2 - a
  <2>1. f <= Len(Current)
    BY <1>5, <1>7
  <2>2. a <= 1 /\ f >= 2 => HeaderLength(First) = 2 - a
    BY <1>4, <1>7, <2>1, HeaderEnd
  <2>3. ~(a <= 1 /\ f >= 2) => HeaderLength(First) = 0
    BY <1>4, <1>7, <2>1, HeaderEnd
  <2> QED
    BY <1>1, <2>1, <2>2, <2>3
<1>9. PICK h \in {1, 2} : h = 2 - a /\ HeaderLength(First) = h
  BY <1>8
<1>10. Lengths(h) \subseteq {n, 0} /\ (a = 0 => Lengths(h) = {n})
  BY <1>2, <1>4, <1>7, <1>8, <1>9, LengthsAre
<1>11. PICK l \in Lengths(h) :
         /\ Acceptable(l)
         /\ IF h + l <= Len(inbox)
            THEN HandleData(AtMost(inbox, h + l))
            ELSE /\ recvBuf' = [data |-> inbox, left |-> h + l - Len(inbox)]
                 /\ inbox' = <<>>
                 /\ IF gone = "eof" THEN CloseConn ELSE UNCHANGED <<sendVars, open>>
                 /\ UNCHANGED <<asked, wire, gone, handled, held, delivered, refused,
                                spoiled>>
  BY <1>9 DEF RecvFirst, peerVars
<1>12. l \in Nat /\ (a = 0 => l = n)
  BY <1>10
<1>13. /\ \A j \in 1 .. m - a : inbox[j] = <<Len(asked), (a + j) - 2>>
       /\ inbox[1] = <<Len(asked), a - 1>>
  <2>1. a < m /\ m <= Len(Current)
    BY <1>5, <1>6
  <2>2. /\ Slice(Current, a, m)[1] = <<Len(asked), a - 1>>
        /\ \A j \in 1 .. m - a : Slice(Current, a, m)[j] = <<Len(asked), (a + j) - 2>>
    BY <1>4, <2>1, StartIs
  <2> QED
    BY <1>5, <2>2
<1>14. a = 1 => Excused
  <2>1. recvBuf.left = 0
    BY <1>1 DEF NoBuf
  <2>2. ~Whole(a) /\ ~Broken
    BY <1>5, <2>1 DEF Whole, Broken
  <2> QED
    BY <1>3, <2>2 DEF Read
<1>15. CASE h + l <= Len(inbox)
  <2>1. HandleData(AtMost(inbox, h + l))
    BY <1>11, <1>15
  <2>2. CASE a = 0
    <3>1. m = Len(Current) /\ h + l = Len(inbox)
      BY <1>5, <1>6, <1>9, <1>12, <1>15, <2>2
    <3>2. AtMost(inbox, h + l) = Current
      <4>1. inbox = Current
        BY <1>5, <2>2, <3>1, SliceFull
      <4>2. SubSeq(Current, 1, Len(Current)) = Current
        BY <1>5, SubSeqFull
      <4> QED
        BY <3>1, <4>1, <4>2 DEF AtMost
    <3>3. Fits(Current) /\ ~refused
      BY <1>5, <1>11, <1>12, <2>2 DEF Acceptable, Fits
    <3>4. HandleData(Current)
      BY <2>1, <3>2
    <3> QED
      BY <1>1, <1>2, <1>5, <3>1, <3>3, <3>4, WholeStep
  <2>3. CASE a = 1
    <3>1. PICK k \in 0 .. Len(inbox) : k = h + l /\ k >= 1
      BY <1>6, <1>9, <1>12, <1>15
    <3>2. AtMost(inbox, k)[1] = inbox[1]
      BY <1>6, <3>1, Split
    <3>3. AtMost(inbox, h + l)[1][2] # -1
      BY <1>13, <2>3, <3>1, <3>2
    <3> QED
      BY <1>1, <1>2, <1>3, <1>6, <1>14, <2>1, <2>3, <3>3, MalformedStep
  <2> QED
    BY <1>8, <2>2, <2>3
<1>16. CASE ~(h + l <= Len(inbox))
  <2>1. /\ recvBuf' = [data |-> inbox, left |-> h + l - Len(inbox)]
        /\ inbox' = <<>>
        /\ IF gone = "eof" THEN CloseConn ELSE UNCHANGED <<sendVars, open>>
        /\ UNCHANGED <<asked, wire, gone, handled, held, delivered, refused, spoiled>>
    BY <1>11, <1>16
  <2>2. UNCHANGED <<Waiting, Current>>
    BY <2>1 DEF Waiting, Current
  <2>3. h + l - Len(inbox) \in Nat /\ h + l - Len(inbox) > 0
    BY <1>6, <1>9, <1>12, <1>16
  <2>4. ReadTypes' /\ Numbered'
    <3>1. recvBuf' \in [data : Seq(Token), left : Nat]
      BY <1>6, <2>1, <2>3
    <3> QED
      BY <1>2, <2>1, <3>1, EmptySeq DEF ReadInv, ReadTypes, Numbered
  <2>5. Slice(Current, m, m) = <<>>
    BY SliceNone
  <2>6. ASSUME a = 0 PROVE ReadInv'
    <3>1. m >= 2 /\ m < Len(Current) /\ h + l - Len(inbox) = Len(Current) - m
      BY <1>5, <1>6, <1>7, <1>8, <1>9, <1>12, <1>16, <2>6
    <3>2. ~refused /\ Fits(Current)
      BY <1>5, <1>11, <1>12, <2>6 DEF Acceptable, Fits
    <3>3. Whole(m)'
      BY <1>5, <2>1, <2>2, <2>6, <3>1, <3>2 DEF Whole
    <3>4. Read(m, m, b)'
      BY <1>5, <2>1, <2>2, <2>5, <3>1, <3>3 DEF Read
    <3> QED
      BY <1>2, <2>2, <2>4, <3>4 DEF ReadInv, Reading
  <2>7. ASSUME a = 1 PROVE ReadInv'
    <3>1. inbox # <<>> /\ inbox[1][2] # -1
      BY <1>1, <1>13, <2>7
    <3>2. Broken'
      BY <1>14, <2>1, <2>2, <2>3, <2>7, <3>1 DEF Broken, Excused
    <3>3. Read(m, m, b)'
      BY <1>5, <1>6, <2>1, <2>2, <2>5, <2>7, <3>2 DEF Read
    <3> QED
      BY <1>2, <2>2, <2>4, <3>3 DEF ReadInv, Reading
  <2>8. ReadInv'
    BY <1>8, <2>6, <2>7
  <2>9. CASE gone = "eof"
    BY <2>1, <2>8, <2>9, CloseStep
  <2>10. CASE gone # "eof"
    BY <2>1, <2>8, <2>10, SilentStep
  <2> QED
    BY <2>9, <2>10
<1> QED
  BY <1>15, <1>16

-----------------------------------------------------------------------------
(* The peer and the network. *)

\* The peer asks when the answer before is there, so nothing is owed or pending.
LEMMA AskStep ==
    ASSUME IInv, NEW n \in Bodies, Ask(n)
    PROVE  IInv' /\ X!Next
<1> DEFINE r == Tokens(Len(asked) + 1, n)
<1>1. ReadInv /\ SendInv /\ ReadTypes /\ SendTypes
  BY DEF IInv, ReadInv, SendInv
<1>2. Len(asked) \in Nat /\ Len(handled) \in Nat /\ gone = "no" /\ Len(asked) < MaxAsk
  BY <1>1, Counts DEF Ask
<1>3. PICK i \in 1 .. MaxAsk : i = Len(asked) + 1
  BY <1>2, ConnectionAssumption
<1>4. /\ n \in Nat /\ r \in Tokenised /\ r \in Seq(Token) /\ Len(r) = n + 2
      /\ r = Tokens(i, n) /\ IsRequest(r, i, n)
  BY <1>3, TokensAre DEF IsRequest
<1> HIDE DEF r
<1>5. /\ asked' = Append(asked, r) /\ wire' = wire \o asked'[Len(asked')] /\ spoiled' = FALSE
      /\ UNCHANGED <<gone, inbox, recvBuf, handled, sendBuf, sendLen, interest, held,
                     delivered, refused, open>>
  BY DEF Ask, readVars, sendVars, r
<1>6. /\ asked' \in Seq(Tokenised) /\ asked' # <<>> /\ Len(asked') = Len(asked) + 1
      /\ asked'[Len(asked) + 1] = r /\ \A j \in 1 .. Len(asked) : asked'[j] = asked[j]
  <2>1. asked \in Seq(Tokenised) /\ r \in Tokenised
    BY <1>1, <1>4 DEF ReadTypes
  <2> QED
    BY <1>5, <2>1, AppendProperties
<1>7. ~Waiting
  <2>1. SUFFICES ASSUME Waiting PROVE FALSE
    OBVIOUS
  <2>2. asked # <<>> /\ (delivered # <<>> => Last(delivered)[1] < Len(asked))
    BY <1>1, <1>2, <2>1 DEF Waiting, SendInv, Sending
  <2>3. delivered # <<>> /\ Last(delivered)[1] = Len(asked)
    BY <2>2 DEF Ask, Answered
  <2> QED
    BY <1>2, <2>2, <2>3
<1>8. Len(handled) = Len(asked) /\ wire = <<>> /\ inbox = <<>> /\ recvBuf = NoBuf /\ ~refused
  BY <1>1, <1>7, Counts DEF ReadInv, Reading
\* All that the handler had to say has been said.
<1>9. /\ Pending = <<>> /\ sendBuf = <<>> /\ Owed = <<>>
      /\ delivered # <<>> => Last(delivered)[1] <= Len(asked)
  <2>1. sendBuf \in Seq(Buffer)
    BY <1>1 DEF SendTypes
  <2>2. CASE asked = <<>>
    <3>1. sendBuf = <<>> /\ delivered = <<>> /\ DOMAIN held = {}
      BY <1>1, <1>2, <1>7, <1>8, <2>2 DEF SendInv, Sending, Keeping
    <3> QED
      BY <3>1, FlattenNone DEF Pending, Owed, LastBuffers
  <2>3. CASE asked # <<>>
    <3>1. /\ delivered # <<>> /\ Last(delivered)[1] = Len(asked)
          /\ Last(delivered)[2] = Last(delivered)[3]
      BY <2>3 DEF Ask, Answered
    <3>2. open
      BY <1>1, <1>2 DEF SendInv, Keeping
    <3>3. PICK d \in Nat, w \in Nat, k \in Nat : Sent(d, w, k)
      BY <1>1, <1>7, <2>3, <3>2 DEF SendInv, Sending
    <3>4. d # 0
      BY <1>2, <3>1, <3>3 DEF Sent, Got
    <3>5. Last(delivered) = <<Len(asked), d, k>>
      BY <3>3, <3>4 DEF Sent, Got
    <3>6. d = w /\ w = k
      BY <3>1, <3>3, <3>5 DEF Sent
    <3>7. Pending = <<>> /\ Owed = <<>>
      BY <3>3, <3>6, SliceNone DEF Sent
    <3> QED
      BY <1>2, <2>1, <3>1, <3>7, BuffersOf DEF Pending
  <2> QED
    BY <2>2, <2>3
<1>10. wire' = r
  <2>1. <<>> \o r = r
    BY <1>4, ConcatEmptySeq
  <2> QED
    BY <1>5, <1>6, <1>8, <2>1
<1>11. Waiting' /\ Current' = r
  BY <1>2, <1>5, <1>6, <1>8 DEF Waiting, Current
<1>12. ReadInv'
  <2>1. ReadTypes'
    BY <1>1, <1>4, <1>5, <1>6, <1>10 DEF ReadTypes
  <2>2. Numbered'
    <3>1. ASSUME NEW j \in DOMAIN asked' PROVE \E l \in Bodies : asked'[j] = Tokens(j, l)
      <4>1. j \in 1 .. Len(asked) + 1
        BY <1>2, <1>6, <3>1
      <4>2. CASE j = Len(asked) + 1
        BY <1>3, <1>4, <1>6, <4>2
      <4>3. CASE j # Len(asked) + 1
        <5>1. j \in 1 .. Len(asked)
          BY <1>2, <4>1, <4>3
        <5>2. j \in DOMAIN asked /\ asked'[j] = asked[j]
          BY <1>1, <1>6, <5>1 DEF ReadTypes
        <5> QED
          BY <1>1, <5>2 DEF ReadInv, Numbered
      <4> QED
        BY <4>2, <4>3
    <3>2. Len(handled') = Len(asked') - 1 /\ Len(asked') <= MaxAsk
      BY <1>2, <1>3, <1>5, <1>6, <1>8
    <3> QED
      BY <3>1, <3>2 DEF Numbered
  <2>3. Slice(r, 0, 0) = <<>> /\ Slice(r, 0, n + 2) = r
    BY <1>4, SliceNone, SliceFull
  <2>4. PICK b \in Nat : b = n + 2
    BY <1>4
  <2>5. Read(0, 0, b)'
    BY <1>4, <1>5, <1>8, <1>10, <1>11, <2>3, <2>4 DEF Read
  <2>6. Reading'
    <3>1. 0 \in Nat
      OBVIOUS
    <3> QED
      BY <1>11, <2>5, <3>1 DEF Reading
  <2> QED
    BY <2>1, <2>2, <2>6 DEF ReadInv
<1>13. SendInv'
  <2>1. SendTypes' /\ SendLenExact'
    BY <1>1, <1>5 DEF SendInv, SendTypes, SendLenExact
  <2>2. \A j \in DOMAIN held : held[j] = <<>>
    <3>1. ASSUME NEW j \in DOMAIN held PROVE held[j] = <<>>
      <4>1. SUFFICES ASSUME held[j] # <<>> PROVE FALSE
        OBVIOUS
      <4>2. j = Len(handled) /\ held[j] \in Seq(Buffer)
        BY <1>1, <1>8, <4>1 DEF SendInv, Keeping
      <4>3. FlattenSeq(held[j]) = <<>>
        BY <1>9, <4>2 DEF Owed, LastBuffers
      <4> QED
        BY <4>1, <4>2, <4>3, BuffersOf
    <3> QED
      BY <3>1
  <2>3. Keeping'
    BY <1>1, <1>5, <2>2 DEF SendInv, Keeping
  <2>4. Sending'
    <3>1. Pending' = <<>>
      BY <1>5, <1>9 DEF Pending
    <3>2. delivered' # <<>> => Last(delivered')[1] < Len(asked')
      <4>1. delivered # <<>> => Last(delivered) \in Unit
        BY <1>1 DEF SendTypes, Last
      <4>2. delivered # <<>> => Last(delivered)[1] \in Nat
        BY <4>1 DEF Unit
      <4> QED
        BY <1>2, <1>5, <1>6, <1>9, <4>2
    <3>3. sendBuf' = <<>> /\ DOMAIN Pending' = {}
      BY <1>5, <1>9, <3>1
    <3> QED
      BY <1>11, <3>2, <3>3 DEF Sending
  <2> QED
    BY <2>1, <2>3, <2>4 DEF SendInv
<1>14. X!Ask(r)
  <2>1. UNCHANGED <<Owed, Pending>>
    BY <1>5 DEF Owed, Pending, LastBuffers
  <2> QED
    BY <1>2, <1>5, <1>7, <1>8, <1>9, <2>1 DEF X!Ask, X!Waiting, Waiting, Owed, Pending
<1> QED
  BY <1>4, <1>12, <1>13, <1>14 DEF IInv, X!Next

\* A loss that spoils the current request, or nothing the exchange sees.
LEMMA SpoilStep ==
    ASSUME IInv, ReadInv', SendInv', spoiled' \in {spoiled, TRUE}, spoiled' = spoiled \/ Waiting,
           UNCHANGED <<Owed, Pending, gone, open, delivered, asked, handled, refused>>
    PROVE  IInv' /\ [X!Next]_(X!vars)
<1>1. CASE spoiled' = spoiled
  BY <1>1 DEF X!vars, Owed, Pending, IInv
<1>2. CASE spoiled' # spoiled
  <2>1. spoiled' = TRUE /\ Waiting
    BY <1>2
  <2>2. X!Spoil
    BY <2>1 DEF X!Spoil, X!Waiting, Waiting, Owed, Pending
  <2> QED
    BY <2>2 DEF X!Next, IInv
<1> QED
  BY <1>1, <1>2

\* A segment moves tokens from the wire to the socket, and may cut the header.
LEMMA ArriveStep ==
    ASSUME IInv, NEW k \in 1 .. Len(wire), Arrive(k)
    PROVE  IInv' /\ [X!Next]_(X!vars)
<1>1. /\ spoiled' = (spoiled \/ wire[k][2] = -1)
      /\ inbox' = inbox \o AtMost(wire, k) /\ wire' = Without(wire, k)
      /\ UNCHANGED <<asked, gone, recvBuf, handled, sendVars, held, delivered, refused, open>>
  BY DEF Arrive
<1>2. wire \in Seq(Token) /\ wire # <<>> /\ ReadInv /\ ReadTypes
  BY DEF IInv, ReadInv, ReadTypes
<1>3. Waiting
  BY <1>2, Busy
<1>4. PICK a \in Nat, m \in Nat, b \in Nat : Read(a, m, b)
  BY <1>2, Busy
<1>5. PICK n \in Nat : IsRequest(Current, Len(asked), n)
  BY <1>2, <1>3, CurrentIs
<1>6. /\ Current \in Seq(Token) /\ Len(Current) \in Nat
      /\ a <= m /\ m <= b /\ b <= Len(Current)
      /\ inbox = Slice(Current, a, m) /\ wire = Slice(Current, m, b)
      /\ (a = 0 /\ m = 1 => spoiled) /\ (refused => a >= 1)
  BY <1>4, <1>5 DEF IsRequest, Read
<1>7. Len(wire) = b - m
  <2>1. m <= b /\ b <= Len(Current) /\ Current \in Seq(Token)
    BY <1>6
  <2>2. Len(Slice(Current, m, b)) = b - m
    BY <2>1, SliceIs, SMTT(30)
  <2> QED
    BY <1>6, <2>2
<1>8. PICK c \in Nat : c = m + k /\ m < c /\ c <= b
  BY <1>7
<1>9. AtMost(wire, k) = Slice(Current, m, c) /\ wire' = Slice(Current, c, b)
  <2>1. k \in Nat /\ k <= b - m
    BY <1>7
  <2> QED
    BY <1>1, <1>6, <1>8, <2>1, SliceOfSlice
<1>10. inbox' = Slice(Current, a, c)
  <2>1. a <= m /\ m <= c /\ c <= Len(Current) /\ Current \in Seq(Token)
    BY <1>6, <1>8
  <2>2. Slice(Current, a, m) \o Slice(Current, m, c) = Slice(Current, a, c)
    BY <2>1, SlicesJoin
  <2> QED
    BY <1>1, <1>6, <1>9, <2>2
<1>11. UNCHANGED <<Waiting, Current>>
  BY <1>1 DEF Waiting, Current
<1>12. a = 0 /\ c = 1 => spoiled'
  <2>1. SUFFICES ASSUME a = 0, c = 1 PROVE spoiled'
    OBVIOUS
  <2>2. m = 0 /\ k = 1 /\ m < b
    BY <1>8, <2>1
  <2>3. Slice(Current, m, b)[1] = <<Len(asked), m - 1>>
    BY <1>5, <1>6, <2>2, StartIs
  <2>4. wire[1][2] = -1
    BY <1>6, <2>2, <2>3
  <2> QED
    BY <1>1, <2>2, <2>4
<1>13. /\ spoiled => spoiled'
       /\ Excused => Excused'
  BY <1>1, <1>11 DEF Excused
<1>14. ReadInv'
  <2>1. inbox' \in Seq(Token) /\ wire' \in Seq(Token)
    <3>1. a <= c /\ c <= Len(Current)
      BY <1>6, <1>8
    <3> QED
      BY <1>6, <1>8, <1>9, <1>10, <3>1, SliceIs
  <2>2. spoiled' \in BOOLEAN
    BY <1>1, <1>2 DEF ReadTypes
  <2>3. ReadTypes' /\ Numbered'
    BY <1>1, <1>2, <2>1, <2>2 DEF ReadInv, ReadTypes, Numbered
  <2>4. \/ recvBuf' = NoBuf /\ (a >= 1 => Excused')
        \/ Whole(a)'
        \/ a >= 1 /\ Broken'
    BY <1>1, <1>4, <1>11, <1>13 DEF Read, Whole, Broken
  <2>5. Read(a, c, b)'
    <3>1. a <= c /\ c <= b /\ b <= Len(Current)'
      BY <1>6, <1>8, <1>11
    <3>2. inbox' = Slice(Current', a, c) /\ wire' = Slice(Current', c, b)
      BY <1>9, <1>10, <1>11
    <3>3. refused' => a >= 1
      BY <1>1, <1>6
    <3> QED
      BY <1>12, <2>4, <3>1, <3>2, <3>3 DEF Read
  <2> QED
    BY <1>3, <1>11, <2>3, <2>5 DEF ReadInv, Reading
<1>15. SendInv'
  BY <1>1, SendFrame DEF IInv
<1>16. UNCHANGED <<Owed, Pending>>
  BY <1>1 DEF Owed, Pending, LastBuffers, sendVars
<1>17. spoiled' \in {spoiled, TRUE}
  BY <1>1, <1>2 DEF ReadTypes
<1> QED
  BY <1>1, <1>3, <1>14, <1>15, <1>16, <1>17, SpoilStep

\* The peer shuts down or resets.
LEMMA PeerLeavesStep == IInv /\ (PeerShutsDown \/ PeerResets) => IInv' /\ [X!Next]_(X!vars)
<1> SUFFICES ASSUME IInv, PeerShutsDown \/ PeerResets PROVE IInv' /\ X!Next
  OBVIOUS
<1>1. /\ gone' \in {"eof", "reset"} /\ wire' = <<>> /\ (inbox' = inbox \/ inbox' = <<>>)
      /\ UNCHANGED <<asked, handled, recvBuf, refused, spoiled>>
      /\ UNCHANGED <<sendVars, held, delivered, open>>
  BY DEF PeerShutsDown, PeerResets, readVars
<1>2. ReadInv'
  BY <1>1, ReadLoses DEF IInv
<1>3. SendInv'
  BY <1>1, SendFrame DEF IInv
<1>4. X!Leave
  <2>1. UNCHANGED <<Owed, Pending>>
    BY <1>1 DEF Owed, Pending, LastBuffers, sendVars
  <2> QED
    BY <1>1, <2>1 DEF X!Leave, Owed, Pending
<1> QED
  BY <1>2, <1>3, <1>4 DEF IInv, X!Next

-----------------------------------------------------------------------------
(* send_to_peer, and the application's late answers. *)

\* The two parts of a concatenation.
LEMMA Parts ==
    ASSUME NEW V, NEW s \in Seq(V), NEW t \in Seq(V)
    PROVE  /\ AtMost(s \o t, Len(s)) = s /\ Without(s \o t, Len(s)) = t
           /\ t # <<>> => Last(s \o t) = Last(t) /\ s \o t # <<>>
<1> DEFINE st == s \o t
           k  == Len(s)
<1>1. /\ st \in Seq(V) /\ Len(st) = k + Len(t) /\ k \in Nat /\ Len(t) \in Nat
      /\ \A i \in 1 .. k + Len(t) : st[i] = IF i <= k THEN s[i] ELSE t[i - k]
  BY ConcatProperties
<1> HIDE DEF st, k
<1>2. /\ AtMost(st, k) \in Seq(V) /\ Len(AtMost(st, k)) = k
      /\ Without(st, k) \in Seq(V) /\ Len(Without(st, k)) = Len(t)
      /\ \A j \in 1 .. k : AtMost(st, k)[j] = st[j]
      /\ \A j \in 1 .. Len(t) : Without(st, k)[j] = st[k + j]
  <2>1. k \in 0 .. Len(st)
    BY <1>1
  <2>2. Len(st) - k = Len(t)
    BY <1>1
  <2>3. /\ AtMost(st, k) \in Seq(V) /\ Len(AtMost(st, k)) = k
        /\ Without(st, k) \in Seq(V) /\ Len(Without(st, k)) = Len(st) - k
        /\ \A j \in 1 .. k : AtMost(st, k)[j] = st[j]
        /\ \A j \in 1 .. Len(st) - k : Without(st, k)[j] = st[k + j]
    BY <1>1, <2>1, Split
  <2> QED
    BY <2>2, <2>3
<1>3. AtMost(st, k) = s
  <2>1. \A j \in 1 .. k : AtMost(st, k)[j] = s[j]
    BY <1>1, <1>2
  <2>2. Len(s) = k
    BY DEF k
  <2> QED
    BY <1>2, <2>1, <2>2, SeqEqual
<1>4. Without(st, k) = t
  <2>1. \A j \in 1 .. Len(t) : Without(st, k)[j] = t[j]
    BY <1>1, <1>2
  <2> QED
    BY <1>2, <2>1, SeqEqual
<1>5. t # <<>> => Last(st) = Last(t) /\ st # <<>>
  BY <1>1 DEF Last
<1> QED
  BY <1>3, <1>4, <1>5 DEF st, k

\* A slice in two parts.
LEMMA SliceCuts ==
    ASSUME NEW V, NEW r \in Seq(V), NEW a \in Nat, NEW b \in Nat, a <= b, b <= Len(r)
    PROVE  /\ Len(Slice(r, a, b)) = b - a
           /\ \A k \in 0 .. b - a : /\ AtMost(Slice(r, a, b), k) = Slice(r, a, a + k)
                                   /\ Without(Slice(r, a, b), k) = Slice(r, a + k, b)
<1>1. Len(Slice(r, a, b)) = b - a
  BY SliceIs
<1>2. ASSUME NEW k \in 0 .. b - a
      PROVE  /\ AtMost(Slice(r, a, b), k) = Slice(r, a, a + k)
             /\ Without(Slice(r, a, b), k) = Slice(r, a + k, b)
  <2>1. k \in Nat /\ k <= b - a
    OBVIOUS
  <2> QED
    BY <2>1, SliceOfSlice
<1> QED
  BY <1>1, <1>2

\* The peer gets the next units of what is pending.
LEMMA SendStep == IInv /\ Send => IInv' /\ [X!Next]_(X!vars)
<1> SUFFICES ASSUME IInv, Send PROVE IInv' /\ X!Next
  OBVIOUS
<1>1. PICK whole \in 0 .. Len(sendBuf), part \in 0 .. sendLen : SendToPeer(whole, part)
  BY DEF Send
<1> DEFINE took == Taken(sendBuf, whole, part)
           rest == Unsent(sendBuf, whole, part)
<1>2. /\ open /\ whole + part > 0
      /\ part > 0 => whole < Len(sendBuf) /\ part < Len(sendBuf[whole + 1])
      /\ delivered' = delivered \o took /\ sendBuf' = rest
      /\ sendLen' = sendLen - Len(took)
      /\ interest' = IF sendLen' = 0 THEN "in" ELSE "out"
      /\ UNCHANGED <<asked, wire, gone, inbox, recvBuf, handled, held, refused, spoiled, open>>
  BY <1>1 DEF SendToPeer, peerVars, readVars
<1>3. SendInv /\ SendTypes /\ ReadInv
  BY DEF IInv, SendInv
<1>4. sendBuf \in Seq(Buffer) /\ sendLen \in Nat /\ part \in Nat
  BY <1>3 DEF SendTypes
<1>5. /\ rest \in Seq(Buffer) /\ took \in Seq(Unit) /\ took # <<>>
      /\ Pending = took \o FlattenSeq(rest)
  BY <1>2, <1>4, TakenUnsent DEF Pending
<1> HIDE DEF took, rest
<1>6. Pending' = FlattenSeq(rest) /\ FlattenSeq(rest) \in Seq(Unit)
  BY <1>2, <1>5, BuffersOf DEF Pending
<1>7. /\ Pending \in Seq(Unit) /\ Len(Pending) = Len(took) + Len(Pending')
      /\ Pending = took \o Pending'
      /\ Len(took) \in Nat \ {0} /\ Len(Pending') \in Nat
      /\ sendLen = Len(Pending)
  <2>1. Pending \in Seq(Unit) /\ Len(Pending) = Len(took) + Len(Pending')
    BY <1>5, <1>6, ConcatProperties
  <2>2. sendLen = Len(Pending)
    BY <1>2, <1>3 DEF SendInv, SendLenExact, Pending
  <2> QED
    BY <1>5, <1>6, <2>1, <2>2
<1>8. SendTypes' /\ SendLenExact'
  <2>1. sendLen' = Len(Pending') /\ sendLen' \in Nat
    BY <1>2, <1>7
  <2>2. delivered' \in Seq(Unit)
    BY <1>2, <1>3, <1>5, ConcatProperties DEF SendTypes
  <2>3. sendBuf' \in Seq(Buffer) /\ (Pending' = <<>> <=> sendBuf' = <<>>)
    BY <1>2, <1>5, <1>6, BuffersOf
  <2>4. sendLen' = 0 <=> sendBuf' = <<>>
    BY <1>6, <2>1, <2>3
  <2> QED
    BY <1>2, <1>3, <2>1, <2>2, <2>3, <2>4 DEF SendTypes, SendLenExact, Pending
<1>9. UNCHANGED <<Owed, Waiting>>
  BY <1>2 DEF Owed, LastBuffers, Waiting
<1>10. delivered' # <<>> /\ Last(delivered') = Last(took)
  BY <1>2, <1>3, <1>5, Parts DEF SendTypes
<1>11. sendBuf # <<>>
  <2>1. SUFFICES ASSUME sendBuf = <<>> PROVE FALSE
    OBVIOUS
  <2> QED
    BY <1>2, <1>4, <2>1
<1>12. Keeping'
  BY <1>2, <1>3, <1>11 DEF SendInv, Keeping
<1>13. CASE Waiting
  <2>1. refused /\ \A j \in 1 .. Len(Pending) : Pending[j] = Status
    <3>1. (~refused => sendBuf = <<>>) /\ \A j \in DOMAIN Pending : Pending[j] = Status
      BY <1>3, <1>13 DEF SendInv, Sending
    <3>2. DOMAIN Pending = 1 .. Len(Pending)
      BY <1>7
    <3> QED
      BY <1>11, <3>1, <3>2
  <2>2. \A j \in 1 .. Len(took) + Len(Pending') :
           Pending[j] = IF j <= Len(took) THEN took[j] ELSE Pending'[j - Len(took)]
    BY <1>5, <1>6, <1>7, ConcatProperties
  <2>3. Last(took) = Status
    <3>1. Len(took) \in 1 .. Len(Pending)
      BY <1>7
    <3> QED
      BY <1>7, <2>1, <2>2, <3>1 DEF Last
  <2>4. ASSUME NEW j \in 1 .. Len(Pending') PROVE Pending'[j] = Status
    <3>1. PICK i \in 1 .. Len(Pending) : i = Len(took) + j
      BY <1>7
    <3>2. Pending[i] = Pending'[i - Len(took)] /\ i - Len(took) = j
      BY <1>7, <2>2, <3>1
    <3> QED
      BY <2>1, <3>2
  <2>5. Last(took)[1] < Len(asked)
    <3>1. Len(asked) \in Nat /\ Len(asked) >= 1
      BY <1>3, <1>13, Counts
    <3> QED
      BY <2>3, <3>1 DEF Status
  <2>6. DOMAIN Pending' = 1 .. Len(Pending')
    BY <1>6
  <2> QED
    <3>1. Sending'
      BY <1>2, <1>9, <1>10, <1>13, <2>1, <2>4, <2>5, <2>6 DEF Sending
    <3>2. IInv' /\ X!Deliver(Len(took))
      <4>1. ReadInv'
        BY <1>2, <1>3, ReadFrame
      <4>2. took = SubSeq(Pending, 1, Len(took))
            /\ Pending' = SubSeq(Pending, Len(took) + 1, Len(Pending))
        BY <1>5, <1>6, <1>7, Parts DEF AtMost, Without
      <4> QED
        BY <1>2, <1>8, <1>9, <1>12, <3>1, <4>1, <4>2
        DEF IInv, SendInv, X!Deliver, Owed, Pending
    <3>3. Len(took) \in 1 .. Len(Pending)
      BY <1>7
    <3> QED
      BY <3>2, <3>3 DEF X!Next, Pending
<1>14. CASE ~Waiting
  <2>1. asked # <<>>
    BY <1>3, <1>11, <1>14 DEF SendInv, Sending
  <2>2. PICK d \in Nat, w \in Nat, n \in Nat : Sent(d, w, n)
    BY <1>2, <1>3, <1>14, <2>1 DEF SendInv, Sending
  <2> DEFINE answer == Units(Len(asked), n)
  <2>3. /\ Len(asked) \in Nat
        /\ answer \in Seq(Unit) /\ Len(answer) = n
        /\ \A j \in 1 .. n : answer[j] = <<Len(asked), j, n>>
    BY <1>3, Counts, UnitsAre
  <2>4. /\ d <= w /\ w <= n /\ Pending = Slice(answer, d, w) /\ Owed = Slice(answer, w, n)
    BY <2>2 DEF Sent
  <2> HIDE DEF answer
  <2>5. /\ d + Len(took) <= w
        /\ took = Slice(answer, d, d + Len(took)) /\ Pending' = Slice(answer, d + Len(took), w)
    <3>1. /\ d <= w /\ w <= Len(answer) /\ answer \in Seq(Unit) /\ took \in Seq(Unit)
          /\ Pending' \in Seq(Unit) /\ Pending = took \o Pending'
          /\ Pending = Slice(answer, d, w)
      BY <1>5, <1>6, <1>7, <2>3, <2>4
    <3>2. /\ Len(Pending) = w - d
          /\ \A k \in 0 .. w - d : /\ AtMost(Pending, k) = Slice(answer, d, d + k)
                                  /\ Without(Pending, k) = Slice(answer, d + k, w)
      <4>1. d <= w /\ w <= Len(answer) /\ answer \in Seq(Unit)
        BY <3>1
      <4>2. /\ Len(Slice(answer, d, w)) = w - d
            /\ \A k \in 0 .. w - d : /\ AtMost(Slice(answer, d, w), k) = Slice(answer, d, d + k)
                                    /\ Without(Slice(answer, d, w), k) = Slice(answer, d + k, w)
        BY <4>1, SliceCuts, ZenonT(30)
      <4> QED
        BY <3>1, <4>2
    <3>3. AtMost(Pending, Len(took)) = took /\ Without(Pending, Len(took)) = Pending'
      BY <3>1, Parts
    <3>4. Len(took) \in 0 .. w - d /\ d + Len(took) <= w
      BY <1>7, <3>2
    <3> QED
      BY <3>2, <3>3, <3>4
  <2>6. PICK c \in Nat : /\ c = d + Len(took) /\ d <= c /\ c <= w
                         /\ took = Slice(answer, d, c) /\ Pending' = Slice(answer, c, w)
    BY <1>7, <2>5
  <2>7. Last(took) = <<Len(asked), c, n>> /\ c # 0
    <3>1. /\ Len(Slice(answer, d, c)) = c - d
          /\ \A j \in 1 .. c - d : Slice(answer, d, c)[j] = answer[d + j]
      <4>1. d <= c /\ c <= Len(answer) /\ answer \in Seq(Unit)
        BY <2>3, <2>4, <2>6
      <4> QED
        BY <4>1, SliceIs
    <3>2. c - d \in 1 .. c - d /\ d + (c - d) = c /\ c \in 1 .. n
      BY <1>7, <2>4, <2>6
    <3>3. Len(took) = c - d /\ took[c - d] = answer[c]
      BY <2>6, <3>1, <3>2
    <3>4. answer[c] = <<Len(asked), c, n>>
      BY <2>3, <3>2 DEF answer
    <3> QED
      BY <3>2, <3>3, <3>4 DEF Last
  <2>8. Sent(c, w, n)'
    BY <1>2, <1>9, <1>10, <2>4, <2>6, <2>7 DEF Sent, Got, answer
  <2> QED
    <3>1. Sending'
      BY <1>2, <1>9, <1>14, <2>1, <2>8 DEF Sending
    <3>2. IInv' /\ X!Deliver(Len(took))
      <4>1. ReadInv'
        BY <1>2, <1>3, ReadFrame
      <4>2. took = SubSeq(Pending, 1, Len(took))
            /\ Pending' = SubSeq(Pending, Len(took) + 1, Len(Pending))
        BY <1>5, <1>6, <1>7, Parts DEF AtMost, Without
      <4> QED
        BY <1>2, <1>8, <1>9, <1>12, <3>1, <4>1, <4>2
        DEF IInv, SendInv, X!Deliver, Owed, Pending
    <3>3. Len(took) \in 1 .. Len(Pending)
      BY <1>7
    <3> QED
      BY <3>2, <3>3 DEF X!Next, Pending
<1> QED
  BY <1>13, <1>14

\* send fails, and the connection is closed if nothing is kept.
LEMMA SendFailsStep == IInv /\ SendFails => IInv' /\ [X!Next]_(X!vars)
<1> SUFFICES ASSUME IInv, SendFails PROVE IInv' /\ [X!Next]_(X!vars)
  OBVIOUS
<1>1. /\ CloseConn /\ gone # "no"
      /\ UNCHANGED <<asked, wire, gone, inbox, recvBuf, handled, held, delivered, refused, spoiled>>
  BY DEF SendFails, peerVars, readVars
<1>2. ReadInv'
  BY <1>1, ReadFrame DEF IInv
<1> QED
  BY <1>1, <1>2, CloseStep

\* The application writes the next buffer of the answer it has kept.
LEMMA AppWritesStep ==
    ASSUME IInv, NEW i \in 1 .. MaxAsk, AppWrites(i)
    PROVE  IInv' /\ X!Next
<1>1. /\ i \in DOMAIN held /\ held[i] # <<>> /\ Write(<<Head(held[i])>>)
      /\ \/ Len(held[i]) = 1 /\ FreeRequest(i)
         \/ held' = [held EXCEPT ![i] = Tail(@)] /\ UNCHANGED <<recvBuf, spoiled>>
      /\ UNCHANGED <<asked, wire, gone, inbox, handled, delivered, refused, open>>
  BY DEF AppWrites, peerVars
<1>2. SendInv /\ SendTypes /\ SendLenExact /\ Keeping /\ ReadInv /\ ReadTypes
  BY DEF IInv, SendInv, ReadInv
<1> DEFINE h == held[i]
           k == Len(Head(h))
<1>3. /\ h \in Seq(Buffer) /\ h # <<>> /\ i = Len(asked) /\ open
      /\ i = Len(handled) /\ ~Waiting /\ asked # <<>>
  <2>1. h \in Seq(Buffer) /\ i = Len(asked) /\ i \in 1 .. Len(handled)
    BY <1>1, <1>2 DEF Keeping
  <2>2. open
    BY <1>1, <1>2 DEF Keeping
  <2> QED
    BY <1>1, <1>2, <2>1, <2>2, Counts
<1>4. recvBuf = NoBuf
  BY <1>2, <1>3 DEF ReadInv, Reading
<1>5. LastBuffers(Len(handled)) = h
  BY <1>1, <1>3 DEF LastBuffers
<1>6. h \in Seq(Seq(Unit))
  BY <1>3, BuffersOf
<1>7. /\ Head(h) \in Buffer /\ Tail(h) \in Seq(Buffer)
      /\ Head(h) \in Seq(Unit) /\ FlattenSeq(Tail(h)) \in Seq(Unit)
      /\ FlattenSeq(h) = Head(h) \o FlattenSeq(Tail(h))
      /\ k \in Nat \ {0}
  <2>1. Head(h) \in Buffer /\ Tail(h) \in Seq(Buffer)
    BY <1>3, HeadTailProperties
  <2>2. FlattenSeq(h) = Head(h) \o FlattenSeq(Tail(h))
    BY <1>3, <1>6, FlattenHead
  <2>3. Head(h) \in Seq(Unit) /\ Head(h) # <<>>
    BY <2>1 DEF Buffer
  <2>4. FlattenSeq(Tail(h)) \in Seq(Unit)
    BY <2>1, BuffersOf
  <2>5. k \in Nat \ {0}
    BY <2>3
  <2> QED
    BY <2>1, <2>2, <2>3, <2>4, <2>5
<1>8. /\ LastBuffers(Len(handled))' = Tail(h) /\ Keeping'
      /\ recvBuf' = recvBuf /\ spoiled' = spoiled
  <2>1. CASE Len(h) = 1 /\ FreeRequest(i)
    <3>1. held' = Drop(held, i) /\ recvBuf' = recvBuf /\ spoiled' = spoiled
      BY <1>2, <1>4, <2>1 DEF FreeRequest, ReadTypes
    <3>2. DOMAIN held' = DOMAIN held \ {i} /\ \A j \in DOMAIN held' : held'[j] = held[j]
      BY <3>1 DEF Drop
    <3>3. Tail(h) = <<>>
      <4>1. Len(Tail(h)) = 0 /\ Tail(h) \in Seq(Buffer)
        BY <1>3, <2>1, HeadTailProperties
      <4> QED
        BY <4>1, EmptySeq
    <3>4. held' \in [DOMAIN held' -> Seq(Buffer)]
      BY <1>2, <3>1, <3>2 DEF Keeping, Drop
    <3> QED
      BY <1>1, <1>2, <1>3, <3>1, <3>2, <3>3, <3>4 DEF Keeping, LastBuffers
  <2>2. CASE held' = [held EXCEPT ![i] = Tail(@)] /\ UNCHANGED <<recvBuf, spoiled>>
    <3>1. held' \in [DOMAIN held -> Seq(Buffer)]
      BY <1>1, <1>2, <1>7, <2>2 DEF Keeping
    <3>2. held'[i] = Tail(h) /\ DOMAIN held' = DOMAIN held
          /\ \A j \in DOMAIN held \ {i} : held'[j] = held[j]
      BY <1>1, <1>2, <2>2 DEF Keeping
    <3> QED
      BY <1>1, <1>2, <1>3, <2>2, <3>1, <3>2 DEF Keeping, LastBuffers
  <2> QED
    BY <1>1, <2>1, <2>2
<1> HIDE DEF h, k
<1>9. /\ Owed = FlattenSeq(h) /\ Owed' = FlattenSeq(Tail(h))
      /\ Owed = Head(h) \o Owed' /\ Owed' \in Seq(Unit) /\ Owed \in Seq(Unit)
  <2>1. Owed = FlattenSeq(h) /\ Owed' = FlattenSeq(Tail(h))
    BY <1>5, <1>8 DEF Owed
  <2>2. FlattenSeq(h) \in Seq(Unit)
    BY <1>3, BuffersOf
  <2> QED
    BY <1>7, <2>1, <2>2
<1>10. /\ sendBuf' \in Seq(Buffer) /\ sendLen' \in Nat /\ interest' \in {"in", "out"}
       /\ SendLenExact' /\ Pending \in Seq(Unit) /\ Pending' = Pending \o Head(h)
  <2>1. <<Head(h)>> \in Seq(Buffer) /\ FlattenSeq(<<Head(h)>>) = Head(h)
    BY <1>7, FlattenOne
  <2>2. Write(<<Head(h)>>) /\ open'
    BY <1>1, <1>3 DEF h
  <2>3. \A bufs \in Seq(Buffer) : Write(bufs) =>
            /\ sendBuf' \in Seq(Buffer) /\ sendLen' \in Nat /\ interest' \in {"in", "out"}
            /\ SendLenExact'
            /\ Pending \in Seq(Unit) /\ FlattenSeq(bufs) \in Seq(Unit)
            /\ Pending' = Pending \o FlattenSeq(bufs)
    BY <1>2, <1>3, <2>2, WriteIs
  <2> QED
    BY <2>1, <2>2, <2>3
<1>11. SendTypes'
  BY <1>1, <1>2, <1>10 DEF SendTypes
<1>12. AtMost(Owed, k) = Head(h) /\ Without(Owed, k) = Owed' /\ k \in 1 .. Len(Owed)
  <2>1. AtMost(Head(h) \o Owed', k) = Head(h) /\ Without(Head(h) \o Owed', k) = Owed'
    BY <1>7, <1>9, Parts DEF k
  <2>2. Len(Owed) = k + Len(Owed') /\ Len(Owed') \in Nat
    BY <1>7, <1>9, ConcatProperties DEF k
  <2> QED
    BY <1>7, <1>9, <2>1, <2>2
<1>13. PICK d \in Nat, w \in Nat, n \in Nat : Sent(d, w, n)
  BY <1>2, <1>3 DEF SendInv, Sending
<1> DEFINE answer == Units(Len(asked), n)
<1>14. answer \in Seq(Unit) /\ Len(answer) = n
  BY <1>2, Counts, UnitsAre
<1>15. /\ d <= w /\ w <= n /\ Pending = Slice(answer, d, w) /\ Owed = Slice(answer, w, n)
       /\ Got(d, n)
  BY <1>13 DEF Sent
<1>16. answer' = answer
  BY <1>1
<1> HIDE DEF answer
<1>17. /\ Len(Slice(answer, w, n)) = n - w
       /\ \A j \in 0 .. n - w : /\ AtMost(Slice(answer, w, n), j) = Slice(answer, w, w + j)
                               /\ Without(Slice(answer, w, n), j) = Slice(answer, w + j, n)
  <2>1. w <= n /\ n <= Len(answer) /\ answer \in Seq(Unit)
    BY <1>14, <1>15
  <2> QED
    BY <2>1, SliceCuts, ZenonT(30)
<1>18. PICK c \in Nat : /\ c = w + k /\ w <= c /\ c <= n
                        /\ Head(h) = Slice(answer, w, c) /\ Owed' = Slice(answer, c, n)
  BY <1>7, <1>12, <1>15, <1>17
<1>19. Pending' = Slice(answer, d, c)
  <2>1. d <= w /\ w <= c /\ c <= Len(answer) /\ answer \in Seq(Unit)
    BY <1>14, <1>15, <1>18
  <2>2. Slice(answer, d, w) \o Slice(answer, w, c) = Slice(answer, d, c)
    BY <2>1, SlicesJoin
  <2> QED
    BY <1>10, <1>15, <1>18, <2>2
<1>20. Sent(d, c, n)'
  <2>1. Got(d, n)'
    BY <1>1, <1>15 DEF Got
  <2>2. d <= c /\ c <= n
    BY <1>15, <1>18
  <2>3. Pending' = Slice(answer', d, c) /\ Owed' = Slice(answer', c, n)
    BY <1>16, <1>18, <1>19
  <2> QED
    BY <2>1, <2>2, <2>3 DEF Sent, answer
<1>21. Sending'
  BY <1>1, <1>3, <1>20 DEF Sending, Waiting
<1>22. ReadInv'
  BY <1>1, <1>2, <1>8, ReadFrame
<1>23. IInv'
  BY <1>8, <1>10, <1>11, <1>21, <1>22 DEF IInv, SendInv
<1>24. X!Write(k)
  BY <1>1, <1>3, <1>8, <1>10, <1>12 DEF X!Write, Owed, Pending, AtMost, Without
<1>25. k \in 1 .. Len(FlattenSeq(LastBuffers(Len(handled))))
  BY <1>12 DEF Owed
<1> QED
  BY <1>23, <1>24, <1>25 DEF X!Next

\* The application frees a kept request, and recv_buf with it.
LEMMA AppFreesStep ==
    ASSUME IInv, NEW i \in 1 .. MaxAsk, AppFrees(i)
    PROVE  IInv' /\ [X!Next]_(X!vars)
<1>1. /\ i \in DOMAIN held /\ held[i] = <<>>
      /\ held' = Drop(held, i) /\ recvBuf' = NoBuf /\ spoiled' = (spoiled \/ recvBuf # NoBuf)
      /\ UNCHANGED <<asked, wire, gone, inbox, handled, delivered, refused, open>>
      /\ UNCHANGED <<sendBuf, sendLen, interest>>
  BY DEF AppFrees, FreeRequest, peerVars, sendVars
<1>2. SendInv /\ SendTypes /\ SendLenExact /\ Keeping /\ Sending /\ ReadInv /\ ReadTypes
  BY DEF IInv, SendInv, ReadInv
<1>3. DOMAIN held' = DOMAIN held \ {i} /\ \A j \in DOMAIN held' : held'[j] = held[j]
  BY <1>1 DEF Drop
<1>4. UNCHANGED <<Owed, Pending, Waiting, Current>>
  <2>1. LastBuffers(Len(handled))' = LastBuffers(Len(handled))
    BY <1>1, <1>3 DEF LastBuffers
  <2> QED
    BY <1>1, <2>1 DEF Owed, Pending, Waiting, Current
<1>5. SendInv'
  <2>1. open
    BY <1>1, <1>2 DEF Keeping
  <2>2. held' \in [DOMAIN held' -> Seq(Buffer)]
    BY <1>1, <1>2, <1>3 DEF Keeping, Drop
  <2>3. Keeping'
    BY <1>1, <1>2, <1>3, <2>1, <2>2 DEF Keeping
  <2>4. SendTypes' /\ SendLenExact'
    BY <1>1, <1>2 DEF SendTypes, SendLenExact
  <2>5. ASSUME NEW d \in Nat, NEW w \in Nat, NEW n \in Nat, Sent(d, w, n)
        PROVE  Sent(d, w, n)'
    BY <1>1, <1>4, <2>5 DEF Sent, Got
  <2>6. Sending'
    BY <1>1, <1>2, <1>4, <2>5 DEF Sending
  <2> QED
    BY <2>3, <2>4, <2>6 DEF SendInv
<1>6. spoiled' \in BOOLEAN /\ (spoiled => spoiled') /\ (Excused => Excused')
  BY <1>1, <1>2, <1>4 DEF ReadTypes, Excused
<1>7. ReadInv'
  <2>1. ReadTypes' /\ Numbered'
    <3>1. recvBuf' \in [data : Seq(Token), left : Nat]
      BY <1>1, EmptySeq DEF NoBuf
    <3> QED
      BY <1>1, <1>2, <1>6, <3>1 DEF ReadInv, ReadTypes, Numbered
  <2>2. CASE Waiting
    <3>1. PICK a \in Nat, m \in Nat, b \in Nat : Read(a, m, b)
      BY <1>2, <2>2 DEF ReadInv, Reading
    <3>2. a >= 1 => Excused'
      <4>1. CASE recvBuf = NoBuf
        BY <1>1, <1>6, <3>1, <4>1 DEF Read, Whole, Broken, NoBuf
      <4>2. CASE recvBuf # NoBuf
        BY <1>1, <4>2 DEF Excused
      <4> QED
        BY <4>1, <4>2
    <3>3. Read(a, m, b)'
      BY <1>1, <1>4, <1>6, <3>1, <3>2 DEF Read
    <3> QED
      BY <1>4, <2>1, <2>2, <3>3 DEF ReadInv, Reading
  <2>3. CASE ~Waiting
    BY <1>1, <1>2, <1>4, <2>1, <2>3 DEF ReadInv, Reading
  <2> QED
    BY <2>2, <2>3
<1>8. spoiled' = spoiled \/ Waiting
  BY <1>1, <1>2, Busy DEF ReadTypes
<1>9. spoiled' \in {spoiled, TRUE}
  BY <1>1, <1>2 DEF ReadTypes
<1> QED
  BY <1>1, <1>4, <1>5, <1>7, <1>8, <1>9, SpoilStep

\* A new connection.
LEMMA InitStep == Init => IInv /\ X!Init
<1> SUFFICES ASSUME Init PROVE IInv /\ X!Init
  OBVIOUS
<1>1. ~Waiting /\ Len(asked) = 0 /\ Len(handled) = 0
  BY DEF Init, Waiting
<1>2. FlattenSeq(sendBuf) = <<>> /\ FlattenSeq(LastBuffers(Len(handled))) = <<>>
  BY FlattenNone DEF Init, LastBuffers
<1>3. ReadInv
  <2>1. recvBuf \in [data : Seq(Token), left : Nat]
    BY EmptySeq DEF Init, NoBuf
  <2>2. ReadTypes
    BY <2>1, EmptySeq DEF Init, ReadTypes
  <2>3. Numbered
    BY <1>1, ConnectionAssumption DEF Init, Numbered
  <2> QED
    BY <1>1, <2>2, <2>3 DEF Init, ReadInv, Reading
<1>4. SendInv
  BY <1>1, <1>2, EmptySeq DEF Init, SendInv, SendTypes, SendLenExact, Keeping, Sending
<1> QED
  BY <1>2, <1>3, <1>4 DEF Init, IInv, X!Init

\* Every step keeps the invariant, and is a step of the exchange or nothing it
\* sees.
LEMMA Step == IInv /\ [Next]_vars => IInv' /\ [X!Next]_(X!vars)
<1> SUFFICES ASSUME IInv, [Next]_vars PROVE IInv' /\ [X!Next]_(X!vars)
  OBVIOUS
<1>1. ASSUME NEW n \in Bodies, Ask(n) PROVE IInv' /\ [X!Next]_(X!vars)
  BY <1>1, AskStep
<1>2. ASSUME NEW k \in 1 .. Len(wire), Arrive(k) PROVE IInv' /\ [X!Next]_(X!vars)
  BY <1>2, ArriveStep
<1>3. CASE PeerShutsDown \/ PeerResets
  BY <1>3, PeerLeavesStep
<1>4. CASE Recv
  BY <1>4, RecvClosedStep, RecvRestStep, RecvRefusedStep, RecvFirstStep DEF Recv
<1>5. CASE Send
  BY <1>5, SendStep
<1>6. CASE SendFails
  BY <1>6, SendFailsStep
<1>7. ASSUME NEW i \in 1 .. MaxAsk, AppWrites(i) PROVE IInv' /\ [X!Next]_(X!vars)
  BY <1>7, AppWritesStep
<1>8. ASSUME NEW i \in 1 .. MaxAsk, AppFrees(i) PROVE IInv' /\ [X!Next]_(X!vars)
  BY <1>8, AppFreesStep
<1>9. CASE UNCHANGED vars
  <2>1. ReadInv'
    BY <1>9, ReadFrame DEF IInv, vars, peerVars, readVars
  <2>2. UNCHANGED <<gone, sendVars, open, held, delivered, asked, handled, refused, spoiled>>
    BY <1>9 DEF vars, peerVars, readVars
  <2> QED
    BY <2>1, <2>2, SilentStep
<1> QED
  BY <1>1, <1>2, <1>3, <1>4, <1>5, <1>6, <1>7, <1>8, <1>9 DEF Next

-----------------------------------------------------------------------------
(* The theorems. *)

\* What the reader and the writer of a connection keep true, however its stream
\* is cut: recv_buf is a prefix of the current request, the answer is in three
\* parts, delivered, in send_buf and kept by the application, and nothing is lost
\* between them (connection.c:113-271).
THEOREM ConnectionInvariant == Spec => []IInv
<1>1. Init => IInv
  BY InitStep
<1>2. IInv /\ [Next]_vars => IInv'
  BY Step
<1> QED
  BY <1>1, <1>2, PTL DEF Spec

\* The variables of a connection keep their types; in particular every buffer in
\* send_buf has something to send (connection.c:232-235).
THEOREM TypeCorrect == Spec => []TypeOK
BY ConnectionInvariant, TypesHold, PTL

\* send_buf_len is what the buffers of a connection hold, and epoll watches for
\* writing exactly while they hold something (connection.c:231, 242-244, 269-271).
THEOREM LengthExact == Spec => []SendLenExact
<1>1. IInv => SendLenExact
  BY DEF IInv, SendInv
<1> QED
  BY <1>1, ConnectionInvariant, PTL

\* For any bodies, buffers, answers and number of requests, a connection keeps
\* what Exchange promises: a request reaches its handler once and whole or is
\* refused for a reason, every unit of an answer reaches the peer once and in
\* order, and the connection is closed only after the peer has left and nothing
\* more is owed to it (connection.c:113-248, server.c:206-211, request.c:433).
THEOREM Implements == Spec => ImplementsExchange
<1>1. Init => X!Init
  BY InitStep
<1>2. IInv /\ [Next]_vars => [X!Next]_(X!vars)
  BY Step
<1> QED
  BY <1>1, <1>2, ConnectionInvariant, PTL DEF Spec, ImplementsExchange, X!Spec

=============================================================================
