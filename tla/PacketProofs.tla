---------------------------- MODULE PacketProofs ----------------------------
(***************************************************************************)
(* holy_new_req_pkt, whatever clients ask and whichever allocation fails:  *)
(* a packet is returned whole or not at all; the status says what is wrong *)
(* with the request, but for a field that memory was short for; what is    *)
(* read of it is what the client meant, or part of it where memory was     *)
(* short; and a static file is where its path leads to.                    *)
(*                                                                         *)
(* For the third, each part of the reader undoes what the client writes,   *)
(* for texts of any length: UrlDecode an Encode (DecodesBack), QueryPairs  *)
(* the pairs of a query (QueryBack), CookiePairs the cookies               *)
(* (CookiesRead), FormPairs the parts of a form (FormRead); and whichever  *)
(* pairs are set, what is found is one of them (SetFrom, GaveOne).         *)
(*                                                                         *)
(* For the last, the names that holy_get_real_path keeps of a path, item   *)
(* by item, are those that no later double dot leads back over             *)
(* (AllPlaced, FollowedIs); what is joined and trimmed of them has these   *)
(* names below static_path (JoinedPathIs, FileBelow); an absolute path is  *)
(* not joined (AbsolutePathIs, FileAbsolute).                              *)
(***************************************************************************)
EXTENDS Packet, StringProofs, FiniteSetTheorems

-----------------------------------------------------------------------------
(* The exits.                                                              *)

All == {"args", "fields", "cookies"}

\* The parts of holy_new_req_pkt between its dictionaries and its exits.
Reading == {"line", "query", "headers", "content", "cookies", "packet"}

\* What holds at the exit.
Whole == (pkt <=> status = OK) /\ dicts = IF pkt THEN All ELSE {}

\* The dictionaries are there while the request is read, the packet after it.
PInv ==
    /\ stage \in Reading \cup {"new", "static", "done"}
    /\ pkt \in BOOLEAN
    /\ stage \in Reading => dicts = All
    /\ stage \in Reading \cup {"new"} => ~pkt
    /\ stage = "static" => pkt /\ Whole
    /\ stage = "done" => Whole

\* The exit at fail, with a status that is not OK, from wherever no packet is
\* made yet.
LEMMA FailIsWhole ==
    ASSUME PInv, NEW code, code # OK, Fail(code), ~pkt
    PROVE  PInv'
  BY DEF PInv, Fail, Whole, Reading

\* A part that succeeds goes on to the next with its dictionaries.
LEMMA GotoKeeps ==
    ASSUME PInv, stage \in Reading \cup {"new"}, NEW next \in Reading,
           Goto(next), dicts' = All
    PROVE  PInv'
  BY DEF PInv, Goto, Whole, Reading

\* Nothing is allocated before the request is read.
LEMMA InitPInv == Init => PInv
  BY DEF Init, PInv, Reading, Whole

\* Every part of holy_new_req_pkt keeps the invariant.
LEMMA StepPInv == PInv /\ [Next]_vars => PInv'
<1> SUFFICES ASSUME PInv, [Next]_vars PROVE PInv'
  OBVIOUS
<1> USE DEF OK, BAD_REQUEST, INSUFFICIENT_STORAGE, Unset
<1>u. CASE UNCHANGED vars
  BY <1>u DEF vars, PInv, Whole
<1>1. CASE Dicts
  <2>1. stage = "new" /\ ~pkt
    BY <1>1 DEF Dicts, PInv, Reading
  <2>2. CASE dicts' = {"args", "fields", "cookies"} /\ Goto("line")
    BY <2>1, <2>2, GotoKeeps DEF Reading, All
  <2>3. CASE Fail(INSUFFICIENT_STORAGE)
    BY <2>1, <2>3, FailIsWhole
  <2> QED
    BY <1>1, <2>2, <2>3 DEF Dicts
<1>2. CASE RequestLine
  <2>1. stage = "line" /\ ~pkt /\ dicts = All
    BY <1>2 DEF RequestLine, PInv, Reading
  <2>2. CASE LineFault = OK
    <3>1. Goto("query") /\ dicts' = All
      BY <1>2, <2>1, <2>2 DEF RequestLine
    <3> QED
      BY <2>1, <3>1, GotoKeeps DEF Reading
  <2>3. CASE LineFault # OK
    <3>1. Fail(LineFault)
      BY <1>2, <2>3 DEF RequestLine
    <3> QED
      BY <2>1, <2>3, <3>1, FailIsWhole
  <2> QED
    BY <2>2, <2>3
<1>3. CASE Query
  <2>1. stage = "query" /\ ~pkt /\ dicts = All
    BY <1>3 DEF Query, PInv, Reading
  <2>2. (Goto("headers") /\ dicts' = dicts) \/ Fail(Unset)
    BY <1>3 DEF Query
  <2>3. CASE Goto("headers") /\ dicts' = dicts
    BY <2>1, <2>3, GotoKeeps DEF Reading
  <2>4. CASE Fail(Unset)
    BY <2>1, <2>4, FailIsWhole
  <2> QED
    BY <2>2, <2>3, <2>4
<1>4. CASE Headers
  <2>1. stage = "headers" /\ ~pkt /\ dicts = All
    BY <1>4 DEF Headers, PInv, Reading
  <2>2. \/ Goto("content") /\ dicts' = dicts
        \/ Fail(BAD_REQUEST) \/ Fail(INSUFFICIENT_STORAGE)
    BY <1>4 DEF Headers
  <2>3. CASE Goto("content") /\ dicts' = dicts
    BY <2>1, <2>3, GotoKeeps DEF Reading
  <2>4. CASE Fail(BAD_REQUEST)
    BY <2>1, <2>4, FailIsWhole
  <2>5. CASE Fail(INSUFFICIENT_STORAGE)
    BY <2>1, <2>5, FailIsWhole
  <2> QED
    BY <2>2, <2>3, <2>4, <2>5
<1>5. CASE ContentNone \/ ContentQuery \/ ContentForm
  <2>1. stage = "content" /\ ~pkt /\ dicts = All
    BY <1>5 DEF ContentNone, ContentQuery, ContentForm, PInv, Reading
  <2>2. (Goto("cookies") /\ dicts' = dicts) \/ Fail(BAD_REQUEST)
    BY <1>5 DEF ContentNone, ContentQuery, ContentForm, Set
  <2>3. CASE Goto("cookies") /\ dicts' = dicts
    BY <2>1, <2>3, GotoKeeps DEF Reading
  <2>4. CASE Fail(BAD_REQUEST)
    BY <2>1, <2>4, FailIsWhole
  <2> QED
    BY <2>2, <2>3, <2>4
<1>6. CASE Cookies
  <2>1. stage = "cookies" /\ dicts = All
    BY <1>6 DEF Cookies, PInv, Reading
  <2>2. Goto("packet") /\ dicts' = dicts
    BY <1>6 DEF Cookies
  <2> QED
    BY <2>1, <2>2, GotoKeeps DEF Reading
<1>7. CASE Packet
  <2>1. stage = "packet" /\ ~pkt /\ dicts = All
    BY <1>7 DEF Packet, PInv, Reading
  <2>2. CASE pkt' = TRUE /\ status' = OK /\ stage' = "static" /\ dicts' = dicts
    BY <2>1, <2>2 DEF PInv, Whole, Reading
  <2>3. CASE Fail(INSUFFICIENT_STORAGE)
    BY <2>1, <2>3, FailIsWhole
  <2> QED
    BY <1>7, <2>2, <2>3 DEF Packet
<1>8. CASE HandleStatic
  BY <1>8 DEF HandleStatic, PInv, Whole, Reading
<1> QED
  BY <1>u, <1>1, <1>2, <1>3, <1>4, <1>5, <1>6, <1>7, <1>8 DEF Next

\* The invariant behind it: three dictionaries from the first step to the exit,
\* a packet only after the last (packet.c:463-516).
THEOREM SpecPInv == Spec => []PInv
<1>1. Init => PInv
  BY InitPInv
<1>2. PInv /\ [Next]_vars => PInv'
  BY StepPInv
<1> QED
  BY <1>1, <1>2, PTL DEF Spec

\* Whatever is asked and wherever memory fails, holy_new_req_pkt returns a packet
\* with its dictionaries and OK, or nothing and frees what it had
\* (packet.c:518-522).
THEOREM PacketWholeOrNone == Spec => []AllOrNothing
<1>1. PInv => AllOrNothing
  BY DEF PInv, AllOrNothing, Whole, All
<1> QED
  BY <1>1, SpecPInv, PTL

-----------------------------------------------------------------------------
(* What set_ss leaves in a dictionary.                                     *)

\* The names that set_ss leaves in a dictionary.
LEMMA SetDomain ==
    ASSUME NEW args, NEW pairs, NEW those, NEW k
    PROVE  k \in DOMAIN SetThese(args, pairs, those)
              <=> k \in DOMAIN args \/ \E i \in those : pairs[i][1] = k
  BY DEF SetThese

\* The last pair of a name gives its value.
LEMMA SetLast ==
    ASSUME NEW args, NEW pairs, NEW those \in SUBSET Nat, NEW i \in those,
           \A j \in those : pairs[j][1] = pairs[i][1] => j <= i
    PROVE  SetThese(args, pairs, those)[pairs[i][1]] = pairs[i][2]
<1> DEFINE k == pairs[i][1]
           S == {j \in those : pairs[j][1] = k}
<1>1. S \in SUBSET Int /\ i \in S /\ S # {}
  <2>1. i \in S
    OBVIOUS
  <2>2. \A j \in S : j \in those
    OBVIOUS
  <2>3. \A j \in those : j \in Int
    OBVIOUS
  <2> HIDE DEF S
  <2>4. S \in SUBSET Int
    BY <2>2, <2>3
  <2> QED
    BY <2>1, <2>4
<1>2. \A j \in S : i >= j
  <2>1. ASSUME NEW j \in S PROVE i >= j
    <3>1. j \in Nat /\ i \in Nat /\ j <= i
      OBVIOUS
    <3> QED
      BY <3>1
  <2> QED
    BY <2>1
<1>3. Max(S) = i
  <2> HIDE DEF S
  <2> QED
    BY <1>2, <1>1, MaxIs
<1>4. k \in DOMAIN args \cup {pairs[j][1] : j \in those}
  OBVIOUS
<1>5. SetThese(args, pairs, those)[k] = pairs[Max(S)][2]
  BY <1>1, <1>4 DEF SetThese
<1> QED
  BY <1>3, <1>5

\* A name that no pair has keeps its value.
LEMMA SetKeeps ==
    ASSUME NEW args, NEW pairs, NEW those, NEW k \in DOMAIN args,
           \A j \in those : pairs[j][1] # k
    PROVE  SetThese(args, pairs, those)[k] = args[k]
<1>1. {j \in those : pairs[j][1] = k} = {}
  OBVIOUS
<1> QED
  BY <1>1 DEF SetThese

\* A value that is found was there before or is that of one of the pairs that are set.
Sourced(args, pairs, those) ==
    LET s == SetThese(args, pairs, those)
    IN  \A k \in DOMAIN s : \/ k \in DOMAIN args /\ s[k] = args[k]
                            \/ \E i \in those : pairs[i][1] = k /\ s[k] = pairs[i][2]

\* Whichever of the pairs are set.
LEMMA SetFrom ==
    ASSUME NEW args, NEW n \in Nat, NEW pairs, NEW those \in SUBSET (1 .. n)
    PROVE  Sourced(args, pairs, those)
<1>0. PICK s : s = SetThese(args, pairs, those)
  OBVIOUS
<1> SUFFICES ASSUME NEW k \in DOMAIN s
             PROVE  \/ k \in DOMAIN args /\ s[k] = args[k]
                    \/ \E i \in those : pairs[i][1] = k /\ s[k] = pairs[i][2]
  BY <1>0 DEF Sourced
<1> DEFINE S == {i \in those : pairs[i][1] = k}
<1>1. k \in DOMAIN args \cup {pairs[i][1] : i \in those}
  BY <1>0 DEF SetThese
<1>2. s[k] = IF S = {} THEN args[k] ELSE pairs[Max(S)][2]
  BY <1>0, <1>1 DEF SetThese
<1>3. CASE S = {}
  BY <1>1, <1>2, <1>3
<1>4. CASE S # {}
  <2>1. S \in SUBSET (1 .. n) /\ \A i \in S : i \in those /\ pairs[i][1] = k
    OBVIOUS
  <2> HIDE DEF S
  <2>2. Max(S) \in S
    BY <1>4, <2>1, MaxIn
  <2> QED
    BY <1>2, <1>4, <2>1, <2>2
<1> QED
  BY <1>3, <1>4

-----------------------------------------------------------------------------
(* The header of a request.                                                *)

\* The value of the field name, or <<>>, when memory lasts.
ValueOf(lines, name) ==
    LET fields == Fields(lines, Readable(lines))
    IN  IF name \in DOMAIN fields THEN fields[name] ELSE <<>>

\* Whether one of the lines is r.
Has(lines, r) == \E j \in DOMAIN lines : lines[j] = r

\* A line of two parts of a header is in one of them.
LEMMA HasConcat ==
    ASSUME NEW V, NEW s \in Seq(V), NEW t \in Seq(V)
    PROVE  \A r : Has(s \o t, r) <=> Has(s, r) \/ Has(t, r)
<1>1. /\ DOMAIN s = 1 .. Len(s) /\ DOMAIN t = 1 .. Len(t)
      /\ DOMAIN (s \o t) = 1 .. Len(s) + Len(t)
  OBVIOUS
<1>2. Len(s) \in Nat /\ Len(t) \in Nat
  OBVIOUS
<1>3. ASSUME NEW r, Has(s, r) PROVE Has(s \o t, r)
  <2>1. PICK j \in 1 .. Len(s) : s[j] = r
    BY <1>1, <1>3 DEF Has
  <2>2. j \in 1 .. Len(s) + Len(t) /\ (s \o t)[j] = s[j]
    BY <1>2
  <2> QED
    BY <1>1, <2>1, <2>2 DEF Has
<1>4. ASSUME NEW r, Has(t, r) PROVE Has(s \o t, r)
  <2>1. PICK j \in 1 .. Len(t) : t[j] = r
    BY <1>1, <1>4 DEF Has
  <2>2. Len(s) + j \in 1 .. Len(s) + Len(t) /\ (s \o t)[Len(s) + j] = t[j]
    BY <1>2
  <2> QED
    BY <1>1, <2>1, <2>2 DEF Has
<1>5. ASSUME NEW r, Has(s \o t, r) PROVE Has(s, r) \/ Has(t, r)
  <2>1. PICK j \in 1 .. Len(s) + Len(t) : (s \o t)[j] = r
    BY <1>1, <1>5 DEF Has
  <2>2. CASE j <= Len(s)
    <3>1. j \in 1 .. Len(s) /\ (s \o t)[j] = s[j]
      BY <1>2, <2>2
    <3> QED
      BY <1>1, <2>1, <3>1 DEF Has
  <2>3. CASE j > Len(s)
    <3>1. j - Len(s) \in 1 .. Len(t) /\ (s \o t)[j] = t[j - Len(s)]
      BY <1>2, <2>3
    <3> QED
      BY <1>1, <2>1, <3>1 DEF Has
  <2> QED
    BY <1>2, <2>2, <2>3
<1> QED
  BY <1>3, <1>4, <1>5

\* A line is found by its name, if no line of that name says something else.
LEMMA LineFound ==
    ASSUME NEW V, NEW lines \in Seq(V), NEW r, Has(lines, r), r.blank, r.value # <<>>,
           \A q : Has(lines, q) /\ q.name = r.name => q.value = r.value
    PROVE  ValueOf(lines, r.name) = r.value
<1> DEFINE pairs == [j \in DOMAIN lines |-> <<lines[j].name, lines[j].value>>]
           those == {j \in DOMAIN lines : lines[j].blank /\ lines[j].value # <<>>}
           S == {j \in those : pairs[j][1] = r.name}
<1>1. DOMAIN lines = 1 .. Len(lines) /\ Len(lines) \in Nat
  OBVIOUS
<1>2. PICK m \in S : \A j \in S : j <= m
  <2>1. \A j \in S : j \in Nat /\ j <= Len(lines)
    BY <1>1
  <2>2. S # {}
    BY DEF Has
  <2> HIDE DEF S
  <2> QED
    BY <1>1, <2>1, <2>2, GreatestExists
<1>3. m \in DOMAIN lines /\ m \in those /\ lines[m].name = r.name /\ pairs[m] = <<r.name, lines[m].value>>
  OBVIOUS
<1>4. lines[m].value = r.value
  BY <1>3 DEF Has
<1>5. pairs[m][1] = r.name /\ pairs[m][2] = r.value
  BY <1>3, <1>4
<1>6. \A j \in those : pairs[j][1] = pairs[m][1] => j <= m
  BY <1>2, <1>5
<1>7. Readable(lines) = those /\ Fields(lines, those) = SetThese(<<>>, pairs, those)
  BY DEF Fields, Readable
<1>8. those \in SUBSET Nat
  BY <1>1
<1> HIDE DEF pairs, those, S
<1>9. SetThese(<<>>, pairs, those)[pairs[m][1]] = pairs[m][2]
  BY <1>3, <1>6, <1>8, SetLast
<1>10. pairs[m][1] \in DOMAIN SetThese(<<>>, pairs, those)
  BY <1>3, SetDomain
<1> QED
  BY <1>5, <1>7, <1>9, <1>10 DEF ValueOf

\* A field that no line has, or only lines without a blank or a value, is absent.
LEMMA LineAbsent ==
    ASSUME NEW lines, NEW name,
           \A r : Has(lines, r) /\ r.name = name => ~r.blank \/ r.value = <<>>
    PROVE  ValueOf(lines, name) = <<>>
<1> DEFINE pairs == [j \in DOMAIN lines |-> <<lines[j].name, lines[j].value>>]
           those == {j \in DOMAIN lines : lines[j].blank /\ lines[j].value # <<>>}
<1>1. Readable(lines) = those /\ Fields(lines, those) = SetThese(<<>>, pairs, those)
  BY DEF Fields, Readable
<1>2. ~\E j \in those : pairs[j][1] = name
  BY DEF Has
<1> HIDE DEF pairs, those
<1>3. DOMAIN <<>> = {}
  OBVIOUS
<1>4. name \notin DOMAIN SetThese(<<>>, pairs, those)
  BY <1>2, <1>3, SetDomain
<1> QED
  BY <1>1, <1>4 DEF ValueOf

\* A field is found with the value it has when memory lasts, or its name is among those
\* that were lost.
FieldIs(lines, those, found, lost, name) ==
    (IF name \in found THEN Fields(lines, those)[name] ELSE <<>>)
       = IF name \in lost THEN <<>> ELSE ValueOf(lines, name)

\* Whichever fields are set and looked up.
LEMMA LineLost ==
    ASSUME NEW V, NEW lines \in Seq(V), NEW name, NEW missed,
           \A q, r : Has(lines, q) /\ Has(lines, r) /\ q.name = r.name => q = r,
           NEW those \in SUBSET Readable(lines),
           NEW found, found = DOMAIN Fields(lines, those) \ missed,
           NEW lost, lost = {lines[i].name : i \in Readable(lines)} \ found
    PROVE  FieldIs(lines, those, found, lost, name)
<1> USE DEF FieldIs
<1>1. PICK n \in Nat : n = Len(lines) /\ DOMAIN lines = 1 .. n
  OBVIOUS
<1>2. PICK pairs : /\ pairs = [j \in DOMAIN lines |-> <<lines[j].name, lines[j].value>>]
                   /\ \A j \in 1 .. n : pairs[j][1] = lines[j].name /\ pairs[j][2] = lines[j].value
  <2>1. PICK pairs : pairs = [j \in DOMAIN lines |-> <<lines[j].name, lines[j].value>>]
    OBVIOUS
  <2>2. ASSUME NEW j \in 1 .. n PROVE pairs[j] = <<lines[j].name, lines[j].value>>
    BY <1>1, <2>1
  <2>3. ASSUME NEW j \in 1 .. n PROVE pairs[j][1] = lines[j].name /\ pairs[j][2] = lines[j].value
    BY <2>2
  <2> QED
    BY <2>1, <2>3
<1>3. PICK all \in SUBSET (1 .. n) : all = Readable(lines)
  BY <1>1 DEF Readable
<1>4. \A j \in all : lines[j].blank /\ lines[j].value # <<>> /\ Has(lines, lines[j])
  BY <1>1, <1>3 DEF Readable, Has
<1>5. Fields(lines, those) = SetThese(<<>>, pairs, those)
  BY <1>2 DEF Fields
<1>6. CASE name \in found
  <2>1. name \in DOMAIN SetThese(<<>>, pairs, those) /\ those \in SUBSET (1 .. n)
    BY <1>3, <1>5, <1>6
  <2>2. PICK i \in those : pairs[i][1] = name
                           /\ SetThese(<<>>, pairs, those)[name] = pairs[i][2]
    <3>1. PICK none, s : /\ none = <<>> /\ name \notin DOMAIN none
                         /\ s = SetThese(none, pairs, those)
      <4>1. DOMAIN <<>> = {}
        OBVIOUS
      <4> QED
        BY <4>1
    <3>2. Sourced(none, pairs, those)
      BY <2>1, SetFrom
    <3>3. \E i \in those : pairs[i][1] = name /\ s[name] = pairs[i][2]
      BY <2>1, <3>1, <3>2 DEF Sourced
    <3> QED
      BY <3>1, <3>3
  <2>3. PICK r : r = lines[i]
    OBVIOUS
  <2>4. r.name = name /\ r.blank /\ r.value # <<>> /\ Has(lines, r)
    BY <1>2, <1>3, <1>4, <2>1, <2>2, <2>3
  <2>5. \A q : Has(lines, q) /\ q.name = r.name => q.value = r.value
    BY <2>4
  <2>6. ValueOf(lines, r.name) = r.value
    BY <2>4, <2>5, LineFound
  <2> QED
    BY <1>2, <1>5, <1>6, <2>1, <2>2, <2>3, <2>4, <2>6
<1>7. CASE name \notin found /\ name \in lost
  BY <1>7
<1>8. CASE name \notin found /\ name \notin lost
  <2>1. \A i \in Readable(lines) : lines[i].name # name
    BY <1>8
  <2>2. \A r : Has(lines, r) /\ r.name = name => ~r.blank \/ r.value = <<>>
    BY <2>1 DEF Has, Readable
  <2>3. ValueOf(lines, name) = <<>>
    BY <2>2, LineAbsent
  <2> QED
    BY <1>8, <2>3
<1> QED
  BY <1>6, <1>7, <1>8

\* What the fields say of a request: the length and the type of what it carries and
\* its cookies, as the client wrote them, or nothing without a blank.
Told(a) ==
    LET of(name) == ValueOf(Lines(a), name)
    IN  /\ ~a.blank => /\ of("content-length") = <<>> /\ of("content-type") = <<>>
                       /\ of("cookie") = <<>>
        /\ a.blank =>
              /\ of("content-length") = IF a.type = "none" THEN <<>> ELSE <<Len(Content(a))>>
              /\ of("content-type") =
                    CASE a.type = "none"  -> <<>>
                      [] a.type = "bare"  -> <<"multipart", "form-data">>
                      [] a.type = "urlencoded" -> <<"application", "x-www-form-urlencoded">>
                      [] OTHER            -> <<"multipart", "form-data", "B">>
              /\ of("cookie") = IF a.cookies = <<>> THEN <<>> ELSE CookieText(a.cookies)

\* The names of fields.
Names == {"host", "content-length", "content-type", "cookie"}

\* Each line has a name of its own.
Distinct(a) ==
    /\ \E V : Lines(a) \in Seq(V)
    /\ \A r : Has(Lines(a), r) => r.name \in Names
    /\ \A q, r : Has(Lines(a), q) /\ Has(Lines(a), r) /\ q.name = r.name => q = r

\* The lines of a request.
LEMMA LinesTell ==
    ASSUME NEW a, Writable(a)
    PROVE  Told(a) /\ Distinct(a)
<1> DEFINE Line(name, lower, value) ==
               [name |-> name, lower |-> lower, blank |-> a.blank, value |-> value]
           type == CASE a.type \in {"multipart", "unended"}
                                             -> <<"multipart", "form-data", "B">>
                     [] a.type = "bare"      -> <<"multipart", "form-data">>
                     [] OTHER                -> <<"application", "x-www-form-urlencoded">>
           host   == Line("host", FALSE, <<"h">>)
           length == Line("content-length", FALSE, <<Len(Content(a))>>)
           kind   == Line("content-type", TRUE, type)
           cookie == Line("cookie", FALSE, CookieText(a.cookies))
           V == {host, length, kind, cookie}
           H == IF a.host THEN <<host>> ELSE <<>>
           T == IF a.type = "none" THEN <<>> ELSE <<length, kind>>
           C == IF a.cookies = <<>> THEN <<>> ELSE <<cookie>>
<1>1. Lines(a) = H \o T \o C
  BY DEF Lines
<1>2. \A r : /\ Has(H, r) <=> a.host /\ r = host
             /\ Has(T, r) <=> a.type # "none" /\ (r = length \/ r = kind)
             /\ Has(C, r) <=> a.cookies # <<>> /\ r = cookie
  <2> HIDE DEF host, length, kind, cookie
  <2> QED
    BY DEF Has
<1>3. H \in Seq(V) /\ T \in Seq(V) /\ C \in Seq(V)
  <2>1. host \in V /\ length \in V /\ kind \in V /\ cookie \in V
    OBVIOUS
  <2> HIDE DEF host, length, kind, cookie, V
  <2>2. <<>> \in Seq(V) /\ <<host>> \in Seq(V) /\ <<length, kind>> \in Seq(V)
        /\ <<cookie>> \in Seq(V)
    BY <2>1
  <2> QED
    BY <2>2
<1>4. H \o T \in Seq(V) /\ Lines(a) \in Seq(V)
  <2> HIDE DEF H, T, C, V
  <2> QED
    BY <1>1, <1>3
<1>5. \A r : Has(Lines(a), r) <=> \/ a.host /\ r = host
                                  \/ a.type # "none" /\ (r = length \/ r = kind)
                                  \/ a.cookies # <<>> /\ r = cookie
  <2> HIDE DEF Line, H, T, C, V, host, length, kind, cookie
  <2>1. \A r : Has(H \o T, r) <=> Has(H, r) \/ Has(T, r)
    BY <1>3, HasConcat
  <2>2. \A r : Has((H \o T) \o C, r) <=> Has(H \o T, r) \/ Has(C, r)
    BY <1>3, <1>4, HasConcat
  <2>3. ASSUME NEW r
        PROVE  Has(Lines(a), r) <=> \/ a.host /\ r = host
                                    \/ a.type # "none" /\ (r = length \/ r = kind)
                                    \/ a.cookies # <<>> /\ r = cookie
    <3>1. Has(Lines(a), r) <=> Has(H, r) \/ Has(T, r) \/ Has(C, r)
      BY <1>1, <2>1, <2>2
    <3>2. /\ Has(H, r) <=> a.host /\ r = host
          /\ Has(T, r) <=> a.type # "none" /\ (r = length \/ r = kind)
          /\ Has(C, r) <=> a.cookies # <<>> /\ r = cookie
      BY <1>2
    <3> QED
      BY <3>1, <3>2
  <2> QED
    BY <2>3
<1>6. /\ host.name = "host" /\ length.name = "content-length"
      /\ kind.name = "content-type" /\ cookie.name = "cookie"
      /\ host.blank = a.blank /\ length.blank = a.blank
      /\ kind.blank = a.blank /\ cookie.blank = a.blank
      /\ length.value = <<Len(Content(a))>> /\ kind.value = type
      /\ cookie.value = CookieText(a.cookies)
      /\ length.value # <<>> /\ type # <<>>
  OBVIOUS
<1>7. type = CASE a.type = "bare"  -> <<"multipart", "form-data">>
              [] a.type = "urlencoded" -> <<"application", "x-www-form-urlencoded">>
              [] a.type = "none" -> type
              [] OTHER            -> <<"multipart", "form-data", "B">>
  BY DEF Writable
<1> HIDE DEF Line, host, length, kind, cookie, type, V, H, T, C
<1>8. ASSUME ~a.blank, NEW name PROVE ValueOf(Lines(a), name) = <<>>
  BY <1>5, <1>6, <1>8, LineAbsent
<1>9. ASSUME a.blank, a.type # "none"
      PROVE  ValueOf(Lines(a), "content-length") = <<Len(Content(a))>>
             /\ ValueOf(Lines(a), "content-type") = type
  <2>1. Has(Lines(a), length) /\ length.blank /\ length.value # <<>>
        /\ \A q : Has(Lines(a), q) /\ q.name = length.name => q.value = length.value
    BY <1>5, <1>6, <1>9
  <2>2. Has(Lines(a), kind) /\ kind.blank /\ kind.value # <<>>
        /\ \A q : Has(Lines(a), q) /\ q.name = kind.name => q.value = kind.value
    BY <1>5, <1>6, <1>9
  <2>3. ValueOf(Lines(a), length.name) = length.value
    BY <1>4, <2>1, LineFound
  <2>4. ValueOf(Lines(a), kind.name) = kind.value
    BY <1>4, <2>2, LineFound
  <2> QED
    BY <1>6, <2>3, <2>4
<1>10. ASSUME a.type = "none"
       PROVE  ValueOf(Lines(a), "content-length") = <<>>
              /\ ValueOf(Lines(a), "content-type") = <<>>
  <2>1. \A r : Has(Lines(a), r) => r.name # "content-length" /\ r.name # "content-type"
    BY <1>5, <1>6, <1>10
  <2> QED
    BY <2>1, LineAbsent
<1>11. ASSUME a.blank, a.cookies # <<>>
       PROVE  ValueOf(Lines(a), "cookie") = CookieText(a.cookies)
  <2>1. CASE cookie.value # <<>>
    <3>1. Has(Lines(a), cookie) /\ cookie.blank
          /\ \A q : Has(Lines(a), q) /\ q.name = cookie.name => q.value = cookie.value
      BY <1>5, <1>6, <1>11
    <3>2. ValueOf(Lines(a), cookie.name) = cookie.value
      BY <1>4, <2>1, <3>1, LineFound
    <3> QED
      BY <1>6, <3>2
  <2>2. CASE cookie.value = <<>>
    <3>1. \A r : Has(Lines(a), r) /\ r.name = "cookie" => r.value = <<>>
      BY <1>5, <1>6, <2>2
    <3>2. ValueOf(Lines(a), "cookie") = <<>>
      BY <3>1, LineAbsent
    <3> QED
      BY <1>6, <2>2, <3>2
  <2> QED
    BY <2>1, <2>2
<1>12. ASSUME a.cookies = <<>>
       PROVE  ValueOf(Lines(a), "cookie") = <<>>
  <2>1. \A r : Has(Lines(a), r) => r.name # "cookie"
    BY <1>5, <1>6, <1>12
  <2> QED
    BY <2>1, LineAbsent
<1>13. Distinct(a)
  <2>1. \A r : Has(Lines(a), r) => r = host \/ r = length \/ r = kind \/ r = cookie
    BY <1>5
  <2>2. \A r : Has(Lines(a), r) => r.name \in Names
    BY <1>6, <2>1 DEF Names
  <2>3. \A q, r : Has(Lines(a), q) /\ Has(Lines(a), r) /\ q.name = r.name => q = r
    BY <1>6, <2>1
  <2> QED
    BY <1>4, <2>2, <2>3 DEF Distinct
<1> QED
  BY <1>7, <1>8, <1>9, <1>10, <1>11, <1>12, <1>13 DEF Told

-----------------------------------------------------------------------------
(* The contents of a request.                                              *)

\* The words of a form are characters, no two alike.
LEMMA WordsDiffer ==
    /\ Words \subseteq Char
    /\ Blank \in Char /\ Semicolon \in Char /\ CRLF \in Char /\ Quote \in Char
    /\ FormData \in Char /\ NameIs \in Char
    /\ "--" \in Char /\ "B" \in Char /\ "file" \in Char /\ "f" \in Char
    /\ "Content-Type:" \in Char /\ "=" \in Char /\ "&" \in Char /\ "%" \in Char
    /\ "+" \in Char /\ "?" \in Char
<1>1. Words \subseteq Char
  BY PacketAssumption
<1> QED
  BY <1>1 DEF Words

\* What is between the boundaries of a multipart form.
Middle(fields) == Join([i \in DOMAIN fields |-> FormPart(fields[i])], <<CRLF, "--", "B", CRLF>>)
Opening == <<"--", "B", CRLF>>
Closing == <<CRLF, "--", "B", "--", CRLF>>

\* Texts joined are a text.
LEMMA JoinType ==
    ASSUME NEW V, NEW texts \in Seq(Seq(V)), NEW separator \in Seq(V)
    PROVE  Join(texts, separator) \in Seq(V)
<1> DEFINE s == [i \in DOMAIN texts |-> IF i = 1 THEN texts[i] ELSE separator \o texts[i]]
<1>1. s \in Seq(Seq(V))
  <2>1. ASSUME NEW i \in 1 .. Len(texts) PROVE s[i] \in Seq(V)
    <3>1. texts[i] \in Seq(V)
      OBVIOUS
    <3>2. separator \o texts[i] \in Seq(V)
      BY <3>1, ConcatProperties
    <3> QED
      BY <3>1, <3>2
  <2>2. s = [i \in 1 .. Len(texts) |-> s[i]] /\ Len(texts) \in Nat
    OBVIOUS
  <2> HIDE DEF s
  <2> QED
    BY <2>1, <2>2, IsASeq
<1>2. Join(texts, separator) = FlattenSeq(s)
  BY DEF Join
<1> HIDE DEF s
<1> QED
  BY <1>1, <1>2, FlattenType

\* One part of a form is a text.
LEMMA FormPartType ==
    ASSUME NEW f \in Part
    PROVE  FormPart(f) \in Seq(Char)
<1>1. f[1] \in Seq(Char) /\ f[2] \in Seq(Char)
  BY DEF Part
<1>2. PICK x \in Seq(Char), y \in Seq(Char) : x = f[1] /\ y = f[2]
  BY <1>1
<1> DEFINE s1 == <<FormData, Blank, NameIs>>
           s2 == <<Quote>>
           s3 == <<Semicolon, Blank, "file", NameIs, "f", Quote, CRLF, "Content-Type:", CRLF, CRLF>>
<1>3. s1 \in Seq(Char) /\ s2 \in Seq(Char) /\ s3 \in Seq(Char)
  BY WordsDiffer
<1>4. FormPart(f) = s1 \o x \o s2 \o s3 \o y
  BY <1>2 DEF FormPart
<1> HIDE DEF s1, s2, s3
<1> QED
  BY <1>3, <1>4

\* A multipart form between its first and its last boundary.
LEMMA MultipartIs ==
    ASSUME NEW form \in Seq(Part)
    PROVE  Multipart(form, "B") = Opening \o Middle(form) \o Closing
           /\ Middle(form) \in Seq(Char)
<1> DEFINE parts == [i \in DOMAIN form |-> FormPart(form[i])]
           sep == <<CRLF, "--", "B", CRLF>>
<1>1. parts \in Seq(Seq(Char))
  <2>1. ASSUME NEW i \in 1 .. Len(form) PROVE parts[i] \in Seq(Char)
    <3>1. form[i] \in Part
      OBVIOUS
    <3> QED
      BY <3>1, FormPartType
  <2>2. parts = [i \in 1 .. Len(form) |-> parts[i]] /\ Len(form) \in Nat
    OBVIOUS
  <2> HIDE DEF parts
  <2> QED
    BY <2>1, <2>2, IsASeq
<1>2. sep \in Seq(Char)
  BY WordsDiffer
<1>3. Middle(form) = Join(parts, sep)
  BY DEF Middle
<1> HIDE DEF parts, sep
<1>4. Middle(form) \in Seq(Char)
  BY <1>1, <1>2, <1>3, JoinType
<1>5. Multipart(form, "B") = Opening \o Middle(form) \o Closing
  BY DEF Multipart, Opening, Closing, Middle
<1> QED
  BY <1>4, <1>5

\* The end of a multipart form, and of one that is cut before its last line end.
LEMMA FormEnds ==
    ASSUME NEW form \in Seq(Part), NEW text \in Seq(Char),
           text \in {Multipart(form, "B"), Front(Multipart(form, "B"))}
    PROVE  StartsWith(From(text, Len(text) - Len(Closing) + 1), Closing)
              /\ StartsWith(text, Opening)
           <=> text = Multipart(form, "B")
<1>1. PICK m \in Seq(Char) : m = Middle(form) /\ Multipart(form, "B") = Opening \o m \o Closing
  BY MultipartIs
<1>2. Opening \in Seq(Char) /\ Closing \in Seq(Char) /\ Len(Opening) = 3 /\ Len(Closing) = 5
  BY WordsDiffer DEF Opening, Closing
<1>3. Opening \in Seq(Char) /\ Closing \in Seq(Char)
  BY <1>2
<1>4. PICK whole \in Seq(Char) : whole = Opening \o m \o Closing
  BY <1>1, <1>2, ConcatProperties
<1>5. PICK n \in Nat : n = 3 + Len(m)
  OBVIOUS
<1>6. /\ Len(whole) = n + 5
      /\ \A i \in 1 .. 3 : whole[i] = Opening[i]
      /\ \A i \in 1 .. 5 : whole[n + i] = Closing[i]
  <2>1. Opening \o m \in Seq(Char) /\ Len(Opening \o m) = n
        /\ \A i \in 1 .. 3 : (Opening \o m)[i] = Opening[i]
    <3>1. /\ Opening \o m \in Seq(Char) /\ Len(Opening \o m) = Len(Opening) + Len(m)
          /\ \A i \in 1 .. Len(Opening) : (Opening \o m)[i] = Opening[i]
      BY <1>3, ConcatIs
    <3> QED
      BY <1>2, <1>5, <3>1
  <2>2. /\ whole = (Opening \o m) \o Closing
        /\ Len((Opening \o m) \o Closing) = n + 5
        /\ \A i \in 1 .. n : ((Opening \o m) \o Closing)[i] = (Opening \o m)[i]
        /\ \A i \in 1 .. 5 : ((Opening \o m) \o Closing)[n + i] = Closing[i]
    <3> HIDE DEF Opening, Closing
    <3>1. whole = (Opening \o m) \o Closing
      BY <1>4
    <3>2. PICK s \in Seq(Char) : s = Opening \o m
      BY <2>1
    <3>3. Len(s) = n
      BY <2>1, <3>2
    <3>4. /\ Len(s \o Closing) = Len(s) + Len(Closing)
          /\ \A i \in 1 .. Len(s) : (s \o Closing)[i] = s[i]
          /\ \A i \in 1 .. Len(Closing) : (s \o Closing)[Len(s) + i] = Closing[i]
      BY <1>3, ConcatIs
    <3> QED
      BY <1>2, <3>1, <3>2, <3>3, <3>4
  <2>3. ASSUME NEW i \in 1 .. 3 PROVE whole[i] = Opening[i]
    <3>1. i \in 1 .. n
      BY <1>5
    <3> QED
      BY <2>1, <2>2, <3>1
  <2>4. Len(whole) = n + 5 /\ \A i \in 1 .. 5 : whole[n + i] = Closing[i]
    BY <2>2
  <2> QED
    BY <2>3, <2>4
<1>7. CASE text = whole
  <2>1. PICK r \in Seq(Char) : r = From(text, n + 1)
    <3>1. n + 1 \in 1 .. Len(text)
      BY <1>5, <1>6, <1>7
    <3> QED
      BY <3>1, FromIs
  <2>2. Len(r) = 5 /\ \A j \in 1 .. 5 : r[j] = text[(n + 1) + j - 1]
    <3>1. n + 1 \in 1 .. Len(text) /\ Len(text) - (n + 1) + 1 = 5
      BY <1>5, <1>6, <1>7
    <3> QED
      BY <1>7, <2>1, <3>1, FromIs
  <2>3. \A j \in 1 .. 5 : r[j] = Closing[j]
    BY <1>5, <1>6, <1>7, <2>2, SMTT(20)
  <2>4. StartsWith(r, Closing)
    <3>1. Len(Closing) <= Len(r)
      BY <1>2, <2>2
    <3> QED
      BY <1>2, <2>3, <3>1, StartsWithIs
  <2>5. StartsWith(text, Opening)
    <3>1. Len(Opening) <= Len(text)
      BY <1>2, <1>5, <1>6, <1>7
    <3> QED
      BY <1>2, <1>6, <1>7, <3>1, StartsWithIs
  <2>6. Len(text) - Len(Closing) + 1 = n + 1
    BY <1>2, <1>5, <1>6, <1>7
  <2> QED
    BY <1>1, <1>4, <1>7, <2>1, <2>4, <2>5, <2>6
<1>8. CASE text = Front(whole)
  <2>1. Len(text) = n + 4 /\ text[n + 4] = whole[n + 4]
    <3>1. PICK b \in Nat : b = n + 4 /\ b <= Len(whole) /\ b = Len(whole) - 1
      BY <1>5, <1>6
    <3>2. /\ Slice(whole, 0, b) = SubSeq(whole, 1, b) /\ Len(Slice(whole, 0, b)) = b
          /\ \A j \in 1 .. b : Slice(whole, 0, b)[j] = whole[j]
      BY <3>1, FirstIs
    <3>3. b \in 1 .. b
      BY <3>1
    <3> QED
      BY <1>8, <3>1, <3>2, <3>3 DEF Front
  <2>2. PICK r \in Seq(Char) : r = From(text, n)
    <3>1. n \in 1 .. Len(text)
      BY <1>5, <2>1
    <3> QED
      BY <3>1, FromIs
  <2>3. Len(r) = 5 /\ r[5] = text[n + 4]
    <3>1. n \in 1 .. Len(text) /\ Len(text) - n + 1 = 5 /\ n + 5 - 1 = n + 4
      BY <1>5, <2>1
    <3>2. Len(From(text, n)) = 5 /\ \A j \in 1 .. 5 : From(text, n)[j] = text[n + j - 1]
      BY <3>1, FromIs
    <3> QED
      BY <2>2, <3>1, <3>2
  <2>4. r[5] # Closing[5]
    <3>1. whole[n + 4] = Closing[4]
      BY <1>6
    <3> QED
      BY <2>1, <2>3, <3>1 DEF Closing, CRLF
  <2>5. ~StartsWith(r, Closing)
    <3>1. Len(Closing) <= Len(r) /\ 5 \in 1 .. Len(Closing)
      BY <1>2, <2>3
    <3> QED
      BY <1>3, <2>4, <3>1, StartsWithIs
  <2>6. Len(text) - Len(Closing) + 1 = n /\ text # whole
    BY <1>2, <1>5, <1>6, <2>1
  <2> QED
    BY <1>1, <1>4, <2>2, <2>5, <2>6
<1> QED
  BY <1>1, <1>4, <1>7, <1>8

\* The text of a multipart form, whole or cut before its last line end.
LEMMA FormText ==
    ASSUME NEW form \in Seq(Part)
    PROVE  /\ Multipart(form, "B") \in Seq(Char) /\ Front(Multipart(form, "B")) \in Seq(Char)
           /\ Multipart(form, "B") # Front(Multipart(form, "B"))
<1>1. PICK m \in Seq(Char) : m = Middle(form) /\ Multipart(form, "B") = Opening \o m \o Closing
  BY MultipartIs
<1>2. Opening \in Seq(Char) /\ Closing \in Seq(Char) /\ Closing # <<>>
  BY WordsDiffer DEF Opening, Closing
<1>3. PICK w \in Seq(Char) : w = Multipart(form, "B")
  BY <1>1, <1>2, ConcatProperties
<1>4. w # <<>>
  <2>1. Opening \o m \in Seq(Char)
    BY <1>1, <1>2, ConcatProperties
  <2>2. w = (Opening \o m) \o Closing
    BY <1>1, <1>3
  <2> QED
    BY <1>2, <2>1, <2>2, ConcatEqualIffEmpty, ConcatProperties, EmptySeq, LenProperties
<1>5. PICK b \in Nat : b = Len(w) - 1 /\ b <= Len(w) /\ b # Len(w)
  <2>1. PICK n \in Nat : n = Len(w)
    OBVIOUS
  <2>2. n # 0
    BY <1>4, <2>1, EmptySeq
  <2>3. n - 1 \in Nat /\ n - 1 <= n /\ n - 1 # n
    BY <2>2
  <2> QED
    BY <2>1, <2>3
<1>6. Slice(w, 0, b) = Front(w) /\ Slice(w, 0, b) \in Seq(Char) /\ Len(Slice(w, 0, b)) = b
  BY <1>5, FirstIs DEF Front
<1> QED
  BY <1>3, <1>5, <1>6

-----------------------------------------------------------------------------
(* What the fields of a request make of its content.                       *)

Multi == <<"multipart", "form-data">>
Simple == <<"application", "x-www-form-urlencoded">>

\* The types a client writes, by their first two words.
LEMMA TypesDiffer ==
    /\ ~StartsWith(<<>>, Multi) /\ ~StartsWith(<<>>, Simple)
    /\ StartsWith(Multi, Multi) /\ ~StartsWith(Multi, Simple)
    /\ StartsWith(Simple, Simple) /\ ~StartsWith(Simple, Multi)
    /\ StartsWith(<<"multipart", "form-data", "B">>, Multi)
    /\ ~StartsWith(<<"multipart", "form-data", "B">>, Simple)
<1> DEFINE V == {"multipart", "form-data", "B", "application", "x-www-form-urlencoded"}
           w == <<"multipart", "form-data", "B">>
<1>1. Multi \in Seq(V) /\ Simple \in Seq(V) /\ w \in Seq(V)
  BY DEF Multi, Simple
<1>2. Len(Multi) = 2 /\ Len(Simple) = 2 /\ Len(w) = 3 /\ Len(<<>>) = 0
      /\ Multi[1] # Simple[1] /\ w[1] # Simple[1] /\ w[1] = Multi[1] /\ w[2] = Multi[2]
  BY DEF Multi, Simple
<1>3. Len(Multi) <= Len(Simple) /\ Len(Simple) <= Len(Multi) /\ Len(Multi) <= Len(w)
      /\ Len(Simple) <= Len(w) /\ ~(Len(Multi) <= Len(<<>>)) /\ ~(Len(Simple) <= Len(<<>>))
      /\ 1 \in 1 .. Len(Multi) /\ 1 \in 1 .. Len(Simple) /\ \A i \in 1 .. Len(Multi) : i \in {1, 2}
      /\ Len(Multi) <= Len(Multi) /\ Len(Simple) <= Len(Simple)
  BY <1>2
<1> HIDE DEF V, w
<1>4. ~StartsWith(<<>>, Multi) /\ ~StartsWith(<<>>, Simple)
  BY <1>3 DEF StartsWith, IsPrefix
<1>5. StartsWith(Multi, Multi) /\ StartsWith(Simple, Simple)
  BY <1>1, <1>3, StartsWithIs
<1>6. ~StartsWith(Multi, Simple) /\ ~StartsWith(Simple, Multi)
  <2>1. Multi[1] # Simple[1]
    BY <1>2
  <2> QED
    BY <1>1, <1>3, <2>1, StartsWithIs
<1>7. StartsWith(w, Multi) /\ ~StartsWith(w, Simple)
  <2>1. w[1] # Simple[1] /\ w[1] = Multi[1] /\ w[2] = Multi[2]
    BY <1>2
  <2> QED
    BY <1>1, <1>3, <2>1, StartsWithIs
<1> QED
  BY <1>4, <1>5, <1>6, <1>7 DEF w

\* A POST that carries a form of parts, as its fields tell.
Parted(a) == a.method = "POST" /\ a.blank /\ a.type \in {"multipart", "unended"}

\* What is known of a field: its value, or nothing when memory was short for it.
Known(name) == IF name \in short THEN <<>> ELSE ValueOf(Lines(asked), name)

\* What parse_headers leaves for the parts after it.
HeaderRead ==
    /\ tmp.content_type = Known("content-type")
    /\ tmp.content_length =
          IF asked.method = "POST" /\ Known("content-length") # <<>>
          THEN Known("content-length")[1] ELSE 0
    /\ Field("cookie") = Known("cookie")

\* The kind of content that parse_content finds is the kind the client wrote, if the
\* fields have a blank after the colon and memory lasted for the content-type.
LEMMA KindFound ==
    ASSUME Writable(asked), HeaderRead
    PROVE  /\ Form <=> Parted(asked) /\ "content-type" \notin short
           /\ Urlencoded <=> /\ asked.method = "POST" /\ asked.blank
                             /\ asked.type \in {"urlencoded", "bare"}
                             /\ "content-type" \notin short
           /\ Form => /\ tmp.content_type[3] = "B"
                      /\ tmp.content_length = IF "content-length" \in short THEN 0
                                              ELSE Len(Content(asked))
           /\ Field("cookie") = IF asked.blank /\ asked.cookies # <<>> /\ "cookie" \notin short
                                THEN CookieText(asked.cookies) ELSE <<>>
<1> DEFINE t == tmp.content_type
           n == Known("content-length")
<1>1. t = Known("content-type") /\ Field("cookie") = Known("cookie")
  BY DEF HeaderRead
<1>2. Told(asked)
  BY LinesTell
<1>3. asked.type \in {"none", "urlencoded", "bare", "multipart", "unended"} /\ asked.blank \in BOOLEAN
  BY DEF Writable
<1>4. t = IF ~asked.blank \/ asked.type = "none" \/ "content-type" \in short THEN <<>>
          ELSE IF asked.type = "bare" THEN Multi
          ELSE IF asked.type = "urlencoded" THEN Simple
          ELSE <<"multipart", "form-data", "B">>
  BY <1>1, <1>2, <1>3 DEF Told, Multi, Simple, Known
<1>5. Parted(asked) => n = IF "content-length" \in short THEN <<>> ELSE <<Len(Content(asked))>>
  BY <1>2 DEF Told, Parted, Known
<1>6. Field("cookie") = IF asked.blank /\ asked.cookies # <<>> /\ "cookie" \notin short
                        THEN CookieText(asked.cookies) ELSE <<>>
  BY <1>1, <1>2, <1>3 DEF Told, Known
<1>7. Len(Multi) = 2 /\ Len(<<"multipart", "form-data", "B">>) = 3
      /\ <<"multipart", "form-data", "B">>[3] = "B"
  BY DEF Multi
<1>8. /\ Typed(Multi) <=> asked.method = "POST" /\ StartsWith(t, Multi)
      /\ Typed(Simple) <=> asked.method = "POST" /\ StartsWith(t, Simple)
      /\ Form <=> Typed(Multi) /\ Len(t) > 2
      /\ Urlencoded <=> Typed(Simple) \/ (Typed(Multi) /\ ~Form)
  BY DEF Typed, Form, Urlencoded, Multi, Simple
<1>9. Parted(asked) => tmp.content_length = IF "content-length" \in short THEN 0
                                            ELSE Len(Content(asked))
  <2>1. tmp.content_length = IF asked.method = "POST" /\ n # <<>> THEN n[1] ELSE 0
    BY DEF HeaderRead
  <2> HIDE DEF n
  <2>2. PICK m : m = Len(Content(asked))
    OBVIOUS
  <2>3. <<m>> # <<>> /\ <<m>>[1] = m
    OBVIOUS
  <2> QED
    BY <1>5, <2>1, <2>2, <2>3 DEF Parted
<1> HIDE DEF t, n
<1>10. CASE ~asked.blank \/ asked.type = "none" \/ "content-type" \in short
  <2>1. t = <<>>
    BY <1>4, <1>10
  <2>2. ~Form /\ ~Urlencoded
    BY <1>8, <2>1, TypesDiffer
  <2> QED
    BY <1>6, <1>10, <2>2 DEF Parted
<1>11. CASE asked.blank /\ asked.type = "bare" /\ "content-type" \notin short
  <2>1. t = Multi
    BY <1>4, <1>11
  <2>2. ~(Len(t) > 2)
    <3>1. Len(t) = 2
      BY <1>7, <2>1
    <3> QED
      BY <3>1
  <2>3. StartsWith(t, Multi) /\ ~StartsWith(t, Simple)
    BY <2>1, TypesDiffer
  <2>4. ~Form
    BY <1>8, <2>2
  <2>5. Urlencoded <=> asked.method = "POST"
    BY <1>8, <2>3, <2>4
  <2> QED
    BY <1>6, <1>11, <2>4, <2>5 DEF Parted
<1>12. CASE asked.blank /\ asked.type = "urlencoded" /\ "content-type" \notin short
  <2>1. t = Simple
    BY <1>4, <1>12
  <2>2. StartsWith(t, Simple) /\ ~StartsWith(t, Multi)
    BY <2>1, TypesDiffer
  <2>3. ~Form /\ (Urlencoded <=> asked.method = "POST")
    BY <1>8, <2>2
  <2> QED
    BY <1>6, <1>12, <2>3 DEF Parted
<1>13. CASE /\ asked.blank /\ asked.type \in {"multipart", "unended"}
            /\ "content-type" \notin short
  <2>1. t = <<"multipart", "form-data", "B">>
    BY <1>4, <1>13
  <2>2. t[3] = "B" /\ Len(t) > 2
    BY <1>7, <2>1
  <2>3. StartsWith(t, Multi) /\ ~StartsWith(t, Simple)
    BY <2>1, TypesDiffer
  <2>4. Form <=> asked.method = "POST"
    BY <1>8, <2>2, <2>3
  <2>5. ~Urlencoded
    BY <1>8, <2>3, <2>4
  <2> QED
    BY <1>6, <1>9, <1>13, <2>2, <2>4, <2>5 DEF Parted, t
<1> QED
  BY <1>3, <1>10, <1>11, <1>12, <1>13

\* parse_content takes a form of parts if and only if it ends as it should and its
\* length is known.
LEMMA FormTaken ==
    ASSUME Writable(asked), HeaderRead, stage = "content", ContentForm
    PROVE  /\ Parted(asked) /\ "content-type" \notin short
           /\ ~BadForm => /\ asked.type = "multipart"
                          /\ Set(FormPairs(Content(asked), Len(Opening) + 1,
                                           Len(Content(asked)) - Len(Closing), "B"))
           /\ BadForm => Fail(BAD_REQUEST) /\ UNCHANGED short
<1>1. /\ Parted(asked) /\ "content-type" \notin short /\ tmp.content_type[3] = "B"
      /\ tmp.content_length = IF "content-length" \in short THEN 0 ELSE Len(Content(asked))
  BY KindFound DEF ContentForm
<1>2. BadForm <=> asked.type = "unended" \/ "content-length" \in short
  BY <1>1 DEF BadForm, Parted
<1> DEFINE text == Content(asked)
           end  == tmp.content_length - Len(Closing)
           ends == end >= 0 /\ StartsWith(From(text, end + 1), Closing)
                      /\ StartsWith(text, Opening)
<1>3. /\ ends => Set(FormPairs(text, Len(Opening) + 1, end, "B"))
      /\ ~ends => Fail(BAD_REQUEST) /\ UNCHANGED short
  BY <1>1 DEF ContentForm, Opening, Closing
<1>4. asked.form \in Seq(Part)
  BY <1>1 DEF Writable, Parted
<1>5. Closing \in Seq(Char) /\ Opening \in Seq(Char) /\ Len(Closing) = 5 /\ Len(Opening) = 3
  BY WordsDiffer DEF Closing, Opening
<1>6. CASE "content-length" \in short
  <2>1. end = 0 - 5
    BY <1>1, <1>5, <1>6
  <2>2. ~(end >= 0)
    BY <2>1
  <2> QED
    BY <1>1, <1>2, <1>3, <1>6, <2>2
<1>7. CASE "content-length" \notin short /\ asked.type = "multipart"
  <2>1. text = Multipart(asked.form, "B")
    BY <1>7 DEF Content
  <2>2. end = Len(text) - Len(Closing)
    BY <1>1, <1>7
  <2>3. end >= 0
    <3>1. PICK m \in Seq(Char) : Multipart(asked.form, "B") = Opening \o m \o Closing
      BY <1>4, MultipartIs
    <3>2. PICK w \in Seq(Char) : w = Opening \o m \o Closing /\ Triple(w, Opening, m, Closing)
      BY <1>5, ThreeTexts
    <3>3. Len(w) = Len(Opening) + Len(m) + Len(Closing)
      BY <3>2 DEF Triple
    <3>4. PICK l \in Nat : l = Len(m)
      OBVIOUS
    <3>5. Len(w) - Len(Closing) = 3 + l
      BY <1>5, <3>3, <3>4
    <3>6. end = 3 + l
      BY <2>1, <2>2, <3>1, <3>2, <3>5
    <3> QED
      BY <3>6
  <2> HIDE DEF text
  <2>4. ends
    BY <1>4, <2>1, <2>2, <2>3, FormText, FormEnds
  <2> HIDE DEF end
  <2> QED
    BY <1>1, <1>2, <1>3, <1>7, <2>2, <2>4 DEF text
<1>8. CASE "content-length" \notin short /\ asked.type = "unended"
  <2>1. text = Front(Multipart(asked.form, "B"))
    BY <1>8 DEF Content
  <2>2. end = Len(text) - Len(Closing)
    BY <1>1, <1>8
  <2> HIDE DEF text
  <2>3. ~ends
    BY <1>4, <2>1, <2>2, FormText, FormEnds
  <2> HIDE DEF ends
  <2> QED
    BY <1>1, <1>2, <1>3, <1>8, <2>3 DEF text
<1> QED
  BY <1>1, <1>6, <1>7, <1>8 DEF Parted

-----------------------------------------------------------------------------
(* Which requests are refused.                                             *)

\* The parts of holy_new_req_pkt after the request line, and those after the header.
Lined  == {"query", "headers", "content", "cookies", "packet", "static"}
Headed == {"content", "cookies", "packet", "static"}
Filled == {"cookies", "packet", "static"}

\* The allocations whose failure ends the request, and the fields that are used.
Exits == {"dicts", "query", "fields", "packet"}
Used  == {"content-type", "content-length", "cookie"}

\* A part is reached by a request without the faults that the parts before it find.
FitInv ==
    /\ asked \in Asked
    /\ stage \in Lined \cup {"new", "line", "done"}
    /\ tmp \in [uri : {tmp.uri}, args : {tmp.args}, fields : {tmp.fields}, cookies : {tmp.cookies},
                content_length : {tmp.content_length}, content_type : {tmp.content_type}]
    /\ stage \in Lined => LineFault = OK
    /\ stage \in Headed => Lines(asked) # <<>> /\ HeaderRead
    /\ stage \in Filled => ~BadForm
    /\ stage \in {"new", "line", "query", "headers"} => short \subseteq {"argument"}
    /\ stage # "done" => short \cap Exits = {}
    /\ stage = "static" => status = OK
    /\ StatusFits

\* Another allocation that failed, neither the end of the request nor of a field.
Lacking == short \subseteq short' /\ \A x \in Exits \cup Used : x \in short' => x \in short

\* It changes nothing in the faults and what is known of the fields.
LEMMA LackingKeeps ==
    ASSUME Lacking, asked' = asked
    PROVE  /\ BadForm' <=> BadForm
           /\ Faults' = Faults
           /\ short \cap Exits = {} => short' \cap Exits = {}
           /\ /\ HeaderRead /\ tmp'.fields = tmp.fields
              /\ tmp'.content_type = tmp.content_type /\ tmp'.content_length = tmp.content_length
              => HeaderRead'
<1>1. \A x \in Exits \cup Used : x \in short' <=> x \in short
  BY DEF Lacking
<1>2. BadForm' <=> BadForm
  BY <1>1 DEF BadForm, Used
<1>3. Faults' = Faults
  BY <1>2 DEF Faults
<1>4. ASSUME HeaderRead, tmp'.fields = tmp.fields,
             tmp'.content_type = tmp.content_type, tmp'.content_length = tmp.content_length
      PROVE  HeaderRead'
  <2>1. \A name \in Used : Known(name)' = Known(name)
    BY <1>1 DEF Known
  <2>2. Field("cookie")' = Field("cookie")
    BY <1>4 DEF Field
  <2> QED
    BY <1>4, <2>1, <2>2 DEF HeaderRead, Used
<1> QED
  BY <1>1, <1>2, <1>3, <1>4

\* The faults of the request line.
LEMMA LineFaultFits ==
    /\ LineFault = OK =>
          /\ ~asked.cut /\ ~(Len(Url(asked)) > MaxUrl) /\ ~(Len(Url(asked)) >= MaxUrl)
          /\ asked.method \in {"GET", "HEAD", "POST"} /\ asked.version \in {"1.0", "1.1", "2.0"}
    /\ LineFault # OK => LineFault \in Faults
<1> USE DEF OK, BAD_REQUEST, METHOD_NOT_ALLOWED, REQUEST_URI_TOO_LONG, VERSION_NOT_SUPPORTED
<1> DEFINE long == Len(Url(asked)) > MaxUrl
           full == Len(Url(asked)) >= MaxUrl
           verb == asked.method \in {"GET", "HEAD", "POST"}
           number == asked.version \in {"1.0", "1.1", "2.0"}
<1>1. LineFault = IF asked.cut \/ long THEN BAD_REQUEST
                  ELSE IF ~verb THEN METHOD_NOT_ALLOWED
                  ELSE IF full THEN REQUEST_URI_TOO_LONG
                  ELSE IF ~number THEN VERSION_NOT_SUPPORTED ELSE OK
  BY DEF LineFault
<1>2. /\ asked.cut \/ long => BAD_REQUEST \in Faults
      /\ ~verb => METHOD_NOT_ALLOWED \in Faults
      /\ full => REQUEST_URI_TOO_LONG \in Faults
      /\ ~number => VERSION_NOT_SUPPORTED \in Faults
  BY DEF Faults
<1> HIDE DEF long, full, verb, number
<1>3. LineFault = OK => ~asked.cut /\ ~long /\ ~full /\ verb /\ number
  BY <1>1
<1> QED
  BY <1>1, <1>2, <1>3 DEF long, full, verb, number

\* A request that comes to the packet has no fault.
LEMMA NoFault ==
    ASSUME FitInv, stage \in Filled
    PROVE  Faults = {}
<1>1. /\ ~asked.cut /\ ~(Len(Url(asked)) > MaxUrl) /\ ~(Len(Url(asked)) >= MaxUrl)
      /\ asked.method \in {"GET", "HEAD", "POST"} /\ asked.version \in {"1.0", "1.1", "2.0"}
  BY LineFaultFits DEF FitInv, Filled, Lined
<1>2. Lines(asked) # <<>> /\ ~BadForm
  BY DEF FitInv, Filled, Headed
<1> QED
  BY <1>1, <1>2 DEF Faults

\* The packet is empty before it is filled.
LEMMA InitFit == Init => FitInv
<1> SUFFICES ASSUME Init PROVE FitInv
  OBVIOUS
<1> QED
  BY DEF Init, FitInv, NewPacket, StatusFits, Lined, Headed, Filled, Exits

\* An exit at fail with a fault of the request.
LEMMA FailFits ==
    ASSUME FitInv, NEW code \in Faults, Fail(code), short' = short, stage # "done"
    PROVE  FitInv'
<1>1. Faults' = Faults
  BY DEF Faults, BadForm, Fail
<1>2. StatusFits'
  <2>1. "query" \notin short /\ short \cap {"dicts", "fields", "packet"} = {} /\ Faults # {}
    BY DEF FitInv, Exits
  <2>2. status' = code
    BY DEF Fail
  <2> QED
    BY <1>1, <2>1, <2>2 DEF StatusFits
<1> QED
  BY <1>2 DEF FitInv, Fail, Lined, Headed, Filled

\* An exit at fail for the lack of memory.
LEMMA ScarceFits ==
    ASSUME FitInv, NEW what \in {"dicts", "fields", "packet"}, Fail(INSUFFICIENT_STORAGE),
           short' = short \cup {what}, stage # "done"
    PROVE  FitInv'
<1>1. StatusFits'
  <2>1. "query" \notin short' /\ what \in short' \cap {"dicts", "fields", "packet"}
    BY DEF FitInv, Exits
  <2>2. status' = INSUFFICIENT_STORAGE
    BY DEF Fail
  <2> QED
    BY <2>1, <2>2 DEF StatusFits
<1> QED
  BY <1>1 DEF FitInv, Fail, Lined, Headed, Filled

\* parse_headers leaves of each field what is known of it.
LEMMA FieldsFound ==
    ASSUME Writable(asked), short \subseteq {"argument"}, asked' = asked,
           tmp \in [uri : {tmp.uri}, args : {tmp.args}, fields : {tmp.fields}, cookies : {tmp.cookies},
                   content_length : {tmp.content_length}, content_type : {tmp.content_type}],
           NEW those \in SUBSET Readable(Lines(asked)), NEW missed \in SUBSET Sought,
           ReadFields(those, missed)
    PROVE  HeaderRead' /\ short' \cap Exits = {}
<1> DEFINE lines  == Lines(asked)
           fields == Fields(lines, those)
           value(name) == IF name \in DOMAIN fields \ missed THEN fields[name] ELSE <<>>
<1>1. PICK found, lost : /\ found = DOMAIN fields \ missed
                         /\ lost = {lines[i].name : i \in Readable(lines)} \ found
  OBVIOUS
<1>2. /\ tmp'.fields = fields /\ tmp'.content_type = value("content-type")
      /\ tmp'.content_length = IF asked.method = "POST" /\ value("content-length") # <<>>
                               THEN value("content-length")[1] ELSE 0
      /\ short' = short \cup lost
  <2>1. /\ tmp' = [tmp EXCEPT
               !.fields = fields,
               !.content_type = value("content-type"),
               !.content_length =
                   IF asked.method = "POST" /\ value("content-length") # <<>>
                   THEN value("content-length")[1] ELSE 0]
        /\ short' = short \cup ({lines[i].name : i \in Readable(lines)}
                                    \ (DOMAIN fields \ missed))
    BY DEF ReadFields
  <2>2. short' = short \cup lost
    BY <1>1, <2>1
  <2> HIDE DEF value, fields, lines
  <2> QED
    BY <2>1, <2>2
<1>3. Distinct(asked)
  BY LinesTell
<1>4. PICK V : lines \in Seq(V)
  BY <1>3 DEF Distinct
<1>5. lost \subseteq Names
  <2>1. \A i \in Readable(lines) : Has(lines, lines[i])
    BY DEF Readable, Has
  <2>2. \A i \in Readable(lines) : lines[i].name \in Names
    BY <1>3, <2>1 DEF Distinct
  <2> QED
    BY <1>1, <2>2
<1>6. \A name : value(name) = IF name \in lost THEN <<>> ELSE ValueOf(lines, name)
  <2>1. \A q, r : Has(lines, q) /\ Has(lines, r) /\ q.name = r.name => q = r
    BY <1>3 DEF Distinct
  <2>2. ASSUME NEW name
        PROVE  FieldIs(lines, those, found, lost, name)
    <3>1. those \in SUBSET Readable(lines) /\ found = DOMAIN Fields(lines, those) \ missed
      BY <1>1
    <3> HIDE DEF lines
    <3> QED
      BY <1>1, <1>4, <2>1, <3>1, LineLost
  <2> QED
    BY <1>1, <2>2 DEF FieldIs
<1> HIDE DEF value, fields
<1>7. ASSUME NEW name \in Used PROVE Known(name)' = value(name)
  <2>1. name \notin short
    BY DEF Used
  <2>2. name \in short' <=> name \in lost
    BY <1>2, <2>1
  <2>3. Known(name)' = IF name \in short' THEN <<>> ELSE ValueOf(lines, name)
    BY DEF Known
  <2> QED
    BY <1>6, <2>2, <2>3
<1>8. Field("cookie")' = value("cookie")
  <2>1. "cookie" \notin missed
    BY DEF Sought
  <2>2. value("cookie") = IF "cookie" \in DOMAIN fields THEN fields["cookie"] ELSE <<>>
    BY <2>1 DEF value
  <2> QED
    BY <1>2, <2>2 DEF Field
<1>9. HeaderRead'
  <2>1. "content-type" \in Used /\ "content-length" \in Used /\ "cookie" \in Used
    BY DEF Used
  <2>2. /\ Known("content-type")' = value("content-type") /\ Known("cookie")' = value("cookie")
        /\ Known("content-length")' = value("content-length")
    BY <1>7, <2>1
  <2> QED
    BY <1>2, <1>8, <2>2 DEF HeaderRead
<1>10. short' \cap Exits = {}
  BY <1>2, <1>5 DEF Names, Exits
<1> QED
  BY <1>9, <1>10

\* Every part of holy_new_req_pkt keeps the invariant.
LEMMA StepFit == FitInv /\ [Next]_vars => FitInv'
<1> SUFFICES ASSUME FitInv, [Next]_vars PROVE FitInv'
  OBVIOUS
<1>w. Writable(asked)
  BY ClientAssumption DEF FitInv
<1>u. CASE UNCHANGED vars
  <2>1. Lacking /\ asked' = asked
    BY <1>u DEF vars, Lacking
  <2>2. (BadForm' <=> BadForm) /\ Faults' = Faults /\ (HeaderRead => HeaderRead')
    BY <1>u, <2>1, LackingKeeps DEF vars
  <2> QED
    BY <1>u, <2>2 DEF vars, FitInv, StatusFits, LineFault
<1>1. CASE Dicts
  <2>1. CASE Goto("line") /\ UNCHANGED <<tmp, short>>
    BY <1>1, <2>1 DEF Dicts, Goto, FitInv, StatusFits, Lined, Headed, Filled
  <2>2. CASE Fail(INSUFFICIENT_STORAGE) /\ short' = short \cup {"dicts"}
    BY <1>1, <2>2, ScarceFits DEF Dicts
  <2> QED
    BY <1>1, <2>1, <2>2 DEF Dicts
<1>2. CASE RequestLine
  <2>1. CASE LineFault = OK
    <3>1. Goto("query") /\ UNCHANGED <<tmp, short>> /\ LineFault' = LineFault
      BY <1>2, <2>1 DEF RequestLine, Goto, LineFault
    <3> QED
      BY <1>2, <2>1, <3>1 DEF RequestLine, Goto, FitInv, StatusFits, Lined, Headed, Filled
  <2>2. CASE LineFault # OK
    BY <1>2, <2>2, LineFaultFits, FailFits DEF RequestLine
  <2> QED
    BY <2>1, <2>2
<1>3. CASE Query
  <2>1. stage = "query" /\ LineFault = OK /\ short \subseteq {"argument"}
    BY <1>3 DEF Query, FitInv, Lined
  <2>2. ASSUME NEW pairs, NEW those, Goto("headers"),
               short' = short \cup {"argument" : i \in DOMAIN pairs \ those},
               tmp' = [tmp EXCEPT !.uri = Until(Url(asked), "?"),
                                  !.args = SetThese(@, pairs, those)]
        PROVE  FitInv'
    <3>1. LineFault' = LineFault
      BY <2>2 DEF Goto, LineFault
    <3>2. short' \subseteq {"argument"}
      BY <2>1, <2>2
    <3>3. short' \cap Exits = {}
      BY <3>2 DEF Exits
    <3> QED
      BY <2>1, <2>2, <3>1, <3>2, <3>3 DEF Goto, FitInv, StatusFits, Lined, Headed, Filled
  <2>3. CASE Fail(Unset) /\ short' = short \cup {"query"}
    BY <2>3 DEF FitInv, Fail, StatusFits, Lined, Headed, Filled
  <2> QED
    BY <1>3, <2>2, <2>3 DEF Query
<1>4. CASE Headers
  <2>1. stage = "headers" /\ LineFault = OK /\ short \subseteq {"argument"}
    BY <1>4 DEF Headers, FitInv, Lined
  <2>2. CASE Lines(asked) = <<>> /\ Fail(BAD_REQUEST) /\ UNCHANGED short
    <3>1. BAD_REQUEST \in Faults
      BY <2>2 DEF Faults
    <3> QED
      BY <2>1, <2>2, <3>1, FailFits
  <2>3. ASSUME Lines(asked) # <<>>, Goto("content"),
               NEW those \in SUBSET Readable(Lines(asked)), NEW missed \in SUBSET Sought,
               ReadFields(those, missed)
        PROVE  FitInv'
    <3>1. LineFault' = LineFault
      BY <2>3 DEF Goto, LineFault
    <3>2. HeaderRead' /\ short' \cap Exits = {} /\ asked' = asked
      BY <1>w, <2>1, <2>3, FieldsFound DEF FitInv, Goto
    <3>3. tmp' \in [uri : {tmp'.uri}, args : {tmp'.args}, fields : {tmp'.fields},
                    cookies : {tmp'.cookies}, content_length : {tmp'.content_length},
                    content_type : {tmp'.content_type}]
      BY <2>3 DEF ReadFields, FitInv
    <3> QED
      BY <2>1, <2>3, <3>1, <3>2, <3>3 DEF Goto, FitInv, StatusFits, Lined, Headed, Filled
  <2>4. CASE Fail(INSUFFICIENT_STORAGE) /\ short' = short \cup {"fields"}
    BY <2>1, <2>4, ScarceFits
  <2> QED
    BY <1>4, <2>2, <2>3, <2>4 DEF Headers
<1>5. ASSUME NEW pairs, stage = "content", Set(pairs), ~BadForm
      PROVE  FitInv'
  <2>1. PICK those \in SUBSET DOMAIN pairs :
             /\ tmp' = [tmp EXCEPT !.args = SetThese(@, pairs, those)]
             /\ short' = short \cup {"argument" : i \in DOMAIN pairs \ those}
             /\ Goto("cookies")
    BY <1>5 DEF Set
  <2>2. LineFault' = LineFault /\ asked' = asked
    BY <2>1 DEF Goto, LineFault
  <2>3. Lacking
    BY <2>1 DEF Lacking, Exits, Used
  <2>4. /\ tmp'.fields = tmp.fields /\ tmp'.content_type = tmp.content_type
        /\ tmp'.content_length = tmp.content_length
        /\ tmp' \in [uri : {tmp'.uri}, args : {tmp'.args}, fields : {tmp'.fields},
                     cookies : {tmp'.cookies}, content_length : {tmp'.content_length},
                     content_type : {tmp'.content_type}]
    BY <2>1 DEF FitInv
  <2>5. HeaderRead' /\ ~BadForm' /\ short' \cap Exits = {}
    BY <1>5, <2>2, <2>3, <2>4, LackingKeeps DEF FitInv, Headed
  <2> QED
    BY <1>5, <2>1, <2>2, <2>4, <2>5 DEF Goto, FitInv, StatusFits, Lined, Headed, Filled
<1>6. CASE ContentNone \/ ContentQuery
  <2>1. stage = "content" /\ HeaderRead /\ (~Form \/ Urlencoded)
    BY <1>6 DEF ContentNone, ContentQuery, FitInv, Headed
  <2>2. ~Parted(asked) \/ "content-type" \in short
    BY <1>w, <2>1, KindFound DEF Parted
  <2>3. ~BadForm
    BY <2>2 DEF BadForm, Parted
  <2>4. \E pairs : Set(pairs)
    BY <1>6 DEF ContentNone, ContentQuery
  <2> QED
    BY <1>5, <2>1, <2>3, <2>4
<1>7. CASE ContentForm
  <2>1. stage = "content" /\ HeaderRead
    BY <1>7 DEF ContentForm, FitInv, Headed
  <2>2. CASE ~BadForm
    BY <1>5, <1>7, <1>w, <2>1, <2>2, FormTaken
  <2>3. CASE BadForm
    <3>1. BAD_REQUEST \in Faults
      BY <2>3 DEF Faults
    <3> QED
      BY <1>7, <1>w, <2>1, <2>3, <3>1, FormTaken, FailFits
  <2> QED
    BY <2>2, <2>3
<1>8. CASE Cookies
  <2>1. stage = "cookies" /\ asked' = asked /\ stage' = "packet" /\ LineFault' = LineFault
    BY <1>8 DEF Cookies, Goto, LineFault
  <2>2. Lacking
    BY <1>8 DEF Cookies, Lacking, Exits, Used
  <2>3. /\ tmp'.fields = tmp.fields /\ tmp'.content_type = tmp.content_type
        /\ tmp'.content_length = tmp.content_length
        /\ tmp' \in [uri : {tmp'.uri}, args : {tmp'.args}, fields : {tmp'.fields},
                     cookies : {tmp'.cookies}, content_length : {tmp'.content_length},
                     content_type : {tmp'.content_type}]
    BY <1>8 DEF Cookies, FitInv
  <2>4. HeaderRead' /\ ~BadForm' /\ short' \cap Exits = {}
    BY <2>1, <2>2, <2>3, LackingKeeps DEF FitInv, Headed, Filled
  <2> QED
    BY <2>1, <2>3, <2>4 DEF FitInv, StatusFits, Lined, Headed, Filled
<1>9. CASE Packet
  <2>1. CASE pkt' = TRUE /\ status' = OK /\ stage' = "static" /\ UNCHANGED <<asked, tmp, short>>
    <3>1. LineFault' = LineFault
      BY <2>1 DEF LineFault
    <3>2. Lacking
      BY <2>1 DEF Lacking
    <3>3. (BadForm' <=> BadForm) /\ (HeaderRead => HeaderRead')
      BY <2>1, <3>2, LackingKeeps
    <3> QED
      BY <1>9, <2>1, <3>1, <3>3 DEF Packet, FitInv, StatusFits, Lined, Headed, Filled
  <2>2. CASE Fail(INSUFFICIENT_STORAGE) /\ short' = short \cup {"packet"}
    BY <1>9, <2>2, ScarceFits DEF Packet
  <2> QED
    BY <1>9, <2>1, <2>2 DEF Packet
<1>10. CASE HandleStatic
  <2>1. Faults = {} /\ status = OK /\ short \cap Exits = {}
    BY <1>10, NoFault DEF HandleStatic, FitInv, Filled
  <2>2. Lacking /\ asked' = asked /\ stage' = "done" /\ UNCHANGED <<tmp, status>>
    BY <1>10 DEF HandleStatic, Lacking, Exits, Used
  <2>3. Faults' = {} /\ short' \cap Exits = {}
    BY <2>1, <2>2, LackingKeeps
  <2>4. "query" \notin short' /\ short' \cap {"dicts", "fields", "packet"} = {}
    BY <2>3 DEF Exits
  <2>5. StatusFits'
    BY <2>1, <2>2, <2>3, <2>4 DEF StatusFits
  <2> QED
    BY <2>2, <2>5 DEF FitInv, Lined, Headed, Filled
<1> QED
  BY <1>u, <1>1, <1>2, <1>3, <1>4, <1>6, <1>7, <1>8, <1>9, <1>10 DEF Next

\* Whatever is asked and whichever allocations fail, a request without a fault is not
\* refused, one with a fault is, and the status names the fault or the lack of memory
\* (packet.c:200-232, 267-277, 353-376, 478-480).  A form whose content-length could not be
\* set is among the faulty ones, and one whose content-type could not be is not read at
\* all (packet.c:288); when the copy of the query fails the status is not assigned.
THEOREM StatusAlwaysFits == Spec => []StatusFits
<1>1. Init => FitInv
  BY InitFit
<1>2. FitInv /\ [Next]_vars => FitInv'
  BY StepFit
<1>3. FitInv => StatusFits
  BY DEF FitInv
<1> QED
  BY <1>1, <1>2, <1>3, PTL DEF Spec

-----------------------------------------------------------------------------
(* Texts cut into parts.                                                   *)

\* The texts after the first, each with the separator before it.
Separated(texts, separator) == FlattenSeq([i \in DOMAIN texts |-> separator \o texts[i]])

\* Texts joined: the first, and the others each after the separator.
LEMMA JoinCons ==
    ASSUME NEW V, NEW x \in Seq(V), NEW texts \in Seq(Seq(V)), NEW separator \in Seq(V)
    PROVE  /\ Join(Cons(x, texts), separator) = x \o Separated(texts, separator)
           /\ Separated(Cons(x, texts), separator) = separator \o Join(Cons(x, texts), separator)
           /\ Separated(texts, separator) \in Seq(V)
<1>1. PICK n \in Nat : n = Len(texts)
  OBVIOUS
<1>2. PICK u \in Seq(Seq(V)) : u = Cons(x, texts)
  BY ConsIs
<1>3. Len(u) = n + 1 /\ u[1] = x /\ \A i \in 1 .. n : u[i + 1] = texts[i]
  <2>1. /\ Len(Cons(x, texts)) = Len(texts) + 1 /\ Cons(x, texts)[1] = x
        /\ \A i \in 1 .. Len(texts) : Cons(x, texts)[i + 1] = texts[i]
    BY ConsIs
  <2> QED
    BY <1>1, <1>2, <2>1
<1>4. DOMAIN u = 1 .. n + 1 /\ DOMAIN texts = 1 .. n
  BY <1>1, <1>3
<1> DEFINE s == [i \in 1 .. n |-> separator \o texts[i]]
           j == [i \in 1 .. n + 1 |-> IF i = 1 THEN u[i] ELSE separator \o u[i]]
           t == [i \in 1 .. n + 1 |-> separator \o u[i]]
<1>5. Join(u, separator) = FlattenSeq(j) /\ Separated(u, separator) = FlattenSeq(t)
      /\ Separated(texts, separator) = FlattenSeq(s)
  BY <1>4 DEF Join, Separated
<1>6. \A y \in Seq(V) : separator \o y \in Seq(V)
  BY ConcatProperties
<1>7. s \in Seq(Seq(V))
  BY <1>1, <1>6
<1>8. \A i \in 1 .. n + 1 : u[i] \in Seq(V)
  BY <1>4
<1>9. j \in Seq(Seq(V)) /\ t \in Seq(Seq(V))
  BY <1>6, <1>8
<1>10. j[1] = x /\ t[1] = separator \o x
  <2>1. 1 \in 1 .. n + 1
    OBVIOUS
  <2> QED
    BY <1>3, <2>1
<1>11. \A i \in 1 .. n : j[i + 1] = s[i] /\ t[i + 1] = s[i]
  <2>1. ASSUME NEW i \in 1 .. n PROVE j[i + 1] = s[i] /\ t[i + 1] = s[i]
    <3>1. i + 1 \in 1 .. n + 1 /\ i + 1 # 1
      OBVIOUS
    <3> QED
      BY <1>3, <3>1
  <2> QED
    BY <2>1
<1>12. InFront(j, x, s, n) /\ InFront(t, separator \o x, s, n)
  BY <1>10, <1>11 DEF InFront
<1> HIDE DEF s, j, t
<1>13. FlattenSeq(j) = x \o FlattenSeq(s)
  BY <1>7, <1>9, <1>12, FlattenCons
<1>14. FlattenSeq(t) = (separator \o x) \o FlattenSeq(s)
  <2>1. separator \o x \in Seq(V)
    BY <1>6
  <2> QED
    BY <1>7, <1>9, <1>12, <2>1, FlattenCons, ZenonT(30)
<1>15. PICK w \in Seq(V) : w = FlattenSeq(s)
  BY <1>7, FlattenType
<1>16. (separator \o x) \o w = separator \o (x \o w)
  BY ConcatAssociative, SMTT(20)
<1> QED
  BY <1>2, <1>5, <1>13, <1>14, <1>15, <1>16

\* One text joined is that text.
LEMMA JoinOne ==
    ASSUME NEW V, NEW x \in Seq(V), NEW texts \in Seq(Seq(V)), NEW separator \in Seq(V)
    PROVE  texts = <<>> => Join(Cons(x, texts), separator) = x
<1>1. ASSUME texts = <<>> PROVE Separated(texts, separator) = <<>>
  <2>1. [i \in DOMAIN texts |-> separator \o texts[i]] = <<>>
    BY <1>1
  <2> QED
    BY <2>1, FlattenNone DEF Separated
<1>2. Join(Cons(x, texts), separator) = x \o Separated(texts, separator)
  BY JoinCons
<1> QED
  BY <1>1, <1>2, ConcatEmptySeq

\* Of more texts joined, the separator is after the first.
LEMMA JoinMore ==
    ASSUME NEW V, NEW x \in Seq(V), NEW texts \in Seq(Seq(V)), NEW separator \in Seq(V)
    PROVE  texts # <<>> =>
              Join(Cons(x, texts), separator) = x \o separator \o Join(texts, separator)
<1>1. ASSUME texts # <<>> PROVE Separated(texts, separator) = separator \o Join(texts, separator)
  <2>1. PICK y \in Seq(V), rest \in Seq(Seq(V)) : texts = Cons(y, rest)
    BY <1>1, HasFirst
  <2>2. Separated(Cons(y, rest), separator) = separator \o Join(Cons(y, rest), separator)
    BY JoinCons
  <2> QED
    BY <2>1, <2>2
<1>2. Join(Cons(x, texts), separator) = x \o Separated(texts, separator)
  BY JoinCons
<1>3. PICK w \in Seq(V) : w = Join(texts, separator)
  BY JoinType
<1>4. (x \o separator) \o w = x \o (separator \o w)
  BY ConcatAssociative
<1> QED
  BY <1>1, <1>2, <1>3, <1>4

\* The items of plain texts joined by c are these texts.
LEMMA ItemsOfJoin ==
    ASSUME NEW V, NEW c \in V, NEW texts \in Seq(Plain(V, c))
    PROVE  Items(Join(texts, <<c>>), c) = texts
<1> DEFINE U == Plain(V, c)
           S == {t \in Seq(U) : Items(Join(t, <<c>>), c) = t}
<1>1. <<>> \in S
  <2>1. Join(<<>>, <<c>>) = <<>>
    <3>1. [i \in DOMAIN <<>> |-> IF i = 1 THEN <<>>[i] ELSE <<c>> \o <<>>[i]] = <<>>
      OBVIOUS
    <3> QED
      BY <3>1, FlattenNone DEF Join
  <2>2. <<>> \in Seq(U)
    OBVIOUS
  <2> QED
    BY <2>1, <2>2, ItemsNone
<1>2. ASSUME NEW t \in Seq(U) \cap S, NEW x \in U PROVE Cons(x, t) \in S
  <2>1. x \in Seq(V) /\ x # <<>> /\ \A j \in 1 .. Len(x) : x[j] # c
    BY PlainIs
  <2>2. U \subseteq Seq(V)
    BY PlainIs
  <2>3. t \in Seq(Seq(V))
    <3> HIDE DEF U
    <3> QED
      BY <2>2, SeqMonotonic
  <2>4. Cons(x, t) \in Seq(U)
    <3> HIDE DEF U
    <3> QED
      BY ConsIs
  <2>5. PICK sep \in Seq(V) : sep = <<c>>
    BY OneIs
  <2>6. CASE t = <<>>
    <3>1. Join(Cons(x, t), sep) = x
      BY <2>1, <2>3, <2>6, JoinOne
    <3>2. Items(x, c) = <<x>>
      BY <2>1, ItemsOne
    <3>3. Cons(x, t) = <<x>>
      BY <2>6, OneIs, ConcatEmptySeq DEF Cons
    <3> QED
      BY <2>4, <2>5, <3>1, <3>2, <3>3
  <2>7. CASE t # <<>>
    <3>1. PICK y \in Seq(V) : y = Join(t, sep)
      BY <2>3, JoinType
    <3>2. Join(Cons(x, t), sep) = x \o sep \o y
      <4>1. x \in Seq(V)
        BY <2>1
      <4>2. Join(Cons(x, t), sep) = x \o sep \o Join(t, sep)
        BY <2>3, <2>7, <4>1, JoinMore, ZenonT(30)
      <4> QED
        BY <3>1, <4>2
    <3>3. Items(x \o <<c>> \o y, c) = Cons(x, Items(y, c))
      BY <2>1, ItemsCut
    <3>4. Items(y, c) = t
      BY <2>5, <3>1
    <3> QED
      BY <2>4, <2>5, <3>2, <3>3, <3>4
  <2> QED
    BY <2>6, <2>7
<1>3. Seq(U) \subseteq S
  <2> HIDE DEF S, U
  <2> QED
    BY <1>1, <1>2, ConsInduction
<1> QED
  BY <1>3

-----------------------------------------------------------------------------
(* What a client escapes and url_decode reads.                             *)

\* The characters of an escaped text.
Safe == Char \ {"&", "=", "?"}

\* An escaped character.
LEMMA EscapedType ==
    ASSUME NEW c \in DOMAIN Hex, NEW style
    PROVE  Escaped(c, style) \in Seq(Safe) /\ Escaped(c, style) # <<>>
<1>1. Hex[c] \in HexDigit \X HexDigit /\ c \in Char
  BY PacketAssumption
<1>2. PICK h \in HexDigit, l \in HexDigit : Hex[c] = <<h, l>>
  BY <1>1
<1>3. h \in Safe /\ l \in Safe
  BY PacketAssumption DEF HexDigit, Safe
<1>4. "%" \in Safe /\ "+" \in Safe
  BY WordsDiffer DEF Safe
<1>5. <<"%">> \o Hex[c] = <<"%", h, l>> /\ <<"%", h, l>> \in Seq(Safe)
      /\ <<"%", h, l>> # <<>>
  BY <1>2, <1>3, <1>4, ThreeOf
<1>6. CASE style = "percent" \/ c \in {"&", "=", "%", "+", "?"}
  <2>1. Escaped(c, style) = <<"%">> \o Hex[c]
    BY <1>6 DEF Escaped
  <2> QED
    BY <1>5, <2>1
<1>7. CASE style # "percent" /\ c \notin {"&", "=", "%", "+", "?"}
  <2>1. c \in Safe
    BY <1>1, <1>7 DEF Safe
  <2> QED
    BY <1>4, <1>7, <2>1 DEF Escaped
<1> QED
  BY <1>6, <1>7

\* Escaped texts: nothing, and one character after the other.
LEMMA EncodeIs ==
    ASSUME NEW c \in DOMAIN Hex, NEW s \in Seq(DOMAIN Hex), NEW style
    PROVE  /\ Encode(<<>>, style) = <<>>
           /\ Encode(s, style) \in Seq(Safe)
           /\ Encode(Cons(c, s), style) = Escaped(c, style) \o Encode(s, style)
<1>1. Encode(<<>>, style) = <<>>
  <2>1. [i \in DOMAIN <<>> |-> Escaped(<<>>[i], style)] = <<>>
    OBVIOUS
  <2> QED
    BY <2>1, FlattenNone DEF Encode
<1>2. PICK n \in Nat : n = Len(s)
  OBVIOUS
<1>3. PICK u \in Seq(DOMAIN Hex) : u = Cons(c, s)
  BY ConsIs
<1>4. Len(u) = n + 1 /\ u[1] = c /\ \A i \in 1 .. n : u[i + 1] = s[i]
  <2>1. /\ Len(Cons(c, s)) = Len(s) + 1 /\ Cons(c, s)[1] = c
        /\ \A i \in 1 .. Len(s) : Cons(c, s)[i + 1] = s[i]
    BY ConsIs
  <2> QED
    BY <1>2, <1>3, <2>1
<1> DEFINE f == [i \in 1 .. n |-> Escaped(s[i], style)]
           g == [i \in 1 .. n + 1 |-> Escaped(u[i], style)]
<1>5. Encode(s, style) = FlattenSeq(f) /\ Encode(u, style) = FlattenSeq(g)
  BY <1>2, <1>4, SMTT(20) DEF Encode
<1>6. f \in Seq(Seq(Safe)) /\ g \in Seq(Seq(Safe))
  <2>1. \A i \in 1 .. n : s[i] \in DOMAIN Hex
    BY <1>2
  <2>2. \A i \in 1 .. n + 1 : u[i] \in DOMAIN Hex
    BY <1>4
  <2>3. \A i \in 1 .. n : Escaped(s[i], style) \in Seq(Safe)
    BY <2>1, EscapedType
  <2>4. \A i \in 1 .. n + 1 : Escaped(u[i], style) \in Seq(Safe)
    BY <2>2, EscapedType
  <2> QED
    BY <2>3, <2>4
<1>7. InFront(g, Escaped(c, style), f, n)
  BY <1>4 DEF InFront
<1> HIDE DEF f, g
<1>8. FlattenSeq(g) = Escaped(c, style) \o FlattenSeq(f)
  BY <1>6, <1>7, EscapedType, FlattenCons
<1>9. FlattenSeq(f) \in Seq(Safe)
  BY <1>6, FlattenType
<1> QED
  BY <1>1, <1>3, <1>5, <1>8, <1>9

Cuts(s, i) == s[i] = "%" /\ i + 2 <= Len(s)
DecodeHead(s) == [i \in DOMAIN s |-> IF Cuts(s, i) THEN <<Unhex(s[i + 1], s[i + 2])>>
                                     ELSE IF s[i] = "+" THEN <<Blank>> ELSE <<s[i]>>]
DecodeNext(s) == [i \in DOMAIN s |-> IF Cuts(s, i) THEN i + 3 ELSE i + 1]

\* What url_decode does at each place of a text.
DecodeRun(s) ==
    /\ UrlDecode(s) = Collect(DecodeHead(s), DecodeNext(s), 1)
    /\ DOMAIN DecodeHead(s) = 1 .. Len(s)
    /\ \A i \in 1 .. Len(s) :
          /\ DecodeHead(s)[i] = IF Cuts(s, i) THEN <<Unhex(s[i + 1], s[i + 2])>>
                                ELSE IF s[i] = "+" THEN <<Blank>> ELSE <<s[i]>>
          /\ DecodeNext(s)[i] = IF Cuts(s, i) THEN i + 3 ELSE i + 1
          /\ DecodeNext(s)[i] \in Nat /\ DecodeNext(s)[i] > i

\* The loop of url_decode goes on.
LEMMA DecodeLoop ==
    ASSUME NEW V, NEW s \in Seq(V)
    PROVE  DecodeRun(s)
<1> DEFINE escape == {i \in DOMAIN s : s[i] = "%" /\ i + 2 <= Len(s)}
           head == [i \in DOMAIN s |-> IF i \in escape THEN <<Unhex(s[i + 1], s[i + 2])>>
                                       ELSE IF s[i] = "+" THEN <<Blank>> ELSE <<s[i]>>]
           next == [i \in DOMAIN s |-> IF i \in escape THEN i + 3 ELSE i + 1]
<1>1. UrlDecode(s) = Collect(head, next, 1)
  BY DEF UrlDecode
<1>2. DOMAIN s = 1 .. Len(s) /\ Len(s) \in Nat
  OBVIOUS
<1>3. \A i \in DOMAIN s : i \in escape <=> Cuts(s, i)
  BY DEF Cuts
<1>4. head = DecodeHead(s) /\ next = DecodeNext(s)
  <2> HIDE DEF escape
  <2> QED
    BY <1>3 DEF DecodeHead, DecodeNext
<1> HIDE DEF head, next, escape
<1>5. UrlDecode(s) = Collect(DecodeHead(s), DecodeNext(s), 1)
  BY <1>1, <1>4
<1>6. DOMAIN DecodeHead(s) = 1 .. Len(s)
  BY <1>2 DEF DecodeHead
<1>7. \A i \in 1 .. Len(s) :
          DecodeHead(s)[i] = IF Cuts(s, i) THEN <<Unhex(s[i + 1], s[i + 2])>>
                             ELSE IF s[i] = "+" THEN <<Blank>> ELSE <<s[i]>>
  BY <1>2 DEF DecodeHead
<1>8. \A i \in 1 .. Len(s) : DecodeNext(s)[i] = IF Cuts(s, i) THEN i + 3 ELSE i + 1
  BY <1>2 DEF DecodeNext
<1>9. \A i \in 1 .. Len(s) : DecodeNext(s)[i] \in Nat /\ DecodeNext(s)[i] > i
  BY <1>8
<1> QED
  BY <1>5, <1>6, <1>7, <1>8, <1>9 DEF DecodeRun

\* Nothing decoded is nothing.
LEMMA DecodeNone == UrlDecode(<<>>) = <<>>
<1>1. <<>> \in Seq({}) /\ Len(<<>>) = 0
  OBVIOUS
<1> DEFINE h == DecodeHead(<<>>)
           n == DecodeNext(<<>>)
<1>2. UrlDecode(<<>>) = Collect(h, n, 1) /\ DOMAIN h = 1 .. 0
  BY <1>1, DecodeLoop DEF DecodeRun
<1> HIDE DEF h, n
<1>3. \A i \in Nat : Collect(h, n, i) = IF i \in DOMAIN h THEN h[i] \o Collect(h, n, n[i])
                                        ELSE <<>>
  <2>1. 0 \in Nat /\ GoesOn(h, n, 0)
    BY <1>2 DEF GoesOn
  <2> QED
    BY <2>1, CollectStep
<1> QED
  BY <1>2, <1>3

\* The first piece of a text decoded, and then the rest.
LEMMA DecodeFirst ==
    ASSUME NEW V, NEW x \in Seq(V), NEW y \in Seq(V), x # <<>>, NEW s, s = x \o y,
           DecodeNext(s)[1] = 1 + Len(x)
    PROVE  UrlDecode(s) = DecodeHead(s)[1] \o UrlDecode(y)
<1> DEFINE h == DecodeHead(s)
           n == DecodeNext(s)
           g == DecodeHead(y)
           m == DecodeNext(y)
<1>1. PICK d \in Nat, k \in Nat : d = Len(x) /\ k = Len(y)
  OBVIOUS
<1>2. d # 0
  BY <1>1, EmptySeq
<1>3. /\ s \in Seq(V) /\ Len(s) = Len(x) + Len(y)
      /\ \A i \in 1 .. Len(y) : s[Len(x) + i] = y[i]
  BY ConcatIs
<1>4. Len(s) = k + d /\ \A i \in 1 .. k : s[i + d] = y[i]
  <2>1. \A i \in 1 .. k : i + d = Len(x) + i
    BY <1>1
  <2> QED
    BY <1>1, <1>3, <2>1
<1>5. DecodeRun(s) /\ DecodeRun(y)
  BY <1>3, DecodeLoop
<1>6. ASSUME NEW i \in 1 .. k PROVE h[i + d] = g[i] /\ n[i + d] = m[i] + d
  <2>1. i + d \in 1 .. Len(s) /\ i \in 1 .. Len(y)
    BY <1>1, <1>4
  <2>2. s[i + d] = y[i]
    BY <1>4
  <2>3. Cuts(s, i + d) <=> Cuts(y, i)
    BY <1>1, <1>4, <2>2 DEF Cuts
  <2>4. /\ h[i + d] = IF Cuts(s, i + d) THEN <<Unhex(s[(i + d) + 1], s[(i + d) + 2])>>
                      ELSE IF s[i + d] = "+" THEN <<Blank>> ELSE <<s[i + d]>>
        /\ n[i + d] = IF Cuts(s, i + d) THEN (i + d) + 3 ELSE (i + d) + 1
    BY <1>5, <2>1 DEF DecodeRun
  <2>5. /\ g[i] = IF Cuts(y, i) THEN <<Unhex(y[i + 1], y[i + 2])>>
                  ELSE IF y[i] = "+" THEN <<Blank>> ELSE <<y[i]>>
        /\ m[i] = IF Cuts(y, i) THEN i + 3 ELSE i + 1
    BY <1>5, <2>1 DEF DecodeRun
  <2> HIDE DEF h, n, g, m
  <2>6. Cuts(y, i) => s[(i + d) + 1] = y[i + 1] /\ s[(i + d) + 2] = y[i + 2]
    <3>1. SUFFICES ASSUME Cuts(y, i) PROVE s[(i + d) + 1] = y[i + 1] /\ s[(i + d) + 2] = y[i + 2]
      OBVIOUS
    <3>2. i + 1 \in 1 .. k /\ i + 2 \in 1 .. k
      BY <1>1, <3>1 DEF Cuts
    <3>3. (i + d) + 1 = (i + 1) + d /\ (i + d) + 2 = (i + 2) + d
      OBVIOUS
    <3> QED
      BY <1>4, <3>2, <3>3
  <2>7. CASE Cuts(y, i)
    <3>1. PICK a, b : a = y[i + 1] /\ b = y[i + 2]
      OBVIOUS
    <3>2. s[(i + d) + 1] = a /\ s[(i + d) + 2] = b
      BY <2>6, <2>7, <3>1
    <3>3. h[i + d] = <<Unhex(a, b)>> /\ n[i + d] = (i + d) + 3
      BY <2>3, <2>4, <2>7, <3>2
    <3>4. g[i] = <<Unhex(a, b)>> /\ m[i] = i + 3
      BY <2>5, <2>7, <3>1
    <3> QED
      BY <3>3, <3>4
  <2>8. CASE ~Cuts(y, i)
    <3>1. PICK e : e = y[i]
      OBVIOUS
    <3>2. h[i + d] = (IF e = "+" THEN <<Blank>> ELSE <<e>>) /\ n[i + d] = (i + d) + 1
      BY <2>2, <2>3, <2>4, <2>8, <3>1
    <3>3. g[i] = (IF e = "+" THEN <<Blank>> ELSE <<e>>) /\ m[i] = i + 1
      BY <2>5, <2>8, <3>1
    <3>4. h[i + d] = g[i]
      BY <3>2, <3>3
    <3>5. n[i + d] = m[i] + d
      BY <3>2, <3>3
    <3> QED
      BY <3>4, <3>5
  <2> QED
    BY <2>7, <2>8
<1>7. Shifted(h, n, g, m, k, d)
  <2>1. /\ DOMAIN h = 1 .. Len(s) /\ \A i \in 1 .. Len(s) : n[i] \in Nat /\ n[i] > i
        /\ DOMAIN g = 1 .. Len(y) /\ \A i \in 1 .. Len(y) : m[i] \in Nat /\ m[i] > i
    BY <1>5 DEF DecodeRun
  <2> HIDE DEF h, n, g, m
  <2> QED
    BY <1>1, <1>4, <1>6, <2>1 DEF Shifted
<1>8. Collect(h, n, 1 + d) = UrlDecode(y)
  <2>1. UrlDecode(y) = Collect(g, m, 1)
    BY <1>5 DEF DecodeRun
  <2> HIDE DEF h, n, g, m
  <2> QED
    BY <1>7, <2>1, CollectShifts
<1>9. UrlDecode(s) = Collect(h, n, 1) /\ DOMAIN h = 1 .. Len(s)
      /\ \A i \in 1 .. Len(s) : n[i] \in Nat /\ n[i] > i
  BY <1>5 DEF DecodeRun
<1> HIDE DEF h, n, g, m
<1>10. Collect(h, n, 1) = h[1] \o Collect(h, n, n[1])
  <2>1. PICK z \in Nat : z = Len(s)
    BY <1>3
  <2>2. GoesOn(h, n, z)
    BY <1>9, <2>1 DEF GoesOn
  <2>3. \A i \in Nat : Collect(h, n, i) = IF i \in DOMAIN h THEN h[i] \o Collect(h, n, n[i])
                                          ELSE <<>>
    BY <2>2, CollectStep
  <2>4. 1 \in DOMAIN h
    BY <1>2, <1>4, <1>9
  <2> QED
    BY <2>3, <2>4
<1> QED
  BY <1>1, <1>8, <1>9, <1>10 DEF h, n

\* An escaped character decoded.
LEMMA DecodeEscaped ==
    ASSUME NEW c \in DOMAIN Hex, NEW style, NEW v \in Seq(Char)
    PROVE  UrlDecode(Escaped(c, style) \o v) = <<c>> \o UrlDecode(v)
<1>1. Hex[c] \in HexDigit \X HexDigit /\ c \in Char
  BY PacketAssumption
<1>2. PICK a \in HexDigit, b \in HexDigit : Hex[c] = <<a, b>>
  BY <1>1
<1>3. a \in Char /\ b \in Char /\ "%" \in Char /\ "+" \in Char
  BY PacketAssumption, WordsDiffer
<1>4. Unhex(a, b) = c
  <2>1. \A d \in DOMAIN Hex : Hex[d] = <<a, b>> => d = c
    BY <1>2, PacketAssumption
  <2> QED
    BY <1>2, <2>1 DEF Unhex
<1>5. CASE style = "percent" \/ c \in {"&", "=", "%", "+", "?"}
  <2>1. <<"%">> \o <<a, b>> = <<"%", a, b>> /\ <<"%", a, b>> \in Seq(Char)
    BY <1>3, ThreeOf
  <2>2. Escaped(c, style) = <<"%", a, b>>
    <3>1. Escaped(c, style) = <<"%">> \o Hex[c]
      BY <1>5 DEF Escaped
    <3> QED
      BY <1>2, <2>1, <3>1
  <2>3. PICK x \in Seq(Char) : x = <<"%", a, b>>
    BY <2>1
  <2>4. Len(x) = 3 /\ x[1] = "%" /\ x[2] = a /\ x[3] = b /\ x # <<>>
    BY <2>3
  <2>5. PICK s \in Seq(Char) : s = x \o v
    BY ConcatType
  <2>6. Len(s) = Len(x) + Len(v) /\ \A i \in 1 .. Len(x) : s[i] = x[i]
    <3>1. Len(x \o v) = Len(x) + Len(v) /\ \A i \in 1 .. Len(x) : (x \o v)[i] = x[i]
      BY ConcatIs
    <3> QED
      BY <2>5, <3>1
  <2>7. s[1] = "%" /\ s[2] = a /\ s[3] = b /\ Len(s) >= 3 /\ 1 \in 1 .. Len(s) /\ Len(v) \in Nat
    <3>1. 1 \in 1 .. Len(x) /\ 2 \in 1 .. Len(x) /\ 3 \in 1 .. Len(x) /\ Len(v) \in Nat
      BY <2>4
    <3> QED
      BY <2>4, <2>6, <3>1
  <2>8. Cuts(s, 1)
    BY <2>7 DEF Cuts
  <2>9. DecodeRun(s)
    BY DecodeLoop
  <2>10. DecodeHead(s)[1] = <<c>> /\ DecodeNext(s)[1] = 1 + 3
    BY <1>4, <2>7, <2>8, <2>9 DEF DecodeRun
  <2>11. DecodeNext(s)[1] = 1 + Len(x)
    BY <2>4, <2>10
  <2>12. x # <<>>
    BY <2>4
  <2>13. UrlDecode(s) = DecodeHead(s)[1] \o UrlDecode(v)
    BY <2>5, <2>11, <2>12, DecodeFirst
  <2> QED
    BY <2>2, <2>3, <2>5, <2>10, <2>13
<1>6. CASE style # "percent" /\ c \notin {"&", "=", "%", "+", "?"}
  <2>1. PICK e \in Char : e # "%" /\ Escaped(c, style) = <<e>> /\ c = IF e = "+" THEN Blank ELSE e
    <3>1. CASE c = Blank
      BY <1>3, <1>6, <3>1 DEF Escaped
    <3>2. CASE c # Blank
      BY <1>1, <1>6, <3>2 DEF Escaped
    <3> QED
      BY <3>1, <3>2
  <2>2. PICK x \in Seq(Char) : x = <<e>>
    BY OneIs
  <2>3. Len(x) = 1 /\ x[1] = e /\ x # <<>>
    BY <2>2
  <2>4. PICK s \in Seq(Char) : s = x \o v
    BY ConcatType
  <2>5. Len(s) = Len(x) + Len(v) /\ \A i \in 1 .. Len(x) : s[i] = x[i]
    <3>1. Len(x \o v) = Len(x) + Len(v) /\ \A i \in 1 .. Len(x) : (x \o v)[i] = x[i]
      BY ConcatIs
    <3> QED
      BY <2>4, <3>1
  <2>6. s[1] = e /\ 1 \in 1 .. Len(s)
    <3>1. 1 \in 1 .. Len(x) /\ Len(v) \in Nat
      BY <2>3
    <3> QED
      BY <2>3, <2>5, <3>1
  <2>7. ~Cuts(s, 1)
    BY <2>1, <2>6 DEF Cuts
  <2>8. DecodeRun(s)
    BY DecodeLoop
  <2>9. DecodeHead(s)[1] = <<c>> /\ DecodeNext(s)[1] = 1 + 1
    BY <2>1, <2>6, <2>7, <2>8 DEF DecodeRun
  <2>10. DecodeNext(s)[1] = 1 + Len(x)
    BY <2>3, <2>9
  <2>11. x # <<>>
    BY <2>3
  <2>12. UrlDecode(s) = DecodeHead(s)[1] \o UrlDecode(v)
    BY <2>4, <2>10, <2>11, DecodeFirst
  <2> QED
    BY <2>1, <2>2, <2>4, <2>9, <2>12
<1> QED
  BY <1>5, <1>6

\* Whatever characters a name or a value has and however they are escaped, url_decode
\* gives them back.
LEMMA DecodesBack ==
    ASSUME NEW s \in Seq(DOMAIN Hex), NEW style
    PROVE  UrlDecode(Encode(s, style)) = s
<1> DEFINE S == {t \in Seq(DOMAIN Hex) : UrlDecode(Encode(t, style)) = t}
<1>1. <<>> \in S
  <2>1. Encode(<<>>, style) = <<>>
    <3>1. [i \in DOMAIN <<>> |-> Escaped(<<>>[i], style)] = <<>>
      OBVIOUS
    <3> QED
      BY <3>1, FlattenNone DEF Encode
  <2> QED
    BY <2>1, DecodeNone
<1>2. ASSUME NEW t \in Seq(DOMAIN Hex) \cap S, NEW c \in DOMAIN Hex PROVE Cons(c, t) \in S
  <2>1. Encode(Cons(c, t), style) = Escaped(c, style) \o Encode(t, style)
    BY EncodeIs
  <2>2. Encode(t, style) \in Seq(Char)
    <3>1. Encode(t, style) \in Seq(Safe) /\ Safe \subseteq Char
      BY EncodeIs DEF Safe
    <3> QED
      BY <3>1, SeqMonotonic
  <2>3. UrlDecode(Escaped(c, style) \o Encode(t, style)) = <<c>> \o UrlDecode(Encode(t, style))
    BY <2>2, DecodeEscaped
  <2>4. Cons(c, t) \in Seq(DOMAIN Hex)
    BY ConsIs
  <2> QED
    BY <2>1, <2>3, <2>4 DEF Cons
<1>3. Seq(DOMAIN Hex) \subseteq S
  <2> HIDE DEF S
  <2> QED
    BY <1>1, <1>2, ConsInduction
<1> QED
  BY <1>3

\* Encoded texts are not empty unless what they encode is.
LEMMA EncodeType ==
    ASSUME NEW s \in Seq(DOMAIN Hex), NEW style
    PROVE  /\ Encode(s, style) \in Seq(Safe)
           /\ s = <<>> => Encode(s, style) = <<>>
           /\ s # <<>> => Encode(s, style) # <<>>
<1>1. CASE s = <<>>
  <2>1. [i \in DOMAIN <<>> |-> Escaped(<<>>[i], style)] = <<>>
    OBVIOUS
  <2>2. Encode(<<>>, style) = <<>>
    BY <2>1, FlattenNone DEF Encode
  <2>3. <<>> \in Seq(Safe)
    OBVIOUS
  <2> QED
    BY <1>1, <2>2, <2>3
<1>2. CASE s # <<>>
  <2>1. PICK c \in DOMAIN Hex, r \in Seq(DOMAIN Hex) : s = Cons(c, r)
    BY <1>2, HasFirst
  <2>2. Encode(Cons(c, r), style) = Escaped(c, style) \o Encode(r, style)
        /\ Encode(r, style) \in Seq(Safe)
    BY EncodeIs
  <2>3. Escaped(c, style) \in Seq(Safe) /\ Escaped(c, style) # <<>>
    BY EscapedType
  <2>4. PICK x \in Seq(Safe), y \in Seq(Safe) : x = Escaped(c, style) /\ y = Encode(r, style)
    BY <2>2, <2>3
  <2>5. x # <<>>
    BY <2>3, <2>4
  <2>6. x \o y \in Seq(Safe) /\ x \o y # <<>>
    BY <2>5, NotEmpty, ConcatType
  <2> QED
    BY <1>2, <2>1, <2>2, <2>4, <2>6
<1> QED
  BY <1>1, <1>2

\* One argument as a client writes it.
ArgText(p, style) ==
    Encode(p[1], style) \o (IF p[2] = <<>> /\ style = "form" THEN <<>>
                            ELSE <<"=">> \o Encode(p[2], style))

\* It has no "&" and its name and its value are read as they were meant.
ArgBack(p, style) ==
    /\ ArgText(p, style) \in Plain(Char, "&")
    /\ UrlDecode(Until(ArgText(p, style), "=")) = p[1]
    /\ UrlDecode(After(ArgText(p, style), "=")) = p[2]

\* So it is for any name and any value.
LEMMA ArgsBack ==
    ASSUME NEW p \in Pair, NEW style
    PROVE  ArgBack(p, style)
<1>1. PICK k \in Seq(DOMAIN Hex), v \in Seq(DOMAIN Hex) : k # <<>> /\ p = <<k, v>>
  BY DEF Pair
<1>2. Safe \subseteq Char /\ Safe \subseteq Char \ {"&"} /\ "=" \in Char \ {"&"} /\ "=" \in Char
  BY WordsDiffer DEF Safe
<1>3. Encode(k, style) \in Seq(Safe) /\ Encode(v, style) \in Seq(Safe)
  BY EncodeType
<1>4. PICK x \in Seq(Safe), y \in Seq(Safe) : x = Encode(k, style) /\ y = Encode(v, style)
  BY <1>3
<1>5. x # <<>>
  BY <1>1, <1>4, EncodeType
<1>6. x \in Seq(Char) /\ y \in Seq(Char) /\ x \in Seq(Char \ {"&"}) /\ y \in Seq(Char \ {"&"})
  BY <1>2, SeqMonotonic
<1>7. \A j \in 1 .. Len(x) : x[j] # "="
  <2>1. \A j \in 1 .. Len(x) : x[j] \in Safe
    OBVIOUS
  <2> QED
    BY <2>1 DEF Safe
<1>8. UrlDecode(x) = k /\ UrlDecode(y) = v
  BY <1>4, DecodesBack
<1>9. CASE v = <<>> /\ style = "form"
  <2>1. ArgText(p, style) = x
    <3>1. ArgText(p, style) = x \o <<>>
      BY <1>1, <1>4, <1>9 DEF ArgText
    <3> QED
      BY <1>6, <3>1, ConcatEmptySeq
  <2>2. Until(x, "=") = x /\ After(x, "=") = <<>>
    BY <1>6, <1>7, UntilNone
  <2>3. x \in Plain(Char, "&")
    BY <1>5, <1>6 DEF Plain
  <2> QED
    BY <1>1, <1>8, <1>9, <2>1, <2>2, <2>3, DecodeNone DEF ArgBack
<1>10. CASE ~(v = <<>> /\ style = "form")
  <2>1. ArgText(p, style) = x \o <<"=">> \o y
    <3>1. ArgText(p, style) = x \o (<<"=">> \o y)
      BY <1>1, <1>4, <1>10 DEF ArgText
    <3>2. <<"=">> \in Seq(Char)
      BY <1>2, OneIs
    <3>3. (x \o <<"=">>) \o y = x \o (<<"=">> \o y)
      BY <1>6, <3>2, ConcatAssociative
    <3> QED
      BY <3>1, <3>3
  <2>2. Until(x \o <<"=">> \o y, "=") = x /\ After(x \o <<"=">> \o y, "=") = y
    BY <1>2, <1>6, <1>7, UntilAround
  <2>3. x \o <<"=">> \o y \in Plain(Char, "&")
    <3>1. PICK z \in Seq(Char \ {"&"}) : z = <<"=">>
      BY <1>2, OneIs
    <3>2. x \o z \in Seq(Char \ {"&"}) /\ x \o z # <<>>
      BY <1>5, <1>6, NotEmpty, ConcatType
    <3>3. (x \o z) \o y \in Seq(Char \ {"&"}) /\ (x \o z) \o y # <<>>
      BY <1>6, <3>2, NotEmpty, ConcatType
    <3> QED
      BY <3>1, <3>3 DEF Plain
  <2> QED
    BY <1>1, <1>8, <2>1, <2>2, <2>3 DEF ArgBack
<1> QED
  BY <1>9, <1>10

\* Whatever names and values a client means, parse_query finds them in the query it
\* writes (packet.c:234-258).
LEMMA QueryBack ==
    ASSUME NEW args \in Seq(Pair), NEW style
    PROVE  /\ EncodeArgs(args, style) \in Seq(Char)
           /\ args = <<>> => EncodeArgs(args, style) = <<>>
           /\ QueryPairs(EncodeArgs(args, style)) = args
<1>1. PICK n \in Nat : n = Len(args) /\ DOMAIN args = 1 .. n
  OBVIOUS
<1>2. \A i \in 1 .. n : args[i] \in Pair
  BY <1>1
<1>3. \A i \in 1 .. n : ArgBack(args[i], style)
  BY <1>2, ArgsBack
<1> DEFINE texts == [i \in DOMAIN args |-> ArgText(args[i], style)]
<1>4. texts \in Seq(Plain(Char, "&")) /\ DOMAIN texts = 1 .. n
      /\ \A i \in 1 .. n : texts[i] = ArgText(args[i], style)
  <2>1. DOMAIN texts = 1 .. n /\ texts = [i \in DOMAIN texts |-> texts[i]]
    BY <1>1
  <2>2. \A i \in 1 .. n : texts[i] \in Plain(Char, "&") /\ texts[i] = ArgText(args[i], style)
    BY <1>1, <1>3 DEF ArgBack
  <2> HIDE DEF texts
  <2> QED
    BY <2>1, <2>2, EachIs
<1>5. EncodeArgs(args, style) = Join(texts, <<"&">>)
  BY DEF EncodeArgs, ArgText
<1> HIDE DEF texts
<1>6. "&" \in Char
  BY WordsDiffer
<1>7. Items(Join(texts, <<"&">>), "&") = texts
  BY <1>4, <1>6, ItemsOfJoin
<1>8. Join(texts, <<"&">>) \in Seq(Char)
  <2>1. Plain(Char, "&") \subseteq Seq(Char)
    BY PlainIs
  <2>2. texts \in Seq(Seq(Char))
    BY <1>4, <2>1, SeqMonotonic
  <2>3. <<"&">> \in Seq(Char)
    BY <1>6, OneIs
  <2> QED
    BY <2>2, <2>3, JoinType
<1>9. args = <<>> => Join(texts, <<"&">>) = <<>>
  <2>1. ASSUME args = <<>> PROVE texts = <<>>
    <3>1. n = 0
      BY <1>1, <2>1
    <3>2. Len(texts) = 0
      BY <1>4, <3>1
    <3> QED
      BY <1>4, <3>2
  <2>2. [i \in DOMAIN <<>> |-> IF i = 1 THEN <<>>[i] ELSE <<"&">> \o <<>>[i]] = <<>>
    OBVIOUS
  <2>3. Join(<<>>, <<"&">>) = <<>>
    BY <2>2, FlattenNone DEF Join
  <2> QED
    BY <2>1, <2>3
<1>10. QueryPairs(EncodeArgs(args, style)) = args
  <2>1. QueryPairs(EncodeArgs(args, style))
           = [i \in DOMAIN texts |-> <<UrlDecode(Until(texts[i], "=")),
                                       UrlDecode(After(texts[i], "="))>>]
    BY <1>5, <1>7 DEF QueryPairs
  <2>2. ASSUME NEW i \in 1 .. n
        PROVE  <<UrlDecode(Until(texts[i], "=")), UrlDecode(After(texts[i], "="))>> = args[i]
    <3>1. UrlDecode(Until(texts[i], "=")) = args[i][1] /\ UrlDecode(After(texts[i], "=")) = args[i][2]
      BY <1>3, <1>4 DEF ArgBack
    <3>2. args[i] = <<args[i][1], args[i][2]>>
      BY <1>2 DEF Pair
    <3> QED
      BY <3>1, <3>2
  <2>3. args = [i \in 1 .. n |-> args[i]]
    BY <1>1
  <2> QED
    BY <1>4, <2>1, <2>2, <2>3
<1> QED
  BY <1>5, <1>8, <1>9, <1>10

\* The uri ends where the query begins, and the query is read as it was meant.
LEMMA UrlBack ==
    ASSUME NEW a, Writable(a)
    PROVE  Until(Url(a), "?") = a.path /\ QueryPairs(After(Url(a), "?")) = a.query
<1>1. a.path \in Seq(Char \ {"?", Blank, CRLF}) /\ a.query \in Seq(Pair)
  BY DEF Writable
<1>2. PICK p \in Seq(Char) : p = a.path
  <2>1. Char \ {"?", Blank, CRLF} \subseteq Char
    OBVIOUS
  <2>2. a.path \in Seq(Char)
    BY <1>1, <2>1, SeqMonotonic
  <2> QED
    BY <2>2
<1>3. \A j \in 1 .. Len(p) : p[j] # "?"
  <2>1. \A j \in 1 .. Len(p) : p[j] \in Char \ {"?", Blank, CRLF}
    BY <1>1, <1>2
  <2> QED
    BY <2>1
<1>4. PICK q \in Seq(Char) : q = EncodeArgs(a.query, a.style)
  BY <1>1, QueryBack
<1>5. QueryPairs(q) = a.query /\ (a.query = <<>> => q = <<>>)
  BY <1>1, <1>4, QueryBack
<1>6. CASE a.query = <<>>
  <2>1. Url(a) = p
    <3>1. Url(a) = p \o <<>>
      BY <1>2, <1>6 DEF Url
    <3> QED
      BY <3>1, ConcatEmptySeq
  <2>2. Until(p, "?") = p /\ After(p, "?") = <<>>
    BY <1>3, UntilNone
  <2> QED
    BY <1>2, <1>5, <1>6, <2>1, <2>2
<1>7. CASE a.query # <<>>
  <2>1. "?" \in Char
    BY WordsDiffer
  <2>2. Url(a) = p \o <<"?">> \o q
    <3>1. Url(a) = p \o (<<"?">> \o q)
      BY <1>2, <1>4, <1>7 DEF Url
    <3>2. <<"?">> \in Seq(Char)
      BY <2>1, OneIs
    <3>3. (p \o <<"?">>) \o q = p \o (<<"?">> \o q)
      BY <3>2, ConcatAssociative
    <3> QED
      BY <3>1, <3>3
  <2>3. Until(p \o <<"?">> \o q, "?") = p /\ After(p \o <<"?">> \o q, "?") = q
    BY <1>3, <2>1, UntilAround
  <2> QED
    BY <1>2, <1>5, <2>2, <2>3
<1> QED
  BY <1>6, <1>7

-----------------------------------------------------------------------------
(* Cookies.                                                                *)

\* One cookie as a client writes it, first or after others.
Written(p) == p[1] \o (IF p[2] = <<>> THEN <<>> ELSE <<"=">> \o p[2])
Cookied(p, i) == IF i = 1 THEN Written(p) ELSE <<Blank>> \o Written(p)

\* It has no ";" and its name and its value are read as they were meant.
CookieBack(p, i) ==
    /\ Written(p) \in Seq(Char)
    /\ Cookied(p, i) \in Plain(Char, Semicolon)
    /\ Trim(Until(Cookied(p, i), "="), Blank) = p[1]
    /\ After(Cookied(p, i), "=") = p[2]
    /\ ~StartsWith(Cookied(p, i), <<"=">>)

\* The name of a cookie, with a blank before it or not.
LEMMA NamesBack ==
    ASSUME NEW p \in Cookie, NEW i
    PROVE  \E x \in Seq(Char \ {Semicolon}) :
              /\ x # <<>> /\ x[1] # "=" /\ \A j \in 1 .. Len(x) : x[j] # "="
              /\ Trim(x, Blank) = p[1]
              /\ x = IF i = 1 THEN p[1] ELSE <<Blank>> \o p[1]
<1> DEFINE U == Char \ {Semicolon, "=", CRLF}
<1>1. PICK k \in Seq(U) : k = p[1]
  BY DEF Cookie
<1>2. k # <<>> /\ k[1] # Blank /\ k[Len(k)] # Blank
  BY <1>1 DEF Cookie, Last
<1>3. Blank \in Char \ {Semicolon} /\ Blank # "=" /\ U \subseteq Char \ {Semicolon}
  BY WordsDiffer DEF Blank, Semicolon
<1>4. k \in Seq(Char \ {Semicolon})
  <2> HIDE DEF U
  <2> QED
    BY <1>3, SeqMonotonic
<1>5. \A j \in 1 .. Len(k) : k[j] # "="
  <2>1. \A j \in 1 .. Len(k) : k[j] \in U
    OBVIOUS
  <2> QED
    BY <2>1
<1>6. 1 \in 1 .. Len(k)
  BY <1>2, EmptySeq
<1> HIDE DEF U
<1>7. CASE i = 1
  <2>1. Trim(k, Blank) = k
    BY <1>2, <1>4, TrimNone
  <2> QED
    BY <1>1, <1>2, <1>4, <1>5, <1>6, <1>7, <2>1
<1>8. CASE i # 1
  <2>1. Trim(<<Blank>> \o k, Blank) = k
    BY <1>2, <1>3, <1>4, TrimOne
  <2>2. PICK x \in Seq(Char \ {Semicolon}) : x = Cons(Blank, k)
    BY <1>3, <1>4, ConsIs
  <2>3. x = <<Blank>> \o k
    BY <2>2 DEF Cons
  <2>4. /\ Len(x) = Len(k) + 1 /\ x[1] = Blank /\ x # <<>>
        /\ \A j \in 1 .. Len(k) : x[j + 1] = k[j]
    <3>1. /\ Len(Cons(Blank, k)) = Len(k) + 1 /\ Cons(Blank, k)[1] = Blank
          /\ Cons(Blank, k) # <<>>
          /\ \A j \in 1 .. Len(k) : Cons(Blank, k)[j + 1] = k[j]
      <4>1. PICK W : W = Char \ {Semicolon}
        OBVIOUS
      <4>2. Blank \in W /\ k \in Seq(W)
        BY <1>3, <1>4, <4>1
      <4> QED
        BY <4>2, ConsIs
    <3> QED
      BY <2>2, <3>1
  <2>5. ASSUME NEW j \in 1 .. Len(x) PROVE x[j] # "="
    <3>1. CASE j = 1
      BY <1>3, <2>4, <3>1
    <3>2. CASE j # 1
      <4>1. PICK l \in 1 .. Len(k) : j = l + 1
        BY <2>4, <3>2
      <4> QED
        BY <1>5, <2>4, <4>1
    <3> QED
      BY <3>1, <3>2
  <2> QED
    BY <1>1, <1>3, <1>8, <2>1, <2>3, <2>4, <2>5
<1> QED
  BY <1>7, <1>8

\* So it is for any cookie.
LEMMA CookiesCut ==
    ASSUME NEW p \in Cookie, NEW i
    PROVE  CookieBack(p, i)
<1> DEFINE W == Char \ {Semicolon}
<1>1. PICK x \in Seq(W) :
              /\ x # <<>> /\ x[1] # "=" /\ \A j \in 1 .. Len(x) : x[j] # "="
              /\ Trim(x, Blank) = p[1]
              /\ x = IF i = 1 THEN p[1] ELSE <<Blank>> \o p[1]
  BY NamesBack
<1>2. Char \ {Semicolon, "=", CRLF} \subseteq W /\ Char \ {Semicolon, CRLF} \subseteq W
      /\ W \subseteq Char /\ "=" \in W /\ Blank \in W
  BY WordsDiffer DEF Semicolon, Blank
<1>3. PICK k \in Seq(W), v \in Seq(W) : k = p[1] /\ v = p[2]
  <2>1. p[1] \in Seq(Char \ {Semicolon, "=", CRLF}) /\ p[2] \in Seq(Char \ {Semicolon, CRLF})
    BY DEF Cookie
  <2> HIDE DEF W
  <2>2. p[1] \in Seq(W) /\ p[2] \in Seq(W)
    BY <1>2, <2>1, SeqMonotonic
  <2> QED
    BY <2>2
<1> DEFINE rest == IF v = <<>> THEN <<>> ELSE <<"=">> \o v
<1>4. rest \in Seq(W)
  <2>1. CASE v = <<>>
    BY <2>1
  <2>2. CASE v # <<>>
    <3>1. <<"=">> \o v = Cons("=", v) /\ Cons("=", v) \in Seq(W)
      <4> HIDE DEF W
      <4> QED
        BY <1>2, ConsIs DEF Cons
    <3> QED
      BY <2>2, <3>1
  <2> QED
    BY <2>1, <2>2
<1>5. Written(p) = k \o rest
  BY <1>3 DEF Written
<1> HIDE DEF rest
<1>6. Written(p) \in Seq(Char)
  <2> HIDE DEF W
  <2>1. k \o rest \in Seq(W)
    BY <1>4, ConcatType
  <2> QED
    BY <1>2, <1>5, <2>1, SeqMonotonic
<1>7. Cookied(p, i) = x \o rest
  <2>1. CASE i = 1
    BY <1>1, <1>3, <1>5, <2>1 DEF Cookied
  <2>2. CASE i # 1
    <3>1. <<Blank>> \in Seq(W)
      <4> HIDE DEF W
      <4> QED
        BY <1>2, OneIs
    <3>2. (<<Blank>> \o k) \o rest = <<Blank>> \o (k \o rest)
      BY <1>4, <3>1, ConcatAssociative
    <3> QED
      BY <1>1, <1>3, <1>5, <2>2, <3>2 DEF Cookied
  <2> QED
    BY <2>1, <2>2
<1>8. x \o rest \in Seq(W) /\ x \o rest # <<>>
  <2> HIDE DEF W
  <2> QED
    BY <1>1, <1>4, ConcatType, NotEmpty
<1>9. Cookied(p, i) \in Plain(Char, Semicolon)
  BY <1>7, <1>8 DEF Plain
<1>10. Until(x \o rest, "=") = x /\ After(x \o rest, "=") = v
  <2>1. CASE v = <<>>
    <3>1. rest = <<>>
      BY <2>1 DEF rest
    <3>2. x \o rest = x
      BY <3>1, ConcatEmptySeq
    <3>3. Until(x, "=") = x /\ After(x, "=") = <<>>
      BY <1>1, UntilNone
    <3> QED
      BY <2>1, <3>2, <3>3
  <2>2. CASE v # <<>>
    <3>1. rest = <<"=">> \o v
      BY <2>2 DEF rest
    <3>2. <<"=">> \in Seq(W)
      <4> HIDE DEF W
      <4> QED
        BY <1>2, OneIs
    <3>3. (x \o <<"=">>) \o v = x \o (<<"=">> \o v)
      BY <3>2, ConcatAssociative
    <3>4. Until(x \o <<"=">> \o v, "=") = x /\ After(x \o <<"=">> \o v, "=") = v
      <4> HIDE DEF W
      <4> QED
        BY <1>1, <1>2, UntilAround
    <3> QED
      BY <3>1, <3>3, <3>4
  <2> QED
    BY <2>1, <2>2
<1>11. ~StartsWith(x \o rest, <<"=">>)
  <2>1. PICK s \in Seq(W), e \in Seq(W) : s = x \o rest /\ e = <<"=">>
    <3> HIDE DEF W
    <3> QED
      BY <1>2, <1>8, OneIs
  <2>2. Len(e) = 1 /\ e[1] = "="
    BY <2>1
  <2>3. s[1] = x[1] /\ Len(s) >= 1
    <3> HIDE DEF W
    <3>1. Len(x \o rest) = Len(x) + Len(rest) /\ \A j \in 1 .. Len(x) : (x \o rest)[j] = x[j]
      BY <1>4, ConcatIs
    <3>2. 1 \in 1 .. Len(x) /\ Len(rest) \in Nat
      BY <1>1, <1>4, EmptySeq
    <3> QED
      BY <2>1, <3>1, <3>2
  <2>4. Len(e) <= Len(s) /\ 1 \in 1 .. Len(e) /\ s[1] # e[1]
    BY <1>1, <2>2, <2>3
  <2>5. StartsWith(s, e) <=> \A j \in 1 .. Len(e) : s[j] = e[j]
    <3> HIDE DEF W
    <3> QED
      BY <2>4, StartsWithIs
  <2> QED
    BY <2>1, <2>4, <2>5
<1> QED
  BY <1>1, <1>3, <1>6, <1>7, <1>9, <1>10, <1>11 DEF CookieBack

\* The value that SetThese gives a name.
Given(args, pairs, those, k) ==
    LET of == {i \in those : pairs[i][1] = k}
    IN  IF of = {} THEN args[k] ELSE pairs[Max(of)][2]

\* SetThese name by name.
LEMMA SetIs ==
    ASSUME NEW args, NEW pairs, NEW those
    PROVE  SetThese(args, pairs, those)
              = [k \in DOMAIN args \cup {pairs[i][1] : i \in those} |->
                    Given(args, pairs, those, k)]
  BY DEF SetThese, Given

\* Two dictionaries filled alike are the same.
LEMMA SetSame ==
    ASSUME NEW n \in Nat, NEW those \in SUBSET (1 .. n), NEW args, NEW p, NEW q,
           \A i \in those : p[i] = q[i]
    PROVE  SetThese(args, p, those) = SetThese(args, q, those)
<1>1. {p[i][1] : i \in those} = {q[i][1] : i \in those}
  OBVIOUS
<1>2. ASSUME NEW k PROVE Given(args, p, those, k) = Given(args, q, those, k)
  <2> DEFINE S == {i \in those : p[i][1] = k}
  <2>1. S = {i \in those : q[i][1] = k}
    OBVIOUS
  <2>2. CASE S = {}
    BY <2>1, <2>2 DEF Given
  <2>3. CASE S # {}
    <3>1. S \in SUBSET (1 .. n)
      OBVIOUS
    <3>2. Max(S) \in those
      <4>1. Max(S) \in S
        <5> HIDE DEF S
        <5> QED
          BY <2>3, <3>1, MaxIn
      <4> QED
        BY <4>1
    <3>3. p[Max(S)] = q[Max(S)]
      BY <3>2
    <3> QED
      BY <2>1, <2>3, <3>3 DEF Given
  <2> QED
    BY <2>2, <2>3
<1> QED
  BY <1>1, <1>2, SetIs

\* A dictionary in which nothing is set.
LEMMA SetNone ==
    ASSUME NEW args, NEW pairs, args = [k \in DOMAIN args |-> args[k]]
    PROVE  SetThese(args, pairs, {}) = args
<1>1. \A k : Given(args, pairs, {}, k) = args[k]
  BY DEF Given
<1>2. {pairs[i][1] : i \in {}} = {}
  OBVIOUS
<1>3. SetThese(args, pairs, {}) = [k \in DOMAIN args |-> args[k]]
  BY <1>1, <1>2, SetIs
<1> QED
  BY <1>3

\* What SetThese leaves is a dictionary.
LEMMA SetType ==
    ASSUME NEW args, NEW pairs, NEW those
    PROVE  LET s == SetThese(args, pairs, those) IN s = [k \in DOMAIN s |-> s[k]]
<1>1. PICK s : s = SetThese(args, pairs, those)
  OBVIOUS
<1>2. s = [k \in DOMAIN args \cup {pairs[i][1] : i \in those} |->
             Given(args, pairs, those, k)]
  BY <1>1, SetIs
<1>3. s = [k \in DOMAIN s |-> s[k]]
  BY <1>2
<1> QED
  BY <1>1, <1>3

\* Whatever cookies a client has, parse_cookies finds them in the field it writes
\* (packet.c:430-456).
LEMMA CookiesRead ==
    ASSUME NEW cookies \in Seq(Cookie)
    PROVE  /\ CookiePairs(CookieText(cookies)) = cookies
           /\ Named(CookieText(cookies)) = DOMAIN cookies
           /\ cookies = <<>> => CookieText(cookies) = <<>>
<1>1. PICK n \in Nat : n = Len(cookies) /\ DOMAIN cookies = 1 .. n
  OBVIOUS
<1>2. \A i \in 1 .. n : cookies[i] \in Cookie
  BY <1>1
<1>3. \A i \in 1 .. n : CookieBack(cookies[i], i)
  BY <1>2, CookiesCut
<1> DEFINE texts == [i \in 1 .. n |-> Cookied(cookies[i], i)]
<1>4. texts \in Seq(Plain(Char, Semicolon)) /\ DOMAIN texts = 1 .. n
      /\ \A i \in 1 .. n : texts[i] = Cookied(cookies[i], i)
  <2>1. DOMAIN texts = 1 .. n /\ texts = [i \in DOMAIN texts |-> texts[i]]
    OBVIOUS
  <2>2. \A i \in 1 .. n : texts[i] \in Plain(Char, Semicolon)
                          /\ texts[i] = Cookied(cookies[i], i)
    BY <1>3 DEF CookieBack
  <2> HIDE DEF texts
  <2> QED
    BY <2>1, <2>2, EachIs
<1> HIDE DEF texts
<1>5. CookieText(cookies) = Join(texts, <<Semicolon>>)
  <2> DEFINE f == [i \in 1 .. n |-> IF i = 1 THEN Written(cookies[i])
                                    ELSE <<Semicolon, Blank>> \o Written(cookies[i])]
             g == [i \in 1 .. n |-> IF i = 1 THEN texts[i] ELSE <<Semicolon>> \o texts[i]]
             w == [i \in 1 .. n |-> Written(cookies[i])]
  <2>1. CookieText(cookies) = FlattenSeq(f)
    <3>1. CookieText(cookies) = Join([i \in DOMAIN cookies |-> Written(cookies[i])],
                                     <<Semicolon, Blank>>)
      BY DEF CookieText, Written
    <3>2. [i \in DOMAIN cookies |-> Written(cookies[i])] = w
      BY <1>1
    <3>3. DOMAIN w = 1 .. n /\ \A i \in 1 .. n : w[i] = Written(cookies[i])
      OBVIOUS
    <3>4. CookieText(cookies) = Join(w, <<Semicolon, Blank>>)
      BY <3>1, <3>2
    <3> HIDE DEF w
    <3> QED
      BY <3>3, <3>4 DEF Join
  <2>2. Join(texts, <<Semicolon>>) = FlattenSeq(g)
    BY <1>4 DEF Join
  <2>3. ASSUME NEW i \in 1 .. n PROVE f[i] = g[i]
    <3>1. CASE i = 1
      BY <1>4, <3>1 DEF Cookied
    <3>2. CASE i # 1
      <4>1. PICK x \in Seq(Char) : x = Written(cookies[i])
        BY <1>3 DEF CookieBack
      <4>2. Semicolon \in Char /\ Blank \in Char
        BY WordsDiffer
      <4>3. <<Semicolon, Blank>> \o x = <<Semicolon>> \o (<<Blank>> \o x)
        BY <4>2, SeparatorBlank
      <4>4. texts[i] = <<Blank>> \o x
        BY <1>4, <3>2, <4>1 DEF Cookied
      <4> QED
        BY <3>2, <4>1, <4>3, <4>4
    <3> QED
      BY <3>1, <3>2
  <2>4. f = g
    <3>1. f = [i \in 1 .. n |-> f[i]] /\ g = [i \in 1 .. n |-> g[i]]
      OBVIOUS
    <3> HIDE DEF f, g
    <3> QED
      BY <2>3, <3>1
  <2> HIDE DEF f, g
  <2> QED
    BY <2>1, <2>2, <2>4
<1>6. Items(CookieText(cookies), Semicolon) = texts
  <2>1. Semicolon \in Char
    BY WordsDiffer
  <2>2. Items(Join(texts, <<Semicolon>>), Semicolon) = texts
    BY <1>4, <2>1, ItemsOfJoin
  <2> QED
    BY <1>5, <2>2
<1>7. {i \in DOMAIN texts : ~StartsWith(texts[i], <<"=">>)} = 1 .. n
  <2>1. \A i \in 1 .. n : ~StartsWith(texts[i], <<"=">>)
    BY <1>3, <1>4 DEF CookieBack
  <2> QED
    BY <1>4, <2>1
<1> DEFINE read == [i \in DOMAIN texts |-> <<Trim(Until(texts[i], "="), Blank),
                                             After(texts[i], "=")>>]
<1>8. CookiePairs(CookieText(cookies)) = read /\ Named(CookieText(cookies)) = 1 .. n
  BY <1>6, <1>7 DEF CookiePairs, Named
<1>9. \A i \in 1 .. n : read[i] = cookies[i]
  <2>1. ASSUME NEW i \in 1 .. n PROVE read[i] = cookies[i]
    <3>1. read[i] = <<Trim(Until(texts[i], "="), Blank), After(texts[i], "=")>>
      BY <1>4
    <3>2. Trim(Until(texts[i], "="), Blank) = cookies[i][1] /\ After(texts[i], "=") = cookies[i][2]
      BY <1>3, <1>4 DEF CookieBack
    <3>3. cookies[i] = <<cookies[i][1], cookies[i][2]>>
      BY <1>2 DEF Cookie
    <3> HIDE DEF read
    <3> QED
      BY <3>1, <3>2, <3>3
  <2> QED
    BY <2>1
<1>10. read = cookies
  <2>1. read = [i \in 1 .. n |-> read[i]] /\ cookies = [i \in 1 .. n |-> cookies[i]]
    BY <1>1, <1>4
  <2> HIDE DEF read
  <2> QED
    BY <1>9, <2>1
<1> HIDE DEF read
<1>11. ASSUME cookies = <<>> PROVE CookieText(cookies) = <<>>
  <2>1. n = 0
    BY <1>1, <1>11
  <2>2. [i \in DOMAIN texts |-> IF i = 1 THEN texts[i] ELSE <<Semicolon>> \o texts[i]] = <<>>
    BY <1>4, <2>1
  <2>3. Join(texts, <<Semicolon>>) = <<>>
    BY <2>2, FlattenNone DEF Join
  <2> QED
    BY <1>5, <2>3
<1> QED
  BY <1>1, <1>8, <1>10, <1>11

-----------------------------------------------------------------------------
(* The pairs of a form.                                                    *)

\* A dictionary with one more pair set.
SetOne(args, pair) ==
    [k \in DOMAIN args \cup {pair[1]} |-> IF k = pair[1] THEN pair[2] ELSE args[k]]

\* The first n pairs are the same.
SameFirst(s, t, n) == \A i \in 1 .. n : t[i] = s[i]

\* The last of the pairs is set after the others.
LEMMA SetAdds ==
    ASSUME NEW args, NEW n \in Nat, NEW m \in Nat, m = n + 1, NEW those \in SUBSET (1 .. n),
           NEW s, NEW t, SameFirst(s, t, n)
    PROVE  SetThese(args, t, those \cup {m}) = SetOne(SetThese(args, s, those), t[m])
<1> DEFINE more == those \cup {m}
           x == t[m]
           d == DOMAIN args \cup {s[i][1] : i \in those}
<1>1. \A i \in 1 .. n : t[i] = s[i]
  BY DEF SameFirst
<1>2. {t[i][1] : i \in more} = {s[i][1] : i \in those} \cup {x[1]}
  <2>1. \A i \in those : t[i][1] = s[i][1]
    BY <1>1
  <2> QED
    BY <2>1
<1>3. SetThese(args, t, more) = [k \in d \cup {x[1]} |-> Given(args, t, more, k)]
  <2> HIDE DEF more
  <2>1. DOMAIN args \cup {t[i][1] : i \in more} = d \cup {x[1]}
    BY <1>2
  <2> HIDE DEF d, x
  <2> QED
    BY <2>1, SetIs
<1>4. SetThese(args, s, those) = [k \in d |-> Given(args, s, those, k)]
  BY SetIs
<1>5. Given(args, t, more, x[1]) = x[2]
  <2> DEFINE S == {i \in more : t[i][1] = x[1]}
  <2>1. \A i \in S : i \in Int /\ m >= i
    OBVIOUS
  <2>2. S \in SUBSET Int /\ m \in S /\ \A i \in S : m >= i
    <3>1. m \in S
      OBVIOUS
    <3> HIDE DEF S
    <3> QED
      BY <2>1, <3>1
  <2>3. S # {}
    BY <2>2
  <2>4. Max(S) = m
    <3> HIDE DEF S
    <3> QED
      BY <2>2, MaxIs
  <2> QED
    BY <2>3, <2>4 DEF Given
<1>6. ASSUME NEW k, k # x[1] PROVE Given(args, t, more, k) = Given(args, s, those, k)
  <2> DEFINE S == {i \in those : s[i][1] = k}
  <2>1. {i \in more : t[i][1] = k} = S
    BY <1>1, <1>6
  <2>2. CASE S = {}
    BY <2>1, <2>2 DEF Given
  <2>3. CASE S # {}
    <3>1. S \in SUBSET (1 .. n)
      OBVIOUS
    <3>2. Max(S) \in those
      <4>1. Max(S) \in S
        <5> HIDE DEF S
        <5> QED
          BY <2>3, <3>1, MaxIn
      <4> QED
        BY <4>1
    <3>3. t[Max(S)] = s[Max(S)]
      BY <1>1, <3>2
    <3> QED
      BY <2>1, <2>3, <3>3 DEF Given
  <2> QED
    BY <2>2, <2>3
<1>7. DOMAIN SetThese(args, s, those) = d
      /\ \A k \in d : SetThese(args, s, those)[k] = Given(args, s, those, k)
  BY <1>4
<1> HIDE DEF d, more, x
<1>8. SetOne(SetThese(args, s, those), x)
         = [k \in d \cup {x[1]} |-> Given(args, t, more, k)]
  BY <1>5, <1>6, <1>7 DEF SetOne
<1> QED
  BY <1>3, <1>8 DEF more, x

\* One pair more.
LEMMA SetMore ==
    ASSUME NEW V, NEW p \in Seq(V), NEW x \in V, NEW args
    PROVE  SetAll(args, p \o <<x>>) = SetOne(SetAll(args, p), x)
<1>1. PICK n \in Nat, m \in Nat : n = Len(p) /\ m = n + 1
  OBVIOUS
<1>2. PICK one \in Seq(V) : one = <<x>>
  BY OneIs
<1>3. PICK q \in Seq(V) : q = p \o one
  BY ConcatType
<1>4. Len(q) = m /\ q[m] = x /\ \A i \in 1 .. n : q[i] = p[i]
  <2>1. /\ Len(p \o one) = Len(p) + Len(one)
        /\ \A i \in 1 .. Len(p) : (p \o one)[i] = p[i]
        /\ \A i \in 1 .. Len(one) : (p \o one)[Len(p) + i] = one[i]
    BY ConcatIs
  <2>2. Len(one) = 1 /\ one[1] = x /\ 1 \in 1 .. Len(one)
    BY <1>2
  <2> QED
    BY <1>1, <1>3, <2>1, <2>2
<1>5. SameFirst(p, q, n)
  BY <1>4 DEF SameFirst
<1>6. m = n + 1
  BY <1>1
<1>7. 1 .. n \in SUBSET (1 .. n)
  OBVIOUS
<1>8. SetThese(args, q, (1 .. n) \cup {m}) = SetOne(SetThese(args, p, 1 .. n), q[m])
  BY <1>5, <1>6, <1>7, SetAdds
<1>9. DOMAIN q = (1 .. n) \cup {m} /\ DOMAIN p = 1 .. n
  BY <1>1, <1>4
<1> QED
  BY <1>2, <1>3, <1>4, <1>8, <1>9 DEF SetAll

\* The fields of a form that have data, and their places.
Kept(f) == IF f[2] = <<>> THEN <<>> ELSE <<f>>
KeptAll(form) == FlattenSeq([i \in DOMAIN form |-> Kept(form[i])])
Full(form) == {i \in DOMAIN form : form[i][2] # <<>>}

\* Setting only the fields that have data.
LEMMA SetKept ==
    ASSUME NEW V, NEW form \in Seq(V), NEW args
    PROVE  SetAll(args, KeptAll(form)) = SetThese(args, form, Full(form))
<1> DEFINE S == {g \in Seq(V) : KeptAll(g) \in Seq(V)
                    /\ SetAll(args, KeptAll(g)) = SetThese(args, g, Full(g))}
<1>1. <<>> \in S
  <2>1. KeptAll(<<>>) = <<>>
    <3>1. [i \in DOMAIN <<>> |-> Kept(<<>>[i])] = <<>>
      OBVIOUS
    <3> QED
      BY <3>1, FlattenNone DEF KeptAll
  <2>2. Full(<<>>) = DOMAIN <<>>
    BY DEF Full
  <2>3. <<>> \in Seq(V)
    OBVIOUS
  <2> QED
    BY <2>1, <2>2, <2>3 DEF SetAll
<1>2. ASSUME NEW g \in Seq(V) \cap S, NEW x \in V PROVE Append(g, x) \in S
  <2>1. g \in Seq(V) /\ Len(g) \in Nat /\ Append(g, x) \in Seq(V)
    <3> HIDE DEF S
    <3> QED
      OBVIOUS
  <2>2. PICK n \in Nat, t \in Seq(V) : n = Len(g) /\ t = Append(g, x)
    BY <2>1
  <2>3. Len(t) = n + 1 /\ t[n + 1] = x /\ \A i \in 1 .. n : t[i] = g[i]
    BY <2>2
  <2>4. DOMAIN t = 1 .. n + 1 /\ DOMAIN g = 1 .. n
    BY <2>2, <2>3
  <2>5. KeptAll(g) \in Seq(V) /\ SetAll(args, KeptAll(g)) = SetThese(args, g, Full(g))
    OBVIOUS
  <2>6. Kept(x) \in Seq(V)
    BY OneIs DEF Kept
  <2>7. KeptAll(t) = KeptAll(g) \o Kept(x)
    <3> DEFINE a == [i \in 1 .. n |-> Kept(g[i])]
               b == [i \in 1 .. n + 1 |-> Kept(t[i])]
    <3>1. KeptAll(g) = FlattenSeq(a) /\ KeptAll(t) = FlattenSeq(b)
      BY <2>4 DEF KeptAll
    <3>2. a \in Seq(Seq(V))
      <4>1. \A i \in 1 .. n : g[i] \in V
        BY <2>4
      <4>2. \A i \in 1 .. n : Kept(g[i]) \in Seq(V)
        BY <4>1, OneIs DEF Kept
      <4> QED
        BY <4>2
    <3>3. b = Append(a, Kept(x))
      <4>1. Len(a) = n /\ \A i \in 1 .. n : a[i] = Kept(g[i])
        OBVIOUS
      <4>2. \A i \in 1 .. n + 1 : b[i] = Append(a, Kept(x))[i]
        BY <2>3, <3>2, <4>1
      <4>3. Append(a, Kept(x)) = [i \in 1 .. n + 1 |-> Append(a, Kept(x))[i]]
        BY <3>2, <2>6, <4>1
      <4>4. b = [i \in 1 .. n + 1 |-> b[i]]
        OBVIOUS
      <4> HIDE DEF a, b
      <4> QED
        BY <4>2, <4>3, <4>4
    <3> HIDE DEF a, b
    <3>4. FlattenSeq(Append(a, Kept(x))) = FlattenSeq(a) \o Kept(x)
      BY <2>6, <3>2, FlattenAdds
    <3> QED
      BY <3>1, <3>3, <3>4
  <2>8. CASE x[2] = <<>>
    <3>1. KeptAll(t) = KeptAll(g)
      BY <2>5, <2>7, <2>8, ConcatEmptySeq DEF Kept
    <3>2. Full(t) = Full(g)
      BY <2>3, <2>4, <2>8 DEF Full
    <3>3. SetThese(args, t, Full(g)) = SetThese(args, g, Full(g))
      <4>1. Full(g) \in SUBSET (1 .. n)
        BY <2>4 DEF Full
      <4>2. \A i \in Full(g) : t[i] = g[i]
        BY <2>3, <4>1
      <4> QED
        BY <4>1, <4>2, SetSame
    <3> QED
      BY <2>2, <2>5, <3>1, <3>2, <3>3
  <2>9. CASE x[2] # <<>>
    <3>1. PICK p \in Seq(V) : p = KeptAll(g)
      BY <2>5
    <3>2. KeptAll(t) = p \o <<x>>
      BY <2>7, <2>9, <3>1 DEF Kept
    <3>3. p \o <<x>> \in Seq(V)
      BY OneIs, ConcatType
    <3>4. SetAll(args, p \o <<x>>) = SetOne(SetAll(args, p), x)
      BY SetMore
    <3>5. SetThese(args, t, Full(t)) = SetOne(SetThese(args, g, Full(g)), x)
      <4>1. PICK k \in Nat : k = n + 1
        OBVIOUS
      <4>2. Full(g) \in SUBSET (1 .. n)
        BY <2>4 DEF Full
      <4>3. Full(t) = Full(g) \cup {k}
        <5>1. ASSUME NEW i \in 1 .. n + 1
              PROVE  t[i][2] # <<>> <=> i = k \/ (i \in 1 .. n /\ g[i][2] # <<>>)
          <6>1. CASE i = n + 1
            BY <2>3, <2>9, <4>1, <6>1
          <6>2. CASE i # n + 1
            <7>1. i \in 1 .. n /\ i # k
              BY <4>1, <6>2
            <7> QED
              BY <2>3, <7>1
          <6> QED
            BY <6>1, <6>2
        <5> QED
          BY <2>4, <4>1, <5>1 DEF Full
      <4>4. SameFirst(g, t, n)
        BY <2>3 DEF SameFirst
      <4>5. PICK F \in SUBSET (1 .. n) : F = Full(g)
        BY <4>2
      <4>6. SetThese(args, t, F \cup {k}) = SetOne(SetThese(args, g, F), t[k])
        <5> HIDE DEF S
        <5> QED
          BY <4>1, <4>4, SetAdds
      <4>7. SetThese(args, t, Full(g) \cup {k}) = SetOne(SetThese(args, g, Full(g)), t[k])
        BY <4>5, <4>6
      <4> QED
        BY <2>3, <4>1, <4>3, <4>7
    <3> QED
      BY <2>2, <2>5, <3>1, <3>2, <3>4, <3>5, <3>3
  <2> QED
    BY <2>8, <2>9
<1>3. Seq(V) \subseteq S
  <2> HIDE DEF S
  <2> QED
    BY <1>1, <1>2, SequenceInduction
<1> QED
  BY <1>3

-----------------------------------------------------------------------------
(* One part of a form.                                                     *)

\* Character by character: the header with the name x, and the data y.
Laid(t, x, y, n) ==
    /\ n = Len(x) + 14
    /\ Len(t) = n + Len(y)
    /\ t[1] = FormData /\ t[2] = Blank /\ t[3] = NameIs
    /\ \A j \in 1 .. Len(x) : t[3 + j] = x[j]
    /\ t[n - 10] = Quote /\ t[n - 9] = Semicolon /\ t[n - 8] = Blank /\ t[n - 7] = "file"
    /\ t[n - 6] = NameIs /\ t[n - 5] = "f" /\ t[n - 4] = Quote /\ t[n - 3] = CRLF
    /\ t[n - 2] = "Content-Type:" /\ t[n - 1] = CRLF /\ t[n] = CRLF
    /\ \A j \in 1 .. Len(y) : t[n + j] = y[j]

\* What a client writes for one field.
LEMMA FormPartIs ==
    ASSUME NEW f \in Part
    PROVE  FormPart(f) \in Seq(Char) /\ Laid(FormPart(f), f[1], f[2], Len(f[1]) + 14)
<1>1. PICK x \in Seq(Char), y \in Seq(Char) : x = f[1] /\ y = f[2]
  <2>1. f[1] \in Seq(Char \ {CRLF, Quote}) /\ f[2] \in Seq(Char)
    BY DEF Part
  <2>2. Char \ {CRLF, Quote} \subseteq Char
    OBVIOUS
  <2>3. f[1] \in Seq(Char)
    BY <2>1, <2>2, SeqMonotonic
  <2> QED
    BY <2>1, <2>3
<1> DEFINE l1 == <<FormData, Blank, NameIs>>
           l2 == <<Quote>>
           l3 == <<Semicolon, Blank, "file", NameIs, "f", Quote, CRLF, "Content-Type:", CRLF, CRLF>>
<1>2. l1 \in Seq(Char) /\ l2 \in Seq(Char) /\ l3 \in Seq(Char)
  BY WordsDiffer
<1>3. PICK a \in Seq(Char), b \in Seq(Char), c \in Seq(Char) : a = l1 /\ b = l2 /\ c = l3
  BY <1>2
<1>4. /\ Len(a) = 3 /\ a[1] = FormData /\ a[2] = Blank /\ a[3] = NameIs
      /\ Len(b) = 1 /\ b[1] = Quote
  BY <1>3
<1>5. /\ Len(c) = 10 /\ c[1] = Semicolon /\ c[2] = Blank /\ c[3] = "file" /\ c[4] = NameIs
      /\ c[5] = "f" /\ c[6] = Quote /\ c[7] = CRLF /\ c[8] = "Content-Type:"
      /\ c[9] = CRLF /\ c[10] = CRLF
  BY <1>3
<1>6. FormPart(f) = a \o x \o b \o c \o y
  BY <1>1, <1>3 DEF FormPart
<1> HIDE DEF l1, l2, l3
<1>7. PICK l \in Nat, m \in Nat : l = Len(x) /\ m = Len(y)
  OBVIOUS
<1>8. PICK u \in Seq(Char) : u = a \o x \o b
  BY ThreeTexts
<1>9. /\ Len(u) = l + 4 /\ u[1] = FormData /\ u[2] = Blank /\ u[3] = NameIs
      /\ \A j \in 1 .. l : u[3 + j] = x[j]
      /\ u[l + 4] = Quote
  <2>1. Triple(u, a, x, b)
    BY <1>8, ThreeTexts
  <2>2. /\ Len(u) = 3 + l + 1
        /\ \A i \in 1 .. 3 : u[i] = a[i]
        /\ \A i \in 1 .. l : u[3 + i] = x[i]
        /\ \A i \in 1 .. 1 : u[3 + l + i] = b[i]
    BY <1>4, <1>7, <2>1 DEF Triple
  <2>3. 1 \in 1 .. 3 /\ 2 \in 1 .. 3 /\ 3 \in 1 .. 3 /\ 1 \in 1 .. 1
        /\ 3 + l + 1 = l + 4
    OBVIOUS
  <2> QED
    BY <1>4, <2>2, <2>3
<1>10. PICK t \in Seq(Char) : t = u \o c \o y
  <2>1. u \o c \in Seq(Char)
    BY ConcatType
  <2>2. (u \o c) \o y \in Seq(Char)
    BY <2>1, ConcatType
  <2> QED
    BY <2>2
<1>11. t = FormPart(f)
  BY <1>6, <1>8, <1>10
<1>12. /\ Len(t) = l + 14 + m
       /\ \A i \in 1 .. l + 4 : t[i] = u[i]
       /\ \A i \in 1 .. 10 : t[l + 4 + i] = c[i]
       /\ \A i \in 1 .. m : t[l + 14 + i] = y[i]
  <2>1. Triple(t, u, c, y)
    BY <1>10, ThreeTexts
  <2>2. Len(u) = l + 4 /\ Len(c) = 10 /\ Len(u) + Len(c) = l + 14
    BY <1>5, <1>9
  <2> QED
    BY <1>7, <2>1, <2>2 DEF Triple
<1>13. PICK n \in Nat : n = l + 14
  OBVIOUS
<1>14. t[1] = FormData /\ t[2] = Blank /\ t[3] = NameIs /\ t[n - 10] = Quote
  <2>1. 1 \in 1 .. l + 4 /\ 2 \in 1 .. l + 4 /\ 3 \in 1 .. l + 4 /\ l + 4 \in 1 .. l + 4
        /\ n - 10 = l + 4
    BY <1>13
  <2> QED
    BY <1>9, <1>12, <2>1
<1>15. \A j \in 1 .. l : t[3 + j] = x[j]
  <2>1. \A j \in 1 .. l : 3 + j \in 1 .. l + 4
    OBVIOUS
  <2> QED
    BY <1>9, <1>12, <2>1
<1>16. \A i \in 1 .. 10 : t[n - 10 + i] = c[i]
  <2>1. n - 10 = l + 4
    BY <1>13
  <2> QED
    BY <1>12, <2>1
<1>17. /\ t[n - 9] = Semicolon /\ t[n - 8] = Blank /\ t[n - 7] = "file"
       /\ t[n - 6] = NameIs /\ t[n - 5] = "f" /\ t[n - 4] = Quote /\ t[n - 3] = CRLF
       /\ t[n - 2] = "Content-Type:" /\ t[n - 1] = CRLF /\ t[n] = CRLF
  <2>1. /\ n - 10 + 1 = n - 9 /\ n - 10 + 2 = n - 8 /\ n - 10 + 3 = n - 7
        /\ n - 10 + 4 = n - 6 /\ n - 10 + 5 = n - 5 /\ n - 10 + 6 = n - 4
        /\ n - 10 + 7 = n - 3 /\ n - 10 + 8 = n - 2 /\ n - 10 + 9 = n - 1
        /\ n - 10 + 10 = n
    OBVIOUS
  <2>2. /\ 1 \in 1 .. 10 /\ 2 \in 1 .. 10 /\ 3 \in 1 .. 10 /\ 4 \in 1 .. 10 /\ 5 \in 1 .. 10
        /\ 6 \in 1 .. 10 /\ 7 \in 1 .. 10 /\ 8 \in 1 .. 10 /\ 9 \in 1 .. 10 /\ 10 \in 1 .. 10
    OBVIOUS
  <2>3. t[n - 9] = c[1] /\ t[n - 8] = c[2] /\ t[n - 7] = c[3] /\ t[n - 6] = c[4] /\ t[n - 5] = c[5]
    BY <1>16, <2>1, <2>2
  <2>4. t[n - 4] = c[6] /\ t[n - 3] = c[7] /\ t[n - 2] = c[8] /\ t[n - 1] = c[9] /\ t[n] = c[10]
    BY <1>16, <2>1, <2>2
  <2> QED
    BY <1>5, <2>3, <2>4
<1>18. Laid(t, x, y, n)
  <2>1. n = Len(x) + 14 /\ Len(t) = n + Len(y)
    BY <1>7, <1>12, <1>13
  <2>2. \A j \in 1 .. Len(x) : t[3 + j] = x[j]
    BY <1>7, <1>15
  <2>3. \A j \in 1 .. Len(y) : t[n + j] = y[j]
    BY <1>7, <1>12, <1>13
  <2> QED
    BY <1>14, <1>17, <2>1, <2>2, <2>3 DEF Laid
<1> QED
  BY <1>1, <1>7, <1>11, <1>13, <1>18

\* The words that the searches tell apart.
LEMMA WordsApart ==
    /\ CRLF # FormData /\ CRLF # Blank /\ CRLF # NameIs /\ CRLF # Quote /\ CRLF # Semicolon
    /\ CRLF # "file" /\ CRLF # "f" /\ CRLF # "Content-Type:" /\ CRLF # "--" /\ CRLF # "B"
    /\ NameIs # FormData /\ NameIs # Blank /\ "Content-Type:" # "--"
  BY DEF CRLF, FormData, Blank, NameIs, Quote, Semicolon

\* Where the ends of lines are in the header of a part.
LEMMA LineEnds ==
    ASSUME NEW x \in Seq(Char \ {CRLF, Quote}), NEW t, NEW y, NEW n \in Nat, Laid(t, x, y, n),
           NEW j \in 1 .. n, t[j] = CRLF
    PROVE  j = n - 3 \/ j = n - 1 \/ j = n
<1>1. n = Len(x) + 14 /\ Len(x) \in Nat
  BY DEF Laid
<1>2. j > 3
  <2>1. t[1] # CRLF /\ t[2] # CRLF /\ t[3] # CRLF
    BY WordsApart DEF Laid
  <2>2. j # 1 /\ j # 2 /\ j # 3
    BY <2>1
  <2> QED
    BY <2>2
<1>3. ~(j <= n - 11)
  <2>1. ASSUME j <= n - 11 PROVE FALSE
    <3>1. PICK i \in 1 .. Len(x) : j = 3 + i
      <4>1. j - 3 \in 1 .. Len(x) /\ j = 3 + (j - 3)
        BY <1>1, <1>2, <2>1
      <4> QED
        BY <4>1
    <3>2. t[j] = x[i]
      BY <3>1 DEF Laid
    <3>3. x[i] \in Char \ {CRLF, Quote}
      OBVIOUS
    <3> QED
      BY <3>2, <3>3
  <2> QED
    BY <2>1
<1>4. j # n - 10 /\ j # n - 9 /\ j # n - 8 /\ j # n - 7 /\ j # n - 6 /\ j # n - 5 /\ j # n - 4
      /\ j # n - 2
  <2>1. /\ t[n - 10] # CRLF /\ t[n - 9] # CRLF /\ t[n - 8] # CRLF /\ t[n - 7] # CRLF
        /\ t[n - 6] # CRLF /\ t[n - 5] # CRLF /\ t[n - 4] # CRLF /\ t[n - 2] # CRLF
    BY WordsApart DEF Laid
  <2> QED
    BY <2>1
<1> QED
  BY <1>1, <1>3, <1>4

\* The beginning of a boundary in t at place j.
Bounds(t, j) == t[j] = CRLF /\ t[j + 1] = "--" /\ t[j + 2] = "B"

\* No boundary begins in a part of a form.
LEMMA NoBoundary ==
    ASSUME NEW f \in Part, NEW j \in Nat \ {0}, j + 2 <= Len(FormPart(f))
    PROVE  ~Bounds(FormPart(f), j)
<1>1. PICK t \in Seq(Char), n \in Nat : t = FormPart(f) /\ n = Len(f[1]) + 14
  <2>1. Len(f[1]) + 14 \in Nat
    BY DEF Part
  <2> QED
    BY <2>1, FormPartIs
<1>2. PICK x \in Seq(Char \ {CRLF, Quote}), y \in Seq(Char) : x = f[1] /\ y = f[2]
  BY DEF Part
<1>3. Laid(t, x, y, n)
  BY <1>1, <1>2, FormPartIs
<1>4. ASSUME Bounds(t, j) PROVE FALSE
  <2>1. t[j] = CRLF /\ t[j + 1] = "--" /\ t[j + 2] = "B"
    BY <1>4 DEF Bounds
  <2>2. ASSUME j < n PROVE FALSE
    <3>1. j = n - 3 \/ j = n - 1 \/ j = n
      <4>1. j \in 1 .. n
        BY <2>2
      <4> QED
        BY <1>3, <2>1, <4>1, LineEnds
    <3>2. j # n - 3
      <4>1. t[n - 2] # "--" /\ (n - 3) + 1 = n - 2
        BY <1>3, WordsApart DEF Laid
      <4> QED
        BY <2>1, <4>1
    <3>3. j # n - 1
      <4>1. t[n] # "--" /\ (n - 1) + 1 = n
        BY <1>3, WordsApart DEF Laid
      <4> QED
        BY <2>1, <4>1
    <3> QED
      BY <2>2, <3>1, <3>2, <3>3
  <2>3. j >= n
    BY <2>2
  <2>4. PICK s \in Seq(Char) : s = Cons(CRLF, y)
    BY WordsDiffer, ConsIs
  <2>5. PICK m \in Nat : m = Len(y)
    OBVIOUS
  <2>6. Len(s) = m + 1 /\ s[1] = CRLF /\ \A i \in 1 .. m : s[i + 1] = y[i]
    <3>1. /\ Len(Cons(CRLF, y)) = Len(y) + 1 /\ Cons(CRLF, y)[1] = CRLF
          /\ \A i \in 1 .. Len(y) : Cons(CRLF, y)[i + 1] = y[i]
      BY WordsDiffer, ConsIs
    <3> QED
      BY <2>4, <2>5, <3>1
  <2>7. \A i \in 1 .. m + 1 : s[i] = t[n + i - 1]
    <3>1. ASSUME NEW i \in 1 .. m + 1 PROVE s[i] = t[n + i - 1]
      <4>1. CASE i = 1
        <5>1. t[n] = CRLF /\ n + 1 - 1 = n
          BY <1>3 DEF Laid
        <5> QED
          BY <2>6, <4>1, <5>1
      <4>2. CASE i # 1
        <5>1. PICK l \in 1 .. m : i = l + 1
          BY <4>2
        <5>2. t[n + l] = y[l] /\ n + l = n + i - 1
          BY <1>3, <2>5, <5>1 DEF Laid
        <5> QED
          BY <2>6, <5>1, <5>2
      <4> QED
        BY <4>1, <4>2
    <3> QED
      BY <3>1
  <2>8. Len(t) = n + m
    BY <1>3, <2>5 DEF Laid
  <2>9. PICK k \in Nat \ {0} : k = j - n + 1 /\ k + 2 <= m + 1
    <3>1. j + 2 <= n + m
      BY <1>1, <2>8
    <3>2. j - n + 1 \in Nat \ {0} /\ (j - n + 1) + 2 <= m + 1
      BY <2>3, <3>1
    <3> QED
      BY <3>2
  <2>10. s[k] = CRLF /\ s[k + 1] = "--" /\ s[k + 2] = "B"
    <3>1. /\ k \in 1 .. m + 1 /\ k + 1 \in 1 .. m + 1 /\ k + 2 \in 1 .. m + 1
          /\ n + k - 1 = j /\ n + (k + 1) - 1 = j + 1 /\ n + (k + 2) - 1 = j + 2
      BY <2>9
    <3> QED
      BY <2>1, <2>7, <3>1
  <2>11. PICK p \in Seq(Char) : p = <<CRLF, "--", "B">>
    <3>1. <<CRLF, "--", "B">> \in Seq(Char)
      BY WordsDiffer
    <3> QED
      BY <3>1
  <2>12. Len(p) = 3 /\ p[1] = CRLF /\ p[2] = "--" /\ p[3] = "B" /\ p # <<>>
    BY <2>11
  <2>13. Occurs(s, p, k)
    <3>1. ASSUME NEW i \in 1 .. Len(p) PROVE s[k + i - 1] = p[i]
      <4>1. i \in {1, 2, 3}
        BY <2>12
      <4>2. k + 1 - 1 = k /\ k + 2 - 1 = k + 1 /\ k + 3 - 1 = k + 2
        OBVIOUS
      <4> QED
        BY <2>10, <2>12, <4>1, <4>2
    <3> QED
      BY <3>1 DEF Occurs
  <2>14. k \in 1 .. (m + 1) + 1 - Len(p)
    BY <2>9, <2>12
  <2>15. Find(s, p, 1, m + 1) # 0
    <3>1. PICK to \in Nat : to = m + 1
      OBVIOUS
    <3>2. to <= Len(s) /\ k \in 1 .. to + 1 - Len(p)
      BY <2>6, <2>14, <3>1
    <3>3. p # <<>>
      BY <2>12
    <3> QED
      BY <2>13, <3>1, <3>2, <3>3, FindSome
  <2>16. HasBoundary(y)
    BY <2>4, <2>5, <2>11, <2>15 DEF HasBoundary, Cons
  <2>17. ~HasBoundary(y)
    BY <1>2 DEF Part
  <2> QED
    BY <2>16, <2>17
<1> QED
  BY <1>1, <1>4

\* t is in text after its first d characters.
Placed(text, t, d) ==
    d + Len(t) <= Len(text) /\ \A j \in 1 .. Len(t) : text[d + j] = t[j]

\* The name in a part.
LEMMA NameRead ==
    ASSUME NEW f \in Part, NEW text \in Seq(Char), NEW d \in Nat, Placed(text, FormPart(f), d)
    PROVE  Until(From(text, (d + 3) + 1), Quote) = f[1]
<1>1. PICK t \in Seq(Char), n \in Nat : t = FormPart(f) /\ n = Len(f[1]) + 14
  <2>1. Len(f[1]) + 14 \in Nat
    BY DEF Part
  <2> QED
    BY <2>1, FormPartIs
<1>2. PICK x \in Seq(Char \ {CRLF, Quote}), y \in Seq(Char) : x = f[1] /\ y = f[2]
  BY DEF Part
<1>3. Laid(t, x, y, n)
  BY <1>1, <1>2, FormPartIs
<1>4. PICK l \in Nat, m \in Nat : l = Len(x) /\ m = Len(y)
  OBVIOUS
<1>5. /\ n = l + 14 /\ Len(t) = n + m /\ \A j \in 1 .. l : t[3 + j] = x[j]
      /\ t[n - 10] = Quote
  BY <1>3, <1>4 DEF Laid
<1>6. d + (n + m) <= Len(text) /\ \A j \in 1 .. n + m : text[d + j] = t[j]
  BY <1>1, <1>5 DEF Placed
<1>7. PICK k \in 1 .. Len(text) : k = (d + 3) + 1
  BY <1>5, <1>6
<1>8. PICK r \in Seq(Char) : r = From(text, k)
  BY FromIs
<1>9. Len(r) = Len(text) - k + 1 /\ \A j \in 1 .. Len(text) - k + 1 : r[j] = text[k + j - 1]
  BY <1>8, FromIs
<1>10. \A j \in 1 .. l + 1 : r[j] = t[3 + j]
  <2>1. ASSUME NEW j \in 1 .. l + 1 PROVE r[j] = t[3 + j]
    <3>1. j \in 1 .. Len(text) - k + 1 /\ k + j - 1 = d + (3 + j) /\ 3 + j \in 1 .. n + m
      BY <1>5, <1>6, <1>7
    <3> QED
      BY <1>6, <1>9, <3>1
  <2> QED
    BY <2>1
<1>11. \A j \in 1 .. l : r[j] = x[j]
  <2>1. \A j \in 1 .. l : j \in 1 .. l + 1
    OBVIOUS
  <2> QED
    BY <1>5, <1>10, <2>1
<1>12. r[l + 1] = Quote /\ l + 1 \in 1 .. Len(r)
  <2>1. l + 1 \in 1 .. l + 1 /\ 3 + (l + 1) = n - 10
    BY <1>5
  <2>2. Len(r) >= l + 1 /\ Len(r) \in Nat
    <3>1. n = l + 14 /\ k = d + 4
      BY <1>5, <1>7
    <3>2. PICK z \in Nat : z = Len(text)
      OBVIOUS
    <3>3. d + (n + m) <= z
      BY <1>6, <3>2
    <3>4. Len(r) = z - k + 1
      BY <1>9, <3>2
    <3> QED
      BY <3>1, <3>4, <3>3
  <2> QED
    BY <1>5, <1>10, <2>1, <2>2
<1>13. \A j \in 1 .. Len(x) : r[j] = x[j] /\ x[j] # Quote
  <2>1. \A j \in 1 .. Len(x) : x[j] \in Char \ {CRLF, Quote}
    OBVIOUS
  <2> QED
    BY <1>4, <1>11, <2>1
<1>14. Until(r, Quote) = x
  <2>1. PICK w \in Seq(Char) : w = x
    <3>1. Char \ {CRLF, Quote} \subseteq Char
      OBVIOUS
    <3>2. x \in Seq(Char)
      BY <3>1, SeqMonotonic
    <3> QED
      BY <3>2
  <2>2. Len(w) + 1 \in 1 .. Len(r) /\ r[Len(w) + 1] = Quote
    BY <1>4, <1>12, <2>1
  <2>3. \A j \in 1 .. Len(w) : r[j] = w[j] /\ w[j] # Quote
    BY <1>13, <2>1
  <2>4. Cut(r, w, Quote)
    BY <2>2, <2>3 DEF Cut
  <2> QED
    BY <2>1, <2>4, UntilBefore
<1> QED
  BY <1>2, <1>7, <1>8, <1>14

\* Where the header of a part ends.
LEMMA GapRead ==
    ASSUME NEW f \in Part, NEW text \in Seq(Char), NEW d \in Nat, Placed(text, FormPart(f), d)
    PROVE  Find(text, <<CRLF, CRLF>>, d + 3, d + Len(FormPart(f))) = d + Len(f[1]) + 13
<1>1. PICK t \in Seq(Char), n \in Nat : t = FormPart(f) /\ n = Len(f[1]) + 14
  <2>1. Len(f[1]) + 14 \in Nat
    BY DEF Part
  <2> QED
    BY <2>1, FormPartIs
<1>2. PICK x \in Seq(Char \ {CRLF, Quote}), y \in Seq(Char) : x = f[1] /\ y = f[2]
  BY DEF Part
<1>3. Laid(t, x, y, n)
  BY <1>1, <1>2, FormPartIs
<1>4. PICK l \in Nat, m \in Nat : l = Len(x) /\ m = Len(y)
  OBVIOUS
<1>5. n = l + 14 /\ Len(t) = n + m /\ t[n - 1] = CRLF /\ t[n] = CRLF /\ t[n - 2] # CRLF
  BY <1>3, <1>4, WordsApart DEF Laid
<1>6. d + (n + m) <= Len(text) /\ \A j \in 1 .. n + m : text[d + j] = t[j]
  BY <1>1, <1>5 DEF Placed
<1>7. PICK p \in Seq(Char) : p = <<CRLF, CRLF>>
  <2>1. <<CRLF, CRLF>> \in Seq(Char)
    BY WordsDiffer
  <2> QED
    BY <2>1
<1>8. Len(p) = 2 /\ p[1] = CRLF /\ p[2] = CRLF /\ p # <<>>
  BY <1>7
<1>9. PICK from \in Nat \ {0}, to \in Nat, k \in Nat : from = d + 3 /\ to = d + (n + m) /\ k = d + (n - 1)
  <2>1. d + 3 \in Nat \ {0} /\ d + (n + m) \in Nat /\ d + (n - 1) \in Nat
    BY <1>5
  <2> QED
    BY <2>1
<1>10. to <= Len(text) /\ k \in from .. to + 1 - Len(p)
  <2>1. to <= Len(text)
    BY <1>6, <1>9
  <2>2. n >= 14 /\ k <= to - 1 /\ k >= from
    BY <1>4, <1>5, <1>9
  <2>3. to + 1 - Len(p) = to - 1
    BY <1>8, <1>9
  <2> QED
    BY <2>1, <2>2, <2>3
<1>11. Occurs(text, p, k)
  <2>1. n - 1 \in 1 .. n + m /\ n \in 1 .. n + m /\ k + 1 - 1 = d + (n - 1) /\ k + 2 - 1 = d + n
    BY <1>5, <1>9
  <2>2. text[k + 1 - 1] = CRLF /\ text[k + 2 - 1] = CRLF
    BY <1>5, <1>6, <2>1
  <2>3. \A i \in 1 .. Len(p) : i \in {1, 2}
    BY <1>8
  <2> QED
    BY <1>8, <2>2, <2>3 DEF Occurs
<1>12. ASSUME NEW i \in from .. k - 1, Occurs(text, p, i) PROVE FALSE
  <2>1. PICK j \in 1 .. n : j = i - d /\ j < n - 1
    <3>1. i - d \in 1 .. n /\ i - d < n - 1
      BY <1>5, <1>9
    <3> QED
      BY <3>1
  <2>2. text[i + 1 - 1] = CRLF /\ text[i + 2 - 1] = CRLF
    <3>1. 1 \in 1 .. Len(p) /\ 2 \in 1 .. Len(p)
      BY <1>8
    <3> QED
      BY <1>8, <1>12, <3>1 DEF Occurs
  <2>3. j \in 1 .. n + m /\ j + 1 \in 1 .. n + m /\ i + 1 - 1 = d + j /\ i + 2 - 1 = d + (j + 1)
    BY <1>5, <1>9, <2>1
  <2>4. t[j] = CRLF /\ t[j + 1] = CRLF
    BY <1>6, <2>2, <2>3
  <2>5. j = n - 3 \/ j = n - 1 \/ j = n
    BY <1>3, <2>4, LineEnds
  <2>6. j = n - 3 /\ j + 1 = n - 2
    BY <2>1, <2>5
  <2> QED
    BY <1>5, <2>4, <2>6
<1>13. \A i \in from .. k - 1 : ~Occurs(text, p, i)
  BY <1>12
<1>14. Find(text, p, from, to) = k
  <2>1. p # <<>>
    BY <1>8
  <2> QED
    BY <1>10, <1>11, <1>13, <2>1, FindFirst
<1>15. to = d + Len(FormPart(f)) /\ k = d + Len(f[1]) + 13
  BY <1>1, <1>2, <1>4, <1>5, <1>9
<1> QED
  BY <1>7, <1>9, <1>14, <1>15

\* Where the name of a part begins.
LEMMA AtRead ==
    ASSUME NEW f \in Part, NEW text \in Seq(Char), NEW d \in Nat, Placed(text, FormPart(f), d)
    PROVE  Find(text, <<NameIs>>, d + 1, d + Len(FormPart(f))) = d + 3
<1>1. PICK t \in Seq(Char), n \in Nat : t = FormPart(f) /\ n = Len(f[1]) + 14
  <2>1. Len(f[1]) + 14 \in Nat
    BY DEF Part
  <2> QED
    BY <2>1, FormPartIs
<1>2. PICK y \in Seq(Char) : y = f[2]
  BY DEF Part
<1>3. Laid(t, f[1], y, n)
  BY <1>1, <1>2, FormPartIs
<1>4. PICK l \in Nat, m \in Nat : l = Len(f[1]) /\ m = Len(y)
  BY DEF Part
<1>5. n = l + 14 /\ Len(t) = n + m /\ t[3] = NameIs /\ t[1] # NameIs /\ t[2] # NameIs
  BY <1>3, <1>4, WordsApart DEF Laid
<1>6. d + (n + m) <= Len(text) /\ \A j \in 1 .. n + m : text[d + j] = t[j]
  BY <1>1, <1>5 DEF Placed
<1>7. PICK p \in Seq(Char) : p = <<NameIs>>
  BY WordsDiffer, OneIs
<1>8. Len(p) = 1 /\ p[1] = NameIs /\ p # <<>>
  BY <1>7
<1>9. PICK from \in Nat \ {0}, to \in Nat, k \in Nat : from = d + 1 /\ to = d + (n + m) /\ k = d + 3
  <2>1. d + 1 \in Nat \ {0} /\ d + (n + m) \in Nat /\ d + 3 \in Nat
    OBVIOUS
  <2> QED
    BY <2>1
<1>10. to <= Len(text) /\ k \in from .. to + 1 - Len(p)
  BY <1>5, <1>6, <1>8, <1>9
<1>11. text[d + 1] = t[1] /\ text[d + 2] = t[2] /\ text[d + 3] = t[3]
  <2>1. 1 \in 1 .. n + m /\ 2 \in 1 .. n + m /\ 3 \in 1 .. n + m
    BY <1>5
  <2> QED
    BY <1>6, <2>1
<1>12. Occurs(text, p, k)
  <2>1. k + 1 - 1 = d + 3 /\ \A i \in 1 .. Len(p) : i = 1
    BY <1>8, <1>9
  <2> QED
    BY <1>5, <1>8, <1>11, <2>1 DEF Occurs
<1>13. ASSUME NEW i \in from .. k - 1, Occurs(text, p, i) PROVE FALSE
  <2>1. i = d + 1 \/ i = d + 2
    BY <1>9
  <2>2. text[i + 1 - 1] = NameIs
    <3>1. 1 \in 1 .. Len(p)
      BY <1>8
    <3> QED
      BY <1>8, <1>13, <3>1 DEF Occurs
  <2>3. i + 1 - 1 = i
    OBVIOUS
  <2> QED
    BY <1>5, <1>11, <2>1, <2>2, <2>3
<1>14. \A i \in from .. k - 1 : ~Occurs(text, p, i)
  BY <1>13
<1>15. Find(text, p, from, to) = k
  <2>1. p # <<>>
    BY <1>8
  <2> QED
    BY <1>10, <1>12, <1>14, <2>1, FindFirst
<1>16. to = d + Len(FormPart(f))
  BY <1>1, <1>5, <1>9
<1> QED
  BY <1>7, <1>9, <1>15, <1>16

\* Whatever the name and the data of a field, its part sets them, or nothing if there
\* is no data (packet.c:380-412).
LEMMA PartRead ==
    ASSUME NEW f \in Part, NEW text \in Seq(Char), NEW d \in Nat, Placed(text, FormPart(f), d)
    PROVE  PartPairs(text, d + 1, d + Len(FormPart(f)) + 1) = Kept(f)
<1>1. PICK t \in Seq(Char) : t = FormPart(f)
  BY FormPartIs
<1>2. PICK e \in Nat : e = d + Len(t)
  OBVIOUS
<1>3. (e + 1) - 1 = e
  OBVIOUS
<1>4. Find(text, <<NameIs>>, d + 1, (e + 1) - 1) = d + 3
  BY <1>1, <1>2, <1>3, AtRead
<1>5. Until(From(text, (d + 3) + 1), Quote) = f[1]
  BY NameRead
<1>6. PICK g \in Nat : g = d + Len(f[1]) + 13
  BY DEF Part
<1>7. Find(text, <<CRLF, CRLF>>, d + 3, (e + 1) - 1) = g
  BY <1>1, <1>2, <1>3, <1>6, GapRead
<1>8. SubSeq(text, g + 2, (e + 1) - 1) = f[2]
  <2>1. PICK y \in Seq(Char), n \in Nat : y = f[2] /\ n = Len(f[1]) + 14
    BY DEF Part
  <2>2. Laid(t, f[1], y, n)
    BY <1>1, <2>1, FormPartIs
  <2>3. PICK m \in Nat : m = Len(y)
    OBVIOUS
  <2>4. Len(t) = n + m /\ \A j \in 1 .. m : t[n + j] = y[j]
    BY <2>2, <2>3 DEF Laid
  <2>5. d + (n + m) <= Len(text) /\ \A j \in 1 .. n + m : text[d + j] = t[j]
    BY <1>1, <2>4 DEF Placed
  <2>6. PICK a \in Nat : a = d + n
    OBVIOUS
  <2>7. g + 2 = a + 1 /\ e = a + m /\ e - a = m
    <3>1. Len(f[1]) \in Nat
      BY DEF Part
    <3> QED
      BY <1>2, <1>6, <2>1, <2>4, <2>6, <3>1
  <2>8. a <= e /\ e <= Len(text)
    <3>1. d + (n + m) <= Len(text)
      BY <2>5
    <3>2. d + (n + m) = e
      BY <2>6, <2>7
    <3> QED
      BY <2>7, <3>1, <3>2
  <2>9. PICK w \in Seq(Char) : w = Slice(text, a, e)
    BY <2>8, SliceIs
  <2>10. Len(w) = m /\ \A j \in 1 .. m : w[j] = text[a + j]
    <3>1. /\ Len(Slice(text, a, e)) = e - a
          /\ \A j \in 1 .. e - a : Slice(text, a, e)[j] = text[a + j]
      BY <2>8, SliceIs, ZenonT(30)
    <3> QED
      BY <2>7, <2>9, <3>1
  <2>11. \A j \in 1 .. m : w[j] = y[j]
    <3>1. \A j \in 1 .. m : n + j \in 1 .. n + m /\ a + j = d + (n + j)
      BY <2>6
    <3> QED
      BY <2>4, <2>5, <2>10, <3>1, ZenonT(30)
  <2>12. w = y
    BY <2>3, <2>10, <2>11, SeqEqual
  <2> QED
    BY <1>3, <2>1, <2>7, <2>9, <2>12 DEF Slice
<1>9. d + 3 # 0 /\ g # 0 /\ f[1] # <<>> /\ f = <<f[1], f[2]>>
  <2>1. g # 0
    <3>1. Len(f[1]) \in Nat
      BY DEF Part
    <3> QED
      BY <1>6, <3>1
  <2>2. f[1] # <<>> /\ f = <<f[1], f[2]>>
    BY DEF Part
  <2> QED
    BY <2>1, <2>2
<1>10. PartPairs(text, d + 1, e + 1)
         = IF d + 3 = 0 \/ f[1] = <<>> \/ g = 0 \/ f[2] = <<>> THEN <<>>
           ELSE <<<<f[1], f[2]>>>>
  BY <1>4, <1>5, <1>7, <1>8 DEF PartPairs
<1> QED
  BY <1>1, <1>2, <1>9, <1>10 DEF Kept

-----------------------------------------------------------------------------
(* The loop over the parts of a form.                                      *)

\* What is between two parts.
Split == <<CRLF, "--", "B", CRLF>>

\* The characters of it.
LEMMA SplitIs ==
    /\ Split \in Seq(Char) /\ Len(Split) = 4 /\ Split # <<>>
    /\ Split[1] = CRLF /\ Split[2] = "--" /\ Split[3] = "B" /\ Split[4] = CRLF
  BY WordsDiffer DEF Split

\* A form of one part more: the part, and after a boundary the others.
LEMMA MiddleCons ==
    ASSUME NEW f \in Part, NEW r \in Seq(Part)
    PROVE  /\ r = <<>> => Middle(Cons(f, r)) = FormPart(f)
           /\ r # <<>> => Middle(Cons(f, r)) = FormPart(f) \o Split \o Middle(r)
           /\ Middle(r) \in Seq(Char)
           /\ KeptAll(Cons(f, r)) = Kept(f) \o KeptAll(r)
<1>1. PICK n \in Nat : n = Len(r) /\ DOMAIN r = 1 .. n
  OBVIOUS
<1>2. PICK u \in Seq(Part) : u = Cons(f, r)
  BY ConsIs
<1>3. Len(u) = n + 1 /\ u[1] = f /\ \A i \in 1 .. n : u[i + 1] = r[i]
  <2>1. /\ Len(Cons(f, r)) = Len(r) + 1 /\ Cons(f, r)[1] = f
        /\ \A i \in 1 .. Len(r) : Cons(f, r)[i + 1] = r[i]
    BY ConsIs
  <2> QED
    BY <1>1, <1>2, <2>1
<1>4. DOMAIN u = 1 .. n + 1
  BY <1>3
<1>5. (\A i \in 1 .. n : r[i] \in Part) /\ \A i \in 1 .. n + 1 : u[i] \in Part
  BY <1>1, <1>4
<1> DEFINE a == [i \in 1 .. n |-> FormPart(r[i])]
           b == [i \in 1 .. n + 1 |-> FormPart(u[i])]
<1>6. Middle(r) = Join(a, Split) /\ Middle(u) = Join(b, Split)
  BY <1>1, <1>4 DEF Middle, Split
<1>7. a \in Seq(Seq(Char)) /\ b \in Seq(Seq(Char)) /\ Len(a) = n /\ Len(b) = n + 1
  <2>1. \A i \in 1 .. n : FormPart(r[i]) \in Seq(Char)
    BY <1>5, FormPartType
  <2>2. \A i \in 1 .. n + 1 : FormPart(u[i]) \in Seq(Char)
    BY <1>5, FormPartType
  <2>3. DOMAIN a = 1 .. n /\ a = [i \in DOMAIN a |-> a[i]] /\ \A i \in 1 .. n : a[i] \in Seq(Char)
    BY <2>1
  <2>4. DOMAIN b = 1 .. n + 1 /\ b = [i \in DOMAIN b |-> b[i]]
        /\ \A i \in 1 .. n + 1 : b[i] \in Seq(Char)
    BY <2>2
  <2> HIDE DEF a, b
  <2>5. a \in Seq(Seq(Char)) /\ Len(a) = n
    BY <2>3, EachIs
  <2>6. PICK m \in Nat : m = n + 1
    OBVIOUS
  <2>7. b \in Seq(Seq(Char)) /\ Len(b) = m
    BY <2>4, <2>6, EachIs
  <2> QED
    BY <2>5, <2>6, <2>7
<1>8. b[1] = FormPart(f) /\ \A i \in 1 .. n : b[i + 1] = a[i]
  <2>1. b[1] = FormPart(f)
    BY <1>3
  <2>2. ASSUME NEW i \in 1 .. n PROVE b[i + 1] = a[i]
    <3>1. i + 1 \in 1 .. n + 1
      OBVIOUS
    <3> QED
      BY <1>3, <3>1
  <2> QED
    BY <2>1, <2>2
<1>9. (r = <<>> => a = <<>>) /\ (r # <<>> => a # <<>>)
  <2>1. r = <<>> <=> n = 0
    BY <1>1
  <2>2. a = <<>> <=> n = 0
    <3> HIDE DEF a
    <3> QED
      BY <1>7, EmptySeq
  <2> QED
    BY <2>1, <2>2
<1> HIDE DEF a, b
<1>10. b = Cons(FormPart(f), a)
  <2>1. PICK x \in Seq(Char) : x = FormPart(f)
    BY FormPartType
  <2>2. PICK w \in Seq(Seq(Char)) : w = Cons(x, a)
    BY <1>7, ConsIs
  <2>3. Len(w) = n + 1 /\ w[1] = x /\ \A i \in 1 .. n : w[i + 1] = a[i]
    <3>1. /\ Len(Cons(x, a)) = Len(a) + 1 /\ Cons(x, a)[1] = x
          /\ \A i \in 1 .. Len(a) : Cons(x, a)[i + 1] = a[i]
      <4>1. PICK W : W = Seq(Char)
        OBVIOUS
      <4>2. x \in W /\ a \in Seq(W)
        BY <1>7, <4>1
      <4> QED
        BY <4>2, ConsIs
    <3> QED
      BY <1>7, <2>2, <3>1
  <2>4. ASSUME NEW i \in 1 .. n + 1 PROVE b[i] = w[i]
    <3>1. CASE i = 1
      BY <1>8, <2>1, <2>3, <3>1
    <3>2. CASE i # 1
      <4>1. PICK j \in 1 .. n : i = j + 1
        BY <3>2
      <4> QED
        BY <1>8, <2>3, <4>1
    <3> QED
      BY <3>1, <3>2
  <2>5. b = w
    BY <1>7, <2>3, <2>4, SeqEqual
  <2> QED
    BY <2>1, <2>2, <2>5
<1>11. PICK x \in Seq(Char) : x = FormPart(f)
  BY FormPartType
<1>12. a = <<>> => Join(Cons(x, a), Split) = x
  BY <1>7, SplitIs, JoinOne, ZenonT(30)
<1>13. a # <<>> => Join(Cons(x, a), Split) = x \o Split \o Join(a, Split)
  BY <1>7, SplitIs, JoinMore
<1>14. Middle(r) \in Seq(Char)
  BY <1>6, <1>7, SplitIs, JoinType
<1>15. KeptAll(u) = Kept(f) \o KeptAll(r)
  <2> DEFINE c == [i \in 1 .. n |-> Kept(r[i])]
             d == [i \in 1 .. n + 1 |-> Kept(u[i])]
  <2>1. KeptAll(r) = FlattenSeq(c) /\ KeptAll(u) = FlattenSeq(d)
    BY <1>1, <1>4 DEF KeptAll
  <2>2. \A g \in Part : Kept(g) \in Seq(Part)
    BY OneIs DEF Kept
  <2>3. c \in Seq(Seq(Part)) /\ d \in Seq(Seq(Part)) /\ Kept(f) \in Seq(Part)
    BY <1>5, <2>2
  <2>4. InFront(d, Kept(f), c, n)
    BY <1>3 DEF InFront
  <2> HIDE DEF c, d
  <2> QED
    BY <2>1, <2>3, <2>4, FlattenCons
<1> QED
  BY <1>2, <1>6, <1>9, <1>10, <1>11, <1>12, <1>13, <1>14, <1>15

\* Where the part that begins at pos ends.
NextOf(text, end, pos) ==
    LET found == Find(text, Split, pos, end) IN IF found = 0 THEN end + 1 ELSE found

\* It ends where the next boundary begins, or at the end of the form.
LEMMA NextRead ==
    ASSUME NEW f \in Part, NEW text \in Seq(Char), NEW d \in Nat, Placed(text, FormPart(f), d),
           NEW e \in Nat, e = d + Len(FormPart(f)), NEW end \in Nat, end <= Len(text),
           e = end \/ (e + 4 <= end /\ Placed(text, Split, e))
    PROVE  NextOf(text, end, d + 1) = e + 1
<1>1. PICK t \in Seq(Char), n \in Nat : t = FormPart(f) /\ n = Len(t)
  BY FormPartType
<1>2. e = d + n /\ e <= end /\ \A j \in 1 .. n : text[d + j] = t[j]
  BY <1>1 DEF Placed
<1>3. n # 0
  <2>1. PICK k \in Nat, l \in Nat : k = Len(f[1]) /\ l = Len(f[2])
    BY DEF Part
  <2>2. Laid(t, f[1], f[2], Len(f[1]) + 14)
    BY <1>1, FormPartIs
  <2>3. n = (k + 14) + l
    BY <1>1, <2>1, <2>2 DEF Laid
  <2> QED
    BY <2>3
<1>4. ASSUME NEW i \in d + 1 .. e, i + 3 <= end, Occurs(text, Split, i) PROVE FALSE
  <2>1. text[i] = CRLF /\ text[i + 1] = "--" /\ text[i + 2] = "B"
    <3>1. 1 \in 1 .. Len(Split) /\ 2 \in 1 .. Len(Split) /\ 3 \in 1 .. Len(Split)
          /\ i + 1 - 1 = i /\ i + 2 - 1 = i + 1 /\ i + 3 - 1 = i + 2
      BY SplitIs
    <3> QED
      BY <1>4, <3>1, SplitIs DEF Occurs
  <2>2. CASE i + 2 <= e
    <3>1. PICK j \in Nat \ {0} : j = i - d /\ j + 2 <= n
      <4>1. i - d \in Nat \ {0} /\ (i - d) + 2 <= n
        BY <1>2, <2>2
      <4> QED
        BY <4>1
    <3>2. /\ j \in 1 .. n /\ j + 1 \in 1 .. n /\ j + 2 \in 1 .. n
          /\ d + j = i /\ d + (j + 1) = i + 1 /\ d + (j + 2) = i + 2
      BY <3>1
    <3>3. Bounds(t, j)
      BY <1>2, <2>1, <3>2 DEF Bounds
    <3> QED
      BY <1>1, <3>1, <3>3, NoBoundary
  <2>3. CASE i + 2 > e
    <3>1. e # end
      BY <1>4, <2>3
    <3>2. text[e + 1] = CRLF
      <4>1. 1 \in 1 .. Len(Split)
        BY SplitIs
      <4> QED
        BY <3>1, <4>1, SplitIs DEF Placed
    <3>3. i = e \/ i = e - 1
      BY <2>3
    <3>4. i = e => text[i + 1] = CRLF
      BY <3>2
    <3>5. i = e - 1 => text[i + 2] = CRLF
      <4>1. (e - 1) + 2 = e + 1
        OBVIOUS
      <4> QED
        BY <3>2, <4>1
    <3> QED
      BY <2>1, <3>3, <3>4, <3>5, WordsApart
  <2> QED
    BY <2>2, <2>3
<1>5. PICK from \in Nat \ {0}, k \in Nat : from = d + 1 /\ k = e + 1
  OBVIOUS
<1>6. CASE e = end
  <2>1. \A i \in from .. end + 1 - 4 : ~Occurs(text, Split, i)
    <3>1. ASSUME NEW i \in from .. end + 1 - 4 PROVE ~Occurs(text, Split, i)
      <4>1. i \in d + 1 .. e /\ i + 3 <= end
        BY <1>5, <1>6
      <4> QED
        BY <1>4, <4>1
    <3> QED
      BY <3>1
  <2>2. \A i \in from .. end + 1 - Len(Split) : ~Occurs(text, Split, i)
    BY <2>1, SplitIs
  <2>3. Find(text, Split, from, end) = 0
    BY <2>2, SplitIs, FindNone
  <2> QED
    BY <1>5, <1>6, <2>3 DEF NextOf
<1>7. CASE e # end
  <2>1. e + 4 <= end /\ \A j \in 1 .. Len(Split) : text[e + j] = Split[j]
    BY <1>7 DEF Placed
  <2>2. Occurs(text, Split, k)
    <3>1. ASSUME NEW j \in 1 .. Len(Split) PROVE text[k + j - 1] = Split[j]
      <4>1. j \in Nat /\ k + j - 1 = e + j
        BY <1>5, SplitIs
      <4> QED
        BY <2>1, <4>1
    <3> QED
      BY <3>1 DEF Occurs
  <2>3. k \in from .. end + 1 - Len(Split)
    BY <1>2, <1>5, <2>1, SplitIs
  <2>4. ASSUME NEW i \in from .. k - 1 PROVE ~Occurs(text, Split, i)
    <3>1. e + 4 <= end /\ from = d + 1 /\ k - 1 = e
      BY <1>5, <2>1
    <3>2. i \in d + 1 .. e /\ i + 3 <= end
      BY <3>1
    <3> QED
      BY <1>4, <3>2
  <2>5. Find(text, Split, from, end) = k
    <3>1. \A i \in from .. k - 1 : ~Occurs(text, Split, i)
      BY <2>4
    <3>2. Split \in Seq(Char) /\ Split # <<>>
      BY SplitIs
    <3> QED
      BY <2>2, <2>3, <3>1, <3>2, FindFirst
  <2>6. k # 0
    BY <1>5
  <2> QED
    BY <1>5, <2>5, <2>6 DEF NextOf
<1> QED
  BY <1>6, <1>7

\* What the loop over the parts of a form sets and where it goes on.
FormHead(text, end) == [pos \in 4 .. end - 1 |-> PartPairs(text, pos, NextOf(text, end, pos))]
FormNext(text, end) == [pos \in 4 .. end - 1 |-> NextOf(text, end, pos) + 4]
FormFrom(text, end, pos) == Collect(FormHead(text, end), FormNext(text, end), pos)

\* One turn of the loop.
LEMMA FormLoop ==
    ASSUME NEW text, NEW end \in Nat
    PROVE  /\ FormPairs(text, 4, end, "B") = FormFrom(text, end, 4)
           /\ \A i \in Nat :
                 FormFrom(text, end, i) =
                    IF i \in 4 .. end - 1
                    THEN PartPairs(text, i, NextOf(text, end, i))
                            \o FormFrom(text, end, NextOf(text, end, i) + 4)
                    ELSE <<>>
<1> DEFINE h == FormHead(text, end)
           n == FormNext(text, end)
<1>1. DOMAIN h = 4 .. end - 1 /\ DOMAIN n = 4 .. end - 1
  BY DEF FormHead, FormNext
<1>2. \A i \in 4 .. end - 1 : /\ h[i] = PartPairs(text, i, NextOf(text, end, i))
                              /\ n[i] = NextOf(text, end, i) + 4
  BY DEF FormHead, FormNext
<1>3. ASSUME NEW i \in 4 .. end - 1
      PROVE  NextOf(text, end, i) \in Nat /\ NextOf(text, end, i) >= i
  <2>1. i \in Nat /\ end >= i /\ Len(Split) = 4
    BY SplitIs
  <2>2. Find(text, Split, i, end) = 0 \/ Find(text, Split, i, end) \in i .. end + 1 - 4
    <3>1. Len(Split) \in Nat
      BY <2>1
    <3>2. Find(text, Split, i, end) = 0 \/ Find(text, Split, i, end) \in i .. end + 1 - Len(Split)
      BY <2>1, <3>1, FindBounds
    <3> QED
      BY <2>1, <3>2
  <2> QED
    BY <2>1, <2>2 DEF NextOf
<1>4. GoesOn(h, n, end)
  <2>1. 4 .. end - 1 \subseteq 0 .. end
    OBVIOUS
  <2>2. \A i \in 4 .. end - 1 : n[i] \in Nat /\ n[i] > i
    BY <1>2, <1>3
  <2> HIDE DEF h, n
  <2> QED
    BY <1>1, <2>1, <2>2 DEF GoesOn
<1>5. FormPairs(text, 4, end, "B") = Collect(h, n, 4)
  <2>1. Len(Split) = 4
    BY SplitIs
  <2>2. FormPairs(text, 4, end, "B")
          = Collect([pos \in 4 .. end - 1 |-> PartPairs(text, pos, NextOf(text, end, pos))],
                    [pos \in 4 .. end - 1 |-> NextOf(text, end, pos) + Len(Split)], 4)
    BY DEF FormPairs, NextOf, Split
  <2> QED
    BY <2>1, <2>2 DEF FormHead, FormNext
<1> HIDE DEF h, n
<1>6. \A i \in Nat : Collect(h, n, i) = IF i \in DOMAIN h THEN h[i] \o Collect(h, n, n[i]) ELSE <<>>
  BY <1>4, CollectStep
<1>7. \A i \in Nat : FormFrom(text, end, i) = Collect(h, n, i)
  BY DEF FormFrom, h, n
<1>8. \A i \in 4 .. end - 1 : Collect(h, n, n[i]) = FormFrom(text, end, NextOf(text, end, i) + 4)
  BY <1>2, <1>3, <1>7
<1> QED
  BY <1>1, <1>2, <1>5, <1>6, <1>7, <1>8

\* The parts of a form from those in r on: where they begin after d characters and end
\* the form, the loop sets those of them that have data.
PartsRead(text, end, r) ==
    \A d \in Nat :
        d >= 3 /\ d + Len(Middle(r)) = end /\ Placed(text, Middle(r), d)
            => FormFrom(text, end, d + 1) = KeptAll(r)

\* No parts.
LEMMA MiddleNone == Middle(<<>>) = <<>> /\ KeptAll(<<>>) = <<>>
<1>1. [i \in DOMAIN <<>> |-> FormPart(<<>>[i])] = <<>>
  OBVIOUS
<1>2. [i \in DOMAIN <<>> |-> Kept(<<>>[i])] = <<>>
  OBVIOUS
<1>3. Middle(<<>>) = Join(<<>>, Split)
  BY <1>1 DEF Middle, Split
<1>4. Join(<<>>, Split) = FlattenSeq(<<>>)
  <2>1. [i \in DOMAIN <<>> |-> IF i = 1 THEN <<>>[i] ELSE Split \o <<>>[i]] = <<>>
    OBVIOUS
  <2> QED
    BY <2>1 DEF Join
<1> QED
  BY <1>2, <1>3, <1>4, FlattenNone DEF KeptAll

\* One part more.
LEMMA FormMore ==
    ASSUME NEW text \in Seq(Char), NEW end \in Nat, end <= Len(text),
           NEW r \in Seq(Part), PartsRead(text, end, r), NEW f \in Part
    PROVE  PartsRead(text, end, Cons(f, r))
<1> SUFFICES ASSUME NEW d \in Nat, d >= 3, d + Len(Middle(Cons(f, r))) = end,
                    Placed(text, Middle(Cons(f, r)), d)
             PROVE  FormFrom(text, end, d + 1) = KeptAll(Cons(f, r))
  BY DEF PartsRead
<1>1. PICK t \in Seq(Char), n \in Nat : t = FormPart(f) /\ n = Len(t)
  BY FormPartType
<1>2. n >= 14
  <2>1. PICK k \in Nat, l \in Nat : k = Len(f[1]) /\ l = Len(f[2])
    BY DEF Part
  <2>2. Laid(t, f[1], f[2], Len(f[1]) + 14)
    BY <1>1, FormPartIs
  <2>3. n = (k + 14) + l
    BY <1>1, <2>1, <2>2 DEF Laid
  <2> QED
    BY <2>3
<1>3. PICK e \in Nat : e = d + n
  OBVIOUS
<1>4. ASSUME Placed(text, t, d), e <= end, e = end \/ (e + 4 <= end /\ Placed(text, Split, e)),
             FormFrom(text, end, e + 5) = KeptAll(r)
      PROVE  FormFrom(text, end, d + 1) = KeptAll(Cons(f, r))
  <2>1. NextOf(text, end, d + 1) = e + 1
    BY <1>1, <1>3, <1>4, NextRead
  <2>2. PartPairs(text, d + 1, e + 1) = Kept(f)
    <3>1. PartPairs(text, d + 1, d + Len(FormPart(f)) + 1) = Kept(f)
      BY <1>1, <1>4, PartRead
    <3> QED
      BY <1>1, <1>3, <3>1
  <2>3. d + 1 \in 4 .. end - 1 /\ d + 1 \in Nat /\ (e + 1) + 4 = e + 5
    BY <1>2, <1>3, <1>4
  <2>4. FormFrom(text, end, d + 1) = Kept(f) \o FormFrom(text, end, e + 5)
    <3>1. FormFrom(text, end, d + 1)
            = IF d + 1 \in 4 .. end - 1
              THEN PartPairs(text, d + 1, NextOf(text, end, d + 1))
                      \o FormFrom(text, end, NextOf(text, end, d + 1) + 4)
              ELSE <<>>
      BY <2>3, FormLoop
    <3> QED
      BY <2>1, <2>2, <2>3, <3>1
  <2>5. KeptAll(Cons(f, r)) = Kept(f) \o KeptAll(r)
    BY MiddleCons
  <2> QED
    BY <1>4, <2>4, <2>5
<1>5. CASE r = <<>>
  <2>1. Middle(Cons(f, r)) = t
    BY <1>1, <1>5, MiddleCons
  <2>2. e = end /\ Placed(text, t, d)
    BY <1>1, <1>3, <2>1
  <2>3. FormFrom(text, end, e + 5) = <<>>
    <3>1. e + 5 \in Nat /\ e + 5 \notin 4 .. end - 1
      BY <2>2
    <3> QED
      BY <3>1, FormLoop
  <2> QED
    BY <1>4, <1>5, <2>2, <2>3, MiddleNone
<1>6. CASE r # <<>>
  <2>1. PICK m \in Seq(Char), l \in Nat : m = Middle(r) /\ l = Len(m)
    BY MiddleCons
  <2>2. PICK q \in Seq(Char) : q = t \o Split \o m
    BY <1>1, <2>1, SplitIs, ThreeTexts
  <2>3. Triple(q, t, Split, m)
    BY <1>1, <2>1, <2>2, SplitIs, ThreeTexts
  <2>4. Middle(Cons(f, r)) = q
    BY <1>1, <1>6, <2>1, <2>2, MiddleCons
  <2>5. /\ Len(q) = n + 4 + l
        /\ \A i \in 1 .. n : q[i] = t[i]
        /\ \A i \in 1 .. 4 : q[n + i] = Split[i]
        /\ \A i \in 1 .. l : q[n + 4 + i] = m[i]
    BY <1>1, <2>1, <2>3, SplitIs DEF Triple
  <2>6. d + (n + 4 + l) = end /\ \A j \in 1 .. n + 4 + l : text[d + j] = q[j]
    BY <2>4, <2>5 DEF Placed
  <2>7. PICK z \in Nat : z = Len(text) /\ end <= z
    OBVIOUS
  <2>8. e + 4 + l = end /\ e + 4 \in Nat
    BY <1>3, <2>6
  <2>9. Placed(text, t, d)
    <3>1. \A j \in 1 .. n : j \in 1 .. n + 4 + l
      OBVIOUS
    <3>2. \A j \in 1 .. n : text[d + j] = t[j]
      BY <2>5, <2>6, <3>1
    <3>3. d + n <= z
      BY <2>7, <2>8, <1>3
    <3> QED
      BY <1>1, <2>7, <3>2, <3>3 DEF Placed
  <2>10. Placed(text, Split, e)
    <3>1. \A j \in 1 .. 4 : n + j \in 1 .. n + 4 + l /\ d + (n + j) = e + j
      BY <1>3
    <3>2. \A j \in 1 .. 4 : text[e + j] = Split[j]
      BY <2>5, <2>6, <3>1
    <3>3. e + 4 <= z
      BY <2>7, <2>8
    <3> QED
      BY <2>7, <3>2, <3>3, SplitIs DEF Placed
  <2>11. Placed(text, m, e + 4)
    <3>1. \A j \in 1 .. l : n + 4 + j \in 1 .. n + 4 + l /\ d + (n + 4 + j) = e + 4 + j
      BY <1>3
    <3>2. \A j \in 1 .. l : text[e + 4 + j] = m[j]
      BY <2>5, <2>6, <3>1
    <3>3. e + 4 + l <= z
      BY <2>7, <2>8
    <3> QED
      BY <2>1, <2>7, <3>2, <3>3 DEF Placed
  <2>12. FormFrom(text, end, (e + 4) + 1) = KeptAll(r)
    <3>1. e + 4 >= 3 /\ (e + 4) + Len(Middle(r)) = end
      BY <2>1, <2>8
    <3> QED
      BY <2>1, <2>8, <2>11, <3>1 DEF PartsRead
  <2>13. (e + 4) + 1 = e + 5 /\ e <= end /\ e + 4 <= end
    BY <2>8
  <2> QED
    BY <1>4, <2>9, <2>10, <2>12, <2>13
<1> QED
  BY <1>5, <1>6

\* The loop over a whole form.
LEMMA FormLoopRead ==
    ASSUME NEW text \in Seq(Char), NEW end \in Nat, end <= Len(text), NEW form \in Seq(Part)
    PROVE  PartsRead(text, end, form)
<1> DEFINE S == {r \in Seq(Part) : PartsRead(text, end, r)}
<1>1. <<>> \in S
  <2>1. ASSUME NEW d \in Nat, d + Len(Middle(<<>>)) = end
        PROVE  FormFrom(text, end, d + 1) = KeptAll(<<>>)
    <3>1. Len(Middle(<<>>)) = 0
      BY MiddleNone
    <3>2. d + 1 \in Nat /\ d + 1 \notin 4 .. end - 1
      BY <2>1, <3>1
    <3> QED
      BY <3>2, FormLoop, MiddleNone
  <2> QED
    BY <2>1 DEF PartsRead
<1>2. ASSUME NEW r \in Seq(Part) \cap S, NEW f \in Part PROVE Cons(f, r) \in S
  <2>1. Cons(f, r) \in Seq(Part)
    BY ConsIs
  <2> QED
    BY <1>2, <2>1, FormMore
<1> HIDE DEF S
<1>3. Seq(Part) \subseteq S
  BY <1>1, <1>2, ConsInduction
<1> QED
  BY <1>3 DEF S

\* A multipart form is read as its fields that have data.
LEMMA FormRead ==
    ASSUME NEW form \in Seq(Part)
    PROVE  LET text == Multipart(form, "B")
           IN  FormPairs(text, Len(Opening) + 1, Len(text) - Len(Closing), "B") = KeptAll(form)
<1>1. Opening \in Seq(Char) /\ Closing \in Seq(Char) /\ Len(Opening) = 3 /\ Len(Closing) = 5
  BY WordsDiffer DEF Opening, Closing
<1>2. PICK m \in Seq(Char), l \in Nat : m = Middle(form) /\ l = Len(m)
  BY MultipartIs
<1>3. PICK text \in Seq(Char) : text = Opening \o m \o Closing
  BY <1>1, <1>2, ThreeTexts
<1>4. Triple(text, Opening, m, Closing)
  BY <1>1, <1>2, <1>3, ThreeTexts
<1>5. Multipart(form, "B") = text
  BY <1>2, <1>3, MultipartIs
<1>6. Len(text) = 3 + l + 5 /\ \A i \in 1 .. l : text[3 + i] = m[i]
  BY <1>1, <1>2, <1>4 DEF Triple
<1>7. PICK end \in Nat : end = 3 + l /\ end = Len(text) - 5 /\ end <= Len(text)
  BY <1>6
<1>8. PartsRead(text, end, form)
  BY <1>7, FormLoopRead
<1>9. Placed(text, m, 3)
  BY <1>2, <1>6 DEF Placed
<1>10. FormFrom(text, end, 3 + 1) = KeptAll(form)
  BY <1>2, <1>7, <1>8, <1>9 DEF PartsRead
<1>11. FormPairs(text, 4, end, "B") = FormFrom(text, end, 4)
  BY FormLoop
<1> QED
  BY <1>1, <1>5, <1>7, <1>10, <1>11

-----------------------------------------------------------------------------
(* What the handler finds.                                                 *)

\* Whatever memory was short for, what is there was given by the client.
AllGiven ==
    /\ \A k \in DOMAIN tmp.args :
          Gave(asked.query, k, tmp.args[k]) \/ Gave(asked.form, k, tmp.args[k])
    /\ \A k \in DOMAIN tmp.cookies : Gave(asked.cookies, k, tmp.cookies[k])

\* What is read of a request before each part of holy_new_req_pkt.
HeardInv ==
    /\ pkt => stage \in {"static", "done"}
    /\ stage \in {"new", "line", "query"} => tmp = NewPacket
    /\ stage \in Lined \ {"query"} => tmp.uri = asked.path /\ AllGiven
    /\ stage \in {"headers", "content"} /\ "argument" \notin short =>
          tmp.args = SetAll(<<>>, asked.query)
    /\ stage \in {"headers", "content", "cookies"} => tmp.cookies = <<>>
    /\ stage \in Filled /\ asked.blank /\ "argument" \notin short => tmp.args = MeantArgs
    /\ stage \in {"packet", "static"} /\ asked.blank /\ short \cap {"cookie", "cookies"} = {} =>
          tmp.cookies = SetAll(<<>>, asked.cookies)
    /\ ParsesBack

\* A value that set_ss leaves for some of the pairs a client gave.
LEMMA GaveOne ==
    ASSUME NEW V, NEW pairs \in Seq(V), NEW those \in SUBSET DOMAIN pairs, NEW args,
           NEW s, s = SetThese(args, pairs, those), NEW k \in DOMAIN s
    PROVE  (k \in DOMAIN args /\ s[k] = args[k]) \/ Gave(pairs, k, s[k])
<1>1. PICK n \in Nat : n = Len(pairs) /\ DOMAIN pairs = 1 .. n
  OBVIOUS
<1>2. those \in SUBSET (1 .. n)
  BY <1>1
<1>3. Sourced(args, pairs, those)
  BY <1>2, SetFrom
<1> QED
  BY <1>1, <1>3 DEF Gave, Sourced

\* The fields that have data are fields.
LEMMA KeptGiven ==
    ASSUME NEW V, NEW form \in Seq(V)
    PROVE  /\ \E W : KeptAll(form) \in Seq(W)
           /\ \A k, v : Gave(KeptAll(form), k, v) => Gave(form, k, v)
<1>1. PICK n \in Nat : n = Len(form) /\ DOMAIN form = 1 .. n
  OBVIOUS
<1>2. PICK W : W = {form[j] : j \in 1 .. n}
  OBVIOUS
<1>3. PICK a : a = [i \in 1 .. n |-> Kept(form[i])]
  OBVIOUS
<1>4. a \in Seq(Seq(W))
  <2>1. ASSUME NEW i \in 1 .. n PROVE Kept(form[i]) \in Seq(W)
    <3>1. form[i] \in W
      BY <1>2
    <3> QED
      BY <3>1, OneIs, EmptySeq DEF Kept
  <2> QED
    BY <1>3, <2>1
<1>5. KeptAll(form) = FlattenSeq(a)
  BY <1>1, <1>3 DEF KeptAll
<1>6. PICK kept \in Seq(W) : kept = KeptAll(form)
  BY <1>4, <1>5, FlattenType
<1>7. ASSUME NEW k, NEW v, Gave(kept, k, v) PROVE Gave(form, k, v)
  <2>1. PICK i \in DOMAIN kept : kept[i][1] = k /\ kept[i][2] = v
    BY <1>7 DEF Gave
  <2>2. kept[i] \in W
    BY <1>6, <2>1
  <2> QED
    BY <1>1, <1>2, <2>1, <2>2 DEF Gave
<1> QED
  BY <1>6, <1>7

\* Setting nothing changes nothing.
LEMMA SetAllNone ==
    ASSUME NEW args, NEW pairs
    PROVE  SetAll(SetAll(args, pairs), <<>>) = SetAll(args, pairs)
<1>1. PICK s : s = SetAll(args, pairs)
  OBVIOUS
<1>2. s = [k \in DOMAIN s |-> s[k]]
  BY <1>1, SetType DEF SetAll
<1>3. DOMAIN <<>> = {}
  OBVIOUS
<1>4. SetAll(s, <<>>) = SetThese(s, <<>>, {})
  BY <1>3 DEF SetAll
<1> QED
  BY <1>1, <1>2, <1>4, SetNone

\* The arguments that are meant, by the kind of form.
LEMMA MeantIs ==
    ASSUME NEW args, args = SetAll(<<>>, asked.query), Writable(asked)
    PROVE  /\ asked.method # "POST" \/ asked.type = "none" \/ "content-type" \in short =>
                 MeantArgs = args
           /\ /\ asked.method = "POST" /\ asked.type # "multipart"
              /\ "content-type" \notin short
              => MeantArgs = SetAll(args, asked.form)
           /\ /\ asked.method = "POST" /\ asked.type = "multipart"
              /\ "content-type" \notin short
              => MeantArgs = SetThese(args, asked.form, Full(asked.form))
<1> DEFINE those == {i \in DOMAIN asked.form :
                        /\ asked.method = "POST" /\ "content-type" \notin short
                        /\ asked.type = "multipart" => asked.form[i][2] # <<>>}
<1>1. MeantArgs = SetThese(args, asked.form, those)
  BY DEF MeantArgs
<1>2. ASSUME asked.method # "POST" \/ asked.type = "none" \/ "content-type" \in short
      PROVE  MeantArgs = args
  <2>1. asked.type = "none" => DOMAIN asked.form = {}
    BY DEF Writable
  <2>2. those = {}
    BY <1>2, <2>1
  <2>3. args = [k \in DOMAIN args |-> args[k]]
    BY SetType DEF SetAll
  <2> HIDE DEF those
  <2> QED
    BY <1>1, <2>2, <2>3, SetNone
<1>3. asked.method = "POST" /\ asked.type # "multipart" /\ "content-type" \notin short =>
         those = DOMAIN asked.form
  OBVIOUS
<1>4. asked.method = "POST" /\ asked.type = "multipart" /\ "content-type" \notin short =>
         those = Full(asked.form)
  BY DEF Full
<1> HIDE DEF those
<1> QED
  BY <1>1, <1>2, <1>3, <1>4 DEF SetAll

\* After the content the arguments are those that are meant.
LEMMA ContentHeard ==
    ASSUME FitInv, HeardInv, ContentNone \/ ContentQuery \/ ContentForm, stage' # "done"
    PROVE  HeardInv'
<1>1. /\ stage = "content" /\ Writable(asked) /\ HeaderRead
      /\ tmp.uri = asked.path /\ tmp.cookies = <<>> /\ AllGiven
      /\ "argument" \notin short => tmp.args = SetAll(<<>>, asked.query)
      /\ pkt = FALSE
  <2>1. stage = "content"
    BY DEF ContentNone, ContentQuery, ContentForm
  <2>2. pkt = FALSE
    BY <2>1 DEF HeardInv, ParsesBack
  <2> QED
    BY <2>1, <2>2, ClientAssumption DEF FitInv, HeardInv, Headed, Lined
<1>2. PICK args : args = tmp.args
  OBVIOUS
<1>3. ASSUME NEW W, NEW pairs \in Seq(W), Set(pairs),
             \A k, v : Gave(pairs, k, v) => Gave(asked.form, k, v),
             asked.blank /\ "argument" \notin short => SetAll(args, pairs) = MeantArgs
      PROVE  HeardInv'
  <2>1. PICK those \in SUBSET DOMAIN pairs :
             /\ tmp' = [tmp EXCEPT !.args = SetThese(@, pairs, those)]
             /\ short' = short \cup {"argument" : i \in DOMAIN pairs \ those}
             /\ Goto("cookies")
    BY <1>3 DEF Set
  <2>2. /\ tmp'.uri = tmp.uri /\ tmp'.args = SetThese(args, pairs, those)
        /\ tmp'.cookies = tmp.cookies
        /\ stage' = "cookies" /\ asked' = asked /\ pkt' = pkt
    BY <1>2, <2>1 DEF Goto, FitInv
  <2>3. MeantArgs' = MeantArgs
    BY <2>1, <2>2 DEF MeantArgs
  <2>4. AllGiven'
    <3>1. ASSUME NEW k \in DOMAIN tmp'.args
          PROVE  Gave(asked.query, k, tmp'.args[k]) \/ Gave(asked.form, k, tmp'.args[k])
      <4>1. (k \in DOMAIN args /\ tmp'.args[k] = args[k]) \/ Gave(pairs, k, tmp'.args[k])
        BY <1>3, <2>1, <2>2, <3>1, GaveOne
      <4> QED
        BY <1>1, <1>2, <1>3, <4>1 DEF AllGiven
    <3> QED
      BY <1>1, <2>2, <3>1 DEF AllGiven, Gave
  <2>5. asked.blank /\ "argument" \notin short' => tmp'.args = MeantArgs
    <3>1. "argument" \notin short' => "argument" \notin short /\ those = DOMAIN pairs
      BY <2>1
    <3> QED
      BY <1>3, <2>2, <3>1 DEF SetAll
  <2> QED
    BY <1>1, <2>2, <2>3, <2>4, <2>5 DEF HeardInv, ParsesBack, Lined, Filled
<1>4. CASE ContentNone
  <2>1. Set(<<>>) /\ ~Form /\ ~Urlencoded
    BY <1>4 DEF ContentNone
  <2>2. asked.blank => asked.method # "POST" \/ asked.type = "none" \/ "content-type" \in short
    BY <1>1, <2>1, KindFound DEF Parted, Writable
  <2>3. asked.blank /\ "argument" \notin short => MeantArgs = args
    BY <1>1, <1>2, <2>2, MeantIs
  <2>4. "argument" \notin short => SetAll(args, <<>>) = args
    BY <1>1, <1>2, SetAllNone
  <2>5. <<>> \in Seq({}) /\ \A k, v : ~Gave(<<>>, k, v)
    BY DEF Gave
  <2> QED
    BY <1>3, <2>1, <2>3, <2>4, <2>5
<1>5. CASE ContentQuery
  <2>1. Set(QueryPairs(Content(asked))) /\ Urlencoded
    BY <1>5 DEF ContentQuery
  <2>2. asked.method = "POST" /\ asked.type \in {"urlencoded", "bare"} /\ "content-type" \notin short
    BY <1>1, <2>1, KindFound
  <2>3. asked.form \in Seq(Pair)
    BY <1>1, <2>2 DEF Writable
  <2>4. Content(asked) = EncodeArgs(asked.form, asked.style)
    BY <2>2 DEF Content
  <2>5. QueryPairs(Content(asked)) = asked.form
    BY <2>3, <2>4, QueryBack
  <2>6. "argument" \notin short => MeantArgs = SetAll(args, asked.form)
    BY <1>1, <1>2, <2>2, MeantIs
  <2> QED
    BY <1>3, <2>1, <2>3, <2>5, <2>6
<1>6. CASE ContentForm
  <2>1. Parted(asked) /\ ~BadForm /\ "content-type" \notin short
    BY <1>1, <1>6, FormTaken DEF Fail
  <2>2. asked.type = "multipart" /\ asked.method = "POST" /\ asked.form \in Seq(Part)
    BY <1>1, <1>6, <2>1, FormTaken DEF Parted, Writable
  <2>3. Set(FormPairs(Content(asked), Len(Opening) + 1, Len(Content(asked)) - Len(Closing), "B"))
    BY <1>1, <1>6, <2>1, FormTaken
  <2>4. Content(asked) = Multipart(asked.form, "B")
    BY <2>2 DEF Content
  <2>5. FormPairs(Content(asked), Len(Opening) + 1, Len(Content(asked)) - Len(Closing), "B")
          = KeptAll(asked.form)
    BY <2>2, <2>4, FormRead
  <2>6. "argument" \notin short => MeantArgs = SetThese(args, asked.form, Full(asked.form))
    BY <1>1, <1>2, <2>1, <2>2, MeantIs
  <2>7. "argument" \notin short => SetAll(args, KeptAll(asked.form)) = MeantArgs
    BY <2>2, <2>6, SetKept
  <2>8. /\ \E W : KeptAll(asked.form) \in Seq(W)
        /\ \A k, v : Gave(KeptAll(asked.form), k, v) => Gave(asked.form, k, v)
    BY <2>2, KeptGiven
  <2> QED
    BY <1>3, <2>3, <2>5, <2>7, <2>8
<1> QED
  BY <1>4, <1>5, <1>6

\* An exit at fail returns no packet.
LEMMA FailHeard ==
    ASSUME HeardInv, NEW code, Fail(code), stage \in Lined \cup {"new", "line"}, stage # "static"
    PROVE  HeardInv'
<1>1. pkt' = FALSE \/ ~pkt'
  BY DEF HeardInv, Fail, Lined
<1> QED
  BY <1>1 DEF HeardInv, ParsesBack, Fail, Lined, Filled

\* Every part of holy_new_req_pkt keeps the invariant.
LEMMA StepHeard == FitInv /\ HeardInv /\ [Next]_vars => HeardInv'
<1> SUFFICES ASSUME FitInv, HeardInv, [Next]_vars PROVE HeardInv'
  OBVIOUS
<1>w. Writable(asked)
  BY ClientAssumption DEF FitInv
<1>u. CASE UNCHANGED vars
  <2>1. MeantArgs' = MeantArgs /\ (AllGiven' <=> AllGiven)
    BY <1>u DEF vars, MeantArgs, AllGiven, Gave
  <2>2. ParsesBack'
    BY <1>u, <2>1 DEF vars, HeardInv, ParsesBack, Gave
  <2> QED
    BY <1>u, <2>1, <2>2 DEF vars, HeardInv
<1>1. CASE Dicts
  <2>1. CASE Goto("line") /\ UNCHANGED <<tmp, short>>
    BY <1>1, <2>1 DEF Dicts, Goto, HeardInv, ParsesBack, Lined, Filled
  <2>2. CASE Fail(INSUFFICIENT_STORAGE)
    BY <1>1, <2>2, FailHeard DEF Dicts
  <2> QED
    BY <1>1, <2>1, <2>2 DEF Dicts
<1>2. CASE RequestLine
  <2>1. CASE Goto("query") /\ UNCHANGED <<tmp, short>>
    BY <1>2, <2>1 DEF RequestLine, Goto, HeardInv, ParsesBack, Lined, Filled
  <2>2. CASE Fail(LineFault)
    BY <1>2, <2>2, FailHeard DEF RequestLine
  <2> QED
    BY <1>2, <2>1, <2>2 DEF RequestLine
<1>3. CASE Query
  <2>1. ASSUME NEW pairs, pairs = QueryPairs(After(Url(asked), "?")),
               NEW those \in SUBSET DOMAIN pairs,
               tmp' = [tmp EXCEPT !.uri = Until(Url(asked), "?"),
                                  !.args = SetThese(@, pairs, those)],
               short' = short \cup {"argument" : i \in DOMAIN pairs \ those},
               Goto("headers")
        PROVE  HeardInv'
    <3>1. stage = "query" /\ tmp = NewPacket /\ ~pkt
      BY <1>3 DEF Query, HeardInv
    <3>2. Until(Url(asked), "?") = asked.path /\ pairs = asked.query
      BY <1>w, <2>1, UrlBack
    <3>3. /\ tmp'.uri = asked.path /\ tmp'.args = SetThese(<<>>, asked.query, those)
          /\ tmp'.cookies = <<>>
      BY <2>1, <3>1, <3>2 DEF NewPacket
    <3>4. stage' = "headers" /\ asked' = asked /\ pkt' = pkt
      BY <2>1 DEF Goto
    <3>5. asked.query \in Seq(Pair)
      BY <1>w DEF Writable
    <3>6. DOMAIN <<>> = {}
      OBVIOUS
    <3>7. AllGiven'
      <4>1. ASSUME NEW k \in DOMAIN tmp'.args PROVE Gave(asked.query, k, tmp'.args[k])
        <5>1. k \notin DOMAIN <<>>
          BY <3>6
        <5> QED
          BY <2>1, <3>2, <3>3, <3>5, <5>1, GaveOne
      <4> QED
        BY <3>3, <3>4, <3>6, <4>1 DEF AllGiven, Gave
    <3>8. "argument" \notin short' => tmp'.args = SetAll(<<>>, asked.query)
      <4>1. "argument" \notin short' => those = DOMAIN asked.query
        BY <2>1, <3>2
      <4> QED
        BY <3>3, <4>1 DEF SetAll
    <3> QED
      BY <3>1, <3>3, <3>4, <3>7, <3>8 DEF HeardInv, ParsesBack, Lined, Filled
  <2>2. CASE Fail(Unset)
    BY <1>3, <2>2, FailHeard DEF Query, Lined
  <2> QED
    BY <1>3, <2>1, <2>2 DEF Query
<1>4. CASE Headers
  <2>1. ASSUME Goto("content"), NEW those, NEW missed, ReadFields(those, missed) PROVE HeardInv'
    <3>1. tmp'.uri = tmp.uri /\ tmp'.args = tmp.args /\ tmp'.cookies = tmp.cookies
      BY <2>1 DEF ReadFields, FitInv
    <3>2. stage = "headers" /\ ~pkt /\ stage' = "content" /\ asked' = asked /\ pkt' = pkt
      BY <1>4, <2>1 DEF Headers, Goto, HeardInv
    <3>3. short \subseteq short'
      BY <2>1 DEF ReadFields
    <3>4. AllGiven'
      BY <3>1, <3>2 DEF AllGiven, HeardInv, Lined, Gave
    <3> QED
      BY <3>1, <3>2, <3>3, <3>4 DEF HeardInv, ParsesBack, Lined, Filled
  <2>2. CASE Fail(BAD_REQUEST)
    BY <1>4, <2>2, FailHeard DEF Headers, Lined
  <2>3. CASE Fail(INSUFFICIENT_STORAGE)
    BY <1>4, <2>3, FailHeard DEF Headers, Lined
  <2> QED
    BY <1>4, <2>1, <2>2, <2>3 DEF Headers
<1>5. CASE ContentNone \/ ContentQuery \/ ContentForm
  <2>1. CASE stage' # "done"
    BY <1>5, <2>1, ContentHeard
  <2>2. CASE stage' = "done"
    <3>1. stage = "content" /\ Fail(BAD_REQUEST)
      BY <1>5, <1>w, <2>2, FormTaken
         DEF ContentNone, ContentQuery, ContentForm, FitInv, Headed, Set, Goto
    <3> QED
      BY <3>1, FailHeard DEF Lined
  <2> QED
    BY <2>1, <2>2
<1>6. CASE Cookies
  <2>1. /\ stage = "cookies" /\ HeaderRead /\ ~pkt /\ AllGiven
        /\ tmp.cookies = <<>> /\ tmp.uri = asked.path
        /\ asked.blank /\ "argument" \notin short => tmp.args = MeantArgs
    BY <1>6 DEF Cookies, FitInv, HeardInv, Headed, Lined, Filled
  <2>2. stage' = "packet" /\ asked' = asked /\ pkt' = pkt
    BY <1>6 DEF Cookies, Goto
  <2>3. short \subseteq short' /\ ("content-type" \in short' <=> "content-type" \in short)
    BY <1>6 DEF Cookies
  <2>4. MeantArgs' = MeantArgs
    BY <2>2, <2>3 DEF MeantArgs
  <2>5. tmp'.uri = tmp.uri /\ tmp'.args = tmp.args
    BY <1>6 DEF Cookies, FitInv
  <2>6. asked.cookies \in Seq(Cookie)
    BY <1>w DEF Writable
  <2>7. PICK text : text = Field("cookie")
    OBVIOUS
  <2>8. \/ text = CookieText(asked.cookies) \/ text = <<>>
    BY <1>w, <2>1, <2>7, KindFound
  <2>9. asked.blank /\ "cookie" \notin short => text = CookieText(asked.cookies)
    BY <1>w, <2>1, <2>6, <2>7, KindFound, CookiesRead
  <2>10. PICK none : none = <<>> /\ none \in Seq(Cookie) /\ DOMAIN none = {}
    <3>1. <<>> \in Seq(Cookie) /\ DOMAIN <<>> = {}
      OBVIOUS
    <3> QED
      BY <3>1
  <2>11. CookiePairs(<<>>) = none /\ Named(<<>>) = {}
    <3>1. Items(<<>>, Semicolon) = none
      BY <2>10, ItemsNone
    <3> QED
      BY <2>10, <3>1 DEF CookiePairs, Named
  <2>12. \/ CookiePairs(text) = asked.cookies /\ Named(text) = DOMAIN asked.cookies
         \/ CookiePairs(text) = none /\ Named(text) = {}
    BY <2>6, <2>8, <2>11, CookiesRead
  <2>13. \/ \E those \in SUBSET Named(text) :
               /\ tmp'.cookies = SetThese(none, CookiePairs(text), those)
               /\ short' = short \cup {"cookies" : i \in Named(text) \ those}
         \/ tmp'.cookies = none /\ "cookies" \in short'
    BY <1>6, <2>1, <2>7, <2>10 DEF Cookies, FitInv
  <2>14. AllGiven'
    <3>1. ASSUME NEW k \in DOMAIN tmp'.cookies PROVE Gave(asked.cookies, k, tmp'.cookies[k])
      <4>1. PICK those \in SUBSET Named(text) : tmp'.cookies = SetThese(none, CookiePairs(text), those)
        BY <2>10, <2>13, <3>1
      <4>2. CookiePairs(text) = asked.cookies /\ Named(text) = DOMAIN asked.cookies
        <5>1. SUFFICES ASSUME CookiePairs(text) = none, Named(text) = {} PROVE FALSE
          BY <2>12
        <5>2. those = {}
          BY <4>1, <5>1
        <5>3. ~\E i \in those : CookiePairs(text)[i][1] = k
          BY <5>2
        <5> QED
          BY <2>10, <3>1, <4>1, <5>3, SetDomain
      <4>3. k \notin DOMAIN none
        BY <2>10
      <4> QED
        BY <2>6, <3>1, <4>1, <4>2, <4>3, GaveOne
    <3> QED
      BY <2>1, <2>2, <2>5, <3>1 DEF AllGiven, Gave
  <2>15. asked.blank /\ short' \cap {"cookie", "cookies"} = {} =>
            tmp'.cookies = SetAll(<<>>, asked.cookies)
    <3>1. SUFFICES ASSUME asked.blank, short' \cap {"cookie", "cookies"} = {}
                   PROVE  tmp'.cookies = SetAll(<<>>, asked.cookies)
      OBVIOUS
    <3>2. "cookie" \notin short /\ "cookies" \notin short'
      BY <2>3, <3>1
    <3>3. CookiePairs(text) = asked.cookies /\ Named(text) = DOMAIN asked.cookies
      BY <2>6, <2>9, <3>1, <3>2, CookiesRead
    <3>4. PICK those \in SUBSET Named(text) :
               /\ tmp'.cookies = SetThese(none, CookiePairs(text), those)
               /\ short' = short \cup {"cookies" : i \in Named(text) \ those}
      BY <2>13, <3>2
    <3>5. those = Named(text)
      BY <3>2, <3>4
    <3> QED
      BY <2>10, <3>3, <3>4, <3>5 DEF SetAll
  <2> QED
    BY <2>1, <2>2, <2>3, <2>4, <2>5, <2>14, <2>15 DEF HeardInv, ParsesBack, Lined, Filled
<1>7. CASE Packet
  <2>1. CASE stage' = "static" /\ UNCHANGED <<asked, tmp, short>>
    <3>1. MeantArgs' = MeantArgs
      BY <2>1 DEF MeantArgs
    <3>2. stage = "packet" /\ AllGiven
      BY <1>7 DEF Packet, HeardInv, Lined
    <3>3. AllGiven'
      BY <2>1, <3>2 DEF AllGiven, Gave
    <3>4. ParsesBack'
      BY <2>1, <3>1, <3>2, <3>3 DEF HeardInv, ParsesBack, Lined, Filled, AllGiven
    <3> QED
      BY <2>1, <3>1, <3>2, <3>3, <3>4 DEF HeardInv, Lined, Filled
  <2>2. CASE Fail(INSUFFICIENT_STORAGE)
    BY <1>7, <2>2, FailHeard DEF Packet, Lined
  <2> QED
    BY <1>7, <2>1, <2>2 DEF Packet
<1>8. CASE HandleStatic
  <2>1. stage = "static" /\ stage' = "done" /\ UNCHANGED <<asked, tmp, pkt>>
    BY <1>8 DEF HandleStatic
  <2>2. \A x : x # "real" => (x \in short' <=> x \in short)
    BY <1>8 DEF HandleStatic
  <2>3. "argument" \in short' <=> "argument" \in short
    BY <2>2
  <2>4. "content-type" \in short' <=> "content-type" \in short
    BY <2>2
  <2>5. short' \cap {"cookie", "cookies"} = {} => short \cap {"cookie", "cookies"} = {}
    BY <2>2
  <2>6. MeantArgs' = MeantArgs
    BY <2>1, <2>4 DEF MeantArgs
  <2>7. AllGiven'
    BY <2>1 DEF AllGiven, Gave, HeardInv, Lined
  <2>8. ParsesBack'
    BY <2>1, <2>3, <2>5, <2>6, <2>7 DEF HeardInv, ParsesBack, Lined, Filled, AllGiven
  <2> QED
    BY <2>1, <2>8 DEF HeardInv, Lined, Filled
<1> QED
  BY <1>u, <1>1, <1>2, <1>3, <1>4, <1>5, <1>6, <1>7, <1>8 DEF Next

\* Whatever names, values, fields of a form and cookies a client means, and however it
\* escapes and repeats them, a handler that is called reads the path that was meant, and
\* of the arguments and cookies those that were meant if memory lasted to set them, and
\* otherwise none that the client did not give with that value (packet.c:234-258, 288,
\* 380-412, 430-442).
THEOREM WhatIsMeantIsRead == Spec => []ParsesBack
<1>1. Init => FitInv /\ HeardInv
  <2>1. Init => HeardInv
    BY DEF Init, HeardInv, ParsesBack, Lined, Filled
  <2> QED
    BY <2>1, InitFit
<1>2. FitInv /\ HeardInv /\ [Next]_vars => (FitInv /\ HeardInv)'
  BY StepFit, StepHeard
<1>3. HeardInv => ParsesBack
  BY DEF HeardInv
<1> QED
  BY <1>1, <1>2, <1>3, PTL DEF Spec

-----------------------------------------------------------------------------
(* Counting.                                                               *)

\* One place more counts if it is in the set.
CountsMore(A, i, k) ==
    LET count(m) == Cardinality(A \cap i .. m)
    IN  /\ count(k) \in Nat
        /\ \A m \in Nat : m = k + 1 /\ i <= m =>
              /\ m \in A => count(m) = count(k) + 1
              /\ m \notin A => count(m) = count(k)

LEMMA CountMore ==
    ASSUME NEW A \in SUBSET Nat, NEW i \in Nat, NEW k \in Nat
    PROVE  CountsMore(A, i, k)
<1>1. IsFiniteSet(A \cap i .. k)
  <2>1. IsFiniteSet(i .. k)
    BY FS_Interval
  <2> QED
    BY <2>1, FS_Subset
<1>2. ASSUME NEW m \in Nat, m = k + 1, i <= m
      PROVE  /\ m \in A => Cardinality(A \cap i .. m) = Cardinality(A \cap i .. k) + 1
             /\ m \notin A => Cardinality(A \cap i .. m) = Cardinality(A \cap i .. k)
  <2>1. m \notin A \cap i .. k
    BY <1>2
  <2>2. m \in A => A \cap i .. m = (A \cap i .. k) \cup {m}
    BY <1>2
  <2>3. m \notin A => A \cap i .. m = A \cap i .. k
    BY <1>2
  <2> QED
    BY <1>1, <2>1, <2>2, <2>3, FS_CardinalityType, FS_AddElement
<1> QED
  BY <1>1, <1>2, FS_CardinalityType DEF CountsMore

\* The places in S are in order.
Ordered(S, n) == \A l, p \in 1 .. n : l < p => S[l] < S[p]

\* As many places as there are.
LEMMA CountPlaces ==
    ASSUME NEW S, NEW n \in Nat, Ordered(S, n), \A l \in 1 .. n : S[l] \in Nat
    PROVE  Cardinality({S[l] : l \in 1 .. n}) = n
<1> DEFINE N == {k \in Nat : k <= n => /\ IsFiniteSet({S[l] : l \in 1 .. k})
                                       /\ Cardinality({S[l] : l \in 1 .. k}) = k}
<1>1. 0 \in N
  <2>1. {S[l] : l \in 1 .. 0} = {}
    OBVIOUS
  <2> QED
    BY <2>1, FS_EmptySet
<1>2. ASSUME NEW k \in N \cap Nat PROVE k + 1 \in N
  <2>1. PICK m \in Nat : m = k + 1
    OBVIOUS
  <2>2. ASSUME m <= n PROVE /\ IsFiniteSet({S[l] : l \in 1 .. m})
                            /\ Cardinality({S[l] : l \in 1 .. m}) = m
    <3> DEFINE A == {S[l] : l \in 1 .. k}
               B == {S[l] : l \in 1 .. m}
    <3>1. IsFiniteSet(A) /\ Cardinality(A) = k
      BY <2>1, <2>2
    <3>2. B = A \cup {S[m]}
      <4>1. \A l \in 1 .. m : l \in 1 .. k \/ l = m
        BY <2>1
      <4>2. (\A l \in 1 .. k : l \in 1 .. m) /\ m \in 1 .. m
        BY <2>1
      <4> QED
        BY <4>1, <4>2
    <3>3. S[m] \notin A
      <4>1. ASSUME NEW l \in 1 .. k PROVE S[l] # S[m]
        <5>1. l \in 1 .. n /\ m \in 1 .. n /\ l < m
          BY <2>1, <2>2
        <5>2. S[l] < S[m] /\ S[l] \in Nat /\ S[m] \in Nat
          BY <5>1 DEF Ordered
        <5> QED
          BY <5>2
      <4> QED
        BY <4>1
    <3> HIDE DEF A, B
    <3>4. IsFiniteSet(B) /\ Cardinality(B) = k + 1
      BY <3>1, <3>2, <3>3, FS_AddElement
    <3> QED
      BY <2>1, <3>4 DEF B
  <2> QED
    BY <2>1, <2>2
<1> HIDE DEF N
<1>3. Nat \subseteq N
  BY <1>1, <1>2, Induction
<1> QED
  BY <1>3 DEF N

-----------------------------------------------------------------------------
(* The file of a path. *)

\* The names of a path and its double dots.
NamesOf(items) == {i \in DOMAIN items : items[i] \notin {<<".">>, <<".", ".">>}}
UpsOf(items)   == {i \in DOMAIN items : items[i] = <<".", ".">>}

\* How many more names than double dots are between two places; whether none of the double
\* dots up to n leads back over the name at i.
More(items, i, j) == Cardinality(NamesOf(items) \cap i .. j) - Cardinality(UpsOf(items) \cap i .. j)
Stays(items, i, n) == \A j \in i .. n : More(items, i, j) > 0

\* What one item more does to both.
LEMMA MoreIs ==
    ASSUME NEW V, NEW items \in Seq(V), NEW i \in Nat, NEW k \in Nat
    PROVE  /\ More(items, i, k) \in Int
           /\ \A m \in 1 .. Len(items) : m = k + 1 /\ i <= m =>
                /\ items[m] = <<".">> => More(items, i, m) = More(items, i, k)
                /\ items[m] = <<".", ".">> => More(items, i, m) = More(items, i, k) - 1
                /\ items[m] \notin {<<".">>, <<".", ".">>} =>
                      More(items, i, m) = More(items, i, k) + 1
                /\ Stays(items, i, m) <=> Stays(items, i, k) /\ More(items, i, m) > 0
<1> DEFINE A == NamesOf(items)
           B == UpsOf(items)
           p == Cardinality(A \cap i .. k)
           q == Cardinality(B \cap i .. k)
<1>1. A \in SUBSET Nat /\ B \in SUBSET Nat
  BY DEF NamesOf, UpsOf
<1>2. <<".">> # <<".", ".">>
  OBVIOUS
<1>3. \A m \in 1 .. Len(items) :
         /\ m \in A <=> items[m] \notin {<<".">>, <<".", ".">>}
         /\ m \in B <=> items[m] = <<".", ".">>
  BY DEF NamesOf, UpsOf
<1>4. \A m \in Nat : More(items, i, m) = Cardinality(A \cap i .. m) - Cardinality(B \cap i .. m)
  BY DEF More
<1> HIDE DEF A, B
<1>5. /\ p \in Nat
      /\ \A m \in Nat : m = k + 1 /\ i <= m =>
            /\ m \in A => Cardinality(A \cap i .. m) = p + 1
            /\ m \notin A => Cardinality(A \cap i .. m) = p
  <2>1. CountsMore(A, i, k)
    BY <1>1, CountMore
  <2> QED
    BY <2>1 DEF CountsMore
<1>6. /\ q \in Nat
      /\ \A m \in Nat : m = k + 1 /\ i <= m =>
            /\ m \in B => Cardinality(B \cap i .. m) = q + 1
            /\ m \notin B => Cardinality(B \cap i .. m) = q
  <2>1. CountsMore(B, i, k)
    BY <1>1, CountMore
  <2> QED
    BY <2>1 DEF CountsMore
<1>7. More(items, i, k) = p - q
  BY <1>4
<1> HIDE DEF p, q
<1>8. ASSUME NEW m \in 1 .. Len(items), m = k + 1, i <= m
      PROVE  /\ items[m] = <<".">> => More(items, i, m) = More(items, i, k)
             /\ items[m] = <<".", ".">> => More(items, i, m) = More(items, i, k) - 1
             /\ items[m] \notin {<<".">>, <<".", ".">>} =>
                   More(items, i, m) = More(items, i, k) + 1
             /\ Stays(items, i, m) <=> Stays(items, i, k) /\ More(items, i, m) > 0
  <2> DEFINE pp == Cardinality(A \cap i .. m)
             qq == Cardinality(B \cap i .. m)
             t  == items[m]
  <2>1. /\ m \in A => pp = p + 1
        /\ m \notin A => pp = p
    BY <1>5, <1>8
  <2>2. /\ m \in B => qq = q + 1
        /\ m \notin B => qq = q
    BY <1>6, <1>8
  <2>3. More(items, i, m) = pp - qq
    BY <1>4
  <2>4. /\ m \in A <=> t \notin {<<".">>, <<".", ".">>}
        /\ m \in B <=> t = <<".", ".">>
    BY <1>3
  <2>5. Stays(items, i, m) <=> Stays(items, i, k) /\ More(items, i, m) > 0
    <3>1. \A j \in i .. m : j \in i .. k \/ j = m
      BY <1>8
    <3>2. (\A j \in i .. k : j \in i .. m) /\ m \in i .. m
      BY <1>8
    <3> QED
      BY <3>1, <3>2 DEF Stays
  <2> HIDE DEF pp, qq, t
  <2>6. t = <<".">> => More(items, i, m) = More(items, i, k)
    <3>1. t = <<".">> => m \notin A /\ m \notin B
      BY <1>2, <2>4
    <3> QED
      BY <1>7, <2>1, <2>2, <2>3, <3>1
  <2>7. t = <<".", ".">> => More(items, i, m) = More(items, i, k) - 1
    <3>1. t = <<".", ".">> => m \notin A /\ m \in B
      BY <2>4
    <3> QED
      BY <1>5, <1>6, <1>7, <2>1, <2>2, <2>3, <3>1
  <2>8. t \notin {<<".">>, <<".", ".">>} => More(items, i, m) = More(items, i, k) + 1
    <3>1. t \notin {<<".">>, <<".", ".">>} => m \in A /\ m \notin B
      BY <2>4
    <3> QED
      BY <1>5, <1>6, <1>7, <2>1, <2>2, <2>3, <3>1
  <2> QED
    BY <2>5, <2>6, <2>7, <2>8 DEF t
<1> QED
  BY <1>5, <1>6, <1>7, <1>8

\* The names up to place k that no double dot up to k leads back over.
Remains(items, k) == {i \in NamesOf(items) : i <= k /\ Stays(items, i, k)}

\* The texts of w are the kept names at the places in S.
PlacedAt(items, k, w, S) ==
    /\ \A l \in 1 .. Len(w) :
          /\ S[l] \in Remains(items, k)
          /\ w[l] = items[S[l]]
          /\ More(items, S[l], k) = Len(w) - l + 1
    /\ Ordered(S, Len(w))
    /\ \A i \in Remains(items, k) : \E l \in 1 .. Len(w) : S[l] = i

\* What one place more does to the kept names.
KeptStep(items, k, m) ==
    /\ \A i \in Remains(items, k) :
          /\ i \in Nat /\ i <= k
          /\ More(items, i, k) \in Int /\ More(items, i, k) > 0
          /\ items[m] = <<".">> => More(items, i, m) = More(items, i, k)
          /\ items[m] = <<".", ".">> => More(items, i, m) = More(items, i, k) - 1
          /\ items[m] \notin {<<".">>, <<".", ".">>} => More(items, i, m) = More(items, i, k) + 1
          /\ i \in Remains(items, m) <=> More(items, i, m) > 0
    /\ \A i \in Remains(items, m) : i \in Remains(items, k) \/ i = m
    /\ m \in Remains(items, m) <=> items[m] \notin {<<".">>, <<".", ".">>}
    /\ m \in Remains(items, m) => More(items, m, m) = 1

\* That is what it does.
LEMMA KeptMore ==
    ASSUME NEW V, NEW items \in Seq(V), NEW k \in Nat, NEW m \in 1 .. Len(items), m = k + 1
    PROVE  KeptStep(items, k, m)
<1>1. /\ \A i \in NamesOf(items) : i \in Nat
      /\ m \in NamesOf(items) <=> items[m] \notin {<<".">>, <<".", ".">>}
  BY DEF NamesOf
<1>2. \A i, j \in Nat :
        /\ More(items, i, j) \in Int
        /\ \A x \in 1 .. Len(items) : x = j + 1 /\ i <= x =>
              /\ items[x] = <<".">> => More(items, i, x) = More(items, i, j)
              /\ items[x] = <<".", ".">> => More(items, i, x) = More(items, i, j) - 1
              /\ items[x] \notin {<<".">>, <<".", ".">>} =>
                    More(items, i, x) = More(items, i, j) + 1
              /\ Stays(items, i, x) <=> Stays(items, i, j) /\ More(items, i, x) > 0
  BY MoreIs
<1>3. ASSUME NEW i \in NamesOf(items), i <= k
      PROVE  /\ i \in Nat
             /\ More(items, i, k) \in Int
             /\ items[m] = <<".">> => More(items, i, m) = More(items, i, k)
             /\ items[m] = <<".", ".">> => More(items, i, m) = More(items, i, k) - 1
             /\ items[m] \notin {<<".">>, <<".", ".">>} =>
                   More(items, i, m) = More(items, i, k) + 1
             /\ Stays(items, i, m) <=> Stays(items, i, k) /\ More(items, i, m) > 0
  <2>1. i \in Nat /\ i <= m
    BY <1>1, <1>3
  <2> QED
    BY <1>2, <2>1
<1>4. ASSUME NEW i \in Remains(items, k)
      PROVE  /\ i \in NamesOf(items) /\ i \in Nat /\ i <= k /\ More(items, i, k) > 0
             /\ i \in Remains(items, m) <=> More(items, i, m) > 0
  <2>1. i \in NamesOf(items) /\ i <= k /\ Stays(items, i, k)
    BY DEF Remains
  <2>2. k \in i .. k
    BY <1>1, <2>1
  <2>3. More(items, i, k) > 0
    BY <2>1, <2>2 DEF Stays
  <2>4. i <= m
    BY <1>1, <2>1
  <2>5. i \in Remains(items, m) <=> Stays(items, i, m)
    BY <2>1, <2>4 DEF Remains
  <2> QED
    BY <1>1, <1>3, <2>1, <2>3, <2>5
<1>5. ASSUME NEW i \in Remains(items, m), i # m PROVE i \in Remains(items, k)
  <2>1. i \in NamesOf(items) /\ i <= m /\ Stays(items, i, m)
    BY DEF Remains
  <2>2. i \in Nat /\ i <= k
    BY <1>1, <1>5, <2>1
  <2> QED
    BY <1>3, <2>1, <2>2 DEF Remains
<1>6. CASE m \in NamesOf(items)
  <2>1. More(items, m, k) = 0
    <3>1. m .. k = {}
      OBVIOUS
    <3>2. NamesOf(items) \cap m .. k = {} /\ UpsOf(items) \cap m .. k = {}
      BY <3>1
    <3>3. Cardinality({}) = 0
      BY FS_EmptySet
    <3>4. More(items, m, k) = Cardinality({}) - Cardinality({})
      BY <3>2 DEF More
    <3> QED
      BY <3>3, <3>4
  <2>2. More(items, m, m) = 1
    <3>1. m \in Nat /\ m <= m
      OBVIOUS
    <3>2. items[m] \notin {<<".">>, <<".", ".">>} => More(items, m, m) = More(items, m, k) + 1
      BY <1>2, <3>1
    <3> QED
      BY <1>1, <1>6, <2>1, <3>2
  <2>3. \A j \in m .. m : j = m
    OBVIOUS
  <2>4. m \in Remains(items, m)
    BY <1>6, <2>2, <2>3 DEF Remains, Stays
  <2> QED
    BY <1>1, <1>3, <1>4, <1>5, <1>6, <2>2, <2>4 DEF KeptStep
<1>7. CASE m \notin NamesOf(items)
  <2>1. m \notin Remains(items, m)
    BY <1>7 DEF Remains
  <2> QED
    BY <1>1, <1>3, <1>4, <1>5, <1>7, <2>1 DEF KeptStep
<1> QED
  BY <1>6, <1>7

\* One item more: a dot.
LEMMA DotPlaced ==
    ASSUME NEW V, NEW items \in Seq(V), NEW k \in Nat, NEW m \in 1 .. Len(items), m = k + 1,
           NEW w \in Seq(V), NEW S, PlacedAt(items, k, w, S), items[m] = <<".">>
    PROVE  PlacedAt(items, m, w, S)
<1>1. KeptStep(items, k, m)
  BY KeptMore
<1>2. Remains(items, m) = Remains(items, k)
  BY <1>1 DEF KeptStep
<1> QED
  BY <1>1, <1>2 DEF PlacedAt, KeptStep

\* One item more: a double dot.
LEMMA UpPlaced ==
    ASSUME NEW V, NEW items \in Seq(V), NEW k \in Nat, NEW m \in 1 .. Len(items), m = k + 1,
           NEW w \in Seq(V), NEW S, PlacedAt(items, k, w, S), items[m] = <<".", ".">>
    PROVE  PlacedAt(items, m, IF w = <<>> THEN w ELSE Front(w), S)
<1>1. KeptStep(items, k, m)
  BY KeptMore
<1>2. m \notin Remains(items, m)
  BY <1>1 DEF KeptStep
<1>3. CASE w = <<>>
  <2>1. Remains(items, k) = {}
    BY <1>3 DEF PlacedAt
  <2>2. Remains(items, m) = {}
    BY <1>1, <1>2, <2>1 DEF KeptStep
  <2> QED
    BY <1>3, <2>2 DEF PlacedAt
<1>4. CASE w # <<>>
  <2>1. PICK x \in Seq(V) : x = Front(w)
    BY <1>4, FrontIs
  <2>2. PICK n \in Nat : n = Len(w) /\ n # 0
    BY <1>4
  <2>3. Len(x) = n - 1 /\ \A l \in 1 .. n - 1 : x[l] = w[l]
    BY <1>4, <2>1, <2>2, FrontIs
  <2>4. ASSUME NEW l \in 1 .. n
        PROVE  /\ S[l] \in Remains(items, k) /\ w[l] = items[S[l]]
               /\ More(items, S[l], m) = n - l
               /\ S[l] \in Remains(items, m) <=> l < n
    <3>1. S[l] \in Remains(items, k) /\ w[l] = items[S[l]] /\ More(items, S[l], k) = n - l + 1
      BY <2>2 DEF PlacedAt
    <3>2. More(items, S[l], m) = More(items, S[l], k) - 1
      BY <1>1, <3>1 DEF KeptStep
    <3>3. S[l] \in Remains(items, m) <=> More(items, S[l], m) > 0
      BY <1>1, <3>1 DEF KeptStep
    <3> QED
      BY <3>1, <3>2, <3>3
  <2>5. ASSUME NEW l \in 1 .. Len(x)
        PROVE  /\ S[l] \in Remains(items, m) /\ x[l] = items[S[l]]
               /\ More(items, S[l], m) = Len(x) - l + 1
    <3>1. l \in 1 .. n /\ l \in 1 .. n - 1 /\ l < n
      BY <2>3
    <3>2. x[l] = w[l]
      BY <2>3, <3>1
    <3>3. n - l = Len(x) - l + 1
      BY <2>2, <2>3
    <3> QED
      BY <2>4, <3>1, <3>2, <3>3
  <2>6. Ordered(S, Len(x))
    <3>1. Ordered(S, n)
      BY <2>2 DEF PlacedAt
    <3>2. \A l \in 1 .. Len(x) : l \in 1 .. n
      BY <2>3
    <3> QED
      BY <3>1, <3>2 DEF Ordered
  <2>7. ASSUME NEW i \in Remains(items, m) PROVE \E l \in 1 .. Len(x) : S[l] = i
    <3>1. i \in Remains(items, k)
      BY <1>1, <1>2 DEF KeptStep
    <3>2. PICK l \in 1 .. n : S[l] = i
      BY <2>2, <3>1 DEF PlacedAt
    <3>3. l \in 1 .. Len(x)
      BY <2>3, <2>4, <3>2
    <3> QED
      BY <3>2, <3>3
  <2>8. PlacedAt(items, m, x, S)
    BY <2>5, <2>6, <2>7 DEF PlacedAt
  <2> QED
    BY <1>4, <2>1, <2>8
<1> QED
  BY <1>3, <1>4

\* One item more: a name.
LEMMA NamePlaced ==
    ASSUME NEW V, NEW items \in Seq(V), NEW k \in Nat, NEW m \in 1 .. Len(items), m = k + 1,
           NEW w \in Seq(V), NEW S, PlacedAt(items, k, w, S),
           items[m] \notin {<<".">>, <<".", ".">>}
    PROVE  PlacedAt(items, m, Append(w, items[m]),
                    [l \in 1 .. Len(w) + 1 |-> IF l = Len(w) + 1 THEN m ELSE S[l]])
<1>1. KeptStep(items, k, m)
  BY KeptMore
<1>2. PICK n \in Nat : n = Len(w)
  OBVIOUS
<1>3. PICK q \in Nat : q = n + 1
  BY <1>2
<1> DEFINE T == [l \in 1 .. q |-> IF l = q THEN m ELSE S[l]]
<1>4. PICK t \in V : t = items[m]
  OBVIOUS
<1>5. PICK x \in Seq(V) : x = Append(w, t)
  <2>1. Append(w, t) \in Seq(V)
    OBVIOUS
  <2> QED
    BY <2>1
<1>6. Len(x) = q /\ x[q] = t /\ \A l \in 1 .. n : x[l] = w[l]
  BY <1>2, <1>3, <1>5
<1>7. T[q] = m /\ \A l \in 1 .. n : T[l] = S[l]
  BY <1>3
<1>8. \A l \in 1 .. q : l \in 1 .. n \/ l = q
  BY <1>3
<1> HIDE DEF T
<1>9. ASSUME NEW l \in 1 .. n
      PROVE  /\ S[l] \in Remains(items, k) /\ S[l] \in Remains(items, m) /\ w[l] = items[S[l]]
             /\ More(items, S[l], m) = q - l + 1
             /\ S[l] \in Nat /\ S[l] < m
  <2>1. S[l] \in Remains(items, k) /\ w[l] = items[S[l]] /\ More(items, S[l], k) = n - l + 1
    BY <1>2 DEF PlacedAt
  <2>2. /\ S[l] \in Nat /\ S[l] <= k
        /\ More(items, S[l], m) = More(items, S[l], k) + 1
        /\ S[l] \in Remains(items, m) <=> More(items, S[l], m) > 0
    BY <1>1, <2>1 DEF KeptStep
  <2>3. More(items, S[l], m) = q - l + 1
    BY <1>3, <2>1, <2>2
  <2>4. S[l] \in Remains(items, m)
    BY <1>3, <2>2, <2>3
  <2> QED
    BY <2>1, <2>2, <2>3, <2>4
<1>10. m \in Remains(items, m) /\ More(items, m, m) = 1
  BY <1>1 DEF KeptStep
<1>11. ASSUME NEW l \in 1 .. q
       PROVE  /\ T[l] \in Remains(items, m) /\ x[l] = items[T[l]]
              /\ More(items, T[l], m) = q - l + 1
  <2>1. CASE l \in 1 .. n
    BY <1>6, <1>7, <1>9, <2>1
  <2>2. CASE l = q
    <3>1. q - l + 1 = 1
      BY <2>2
    <3> QED
      BY <1>4, <1>6, <1>7, <1>10, <2>2, <3>1
  <2> QED
    BY <1>8, <2>1, <2>2
<1>12. Ordered(T, q)
  <2>1. ASSUME NEW l \in 1 .. q, NEW p \in 1 .. q, l < p PROVE T[l] < T[p]
    <3>1. l \in 1 .. n
      BY <1>3, <2>1
    <3>2. CASE p \in 1 .. n
      <4>1. S[l] < S[p]
        BY <1>2, <2>1, <3>1, <3>2 DEF PlacedAt, Ordered
      <4> QED
        BY <1>7, <3>1, <3>2, <4>1
    <3>3. CASE p = q
      BY <1>7, <1>9, <3>1, <3>3
    <3> QED
      BY <1>8, <3>2, <3>3
  <2> QED
    BY <2>1 DEF Ordered
<1>13. ASSUME NEW i \in Remains(items, m) PROVE \E l \in 1 .. q : T[l] = i
  <2>1. CASE i = m
    <3>1. q \in 1 .. q
      BY <1>3
    <3> QED
      BY <1>7, <2>1, <3>1
  <2>2. CASE i # m
    <3>1. i \in Remains(items, k)
      BY <1>1, <2>2 DEF KeptStep
    <3>2. PICK l \in 1 .. n : S[l] = i
      BY <1>2, <3>1 DEF PlacedAt
    <3>3. l \in 1 .. q
      BY <1>3
    <3> QED
      BY <1>7, <3>2, <3>3
  <2> QED
    BY <2>1, <2>2
<1>14. PlacedAt(items, m, x, T)
  BY <1>6, <1>11, <1>12, <1>13 DEF PlacedAt
<1> QED
  BY <1>2, <1>3, <1>4, <1>5, <1>14 DEF T

\* After k items the kept names are those that holy_get_real_path keeps.
LEMMA AllPlaced ==
    ASSUME NEW V, NEW items \in Seq(V), NEW n \in Nat, n = Len(items), NEW f, Steps(items, n, f),
           NEW k \in 0 .. n
    PROVE  f[k] \in Seq(V) /\ \E S : PlacedAt(items, k, f[k], S)
<1> DEFINE N == {j \in Nat : j <= n => f[j] \in Seq(V) /\ \E S : PlacedAt(items, j, f[j], S)}
<1>1. 0 \in N
  <2>1. <<>> \in Seq(V)
    OBVIOUS
  <2>2. f[0] = <<>>
    BY DEF Steps
  <2>3. Remains(items, 0) = {}
    BY DEF Remains, NamesOf
  <2>4. PlacedAt(items, 0, <<>>, <<>>)
    BY <2>3 DEF PlacedAt, Ordered
  <2> QED
    BY <2>1, <2>2, <2>4
<1>2. ASSUME NEW j \in N \cap Nat PROVE j + 1 \in N
  <2>1. SUFFICES ASSUME j + 1 <= n
                 PROVE  f[j + 1] \in Seq(V) /\ \E S : PlacedAt(items, j + 1, f[j + 1], S)
    OBVIOUS
  <2>2. PICK m \in 1 .. Len(items) : m = j + 1
    <3>1. j + 1 \in 1 .. Len(items)
      BY <2>1
    <3> QED
      BY <3>1
  <2>3. f[j] \in Seq(V) /\ \E S : PlacedAt(items, j, f[j], S)
    BY <2>1
  <2>4. PICK w \in Seq(V) : w = f[j]
    BY <2>3
  <2>5. PICK S : PlacedAt(items, j, w, S)
    BY <2>3, <2>4
  <2>6. f[m] = Resolve(w, items[m])
    BY <2>1, <2>2, <2>4 DEF Steps
  <2>7. PICK t \in V : t = items[m]
    OBVIOUS
  <2>8. CASE t = <<".">>
    <3>1. Resolve(w, t) = w
      BY <2>8 DEF Resolve
    <3>2. PlacedAt(items, m, w, S)
      BY <2>2, <2>5, <2>7, <2>8, DotPlaced
    <3> QED
      BY <2>2, <2>6, <2>7, <3>1, <3>2
  <2>9. CASE t = <<".", ".">>
    <3>1. Resolve(w, t) = IF w = <<>> THEN w ELSE Front(w)
      BY <2>9 DEF Resolve
    <3>2. PlacedAt(items, m, IF w = <<>> THEN w ELSE Front(w), S)
      BY <2>2, <2>5, <2>7, <2>9, UpPlaced
    <3>3. w # <<>> => Front(w) \in Seq(V)
      BY FrontIs
    <3> QED
      BY <2>2, <2>6, <2>7, <3>1, <3>2, <3>3
  <2>10. CASE t \notin {<<".">>, <<".", ".">>}
    <3>1. Resolve(w, t) = Append(w, t)
      BY <2>10 DEF Resolve
    <3>2. \E T : PlacedAt(items, m, Append(w, items[m]), T)
      BY <2>2, <2>5, <2>7, <2>10, NamePlaced
    <3>3. Append(w, t) \in Seq(V)
      OBVIOUS
    <3> QED
      BY <2>2, <2>6, <2>7, <3>1, <3>2, <3>3
  <2> QED
    BY <2>8, <2>9, <2>10
<1> HIDE DEF N
<1>3. Nat \subseteq N
  BY <1>1, <1>2, Induction
<1> QED
  BY <1>3 DEF N

\* What holy_get_real_path keeps of a path is what a file system would follow.
LEMMA FollowedIs ==
    ASSUME NEW V, NEW items \in Seq(V)
    PROVE  /\ Followed(items) = FoldLeft(Resolve, <<>>, items)
           /\ Followed(items) \in Seq(V)
           /\ \A l \in DOMAIN Followed(items) : Followed(items)[l] \notin {<<".">>, <<".", ".">>}
<1>1. PICK n \in Nat : n = Len(items)
  OBVIOUS
<1>2. PICK f : Steps(items, n, f) /\ FoldLeft(Resolve, <<>>, items) = f[n]
  BY <1>1, ResolvedIs
<1>3. f[n] \in Seq(V) /\ \E S : PlacedAt(items, n, f[n], S)
  <2>1. n \in 0 .. n
    OBVIOUS
  <2> QED
    BY <1>1, <1>2, <2>1, AllPlaced
<1>4. PICK w \in Seq(V) : w = f[n]
  BY <1>3
<1>5. PICK S : PlacedAt(items, n, w, S)
  BY <1>3, <1>4
<1>6. PICK p \in Nat : p = Len(w)
  OBVIOUS
<1> DEFINE names == {i \in DOMAIN items : items[i] \notin {<<".">>, <<".", ".">>}}
           ups   == {i \in DOMAIN items : items[i] = <<".", ".">>}
           kept  == {i \in names : \A j \in i .. Len(items) :
                        Cardinality(ups \cap i .. j) < Cardinality(names \cap i .. j)}
           place(k) == CHOOSE i \in kept : Cardinality(kept \cap 1 .. i) = k
<1>7. Followed(items) = [k \in 1 .. Cardinality(kept) |-> items[place(k)]]
  BY DEF Followed
<1>8. names = NamesOf(items) /\ ups = UpsOf(items) /\ names \in SUBSET Nat /\ ups \in SUBSET Nat
  BY DEF NamesOf, UpsOf
<1>9. kept = Remains(items, n)
  <2>1. ASSUME NEW i \in names, NEW j \in i .. n
        PROVE  Cardinality(ups \cap i .. j) < Cardinality(names \cap i .. j)
                  <=> More(items, i, j) > 0
    <3>1. i \in Nat /\ j \in Nat
      BY <1>8
    <3>2. Cardinality(ups \cap i .. j) \in Nat /\ Cardinality(names \cap i .. j) \in Nat
      <4>1. CountsMore(ups, i, j) /\ CountsMore(names, i, j)
        BY <1>8, <3>1, CountMore
      <4> QED
        BY <4>1 DEF CountsMore
    <3>3. More(items, i, j) = Cardinality(names \cap i .. j) - Cardinality(ups \cap i .. j)
      BY <1>8 DEF More
    <3> HIDE DEF names, ups
    <3> QED
      BY <3>2, <3>3
  <2>2. \A i \in names : i <= n
    BY <1>1
  <2>3. kept = {i \in names : \A j \in i .. n :
                   Cardinality(ups \cap i .. j) < Cardinality(names \cap i .. j)}
    BY <1>1
  <2> HIDE DEF names, ups, kept
  <2>4. kept = {i \in names : Stays(items, i, n)}
    BY <2>1, <2>3 DEF Stays
  <2> QED
    BY <1>8, <2>2, <2>4 DEF Remains
<1>10. \A l \in 1 .. p : S[l] \in kept /\ S[l] \in names /\ S[l] \in Nat /\ w[l] = items[S[l]]
  BY <1>5, <1>6, <1>8, <1>9 DEF PlacedAt, Remains
<1>11. Ordered(S, p)
  BY <1>5, <1>6 DEF PlacedAt
<1>12. \A i \in kept : \E l \in 1 .. p : S[l] = i
  BY <1>5, <1>6, <1>9 DEF PlacedAt
<1> HIDE DEF kept
<1>13. Cardinality(kept) = p
  <2>1. kept = {S[l] : l \in 1 .. p}
    BY <1>10, <1>12
  <2> QED
    BY <1>10, <1>11, <2>1, CountPlaces
<1>14. ASSUME NEW q \in 1 .. p PROVE Cardinality(kept \cap 1 .. S[q]) = q
  <2>1. kept \cap 1 .. S[q] = {S[l] : l \in 1 .. q}
    <3>1. ASSUME NEW i \in kept \cap 1 .. S[q] PROVE \E l \in 1 .. q : S[l] = i
      <4>1. PICK l \in 1 .. p : S[l] = i
        BY <1>12
      <4>2. ~(q < l)
        BY <1>10, <1>11, <4>1 DEF Ordered
      <4>3. l \in 1 .. q
        BY <4>2
      <4> QED
        BY <4>1, <4>3
    <3>2. ASSUME NEW l \in 1 .. q PROVE S[l] \in kept \cap 1 .. S[q]
      <4>1. l \in 1 .. p /\ (l = q \/ l < q)
        OBVIOUS
      <4>2. S[l] <= S[q]
        BY <1>10, <1>11, <4>1 DEF Ordered
      <4>3. S[l] # 0
        BY <1>10, <4>1
      <4> QED
        BY <1>10, <4>1, <4>2, <4>3
    <3> QED
      BY <3>1, <3>2
  <2>2. Ordered(S, q) /\ \A l \in 1 .. q : S[l] \in Nat
    BY <1>10, <1>11 DEF Ordered
  <2>3. q \in Nat
    OBVIOUS
  <2> QED
    BY <2>1, <2>2, <2>3, CountPlaces
<1>15. ASSUME NEW q \in 1 .. p PROVE place(q) = S[q]
  <2>1. ASSUME NEW i \in kept, Cardinality(kept \cap 1 .. i) = q PROVE i = S[q]
    <3>1. PICK l \in 1 .. p : S[l] = i
      BY <1>12
    <3> QED
      BY <1>14, <2>1, <3>1
  <2>2. S[q] \in kept /\ Cardinality(kept \cap 1 .. S[q]) = q
    BY <1>10, <1>14
  <2>3. place(q) \in kept /\ Cardinality(kept \cap 1 .. place(q)) = q
    BY <2>2
  <2> QED
    BY <2>1, <2>3
<1> HIDE DEF place
<1>16. Followed(items) = w
  <2>1. Followed(items) = [k \in 1 .. p |-> items[place(k)]]
    BY <1>7, <1>13
  <2>2. \A k \in 1 .. p : items[place(k)] = w[k]
    BY <1>10, <1>15
  <2>3. w = [k \in 1 .. p |-> w[k]]
    BY <1>6
  <2> QED
    BY <2>1, <2>2, <2>3
<1>17. \A l \in DOMAIN w : w[l] \notin {<<".">>, <<".", ".">>}
  <2>1. \A l \in DOMAIN w : l \in 1 .. p
    BY <1>6
  <2> QED
    BY <1>10, <2>1
<1> QED
  BY <1>2, <1>4, <1>16, <1>17

-----------------------------------------------------------------------------
(* The file that handle_static answers with.                               *)

\* Texts with a separator after each.
Ended(texts, c) == FlattenSeq([k \in DOMAIN texts |-> Append(texts[k], c)])

\* One text more in front.
LEMMA EndedCons ==
    ASSUME NEW V, NEW c \in V, NEW x \in Seq(V), NEW t \in Seq(Seq(V))
    PROVE  Ended(Cons(x, t), c) = Append(x, c) \o Ended(t, c) /\ Ended(t, c) \in Seq(V)
<1>1. PICK n \in Nat : n = Len(t)
  OBVIOUS
<1>2. PICK u \in Seq(Seq(V)) : u = Cons(x, t)
  BY ConsIs
<1>3. Len(u) = n + 1 /\ u[1] = x /\ \A i \in 1 .. n : u[i + 1] = t[i]
  <2>1. /\ Len(Cons(x, t)) = Len(t) + 1 /\ Cons(x, t)[1] = x
        /\ \A i \in 1 .. Len(t) : Cons(x, t)[i + 1] = t[i]
    BY ConsIs
  <2> QED
    BY <1>1, <1>2, <2>1
<1> DEFINE g == [k \in DOMAIN t |-> Append(t[k], c)]
           h == [k \in DOMAIN u |-> Append(u[k], c)]
<1>4. g \in Seq(Seq(V))
  <2>1. \A k \in 1 .. n : t[k] \in Seq(V)
    BY <1>1
  <2>2. \A k \in 1 .. n : Append(t[k], c) \in Seq(V)
    BY <2>1, AppendProperties
  <2>3. DOMAIN g = 1 .. n /\ \A i \in 1 .. n : g[i] \in Seq(V)
    BY <1>1, <2>2
  <2>4. g = [i \in DOMAIN g |-> g[i]]
    OBVIOUS
  <2> HIDE DEF g
  <2> QED
    BY <2>3, <2>4, EachIs
<1>5. h \in Seq(Seq(V))
  <2>1. \A k \in 1 .. n + 1 : u[k] \in Seq(V)
    BY <1>3
  <2>2. \A k \in 1 .. n + 1 : Append(u[k], c) \in Seq(V)
    BY <2>1, AppendProperties
  <2>3. PICK m \in Nat : m = n + 1
    OBVIOUS
  <2>4. DOMAIN h = 1 .. m /\ \A i \in 1 .. m : h[i] \in Seq(V)
    BY <1>3, <2>2, <2>3
  <2>5. h = [i \in DOMAIN h |-> h[i]]
    OBVIOUS
  <2> HIDE DEF h
  <2> QED
    BY <2>4, <2>5, EachIs
<1>6. Append(x, c) \in Seq(V)
  BY AppendProperties
<1>7. InFront(h, Append(x, c), g, n)
  BY <1>1, <1>3 DEF InFront
<1>8. Ended(u, c) = FlattenSeq(h) /\ Ended(t, c) = FlattenSeq(g)
  BY DEF Ended
<1> HIDE DEF g, h
<1>9. FlattenSeq(h) = Append(x, c) \o FlattenSeq(g)
  BY <1>4, <1>5, <1>6, <1>7, FlattenCons
<1>10. FlattenSeq(g) \in Seq(V)
  BY <1>4, FlattenType
<1> QED
  BY <1>2, <1>8, <1>9, <1>10

\* No text.
LEMMA EndedNone == ASSUME NEW c PROVE Ended(<<>>, c) = <<>>
<1>1. [k \in DOMAIN <<>> |-> Append(<<>>[k], c)] = <<>>
  OBVIOUS
<1> QED
  BY <1>1, FlattenNone DEF Ended

\* That is the texts with a separator between them and one after the last.
LEMMA EndedIs ==
    ASSUME NEW V, NEW c \in V, NEW texts \in Seq(Plain(V, c)), texts # <<>>
    PROVE  Ended(texts, c) = Join(texts, <<c>>) \o <<c>>
<1> DEFINE U == Plain(V, c)
           S == {t \in Seq(U) : t # <<>> => Ended(t, c) = Join(t, <<c>>) \o <<c>>}
<1>0. U \subseteq Seq(V)
  BY PlainIs
<1> HIDE DEF U
<1>1. <<>> \in S
  <2>1. <<>> \in Seq(U)
    OBVIOUS
  <2> QED
    BY <2>1
<1>2. ASSUME NEW t \in Seq(U) \cap S, NEW x \in U PROVE Cons(x, t) \in S
  <2>1. x \in Seq(V) /\ t \in Seq(Seq(V)) /\ Cons(x, t) \in Seq(U)
    BY <1>0, SeqMonotonic, ConsIs
  <2>2. PICK sep \in Seq(V) : sep = <<c>>
    BY OneIs
  <2>3. Append(x, c) = x \o sep
    BY <2>1, <2>2
  <2>4. Ended(Cons(x, t), c) = Append(x, c) \o Ended(t, c)
    BY <2>1, EndedCons
  <2>5. CASE t = <<>>
    <3>1. Join(Cons(x, t), sep) = x
      BY <2>1, <2>5, JoinOne
    <3>2. Ended(t, c) = <<>>
      BY <2>5, EndedNone
    <3>3. x \o sep \in Seq(V)
      BY <2>1, ConcatType
    <3>4. (x \o sep) \o <<>> = x \o sep
      BY <3>3, ConcatEmptySeq
    <3> QED
      BY <2>1, <2>2, <2>3, <2>4, <3>1, <3>2, <3>4
  <2>6. CASE t # <<>>
    <3>1. PICK y \in Seq(V) : y = Join(t, sep)
      BY <2>1, JoinType
    <3>2. Join(Cons(x, t), sep) = x \o sep \o y
      <4>1. x \in Seq(V) /\ t \in Seq(Seq(V))
        BY <2>1
      <4>2. Join(Cons(x, t), sep) = x \o sep \o Join(t, sep)
        BY <2>6, <4>1, JoinMore, ZenonT(30)
      <4> QED
        BY <3>1, <4>2
    <3>3. Ended(t, c) = y \o sep
      BY <2>2, <2>6, <3>1
    <3>4. (x \o sep) \o (y \o sep) = (x \o sep \o y) \o sep
      <4>1. PICK a \in Seq(V) : a = x \o sep
        BY <2>1, ConcatType
      <4>2. (a \o y) \o sep = a \o (y \o sep)
        BY ConcatAssociative, SMTT(20)
      <4> QED
        BY <4>1, <4>2
    <3> QED
      BY <2>1, <2>2, <2>3, <2>4, <3>2, <3>3, <3>4
  <2> QED
    BY <2>5, <2>6
<1>3. Seq(U) \subseteq S
  <2> HIDE DEF S
  <2> QED
    BY <1>1, <1>2, ConsInduction
<1> QED
  BY <1>3 DEF U

\* How texts with separators between them begin and end.
LEMMA JoinEnds ==
    ASSUME NEW V, NEW c \in V, NEW texts \in Seq(Plain(V, c)), texts # <<>>
    PROVE  /\ Join(texts, <<c>>) \in Seq(V) /\ Join(texts, <<c>>) # <<>>
           /\ Join(texts, <<c>>)[1] # c
           /\ \E z \in Seq(V) : Join(texts, <<c>>) = z \o texts[Len(texts)]
<1> DEFINE U == Plain(V, c)
           S == {t \in Seq(U) : t # <<>> => \E z \in Seq(V) : Join(t, <<c>>) = z \o t[Len(t)]}
<1>0. U \subseteq Seq(V)
  BY PlainIs
<1>01. texts \in Seq(Seq(V))
  BY <1>0, SeqMonotonic
<1>02. PICK sep \in Seq(V) : sep = <<c>>
  BY OneIs
<1>03. Join(texts, <<c>>) \in Seq(V)
  BY <1>01, <1>02, JoinType
<1>04. Join(texts, <<c>>) # <<>> /\ Join(texts, <<c>>)[1] # c
  <2>1. PICK x \in U, r \in Seq(U) : texts = Cons(x, r)
    <3> HIDE DEF U
    <3>1. texts \in Seq(U)
      BY DEF U
    <3> QED
      BY <3>1, HasFirst
  <2>2. x \in Seq(V) /\ x # <<>> /\ \A j \in 1 .. Len(x) : x[j] # c
    BY PlainIs
  <2>3. r \in Seq(Seq(V))
    <3> HIDE DEF U
    <3> QED
      BY <1>0, SeqMonotonic
  <2>4. /\ Join(Cons(x, r), sep) = x \o Separated(r, sep)
        /\ Separated(r, sep) \in Seq(V)
    BY <2>2, <2>3, JoinCons
  <2>5. PICK y \in Seq(V) : y = Separated(r, sep)
    BY <2>4
  <2>6. x \o y # <<>>
    BY <2>2, NotEmpty
  <2>7. \A i \in 1 .. Len(x) : (x \o y)[i] = x[i]
    BY <2>2, ConcatIs
  <2>8. 1 \in 1 .. Len(x)
    BY <2>2
  <2> QED
    BY <1>02, <2>1, <2>2, <2>4, <2>5, <2>6, <2>7, <2>8
<1> HIDE DEF U
<1>1. <<>> \in S
  <2>1. <<>> \in Seq(U)
    OBVIOUS
  <2> QED
    BY <2>1
<1>2. ASSUME NEW t \in Seq(U) \cap S, NEW x \in U PROVE Cons(x, t) \in S
  <2>1. x \in Seq(V) /\ t \in Seq(Seq(V)) /\ Cons(x, t) \in Seq(U)
    BY <1>0, SeqMonotonic, ConsIs
  <2>2. PICK n \in Nat : n = Len(t)
    OBVIOUS
  <2>3. PICK u \in Seq(Seq(V)) : u = Cons(x, t)
    BY <2>1, ConsIs
  <2>4. Len(u) = n + 1 /\ u[1] = x /\ \A i \in 1 .. n : u[i + 1] = t[i]
    <3>1. /\ Len(Cons(x, t)) = Len(t) + 1 /\ Cons(x, t)[1] = x
          /\ \A i \in 1 .. Len(t) : Cons(x, t)[i + 1] = t[i]
      BY <2>1, ConsIs
    <3> QED
      BY <2>2, <2>3, <3>1
  <2>5. CASE t = <<>>
    <3>1. Join(u, sep) = x
      BY <2>1, <2>3, <2>5, JoinOne
    <3>2. u[Len(u)] = x
      BY <2>2, <2>4, <2>5
    <3>3. <<>> \o x = x /\ <<>> \in Seq(V)
      BY <2>1, ConcatEmptySeq, EmptySeq
    <3> QED
      BY <1>02, <2>1, <2>3, <3>1, <3>2, <3>3
  <2>6. CASE t # <<>>
    <3>1. PICK z \in Seq(V) : Join(t, sep) = z \o t[n]
      BY <1>02, <2>2, <2>6
    <3>2. n \in 1 .. n
      BY <2>2, <2>6
    <3>3. PICK y \in Seq(V) : y = t[n]
      BY <2>1, <2>2, <3>2
    <3>4. u[Len(u)] = y
      BY <2>4, <3>2, <3>3
    <3>5. Join(u, sep) = x \o sep \o Join(t, sep)
      <4>1. x \in Seq(V) /\ t \in Seq(Seq(V))
        BY <2>1
      <4>2. Join(Cons(x, t), sep) = x \o sep \o Join(t, sep)
        BY <2>6, <4>1, JoinMore, ZenonT(30)
      <4> QED
        BY <2>3, <4>2
    <3>6. PICK a \in Seq(V) : a = x \o sep
      BY <2>1, ConcatType
    <3>7. (a \o z) \o y = a \o (z \o y)
      BY ConcatAssociative, SMTT(20)
    <3>8. a \o z \in Seq(V)
      BY ConcatType
    <3> QED
      BY <1>02, <2>1, <2>3, <3>1, <3>3, <3>4, <3>5, <3>6, <3>7, <3>8
  <2> QED
    BY <2>5, <2>6
<1>3. Seq(U) \subseteq S
  <2> HIDE DEF S
  <2> QED
    BY <1>1, <1>2, ConsInduction
<1>4. texts \in Seq(U)
  BY DEF U
<1> QED
  BY <1>03, <1>04, <1>3, <1>4

\* What holy_get_real_path keeps of a path.
KeptOf(path) == FoldLeft(Resolve, <<>>, Items(path, "/"))

\* Names, and those that a file system would follow.
LEMMA KeptIs ==
    ASSUME NEW V, "/" \in V, NEW path \in Seq(V)
    PROVE  KeptOf(path) \in Seq(Plain(V, "/")) /\ KeptOf(path) = Followed(Items(path, "/"))
<1> DEFINE U == Plain(V, "/")
<1>1. PICK items \in Seq(U) : items = Items(path, "/")
  BY ItemsPlain
<1> HIDE DEF U
<1>2. Followed(items) = FoldLeft(Resolve, <<>>, items) /\ Followed(items) \in Seq(U)
  BY FollowedIs
<1> QED
  BY <1>1, <1>2 DEF KeptOf, U

\* A relative path, made canonical: what is kept of it, with a slash at its end or without.
LEMMA RealPathIs ==
    ASSUME NEW V, "/" \in V, NEW path \in Seq(V), ~StartsWith(path, <<"/">>)
    PROVE  /\ KeptOf(path) = <<>> => RealPath(path) = <<>>
           /\ KeptOf(path) # <<>> =>
                 RealPath(path) \in {Join(KeptOf(path), <<"/">>),
                                     Join(KeptOf(path), <<"/">>) \o <<"/">>}
<1> DEFINE kept == KeptOf(path)
           whole == <<>> \o FlattenSeq([k \in DOMAIN kept |-> Append(kept[k], "/")])
<1>1. RealPath(path) = IF path = <<>> \/ Last(path) = "/" \/ Len(whole) <= 1 THEN whole
                       ELSE Front(whole)
  BY DEF RealPath, KeptOf
<1>2. PICK c \in V : c = "/"
  OBVIOUS
<1>3. kept \in Seq(Plain(V, c))
  BY <1>2, KeptIs
<1>4. whole = <<>> \o Ended(kept, c)
  BY <1>2 DEF Ended
<1> HIDE DEF kept, whole
<1>5. CASE kept = <<>>
  <2>1. Ended(kept, c) = <<>>
    BY <1>5, EndedNone
  <2>2. <<>> \in Seq(V)
    OBVIOUS
  <2>3. whole = <<>>
    BY <1>4, <2>1, <2>2, ConcatEmptySeq
  <2>4. Len(whole) <= 1
    BY <2>3
  <2> QED
    BY <1>1, <1>5, <2>3, <2>4 DEF kept
<1>6. CASE kept # <<>>
  <2>1. Join(kept, <<c>>) \in Seq(V)
    BY <1>3, <1>6, JoinEnds
  <2>2. PICK j \in Seq(V), s \in Seq(V) : j = Join(kept, <<c>>) /\ s = <<c>>
    BY <2>1, OneIs
  <2>3. Ended(kept, c) = j \o s /\ j \o s \in Seq(V)
    BY <1>3, <1>6, <2>2, EndedIs, ConcatType
  <2>4. whole = j \o s
    BY <1>4, <2>3, ConcatEmptySeq
  <2>5. Front(whole) = j
    <3>1. Slice(j \o s, 0, Len(j)) = j
      BY SlicesOfConcat
    <3>2. PICK n \in Nat : n = Len(j)
      OBVIOUS
    <3>3. Len(s) = 1 /\ Len(j \o s) = Len(j) + Len(s)
      BY <2>2, ConcatIs
    <3>4. Len(whole) - 1 = n
      BY <2>4, <3>2, <3>3
    <3> QED
      BY <2>4, <3>1, <3>2, <3>4 DEF Front, Slice
  <2> QED
    BY <1>1, <1>2, <1>6, <2>2, <2>4, <2>5 DEF kept
<1> QED
  BY <1>5, <1>6 DEF kept

\* That joined to another path.
LEMMA JoinedPathIs ==
    ASSUME NEW V, "/" \in V, NEW path \in Seq(V), NEW relative \in Seq(V),
           ~StartsWith(relative, <<"/">>)
    PROVE  JoinPath(path, RealPath(relative)) =
              IF KeptOf(relative) = <<>> THEN TrimRight(path, "/")
              ELSE TrimRight(path, "/") \o <<"/">> \o Join(KeptOf(relative), <<"/">>)
<1>1. PICK c \in V : c = "/"
  OBVIOUS
<1>2. PICK s \in Seq(V) : s = <<c>>
  BY OneIs
<1>3. PICK root \in Seq(V) : root = TrimRight(path, c)
  BY TrimRightIs
<1>4. TrimRight(root, c) = root
  BY <1>3, TrimRightIs
<1>5. PICK kept \in Seq(Plain(V, c)) : kept = KeptOf(relative)
  BY <1>1, KeptIs
<1>6. PICK real : real = RealPath(relative)
  OBVIOUS
<1>7. /\ kept = <<>> => real = <<>>
      /\ kept # <<>> => real \in {Join(kept, s), Join(kept, s) \o s}
  BY <1>1, <1>2, <1>5, <1>6, RealPathIs
<1>8. JoinPath(path, real) = IF StartsWith(real, s) THEN real ELSE TrimRight(root \o s \o real, c)
  BY <1>1, <1>2, <1>3 DEF JoinPath
<1>9. CASE kept = <<>>
  <2>1. ~StartsWith(<<>>, s)
    <3>1. <<>> \in Seq(V)
      OBVIOUS
    <3> QED
      BY <1>2, <3>1, StartsWithOne
  <2>2. TrimRight(root \o s, c) = root
    BY <1>2, <1>4, TrimRightMore
  <2>3. (root \o s) \o <<>> = root \o s
    <3>1. root \o s \in Seq(V)
      BY ConcatType
    <3> QED
      BY <3>1, ConcatEmptySeq
  <2> QED
    BY <1>1, <1>3, <1>5, <1>6, <1>7, <1>8, <1>9, <2>1, <2>2, <2>3
<1>10. CASE kept # <<>>
  <2>1. /\ Join(kept, <<c>>) \in Seq(V) /\ Join(kept, <<c>>) # <<>>
        /\ Join(kept, <<c>>)[1] # c
        /\ \E z \in Seq(V) : Join(kept, <<c>>) = z \o kept[Len(kept)]
    BY <1>10, JoinEnds
  <2>2. PICK j \in Seq(V) : j = Join(kept, s)
    BY <1>2, <2>1
  <2>3. j # <<>> /\ j[1] # c /\ \E z \in Seq(V) : j = z \o kept[Len(kept)]
    BY <1>2, <2>1, <2>2
  <2>4. PICK n \in Nat \ {0} : n = Len(j)
    BY <2>3, EmptySeq
  <2>5. j[n] # c
    <3>1. PICK z \in Seq(V) : j = z \o kept[Len(kept)]
      BY <2>3
    <3>2. PICK y \in Plain(V, c) : y = kept[Len(kept)]
      BY <1>10
    <3>3. y \in Seq(V) /\ y # <<>> /\ \A i \in 1 .. Len(y) : y[i] # c
      BY PlainIs
    <3>4. PICK m \in Nat \ {0} : m = Len(y)
      BY <3>3, EmptySeq
    <3>5. /\ Len(z \o y) = Len(z) + Len(y)
          /\ \A i \in 1 .. Len(y) : (z \o y)[Len(z) + i] = y[i]
      BY <3>3, ConcatIs
    <3>6. m \in 1 .. m
      OBVIOUS
    <3>7. n = Len(z) + m
      BY <2>4, <3>1, <3>2, <3>4, <3>5
    <3> QED
      BY <3>1, <3>2, <3>3, <3>4, <3>5, <3>6, <3>7
  <2>6. PICK w \in Seq(V) : w = (root \o s) \o j
    BY ConcatType
  <2>7. TrimRight(w, c) = w
    <3>1. PICK a \in Seq(V) : a = root \o s
      BY ConcatType
    <3>2. PICK k \in Nat : k = Len(a)
      OBVIOUS
    <3>3. /\ Len(a \o j) = Len(a) + Len(j)
          /\ \A i \in 1 .. Len(j) : (a \o j)[Len(a) + i] = j[i]
      BY ConcatIs
    <3>4. n \in 1 .. Len(j)
      BY <2>4
    <3>5. Len(w) = k + n /\ w[k + n] = j[n]
      BY <2>4, <2>6, <3>1, <3>2, <3>3, <3>4
    <3>6. w # <<>> /\ w[Len(w)] # c
      BY <2>4, <2>5, <3>2, <3>5
    <3> QED
      BY <3>6, TrimRightNone
  <2>8. CASE real = j
    <3>1. ~StartsWith(j, s)
      BY <1>2, <2>3, StartsWithOne
    <3> QED
      BY <1>1, <1>2, <1>3, <1>5, <1>6, <1>8, <1>10, <2>2, <2>6, <2>7, <2>8, <3>1
  <2>9. CASE real = j \o s
    <3>1. PICK b \in Seq(V) : b = j \o s
      BY ConcatType
    <3>2. b # <<>> /\ b[1] # c
      <4>1. j \o s # <<>>
        BY <2>3, NotEmpty
      <4>2. \A i \in 1 .. Len(j) : (j \o s)[i] = j[i]
        BY ConcatIs
      <4>3. 1 \in 1 .. Len(j)
        BY <2>4
      <4> QED
        BY <2>3, <3>1, <4>1, <4>2, <4>3
    <3>3. ~StartsWith(b, s)
      BY <1>2, <3>2, StartsWithOne
    <3>4. (root \o s) \o (j \o s) = w \o s
      <4>1. PICK a \in Seq(V) : a = root \o s
        BY ConcatType
      <4>2. (a \o j) \o s = a \o (j \o s)
        BY ConcatAssociative, SMTT(20)
      <4> QED
        BY <2>6, <4>1, <4>2
    <3>5. TrimRight(w \o s, c) = w
      BY <1>2, <2>7, TrimRightMore
    <3> QED
      BY <1>1, <1>2, <1>3, <1>5, <1>6, <1>8, <1>10, <2>2, <2>6, <2>9, <3>1, <3>3, <3>4, <3>5
  <2> QED
    BY <1>7, <1>10, <2>2, <2>8, <2>9
<1> QED
  BY <1>9, <1>10

\* What handle_static makes relative.
Relative(rest) == IF StartsWith(rest, <<"/">>) THEN Tail(rest) ELSE rest

\* A text that begins with a character twice.
LEMMA StartsWithTwo ==
    ASSUME NEW V, NEW s \in Seq(V), NEW c \in V
    PROVE  StartsWith(s, <<c, c>>) <=> Len(s) >= 2 /\ s[1] = c /\ s[2] = c
<1>1. PICK p \in Seq(V) : p = <<c, c>>
  <2>1. <<c, c>> \in Seq(V)
    OBVIOUS
  <2> QED
    BY <2>1
<1>2. Len(p) = 2 /\ p[1] = c /\ p[2] = c
  BY <1>1
<1>3. CASE Len(s) >= 2
  <2>1. Len(p) <= Len(s)
    BY <1>2, <1>3
  <2>2. StartsWith(s, p) <=> \A i \in 1 .. Len(p) : s[i] = p[i]
    BY <2>1, StartsWithIs
  <2>3. \A i \in 1 .. 2 : i = 1 \/ i = 2
    OBVIOUS
  <2> QED
    BY <1>1, <1>2, <1>3, <2>2, <2>3
<1>4. CASE ~(Len(s) >= 2)
  <2>1. ~(Len(p) <= Len(s))
    BY <1>2, <1>4
  <2>2. IsPrefix(p, s) => Len(p) <= Len(s)
    BY DEF IsPrefix
  <2> QED
    BY <1>1, <1>4, <2>1, <2>2 DEF StartsWith
<1> QED
  BY <1>3, <1>4

\* One slash less, with the same items; the path is absolute if there were two.
LEMMA RelativeIs ==
    ASSUME NEW V, "/" \in V, NEW rest \in Seq(V)
    PROVE  /\ Relative(rest) \in Seq(V)
           /\ Items(Relative(rest), "/") = Items(rest, "/")
           /\ StartsWith(Relative(rest), <<"/">>) <=> StartsWith(rest, <<"/", "/">>)
<1>1. PICK c \in V : c = "/"
  OBVIOUS
<1>2. StartsWith(rest, <<c>>) <=> rest # <<>> /\ rest[1] = c
  BY StartsWithOne
<1>3. StartsWith(rest, <<c, c>>) <=> Len(rest) >= 2 /\ rest[1] = c /\ rest[2] = c
  BY StartsWithTwo
<1>4. CASE ~StartsWith(rest, <<c>>)
  <2>1. Relative(rest) = rest
    BY <1>1, <1>4 DEF Relative
  <2>2. ~StartsWith(rest, <<c, c>>)
    <3>1. Len(rest) >= 2 => rest # <<>>
      OBVIOUS
    <3> QED
      BY <1>2, <1>3, <1>4, <3>1
  <2> QED
    BY <1>1, <1>4, <2>1, <2>2
<1>5. CASE StartsWith(rest, <<c>>)
  <2>1. PICK x \in V, r \in Seq(V) : rest = Cons(x, r)
    BY <1>2, <1>5, HasFirst
  <2>2. /\ Len(Cons(x, r)) = Len(r) + 1 /\ Cons(x, r)[1] = x
        /\ \A i \in 1 .. Len(r) : Cons(x, r)[i + 1] = r[i]
    BY ConsIs
  <2>3. x = c
    BY <1>2, <1>5, <2>1, <2>2
  <2>4. Tail(rest) = r
    <3>1. /\ Tail(rest) \in Seq(V) /\ Len(Tail(rest)) = Len(rest) - 1
          /\ \A i \in 1 .. Len(Tail(rest)) : Tail(rest)[i] = rest[i + 1]
      BY <1>2, <1>5, HeadTailProperties
    <3>2. PICK t \in Seq(V) : t = Tail(rest)
      BY <3>1
    <3>3. PICK n \in Nat : n = Len(r)
      OBVIOUS
    <3>4. Len(t) = n /\ \A i \in 1 .. n : t[i] = r[i]
      BY <2>1, <2>2, <3>1, <3>2, <3>3
    <3>5. t = r
      BY <3>3, <3>4
    <3> QED
      BY <3>2, <3>5
  <2>5. Relative(rest) = r
    BY <1>1, <1>5, <2>4 DEF Relative
  <2>6. Items(rest, c) = Items(r, c)
    <3>1. Items(<<c>> \o r, c) = Items(r, c)
      BY ItemsSkip
    <3> QED
      BY <2>1, <2>3, <3>1 DEF Cons
  <2>7. StartsWith(r, <<c>>) <=> StartsWith(rest, <<c, c>>)
    <3>1. StartsWith(r, <<c>>) <=> r # <<>> /\ r[1] = c
      BY StartsWithOne
    <3>2. PICK n \in Nat : n = Len(r)
      OBVIOUS
    <3>3. Len(rest) = n + 1 /\ rest[1] = c /\ (n >= 1 => rest[2] = r[1])
      <4>1. n >= 1 => rest[1 + 1] = r[1]
        BY <2>1, <2>2, <3>2
      <4> QED
        BY <2>1, <2>2, <2>3, <3>2, <4>1
    <3>4. r # <<>> <=> n >= 1
      BY <3>2, EmptySeq
    <3> QED
      BY <1>3, <3>1, <3>2, <3>3, <3>4
  <2> QED
    BY <1>1, <2>5, <2>6, <2>7
<1> QED
  BY <1>4, <1>5

\* What StaticResolves says of a file but for its type.
IsBelow(f, root, rest) ==
    LET below == From(f, Len(root) + 1)
    IN  /\ StartsWith(f, root)
        /\ below = <<>> \/ StartsWith(below, <<"/">>)
        /\ Items(below, "/") = Followed(Items(rest, "/"))

\* A file without a slash at its end ends with the last of its names below root.
LastEnds(V, f, root) ==
    LET names == Items(From(f, Len(root) + 1), "/")
    IN  /\ names \in Seq(Seq(V))
        /\ names # <<>> /\ Last(f) # "/" => \E z \in Seq(V) : f = z \o Last(names)

\* A path that is joined to another, once canonical, is below it.
LEMMA FileBelow ==
    ASSUME NEW V, "/" \in V, NEW path \in Seq(V), NEW rest \in Seq(V),
           ~StartsWith(rest, <<"/", "/">>)
    PROVE  /\ IsBelow(JoinPath(path, RealPath(Relative(rest))), TrimRight(path, "/"), rest)
           /\ LastEnds(V, JoinPath(path, RealPath(Relative(rest))), TrimRight(path, "/"))
<1>0. PICK f, root : f = JoinPath(path, RealPath(Relative(rest))) /\ root = TrimRight(path, "/")
  OBVIOUS
<1>1. PICK c \in V : c = "/"
  OBVIOUS
<1>2. PICK s \in Seq(V) : s = <<c>>
  BY OneIs
<1>3. PICK relative \in Seq(V) : relative = Relative(rest)
  BY RelativeIs
<1>4. ~StartsWith(relative, s) /\ Items(relative, c) = Items(rest, c)
  <2>1. StartsWith(relative, <<"/">>) <=> StartsWith(rest, <<"/", "/">>)
    BY <1>3, RelativeIs
  <2> QED
    BY <1>1, <1>2, <1>3, <2>1, RelativeIs
<1>5. PICK kept \in Seq(Plain(V, c)) : kept = KeptOf(relative)
  BY <1>1, KeptIs
<1>6. kept = Followed(Items(relative, c))
  BY <1>1, <1>5, KeptIs
<1>7. root \in Seq(V)
  BY <1>0, TrimRightIs
<1>8. JoinPath(path, RealPath(relative)) =
         IF kept = <<>> THEN root ELSE root \o s \o Join(kept, s)
  <2>1. ~StartsWith(relative, <<"/">>)
    BY <1>1, <1>2, <1>4
  <2>2. JoinPath(path, RealPath(relative)) =
              IF KeptOf(relative) = <<>> THEN TrimRight(path, "/")
              ELSE TrimRight(path, "/") \o <<"/">> \o Join(KeptOf(relative), <<"/">>)
    BY <2>1, JoinedPathIs
  <2> QED
    BY <1>0, <1>1, <1>2, <1>5, <2>2
<1>9. f = IF kept = <<>> THEN root ELSE root \o s \o Join(kept, s)
  BY <1>0, <1>3, <1>8
<1> DEFINE below == From(f, Len(root) + 1)
<1>10. Plain(V, c) \subseteq Seq(V)
  BY PlainIs
<1>11. kept \in Seq(Seq(V))
  BY <1>10, SeqMonotonic
<1>12. CASE kept = <<>>
  <2>1. root \o <<>> = root /\ <<>> \in Seq(V)
    BY <1>7, ConcatEmptySeq, EmptySeq
  <2>2. StartsWith(root \o <<>>, root) /\ From(root \o <<>>, Len(root) + 1) = <<>>
    BY <1>7, <2>1, AfterPrefix
  <2>3. StartsWith(f, root) /\ below = <<>>
    BY <1>9, <1>12, <2>1, <2>2
  <2>4. Items(below, c) = <<>>
    BY <2>3, ItemsNone
  <2> HIDE DEF below
  <2>5. Items(below, "/") = <<>> /\ Followed(Items(rest, "/")) = <<>>
    BY <1>1, <1>4, <1>6, <1>12, <2>4
  <2>6. IsBelow(f, root, rest)
    BY <2>3, <2>5 DEF IsBelow, below
  <2> QED
    BY <1>0, <2>1, <2>5, <2>6, EmptySeq DEF below, LastEnds
<1>13. CASE kept # <<>>
  <2>1. /\ Join(kept, <<c>>) \in Seq(V) /\ Join(kept, <<c>>) # <<>>
        /\ \E z \in Seq(V) : Join(kept, <<c>>) = z \o kept[Len(kept)]
    BY <1>13, JoinEnds
  <2>2. PICK j \in Seq(V) : j = Join(kept, s)
    BY <1>2, <2>1
  <2>3. PICK y \in Seq(V) : y = s \o j
    BY ConcatType
  <2>4. f = root \o y
    <3>1. (root \o s) \o j = root \o (s \o j)
      BY <1>7, ConcatAssociative, SMTT(20)
    <3> QED
      BY <1>9, <1>13, <2>2, <2>3, <3>1
  <2>5. StartsWith(root \o y, root) /\ From(root \o y, Len(root) + 1) = y
    BY <1>7, AfterPrefix
  <2>6. StartsWith(f, root) /\ below = y
    BY <2>4, <2>5
  <2>7. StartsWith(y, <<c>>)
    <3>1. y = Cons(c, j)
      BY <1>2, <2>3 DEF Cons
    <3>2. Cons(c, j) # <<>> /\ Cons(c, j)[1] = c
      BY ConsIs
    <3> QED
      BY <3>1, <3>2, StartsWithOne
  <2>8. Items(y, c) = kept
    <3>1. Items(<<c>> \o j, c) = Items(j, c)
      BY ItemsSkip
    <3>2. Items(Join(kept, <<c>>), c) = kept
      BY ItemsOfJoin
    <3> QED
      BY <1>2, <2>2, <2>3, <3>1, <3>2
  <2> HIDE DEF below
  <2>9. Items(below, "/") = kept /\ Followed(Items(rest, "/")) = kept
    BY <1>1, <1>4, <1>6, <2>6, <2>8
  <2>10. IsBelow(f, root, rest)
    BY <1>1, <2>6, <2>7, <2>9 DEF IsBelow, below
  <2>11. \E z \in Seq(V) : f = z \o Last(kept)
    <3>1. PICK z \in Seq(V) : j = z \o kept[Len(kept)]
      BY <1>2, <2>1, <2>2
    <3>2. PICK last \in Seq(V) : last = kept[Len(kept)]
      BY <1>11, <1>13
    <3>3. PICK a \in Seq(V) : a = root \o s
      BY <1>7, ConcatType
    <3>4. (a \o z) \o last = a \o (z \o last)
      BY ConcatAssociative, SMTT(20)
    <3>5. a \o z \in Seq(V)
      BY ConcatType
    <3>6. f = a \o (z \o last)
      BY <1>9, <1>13, <2>2, <3>1, <3>2, <3>3
    <3> QED
      BY <3>2, <3>4, <3>5, <3>6 DEF Last
  <2> QED
    BY <1>0, <1>11, <2>9, <2>10, <2>11 DEF below, LastEnds
<1> QED
  BY <1>12, <1>13

\* An absolute path, made canonical.
LEMMA AbsolutePathIs ==
    ASSUME NEW V, "/" \in V, NEW path \in Seq(V), StartsWith(path, <<"/">>),
           NEW s, s = <<"/">>, NEW kept, kept = KeptOf(path)
    PROVE  /\ kept = <<>> => RealPath(path) = s
           /\ kept # <<>> => RealPath(path) \in {s \o Join(kept, s), s \o (Join(kept, s) \o s)}
<1>0. PICK c \in V : c = "/"
  OBVIOUS
<1>00. s \in Seq(V) /\ s = <<c>>
  BY <1>0, OneIs
<1> DEFINE whole == s \o FlattenSeq([k \in DOMAIN kept |-> Append(kept[k], "/")])
<1>1. RealPath(path) = IF path = <<>> \/ Last(path) = "/" \/ Len(whole) <= 1 THEN whole
                       ELSE Front(whole)
  BY DEF RealPath, KeptOf
<1>2. kept \in Seq(Plain(V, c))
  BY <1>0, KeptIs
<1>3. whole = s \o Ended(kept, c)
  BY <1>0 DEF Ended
<1> HIDE DEF whole
<1>4. CASE kept = <<>>
  <2>1. Ended(kept, c) = <<>>
    BY <1>4, EndedNone
  <2>2. whole = s
    BY <1>00, <1>3, <2>1, ConcatEmptySeq
  <2>3. Len(whole) <= 1
    BY <1>00, <2>2
  <2> QED
    BY <1>1, <1>4, <2>2, <2>3
<1>5. CASE kept # <<>>
  <2>1. Join(kept, <<c>>) \in Seq(V)
    BY <1>2, <1>5, JoinEnds
  <2>2. PICK j \in Seq(V) : j = Join(kept, s)
    BY <1>00, <2>1
  <2>3. Ended(kept, c) = j \o s /\ j \o s \in Seq(V)
    BY <1>00, <1>2, <1>5, <2>2, EndedIs, ConcatType
  <2>4. PICK a \in Seq(V) : a = s \o j
    BY <1>00, ConcatType
  <2>5. whole = a \o s
    <3>1. (s \o j) \o s = s \o (j \o s)
      BY <1>00, ConcatAssociative, SMTT(20)
    <3> QED
      BY <1>3, <2>3, <2>4, <3>1
  <2>6. Front(whole) = a
    <3>1. Slice(a \o s, 0, Len(a)) = a
      BY <1>00, SlicesOfConcat
    <3>2. PICK n \in Nat : n = Len(a)
      OBVIOUS
    <3>3. Len(s) = 1 /\ Len(a \o s) = Len(a) + Len(s)
      BY <1>00, ConcatIs
    <3>4. Len(whole) - 1 = n
      BY <2>5, <3>2, <3>3
    <3> QED
      BY <2>5, <3>1, <3>2, <3>4 DEF Front, Slice
  <2>7. whole = s \o (j \o s)
    BY <1>3, <2>3
  <2> QED
    BY <1>1, <1>5, <2>2, <2>4, <2>6, <2>7
<1> QED
  BY <1>4, <1>5

\* The items of texts with a separator after each.
LEMMA ItemsOfEnded ==
    ASSUME NEW V, NEW c \in V, NEW texts \in Seq(Plain(V, c))
    PROVE  Items(Ended(texts, c), c) = texts
<1> DEFINE U == Plain(V, c)
           S == {t \in Seq(U) : Items(Ended(t, c), c) = t}
<1>0. U \subseteq Seq(V)
  BY PlainIs
<1>1. <<>> \in S
  <2>1. <<>> \in Seq(U)
    OBVIOUS
  <2> QED
    BY <2>1, EndedNone, ItemsNone
<1>2. ASSUME NEW t \in Seq(U) \cap S, NEW x \in U PROVE Cons(x, t) \in S
  <2>1. x \in Seq(V) /\ x # <<>> /\ \A j \in 1 .. Len(x) : x[j] # c
    BY PlainIs
  <2>2. t \in Seq(Seq(V)) /\ Cons(x, t) \in Seq(U)
    <3> HIDE DEF U
    <3> QED
      BY <1>0, SeqMonotonic, ConsIs
  <2>3. PICK y \in Seq(V) : y = Ended(t, c)
    BY <2>1, <2>2, EndedCons
  <2>4. Ended(Cons(x, t), c) = x \o <<c>> \o y
    <3>1. Ended(Cons(x, t), c) = Append(x, c) \o Ended(t, c)
      BY <2>1, <2>2, EndedCons
    <3>2. Append(x, c) = x \o <<c>>
      BY <2>1
    <3> QED
      BY <2>3, <3>1, <3>2
  <2>5. Items(x \o <<c>> \o y, c) = Cons(x, Items(y, c))
    BY <2>1, ItemsCut
  <2>6. Items(y, c) = t
    BY <2>3
  <2> QED
    BY <2>2, <2>4, <2>5, <2>6
<1>3. Seq(U) \subseteq S
  <2> HIDE DEF S, U
  <2> QED
    BY <1>1, <1>2, ConsInduction
<1> QED
  BY <1>3

\* An absolute path is not joined: the file is what it leads to from the root.
LEMMA FileAbsolute ==
    ASSUME NEW V, "/" \in V, NEW path \in Seq(V), NEW rest \in Seq(V),
           StartsWith(rest, <<"/", "/">>)
    PROVE  /\ IsBelow(JoinPath(path, RealPath(Relative(rest))), <<>>, rest)
           /\ LastEnds(V, JoinPath(path, RealPath(Relative(rest))), <<>>)
<1>1. PICK c \in V : c = "/"
  OBVIOUS
<1>2. PICK s \in Seq(V) : s = <<c>>
  BY OneIs
<1>3. PICK relative \in Seq(V) : relative = Relative(rest)
  BY RelativeIs
<1>4. StartsWith(relative, s) /\ Items(relative, c) = Items(rest, c)
  <2>1. StartsWith(relative, <<"/">>) <=> StartsWith(rest, <<"/", "/">>)
    BY <1>3, RelativeIs
  <2> QED
    BY <1>1, <1>2, <1>3, <2>1, RelativeIs
<1>5. PICK kept \in Seq(Plain(V, c)) : kept = KeptOf(relative)
  BY <1>1, KeptIs
<1>6. kept = Followed(Items(rest, c))
  BY <1>1, <1>4, <1>5, KeptIs
<1>7. PICK real : real = RealPath(relative)
  OBVIOUS
<1>8. /\ kept = <<>> => real = s
      /\ kept # <<>> => real \in {s \o Join(kept, s), s \o (Join(kept, s) \o s)}
  <2>1. StartsWith(relative, <<"/">>) /\ s = <<"/">>
    BY <1>1, <1>2, <1>4
  <2> QED
    BY <1>5, <1>7, <2>1, AbsolutePathIs
<1>9. kept \in Seq(Seq(V))
  <2>1. Plain(V, c) \subseteq Seq(V)
    BY PlainIs
  <2> QED
    BY <2>1, SeqMonotonic
<1>10. ASSUME NEW y \in Seq(V), real = s \o y, Items(y, c) = kept
       PROVE  /\ JoinPath(path, real) = real
              /\ IsBelow(real, <<>>, rest)
              /\ real \in Seq(V) /\ Items(From(real, 1), c) = kept
  <2>1. real \in Seq(V)
    BY <1>10, ConcatType
  <2>2. StartsWith(real, s)
    BY <1>10, AfterPrefix
  <2>3. <<>> \o real = real /\ <<>> \in Seq(V) /\ Len(<<>>) = 0
    BY <2>1, ConcatEmptySeq, EmptySeq
  <2>4. StartsWith(<<>> \o real, <<>>) /\ From(<<>> \o real, Len(<<>>) + 1) = real
    BY <2>1, <2>3, AfterPrefix
  <2>5. StartsWith(real, <<>>) /\ From(real, 1) = real /\ From(real, Len(<<>>) + 1) = real
    BY <2>3, <2>4
  <2>6. Items(real, c) = kept
    BY <1>2, <1>10, ItemsSkip
  <2> QED
    BY <1>1, <1>2, <1>6, <2>1, <2>2, <2>5, <2>6 DEF IsBelow, JoinPath
<1>11. CASE kept = <<>>
  <2>1. PICK y \in Seq(V) : y = <<>> /\ s \o y = s
    BY ConcatEmptySeq, EmptySeq
  <2>2. Items(y, c) = kept
    BY <1>11, <2>1, ItemsNone
  <2>3. real = s \o y
    BY <1>8, <1>11, <2>1
  <2>4. /\ JoinPath(path, real) = real /\ IsBelow(real, <<>>, rest)
        /\ Items(From(real, 1), c) = kept
    BY <1>10, <2>2, <2>3
  <2>5. Len(<<>>) + 1 = 1
    OBVIOUS
  <2>6. LastEnds(V, real, <<>>)
    BY <1>1, <1>9, <1>11, <2>4, <2>5 DEF LastEnds
  <2> QED
    BY <1>3, <1>7, <2>4, <2>6
<1>12. CASE kept # <<>>
  <2>1. /\ Join(kept, <<c>>) \in Seq(V)
        /\ \E z \in Seq(V) : Join(kept, <<c>>) = z \o kept[Len(kept)]
    BY <1>12, JoinEnds
  <2>2. PICK j \in Seq(V) : j = Join(kept, s)
    BY <1>2, <2>1
  <2>3. PICK e \in Seq(V) : e = j \o s
    BY ConcatType
  <2>4. Items(j, c) = kept /\ Items(e, c) = kept
    <3>1. Items(Join(kept, <<c>>), c) = kept
      BY ItemsOfJoin
    <3>2. Ended(kept, c) = Join(kept, <<c>>) \o <<c>>
      BY <1>12, EndedIs
    <3>3. Items(Ended(kept, c), c) = kept
      BY ItemsOfEnded
    <3> QED
      BY <1>2, <2>2, <2>3, <3>1, <3>2, <3>3
  <2>5. real = s \o j \/ real = s \o e
    BY <1>8, <1>12, <2>2, <2>3
  <2>6. /\ JoinPath(path, real) = real /\ IsBelow(real, <<>>, rest)
        /\ Items(From(real, 1), c) = kept
    BY <1>10, <2>4, <2>5
  <2>7. Last(real) # c => \E z \in Seq(V) : real = z \o Last(kept)
    <3>1. CASE real = s \o j
      <4>1. PICK z \in Seq(V) : j = z \o kept[Len(kept)]
        BY <1>2, <2>1, <2>2
      <4>2. PICK last \in Seq(V) : last = kept[Len(kept)]
        BY <1>9, <1>12
      <4>3. (s \o z) \o last = s \o (z \o last)
        BY ConcatAssociative, SMTT(20)
      <4>4. s \o z \in Seq(V)
        BY ConcatType
      <4>5. real = (s \o z) \o last
        BY <3>1, <4>1, <4>2, <4>3
      <4> QED
        BY <4>2, <4>4, <4>5 DEF Last
    <3>2. CASE real = s \o e
      <4>1. PICK a \in Seq(V) : a = s \o j
        BY ConcatType
      <4>2. real = a \o s
        <5>1. (s \o j) \o s = s \o (j \o s)
          BY ConcatAssociative, SMTT(20)
        <5> QED
          BY <2>3, <3>2, <4>1, <5>1
      <4>3. Len(s) = 1 /\ s[1] = c
        BY <1>2
      <4>4. PICK n \in Nat : n = Len(a)
        OBVIOUS
      <4>5. Len(a \o s) = Len(a) + Len(s) /\ (a \o s)[Len(a) + 1] = s[1]
        <5>1. 1 \in 1 .. Len(s)
          BY <4>3
        <5> QED
          BY <5>1, ConcatIs
      <4>6. Last(real) = c
        BY <4>2, <4>3, <4>4, <4>5 DEF Last
      <4> QED
        BY <4>6
    <3> QED
      BY <2>5, <3>1, <3>2
  <2>8. Len(<<>>) + 1 = 1
    OBVIOUS
  <2>9. LastEnds(V, real, <<>>)
    BY <1>1, <1>9, <2>6, <2>7, <2>8 DEF LastEnds
  <2> QED
    BY <1>3, <1>7, <2>6, <2>9
<1> QED
  BY <1>11, <1>12

\* A file ends, in lower case, with the extension of its last name.
LEMMA FileEnds ==
    ASSUME NEW V, NEW z \in Seq(V), NEW name \in Seq(V), NEW i \in DOMAIN MimeTypes,
           ToLower(Extension(name)) = MimeTypes[i][1]
    PROVE  /\ ToLower(z \o name) \in Seq({Lowered(c) : c \in V})
           /\ EndsWith(ToLower(z \o name), MimeTypes[i][1])
<1> DEFINE I == {j \in 1 .. Len(name) : name[j] = "."}
<1>0. PICK L : L = {Lowered(c) : c \in V}
  OBVIOUS
<1>1. PICK W : W = L \cup Letters
  OBVIOUS
<1>2. L \subseteq W /\ Letters \subseteq W
  BY <1>1
<1>3. PICK e \in Seq(W) : e = MimeTypes[i][1] /\ e # <<>>
  BY <1>2, MimeEnds
<1>4. Extension(name) = LET dot == IF I # {} THEN Max(I) ELSE 0
                        IN  IF dot = 0 THEN <<>> ELSE From(name, dot)
  BY DEF Extension, SelectLastInSeq
<1>5. PICK dot \in 1 .. Len(name) : e = ToLower(From(name, dot))
  <2>1. I \in SUBSET (1 .. Len(name))
    OBVIOUS
  <2> HIDE DEF I
  <2>2. I # {} => Max(I) \in I
    <3>1. PICK n \in Nat : n = Len(name)
      OBVIOUS
    <3>2. I \in SUBSET (1 .. n)
      BY <2>1, <3>1
    <3> QED
      BY <3>2, MaxIn
  <2>3. Extension(name) # <<>>
    <3>1. ToLower(<<>>) = <<>>
      BY DEF ToLower
    <3> QED
      BY <1>3, <3>1
  <2> QED
    BY <1>3, <1>4, <2>1, <2>2, <2>3
<1>6. PICK n \in Nat, m \in Nat : n = Len(name) /\ m = Len(z)
  OBVIOUS
<1>7. Len(e) = n - dot + 1 /\ \A j \in 1 .. n - dot + 1 : e[j] = Lowered(name[dot + j - 1])
  <2>1. PICK x \in Seq(V) : x = From(name, dot)
    BY FromIs
  <2>2. Len(x) = n - dot + 1 /\ \A j \in 1 .. n - dot + 1 : x[j] = name[dot + j - 1]
    BY <1>6, <2>1, FromIs
  <2>3. Len(ToLower(x)) = Len(x) /\ \A j \in 1 .. Len(x) : ToLower(x)[j] = Lowered(x[j])
    BY ToLowerIs
  <2> QED
    BY <1>5, <2>1, <2>2, <2>3
<1>8. /\ Len(z \o name) = m + n /\ z \o name \in Seq(V)
      /\ \A j \in 1 .. n : (z \o name)[m + j] = name[j]
  BY <1>6, ConcatIs
<1>9. PICK y \in Seq(V) : y = z \o name
  BY <1>8
<1>10. PICK w \in Seq(W) : w = ToLower(y) /\ w \in Seq(L)
  <2>1. ToLower(y) \in Seq(L)
    BY <1>0, ToLowerIs
  <2> QED
    BY <1>2, <2>1, SeqMonotonic
<1>11. Len(w) = m + n /\ \A j \in 1 .. n : w[m + j] = Lowered(name[j])
  <2>1. Len(ToLower(y)) = Len(y) /\ \A j \in 1 .. Len(y) : ToLower(y)[j] = Lowered(y[j])
    BY ToLowerIs
  <2>2. Len(y) = m + n /\ \A j \in 1 .. n : y[m + j] = name[j]
    BY <1>8, <1>9
  <2>3. \A j \in 1 .. n : m + j \in 1 .. m + n
    OBVIOUS
  <2> QED
    BY <1>10, <2>1, <2>2, <2>3
<1>12. Len(w) >= Len(e)
  BY <1>5, <1>6, <1>7, <1>11
<1>13. ASSUME NEW j \in 2 .. Len(e) PROVE w[Len(w) - Len(e) + j] = e[j]
  <2>1. PICK k \in 1 .. n : k = dot + j - 1
    <3>1. dot + j - 1 \in 1 .. n
      BY <1>6, <1>7
    <3> QED
      BY <3>1
  <2>2. Len(w) - Len(e) + j = m + k
    BY <1>6, <1>7, <1>11, <2>1
  <2>3. j \in 1 .. n - dot + 1
    BY <1>7
  <2>4. e[j] = Lowered(name[k])
    BY <1>7, <2>1, <2>3
  <2> QED
    BY <1>11, <2>2, <2>4
<1>14. EndsWith(w, e)
  BY <1>3, <1>12, <1>13, EndsWithIs
<1> QED
  BY <1>0, <1>3, <1>9, <1>10, <1>14

\* What handle_static answers with.
FileInv ==
    /\ stage # "done" => file = <<>> /\ "real" \notin short
    /\ StaticResolves

\* Where the file of a path is looked for.
Root(rest) == IF StartsWith(rest, <<"/", "/">>) THEN <<>> ELSE TrimRight(StaticPath, "/")

\* A file has the type of its extension.
Guessed(f, names) ==
    \A i \in DOMAIN MimeTypes :
        names # <<>> /\ Last(f) # "/" /\ ToLower(Extension(Last(names))) = MimeTypes[i][1]
            => GuessMimeType(f) = MimeTypes[i][2]

\* StaticResolves for the file of one path.
LEMMA StaticFileResolves ==
    ASSUME NEW path \in Seq(Char), StartsWith(path, Prefix),
           NEW rest, rest = From(path, Len(Prefix) + 1),
           NEW f, f = StaticFile(path), NEW root, root = Root(rest),
           NEW names, names = Items(From(f, Len(root) + 1), "/")
    PROVE  IsBelow(f, root, rest) /\ Guessed(f, names)
<1>1. "/" \in Char /\ Prefix \in Seq(Char) /\ StaticPath \in Seq(Char)
  BY PacketAssumption DEF Words
<1>2. rest \in Seq(Char)
  <2>1. Len(Prefix) <= Len(path)
    BY DEF StartsWith, IsPrefix
  <2>2. PICK n \in Nat : n = Len(Prefix)
    BY <1>1
  <2>3. Slice(path, n, Len(path)) \in Seq(Char)
    BY <2>1, <2>2, SliceIs
  <2> QED
    BY <2>2, <2>3 DEF From, Slice
<1>3. f = JoinPath(StaticPath, RealPath(Relative(rest)))
  BY DEF StaticFile, Relative
<1>4. IsBelow(f, root, rest) /\ LastEnds(Char, f, root)
  <2>1. CASE StartsWith(rest, <<"/", "/">>)
    <3>1. root = <<>>
      BY <2>1 DEF Root
    <3> QED
      BY <1>1, <1>2, <1>3, <2>1, <3>1, FileAbsolute
  <2>2. CASE ~StartsWith(rest, <<"/", "/">>)
    <3>1. root = TrimRight(StaticPath, "/")
      BY <2>2 DEF Root
    <3> QED
      BY <1>1, <1>2, <1>3, <2>2, <3>1, FileBelow
  <2> QED
    BY <2>1, <2>2
<1>5. /\ names \in Seq(Seq(Char))
      /\ names # <<>> /\ Last(f) # "/" => \E z \in Seq(Char) : f = z \o Last(names)
  BY <1>4 DEF LastEnds
<1>6. ASSUME NEW i \in DOMAIN MimeTypes, names # <<>>, Last(f) # "/",
             ToLower(Extension(Last(names))) = MimeTypes[i][1]
      PROVE  GuessMimeType(f) = MimeTypes[i][2]
  <2>1. PICK name \in Seq(Char) : name = Last(names)
    BY <1>5, <1>6 DEF Last
  <2>2. PICK z \in Seq(Char) : f = z \o name
    BY <1>5, <1>6, <2>1
  <2>3. PICK L : L = {Lowered(c) : c \in Char}
    OBVIOUS
  <2>4. /\ ToLower(z \o name) \in Seq(L)
        /\ EndsWith(ToLower(z \o name), MimeTypes[i][1])
    BY <1>6, <2>1, <2>3, FileEnds
  <2>5. GuessMimeType(z \o name) = MimeTypes[i][2]
    BY <2>4, TypeGuessed
  <2> QED
    BY <2>2, <2>5
<1> QED
  BY <1>4, <1>6 DEF Guessed

\* Every step preserves FileInv.
LEMMA StepFile == FitInv /\ HeardInv /\ FileInv /\ [Next]_vars => FileInv'
<1> SUFFICES ASSUME FitInv, HeardInv, FileInv, [Next]_vars PROVE FileInv'
  OBVIOUS
<1>1. ASSUME file' = file, stage # "done", "real" \notin short' PROVE FileInv'
  <2>1. file' = <<>>
    BY <1>1 DEF FileInv
  <2> QED
    BY <1>1, <2>1 DEF FileInv, StaticResolves
<1>2. CASE HandleStatic
  <2>1. stage' = "done" /\ asked' = asked /\ tmp.uri = asked.path
    BY <1>2 DEF HandleStatic, HeardInv, Lined
  <2>2. CASE "real" \in short'
    BY <2>1, <2>2 DEF FileInv, StaticResolves
  <2>3. CASE "real" \notin short' /\ ~StartsWith(asked.path, Prefix)
    <3>1. file' = <<>>
      BY <1>2, <2>1, <2>3 DEF HandleStatic
    <3> QED
      BY <2>1, <3>1 DEF FileInv, StaticResolves
  <2>4. CASE "real" \notin short' /\ StartsWith(asked.path, Prefix)
    <3>1. PICK f : f = StaticFile(asked.path)
      OBVIOUS
    <3>2. file' = f
      BY <1>2, <2>1, <2>4, <3>1 DEF HandleStatic
    <3>3. asked.path \in Seq(Char)
      <4>1. asked.path \in Seq(Char \ {"?", Blank, CRLF})
        BY ClientAssumption DEF FitInv, Writable
      <4> QED
        BY <4>1, SeqMonotonic
    <3>4. PICK rest, root, names : /\ rest = From(asked.path, Len(Prefix) + 1)
                                   /\ root = Root(rest)
                                   /\ names = Items(From(f, Len(root) + 1), "/")
      OBVIOUS
    <3>5. IsBelow(f, root, rest) /\ Guessed(f, names)
      BY <2>4, <3>1, <3>3, <3>4, StaticFileResolves
    <3>6. StaticResolves'
      BY <2>1, <3>2, <3>4, <3>5 DEF StaticResolves, IsBelow, Guessed, Root
    <3> QED
      BY <2>1, <3>6 DEF FileInv
  <2> QED
    BY <2>2, <2>3, <2>4
<1>3. CASE Dicts \/ RequestLine \/ Query
  <2>1. stage # "done" /\ file' = file
    BY <1>3 DEF Dicts, RequestLine, Query, Goto, Fail
  <2>2. "real" \notin short
    BY <2>1 DEF FileInv
  <2>3. \A x \in short' : x \in short \cup {"dicts", "argument", "query"}
    <3>1. CASE Dicts \/ RequestLine
      BY <3>1 DEF Dicts, RequestLine
    <3>2. CASE Query
      BY <3>2 DEF Query
    <3> QED
      BY <1>3, <3>1, <3>2
  <2>4. "real" \notin short'
    BY <2>2, <2>3
  <2> QED
    BY <1>1, <2>1, <2>4
<1>4. CASE Headers
  <2>1. stage = "headers" /\ file' = file
    BY <1>4 DEF Headers, Goto, Fail
  <2>2. "real" \notin short
    BY <2>1 DEF FileInv
  <2>3. "real" \notin short'
    <3>1. ASSUME NEW those \in SUBSET Readable(Lines(asked)), NEW missed \in SUBSET Sought,
                 ReadFields(those, missed)
          PROVE  "real" \notin short'
      <4>1. short \subseteq {"argument"} /\ Writable(asked) /\ asked' = asked
        BY <1>4, <2>1, ClientAssumption DEF FitInv, Headers, Goto, Fail
      <4>2. Distinct(asked)
        BY <4>1, LinesTell
      <4>3. \A i \in Readable(Lines(asked)) : Lines(asked)[i].name \in Names
        <5>1. \A i \in Readable(Lines(asked)) : Has(Lines(asked), Lines(asked)[i])
          BY DEF Readable, Has
        <5> QED
          BY <4>2, <5>1 DEF Distinct
      <4>4. \A i \in Readable(Lines(asked)) : Lines(asked)[i].name # "real"
        BY <4>3 DEF Names
      <4> QED
        BY <2>2, <3>1, <4>4 DEF ReadFields
    <3> QED
      BY <1>4, <2>2, <3>1 DEF Headers
  <2> QED
    BY <1>1, <2>1, <2>3
<1>5. CASE ContentNone \/ ContentQuery \/ ContentForm
  <2>1. stage = "content"
    BY <1>5 DEF ContentNone, ContentQuery, ContentForm
  <2>2. (\E pairs : Set(pairs)) \/ (Fail(BAD_REQUEST) /\ UNCHANGED short)
    BY <1>5 DEF ContentNone, ContentQuery, ContentForm
  <2>3. file' = file
    BY <2>2 DEF Set, Goto, Fail
  <2>4. "real" \notin short'
    BY <2>1, <2>2 DEF Set, FileInv
  <2> QED
    BY <1>1, <2>1, <2>3, <2>4
<1>6. CASE Cookies \/ Packet
  <2>1. stage # "done" /\ file' = file
    BY <1>6 DEF Cookies, Packet, Goto, Fail
  <2>2. "real" \notin short'
    BY <1>6, <2>1 DEF Cookies, Packet, FileInv
  <2> QED
    BY <1>1, <2>1, <2>2
<1>7. CASE UNCHANGED vars
  BY <1>7 DEF vars, FileInv, StaticResolves
<1> QED
  BY <1>2, <1>3, <1>4, <1>5, <1>6, <1>7 DEF Next

\* Whatever static_path, static_uri_prefix and the path of a request are, the file that
\* handle_static answers with is the one that the names and dots of the path lead to,
\* starting from static_path, or, when two slashes follow the prefix, from the root; no
\* double dot leads above where it starts, and the type is that of its extension in either
\* case of letters (server.c:145-151, string.c:275, 287-339, file.c:98-144).  It is said
\* of the paths that memory lasted to make canonical.
THEOREM StaticAlwaysResolves == Spec => []StaticResolves
<1>1. Init => FitInv /\ HeardInv /\ FileInv
  <2>1. Init => HeardInv
    BY DEF Init, HeardInv, ParsesBack, Lined, Filled
  <2>2. Init => FileInv
    BY DEF Init, FileInv, StaticResolves
  <2> QED
    BY <2>1, <2>2, InitFit
<1>2. FitInv /\ HeardInv /\ FileInv /\ [Next]_vars => (FitInv /\ HeardInv /\ FileInv)'
  BY StepFit, StepHeard, StepFile
<1>3. FileInv => StaticResolves
  BY DEF FileInv
<1> QED
  BY <1>1, <1>2, <1>3, PTL DEF Spec

=============================================================================
