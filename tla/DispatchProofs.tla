--------------------------- MODULE DispatchProofs ---------------------------
(***************************************************************************)
(* The prerouting decides which handlers run, and a client that keeps its  *)
(* connection reads one whole answer for each request, whatever the        *)
(* callbacks register, answer in chunks, clone and answer later.           *)
(***************************************************************************)
EXTENDS Dispatch, SequenceTheorems, TLAPS

Client == [mode : Modes, method : Method \cup {"none"}]

\* The client has read what the application has said on a.
Matches(a, cl) ==
    /\ a.said = "nothing" => cl.mode = "waiting" /\ cl.method = a.method /\ ~a.chunked
    /\ a.said = "part"    => cl.mode = "chunks" /\ a.chunked /\ a.method # "HEAD"
    /\ a.said = "all"     => cl.mode \in {"idle", "closing"}
    /\ a.said # "cloned"

\* A callback has the only right to answer the client of c.
Busy(c) == at # "loop" /\ req.conn = c /\ req.self.said # "cloned"

\* Whoever has the right to answer c, the request of a callback or else a clone,
\* is where the client is; a clone that is left behind has said all.
SyncAt(c) ==
    IF Busy(c)
    THEN Matches(req.self, client[c]) /\ (kept[c] # NULL => kept[c].said = "all")
    ELSE IF kept[c] # NULL THEN Matches(kept[c], client[c])
                           ELSE client[c].mode \in {"idle", "closing"}

IInv ==
    /\ TypeOK
    /\ kept \in [Conn -> Answering \cup {NULL}]
    /\ client \in [Conn -> Client]
    /\ \A c \in Conn : SyncAt(c)
    /\ PreroutingDecides

-----------------------------------------------------------------------------
(* What a client reads of one answer. *)

\* A client reads one piece ...
LEMMA ReadsOne ==
    ASSUME NEW cl, NEW p
    PROVE  ReadsAll(cl, <<p>>) = Reads(cl, p)
  BY DEF ReadsAll

\* ... or two, in order.
LEMMA ReadsTwo ==
    ASSUME NEW cl, NEW p, NEW q
    PROVE  ReadsAll(cl, <<p, q>>) = Reads(Reads(cl, p), q)
  BY DEF ReadsAll

\* What a client is after one piece.
LEMMA ReadsMode ==
    ASSUME NEW cl \in Client, NEW p
    PROVE  /\ Reads(cl, p) \in Client
           /\ Reads(cl, p).mode = ModeAfter(cl, p)
<1>1. ModeAfter(cl, p) \in Modes
  BY DEF ModeAfter, Modes
<1> DEFINE mode == ModeAfter(cl, p)
<1> HIDE DEF mode
<1>2. CASE mode \in {"idle", "closing"}
  <2>1. Reads(cl, p) = [Idle EXCEPT !.mode = mode]
    BY <1>2 DEF Reads, mode
  <2>2. [Idle EXCEPT !.mode = mode] = [mode |-> mode, method |-> "none"]
    BY DEF Idle
  <2> QED
    BY <1>1, <2>1, <2>2 DEF Client, mode
<1>3. CASE mode \notin {"idle", "closing"}
  <2>1. Reads(cl, p) = [cl EXCEPT !.mode = mode]
    BY <1>3 DEF Reads, mode
  <2> QED
    BY <1>1, <2>1 DEF Client, mode
<1> QED
  BY <1>2, <1>3

\* The pieces of an answer: a header alone,
LEMMA OneAndNone ==
    ASSUME NEW x
    PROVE  <<x>> \o <<>> = <<x>>
<1>1. <<x>> \in Seq({x})
  OBVIOUS
<1> QED
  BY <1>1, ConcatEmptySeq

\* and a header with a chunk behind it.
LEMMA OneAndOne ==
    ASSUME NEW x, NEW y
    PROVE  <<x>> \o <<y>> = <<x, y>>
<1> DEFINE S == {x, y}
<1>1. <<x>> \in Seq(S) /\ Len(<<x>>) = 1 /\ <<y>> \in Seq(S) /\ Len(<<y>>) = 1
  OBVIOUS
<1>2. <<x, y>> \in Seq(S) /\ Len(<<x, y>>) = 2
  OBVIOUS
<1> DEFINE both == <<x>> \o <<y>>
<1>3. /\ both \in Seq(S) /\ Len(both) = 2
      /\ \A i \in 1 .. 2 : both[i] = IF i <= 1 THEN <<x>>[i] ELSE <<y>>[i - 1]
  BY <1>1, ConcatProperties
<1> HIDE DEF both
<1>4. both[1] = x /\ both[2] = y
  BY <1>3
<1> HIDE DEF S
<1>5. both = <<x, y>>
  BY <1>2, <1>3, <1>4, SeqEqual
<1> QED
  BY <1>5 DEF both

\* response without chunks, as one piece or two.
LEMMA WholePieces ==
    ASSUME NEW r, NEW len
    PROVE  LET n == IF r.method = "HEAD" THEN 0 ELSE len
           IN  Response(r, len, FALSE) =
                  IF n = 0 THEN <<Header(n)>> ELSE <<Header(n), Body(n)>>
<1> DEFINE n == IF r.method = "HEAD" THEN 0 ELSE len
<1>1. <<Header(n)>> \o <<>> = <<Header(n)>>
  BY OneAndNone
<1>2. <<Header(n)>> \o <<Body(n)>> = <<Header(n), Body(n)>>
  BY OneAndOne
<1>3. Response(r, len, FALSE) = <<Header(n)>> \o (IF n = 0 THEN <<>> ELSE <<Body(n)>>)
  BY DEF Response
<1> HIDE DEF n
<1>4. Response(r, len, FALSE) = IF n = 0 THEN <<Header(n)>> ELSE <<Header(n), Body(n)>>
  BY <1>1, <1>2, <1>3
<1> QED
  BY <1>4 DEF n

\* An answer in chunks starts with the header for them, once.
LEMMA ChunkPieces ==
    ASSUME NEW r, NEW len, r.method # "HEAD"
    PROVE  Response(r, len, TRUE) =
              IF r.chunked THEN <<Chunk(len)>> ELSE <<ChunkedHeader, Chunk(len)>>
  BY DEF Response

\* One whole answer, or a status page, brings a client that waits to its end.
LEMMA WholeAnswerRead ==
    ASSUME NEW r \in Answering, NEW cl \in Client,
           cl.mode = "waiting", cl.method = r.method, NEW a \in WholeAnswers(r)
    PROVE  /\ a.to = [r EXCEPT !.said = "all"] /\ a.to \in Answering
           /\ ReadsAll(cl, a.pieces) \in Client
           /\ ReadsAll(cl, a.pieces).mode \in {"idle", "closing"}
<1>1. PICK p \in {Response(r, n, FALSE) : n \in Length} \cup {<<StatusPage>>} :
         a = [to |-> [r EXCEPT !.said = "all"], pieces |-> p]
  BY DEF WholeAnswers
<1>2. a.to = [r EXCEPT !.said = "all"] /\ a.pieces = p
  BY <1>1
<1>3. a.to \in Answering
  BY <1>2 DEF Answering
<1>4. CASE p = <<StatusPage>>
  <2>1. ModeAfter(cl, StatusPage) = "closing"
    BY DEF ModeAfter, StatusPage
  <2> QED
    BY <1>2, <1>3, <1>4, <2>1, ReadsOne, ReadsMode
<1>5. ASSUME NEW len \in Length, p = Response(r, len, FALSE)
      PROVE  ReadsAll(cl, p) \in Client /\ ReadsAll(cl, p).mode \in {"idle", "closing"}
  <2> DEFINE n == IF r.method = "HEAD" THEN 0 ELSE len
             mid == Reads(cl, Header(n))
  <2>1. p = IF n = 0 THEN <<Header(n)>> ELSE <<Header(n), Body(n)>>
    BY <1>5, WholePieces
  <2>2. mid \in Client /\ mid.mode = ModeAfter(cl, Header(n))
    BY ReadsMode
  <2>3. ModeAfter(cl, Header(n)) = IF n = 0 THEN "idle" ELSE "body"
    BY DEF ModeAfter, Header
  <2> HIDE DEF n, mid
  <2>4. CASE n = 0
    <3>1. ReadsAll(cl, p) = mid
      BY <2>1, <2>4, ReadsOne DEF mid
    <3> QED
      BY <2>2, <2>3, <2>4, <3>1
  <2>5. CASE n # 0
    <3>1. ReadsAll(cl, p) = Reads(mid, Body(n))
      BY <2>1, <2>5, ReadsTwo DEF mid
    <3>2. ModeAfter(mid, Body(n)) = "idle"
      BY <2>2, <2>3, <2>5 DEF ModeAfter, Body
    <3> QED
      BY <2>2, <3>1, <3>2, ReadsMode
  <2> QED
    BY <2>4, <2>5
<1> QED
  BY <1>2, <1>3, <1>4, <1>5

\* A chunk, the first with its header, keeps the client in the chunks until the
\* empty one.
LEMMA ChunkAnswerRead ==
    ASSUME NEW r \in Answering, NEW cl \in Client, r.method # "HEAD",
           NEW a \in ChunkAnswers(r),
           \/ r.said = "nothing" /\ a.to.said = "part"
           \/ r.said = "part",
           Matches(r, cl)
    PROVE  /\ a.to \in Answering /\ ReadsAll(cl, a.pieces) \in Client
           /\ Matches(a.to, ReadsAll(cl, a.pieces))
<1>1. PICK n \in Length :
         a = [to |-> [r EXCEPT !.said = IF n = 0 THEN "all" ELSE "part",
                               !.chunked = ChunkedAfter(r, n)],
              pieces |-> Response(r, n, TRUE)]
  BY DEF ChunkAnswers
<1>2. ChunkedAfter(r, n) \in BOOLEAN
  BY DEF ChunkedAfter
<1>3. /\ a.to \in Answering /\ a.to.said = (IF n = 0 THEN "all" ELSE "part")
      /\ a.to.chunked = ChunkedAfter(r, n) /\ a.pieces = Response(r, n, TRUE)
      /\ a.to.method = r.method
  BY <1>1, <1>2 DEF Answering
<1>4. CASE r.said = "nothing"
  <2> DEFINE mid == Reads(cl, ChunkedHeader)
  <2>1. n # 0 /\ ~r.chunked /\ cl.mode = "waiting" /\ cl.method # "HEAD"
    BY <1>3, <1>4 DEF Matches
  <2>2. a.pieces = <<ChunkedHeader, Chunk(n)>>
    BY <1>3, <2>1, ChunkPieces
  <2>3. mid \in Client /\ mid.mode = "chunks"
    <3>1. ModeAfter(cl, ChunkedHeader) = "chunks"
      BY <2>1 DEF ModeAfter, ChunkedHeader
    <3> QED
      BY <3>1, ReadsMode
  <2> HIDE DEF mid
  <2>4. Reads(mid, Chunk(n)) \in Client /\ Reads(mid, Chunk(n)).mode = "chunks"
    <3>1. ModeAfter(mid, Chunk(n)) = "chunks"
      BY <2>1, <2>3 DEF ModeAfter, Chunk
    <3> QED
      BY <2>3, <3>1, ReadsMode
  <2>5. ReadsAll(cl, a.pieces) = Reads(mid, Chunk(n))
    BY <2>2, ReadsTwo DEF mid
  <2>6. a.to.said = "part" /\ a.to.chunked
    BY <1>3, <2>1 DEF ChunkedAfter
  <2> QED
    BY <1>3, <2>4, <2>5, <2>6 DEF Matches
<1>5. CASE r.said = "part"
  <2>1. r.chunked /\ cl.mode = "chunks"
    BY <1>5 DEF Matches
  <2>2. ReadsAll(cl, a.pieces) = Reads(cl, Chunk(n))
    <3>1. a.pieces = <<Chunk(n)>>
      BY <1>3, <2>1, ChunkPieces
    <3> QED
      BY <3>1, ReadsOne
  <2>3. ModeAfter(cl, Chunk(n)) = IF n = 0 THEN "idle" ELSE "chunks"
    BY <2>1 DEF ModeAfter, Chunk
  <2>4. n # 0 => a.to.chunked
    BY <1>3 DEF ChunkedAfter
  <2> QED
    BY <1>3, <2>2, <2>3, <2>4, ReadsMode DEF Matches
<1> QED
  BY <1>4, <1>5

\* Whatever the application says next, the client follows.
LEMMA AnswerRead ==
    ASSUME NEW r \in Answering, NEW cl \in Client, Matches(r, cl), NEW a \in Answers(r)
    PROVE  /\ a.to \in Answering /\ ReadsAll(cl, a.pieces) \in Client
           /\ Matches(a.to, ReadsAll(cl, a.pieces))
<1>1. CASE r.said = "nothing" /\ a \in WholeAnswers(r)
  <2>1. cl.mode = "waiting" /\ cl.method = r.method
    BY <1>1 DEF Matches
  <2>2. /\ a.to = [r EXCEPT !.said = "all"] /\ a.to \in Answering
        /\ ReadsAll(cl, a.pieces) \in Client
        /\ ReadsAll(cl, a.pieces).mode \in {"idle", "closing"}
    BY <1>1, <2>1, WholeAnswerRead
  <2>3. a.to.said = "all"
    BY <2>2 DEF Answering
  <2> QED
    BY <2>2, <2>3 DEF Matches
<1>2. CASE /\ r.said = "nothing" /\ r.method # "HEAD"
           /\ a \in ChunkAnswers(r) /\ a.to.said = "part"
  BY <1>2, ChunkAnswerRead
<1>3. CASE r.said = "part" /\ a \in ChunkAnswers(r)
  <2>1. r.method # "HEAD"
    BY <1>3 DEF Matches
  <2> QED
    BY <1>3, <2>1, ChunkAnswerRead
<1>4. \/ r.said = "nothing" /\ a \in WholeAnswers(r)
      \/ /\ r.said = "nothing" /\ r.method # "HEAD"
         /\ a \in ChunkAnswers(r) /\ a.to.said = "part"
      \/ r.said = "part" /\ a \in ChunkAnswers(r)
  BY DEF Answers
<1> QED
  BY <1>1, <1>2, <1>3, <1>4

-----------------------------------------------------------------------------
(* The steps. *)

\* A step that leaves the client of d, its clone and its callback alone.
LEMMA SyncElsewhere ==
    ASSUME NEW d, SyncAt(d), kept'[d] = kept[d], client'[d] = client[d],
           Busy(d)' <=> Busy(d), Busy(d) => req'.self = req.self
    PROVE  SyncAt(d)'
  BY DEF SyncAt

\* What TypeOK says of the request, with the types the updates need.
LEMMA Types ==
    ASSUME IInv
    PROVE  /\ at = "loop" <=> req = NULL
           /\ at # "loop" => req \in Request /\ req.self \in Answering /\ req.conn \in Conn
           /\ \A c \in Conn : kept[c] # NULL => kept[c] \in Answering
           /\ \A c \in Conn : client[c] \in Client
<1>1. at # "loop" => req \in Request
  BY DEF IInv, TypeOK
<1>2. at = "loop" => req = NULL
  BY DEF IInv, TypeOK
<1>3. NULL \notin Request
  BY DispatchAssumption
<1>4. \A r \in Request : r.self \in Answering /\ r.conn \in Conn
  BY DEF Request
<1> QED
  BY <1>1, <1>2, <1>3, <1>4 DEF IInv

\* No request yet, every client idle.
LEMMA InitIInv == Init => IInv
<1> SUFFICES ASSUME Init PROVE IInv
  OBVIOUS
<1>1. DOMAIN routes = {} /\ DOMAIN whiteroutes = {}
  BY DEF Init
<1>2. Idle \in Client /\ Idle.mode = "idle"
  BY DEF Idle, Client, Modes
<1>3. TypeOK
  BY <1>1, <1>2 DEF Init, TypeOK, Client
<1>4. \A c \in Conn : SyncAt(c)
  BY <1>2 DEF Init, SyncAt, Busy
<1> QED
  BY <1>2, <1>3, <1>4 DEF Init, IInv, PreroutingDecides

\* The tables may change at any time.
LEMMA TablesKeep ==
    ASSUME IInv, UNCHANGED <<at, req, call, allowed, kept, client>>,
           DOMAIN routes' \subseteq Name, DOMAIN whiteroutes' \subseteq Name,
           \A n \in DOMAIN routes' : routes'[n] \in Handler,
           \A n \in DOMAIN whiteroutes' : whiteroutes'[n] \in Handler,
           prerouting' \in BOOLEAN
    PROVE  IInv'
<1>1. TypeOK'
  BY DEF IInv, TypeOK
<1>2. \A c \in Conn : SyncAt(c)'
  BY DEF IInv, SyncAt, Busy
<1> QED
  BY <1>1, <1>2 DEF IInv, PreroutingDecides

\* Routes are set under their trimmed names.
LEMMA WithType ==
    ASSUME NEW table, DOMAIN table \subseteq Name,
           \A n \in DOMAIN table : table[n] \in Handler,
           NEW u \in Uri, NEW h \in Handler
    PROVE  /\ DOMAIN With(table, u, h) \subseteq Name
           /\ \A n \in DOMAIN With(table, u, h) : With(table, u, h)[n] \in Handler
<1>1. Trim(u) \in Name
  BY DEF Name
<1> QED
  BY <1>1 DEF With

\* One client's mode, clone or callback changes.
LEMMA CallbackAnswersKeeps ==
    ASSUME IInv, CallbackAnswers
    PROVE  IInv'
<1>0. PICK c \in Conn : c = req.conn
  BY Types DEF CallbackAnswers
<1> DEFINE r == req.self
<1>1. /\ at # "loop" /\ req \in Request /\ r \in Answering /\ c \in Conn
      /\ client[c] \in Client
  BY <1>0, Types DEF CallbackAnswers
<1>2. PICK a \in Answers(r) : /\ req' = [req EXCEPT !.self = a.to]
                              /\ client' = [client EXCEPT ![c] = ReadsAll(@, a.pieces)]
  BY <1>0 DEF CallbackAnswers, Write
<1>3. UNCHANGED <<tables, at, call, allowed, kept>>
  BY DEF CallbackAnswers
<1>4. r.said # "cloned"
  BY <1>1, <1>2 DEF Answers, Answering
<1>5. Busy(c) /\ Matches(r, client[c]) /\ (kept[c] # NULL => kept[c].said = "all")
  BY <1>0, <1>1, <1>4 DEF Busy, SyncAt, IInv
<1>6. /\ a.to \in Answering /\ ReadsAll(client[c], a.pieces) \in Client
      /\ Matches(a.to, ReadsAll(client[c], a.pieces))
  BY <1>1, <1>2, <1>5, AnswerRead
<1> DEFINE new == ReadsAll(client[c], a.pieces)
<1>7. client' = [client EXCEPT ![c] = new]
  BY <1>2
<1> HIDE DEF new
<1>8. client' \in [Conn -> Client] /\ client'[c] = new
  BY <1>1, <1>6, <1>7 DEF IInv, new
<1>9. req' \in Request /\ req'.self = a.to /\ req'.conn = c
  BY <1>0, <1>1, <1>2, <1>6 DEF Request
<1>10. SyncAt(c)'
  <2>1. Busy(c)'
    BY <1>1, <1>3, <1>6, <1>9 DEF Busy, Matches
  <2>2. Matches(req'.self, client'[c])
    BY <1>6, <1>8, <1>9 DEF new
  <2> QED
    BY <1>3, <1>5, <2>1, <2>2 DEF SyncAt
<1>11. ASSUME NEW d \in Conn, d # c PROVE SyncAt(d)'
  <2>1. ~Busy(d) /\ ~Busy(d)'
    BY <1>0, <1>9, <1>11 DEF Busy
  <2>2. client'[d] = client[d] /\ kept'[d] = kept[d]
    BY <1>3, <1>7, <1>11 DEF IInv
  <2> QED
    BY <2>1, <2>2, SyncElsewhere DEF IInv
<1>12. TypeOK'
  <2>1. \A d \in Conn : client'[d].mode \in Modes
    BY <1>8 DEF Client
  <2> QED
    BY <1>1, <1>3, <1>9, <2>1 DEF IInv, TypeOK, tables
<1>13. PreroutingDecides'
  BY <1>3 DEF IInv, PreroutingDecides
<1> QED
  BY <1>3, <1>8, <1>10, <1>11, <1>12, <1>13 DEF IInv

\* A clone takes the right to answer from its original.
LEMMA CloneKeeps ==
    ASSUME IInv, Clone
    PROVE  IInv'
<1>0. PICK c \in Conn : c = req.conn
  BY Types DEF Clone
<1> DEFINE r == req.self
<1>1. /\ at # "loop" /\ req \in Request /\ r \in Answering /\ c \in Conn
      /\ client[c] \in Client /\ r.said \in {"nothing", "part"}
  BY <1>0, Types DEF Clone
<1>2. /\ kept' = [kept EXCEPT ![c] = r] /\ req' = [req EXCEPT !.self.said = "cloned"]
      /\ UNCHANGED <<tables, at, call, allowed, client>>
  BY <1>0 DEF Clone
<1>3. Matches(r, client[c])
  BY <1>0, <1>1 DEF Busy, SyncAt, IInv
<1>4. kept' \in [Conn -> Answering \cup {NULL}] /\ kept'[c] = r
  BY <1>1, <1>2 DEF IInv
<1>5. req' \in Request /\ req'.self.said = "cloned" /\ req'.conn = c
  BY <1>0, <1>1, <1>2 DEF Request, Answering
<1>6. SyncAt(c)'
  <2>1. ~Busy(c)' /\ kept'[c] # NULL
    BY <1>1, <1>4, <1>5, DispatchAssumption DEF Busy
  <2> QED
    BY <1>2, <1>3, <1>4, <2>1 DEF SyncAt
<1>7. ASSUME NEW d \in Conn, d # c PROVE SyncAt(d)'
  <2>1. ~Busy(d) /\ ~Busy(d)'
    BY <1>0, <1>5, <1>7 DEF Busy
  <2>2. client'[d] = client[d] /\ kept'[d] = kept[d]
    BY <1>2, <1>7 DEF IInv
  <2> QED
    BY <2>1, <2>2, SyncElsewhere DEF IInv
<1>8. TypeOK'
  BY <1>1, <1>2, <1>4, <1>5 DEF IInv, TypeOK, tables
<1>9. PreroutingDecides'
  BY <1>2 DEF IInv, PreroutingDecides
<1> QED
  BY <1>2, <1>4, <1>6, <1>7, <1>8, <1>9 DEF IInv

\* The application answers by a clone it has kept.
LEMMA CloneAnswersKeeps ==
    ASSUME IInv, NEW c \in Conn, CloneAnswers(c)
    PROVE  IInv'
<1>1. kept[c] # NULL /\ kept[c] \in Answering /\ client[c] \in Client
  BY Types DEF CloneAnswers
<1>2. PICK a \in Answers(kept[c]) :
         /\ kept' = [kept EXCEPT ![c] = a.to]
         /\ client' = [client EXCEPT ![c] = ReadsAll(@, a.pieces)]
  BY DEF CloneAnswers, Write
<1>3. UNCHANGED <<tables, at, req, call, allowed>>
  BY DEF CloneAnswers
<1>4. kept[c].said # "all"
  BY <1>1, <1>2 DEF Answers, Answering
<1>5. ~Busy(c) /\ Matches(kept[c], client[c])
  BY <1>1, <1>4 DEF SyncAt, IInv
<1> DEFINE new == ReadsAll(client[c], a.pieces)
<1>6. a.to \in Answering /\ new \in Client /\ Matches(a.to, new)
  BY <1>1, <1>2, <1>5, AnswerRead
<1>7. client' = [client EXCEPT ![c] = new]
  BY <1>2
<1> HIDE DEF new
<1>8. /\ client' \in [Conn -> Client] /\ client'[c] = new
      /\ kept' \in [Conn -> Answering \cup {NULL}] /\ kept'[c] = a.to
  BY <1>2, <1>6, <1>7 DEF IInv
<1>9. SyncAt(c)'
  <2>1. ~Busy(c)'
    BY <1>3, <1>5 DEF Busy
  <2>2. kept'[c] # NULL
    BY <1>6, <1>8, DispatchAssumption
  <2> QED
    BY <1>6, <1>8, <2>1, <2>2 DEF SyncAt
<1>10. ASSUME NEW d \in Conn, d # c PROVE SyncAt(d)'
  <2>1. client'[d] = client[d] /\ kept'[d] = kept[d]
    BY <1>2, <1>7, <1>10 DEF IInv
  <2>2. (Busy(d)' <=> Busy(d)) /\ req'.self = req.self
    BY <1>3 DEF Busy
  <2> QED
    BY <2>1, <2>2, SyncElsewhere DEF IInv
<1>11. TypeOK'
  <2>1. \A d \in Conn : client'[d].mode \in Modes
    BY <1>8 DEF Client
  <2> QED
    BY <1>3, <1>8, <2>1 DEF IInv, TypeOK, tables
<1>12. PreroutingDecides'
  BY <1>3 DEF IInv, PreroutingDecides
<1> QED
  BY <1>3, <1>8, <1>9, <1>10, <1>11, <1>12 DEF IInv

\* A clone that is freed has said all.
LEMMA CloneFreeKeeps ==
    ASSUME IInv, NEW c \in Conn, CloneFree(c)
    PROVE  IInv'
<1>1. /\ kept[c] # NULL /\ kept[c].said = "all" /\ kept' = [kept EXCEPT ![c] = NULL]
      /\ UNCHANGED <<tables, at, req, call, allowed, client>>
  BY DEF CloneFree
<1>2. kept' \in [Conn -> Answering \cup {NULL}] /\ kept'[c] = NULL
  BY <1>1 DEF IInv
<1>3. \A d : (Busy(d)' <=> Busy(d))
  BY <1>1 DEF Busy
<1>4. SyncAt(c)'
  BY <1>1, <1>2, <1>3 DEF IInv, SyncAt, Matches
<1>5. ASSUME NEW d \in Conn, d # c PROVE SyncAt(d)'
  <2>1. kept'[d] = kept[d]
    BY <1>1, <1>5 DEF IInv
  <2> QED
    BY <1>1, <1>3, <2>1, SyncElsewhere DEF IInv
<1>6. TypeOK'
  BY <1>1, <1>2 DEF IInv, TypeOK, tables
<1> QED
  BY <1>1, <1>2, <1>4, <1>5, <1>6 DEF IInv, PreroutingDecides

\* A client that nobody owes an answer.
LEMMA RestsKeeps ==
    ASSUME IInv, NEW c \in Conn, ~Busy(c), kept[c] # NULL => kept[c].said = "all",
           NEW new \in Client, new.mode \in {"idle", "closing"},
           client' = [client EXCEPT ![c] = new],
           UNCHANGED <<tables, at, req, call, allowed, kept>>
    PROVE  IInv'
<1>1. client' \in [Conn -> Client] /\ client'[c] = new
  BY DEF IInv
<1>2. \A d : (Busy(d)' <=> Busy(d))
  BY DEF Busy
<1>3. SyncAt(c)'
  BY <1>1, <1>2, Types DEF SyncAt, Matches
<1>4. ASSUME NEW d \in Conn, d # c PROVE SyncAt(d)'
  <2>1. client'[d] = client[d]
    BY <1>4 DEF IInv
  <2> QED
    BY <1>2, <2>1, SyncElsewhere DEF IInv
<1>5. TypeOK'
  <2>1. \A d \in Conn : client'[d].mode \in Modes
    BY <1>1 DEF Client
  <2> QED
    BY <2>1 DEF IInv, TypeOK, tables
<1> QED
  BY <1>1, <1>3, <1>4, <1>5 DEF IInv, PreroutingDecides

\* A client that sends a request is owed nothing before.
LEMMA ComesFree ==
    ASSUME IInv, NEW c \in Conn, Comes(c)
    PROVE  /\ at = "loop" /\ \A d : ~Busy(d)
           /\ kept[c] # NULL => kept[c].said = "all"
<1>1. at = "loop" /\ client[c].mode = "idle"
  BY DEF Comes, Idle
<1>2. \A d : ~Busy(d)
  BY <1>1 DEF Busy
<1>3. ASSUME kept[c] # NULL PROVE kept[c].said = "all"
  <2>1. kept[c] \in Answering
    BY <1>3, Types
  <2> QED
    BY <1>1, <1>2, <1>3, <2>1 DEF IInv, SyncAt, Matches, Answering
<1> QED
  BY <1>1, <1>2, <1>3

\* The clients that wait, are idle and are closing.
LEMMA Modal ==
    /\ Leaving \in Client /\ Leaving.mode = "closing"
    /\ Idle \in Client /\ Idle.mode = "idle"
    /\ \A m \in Method : /\ Asking(m) \in Client /\ Asking(m).mode = "waiting"
                         /\ Asking(m).method = m
  BY DEF Leaving, Idle, Asking, Client, Modes

\* A malformed request is answered with a status page.
LEMMA MalformedKeeps ==
    ASSUME IInv, NEW c \in Conn, Malformed(c)
    PROVE  IInv'
<1>1. /\ Comes(c) /\ client' = [client EXCEPT ![c] = Leaving]
      /\ UNCHANGED <<tables, at, req, call, allowed, kept>>
  BY DEF Malformed
<1> QED
  BY <1>1, ComesFree, Modal, RestsKeeps

\* A new request has said nothing.
LEMMA NewRequestTypes ==
    ASSUME NEW c \in Conn, NEW m \in Method, NEW u \in Uri
    PROVE  LET r == NewRequest(c, m, u)
           IN  /\ r \in Request /\ r.conn = c /\ r.uri = u
               /\ r.self \in Answering /\ r.self.said = "nothing"
               /\ r.self.method = m /\ ~r.self.chunked
  BY DEF NewRequest, Request, Answering

\* A request for a static file is answered at once, without a callback.
LEMMA HandleStaticKeeps ==
    ASSUME IInv, NEW c \in Conn, NEW m \in Method, NEW u \in Uri, HandleStatic(c, m, u)
    PROVE  IInv'
<1> DEFINE r == NewRequest(c, m, u)
<1>1. PICK a \in WholeAnswers(r.self) :
         client' = [client EXCEPT ![c] = ReadsAll(Asking(m), a.pieces)]
  BY DEF HandleStatic
<1>2. Comes(c) /\ UNCHANGED <<tables, at, req, call, allowed, kept>>
  BY DEF HandleStatic
<1>3. r.self \in Answering /\ r.self.method = m
  BY NewRequestTypes
<1> HIDE DEF r
<1>4. /\ ReadsAll(Asking(m), a.pieces) \in Client
      /\ ReadsAll(Asking(m), a.pieces).mode \in {"idle", "closing"}
  BY <1>3, Modal, WholeAnswerRead
<1> DEFINE new == ReadsAll(Asking(m), a.pieces)
<1>5. client' = [client EXCEPT ![c] = new] /\ new \in Client
      /\ new.mode \in {"idle", "closing"}
  BY <1>1, <1>4
<1> HIDE DEF new
<1> QED
  BY <1>2, <1>5, ComesFree, RestsKeeps

\* The redirection of the icon is an answer without content.
LEMMA HandleFaviconKeeps ==
    ASSUME IInv, NEW c \in Conn, NEW m \in Method, NEW u \in Uri, HandleFavicon(c, m, u)
    PROVE  IInv'
<1> DEFINE r == NewRequest(c, m, u).self
           new == ReadsAll(Asking(m), Response(r, 0, FALSE))
<1>1. /\ Comes(c) /\ UNCHANGED <<tables, at, req, call, allowed, kept>>
      /\ client' = [client EXCEPT ![c] = new]
  BY DEF HandleFavicon
<1>2. Response(r, 0, FALSE) = <<Header(0)>>
  BY WholePieces
<1>3. new = Reads(Asking(m), Header(0))
  BY <1>2, ReadsOne
<1>4. ModeAfter(Asking(m), Header(0)) = "idle"
  BY Modal DEF ModeAfter, Header
<1> HIDE DEF new
<1>5. new \in Client /\ new.mode \in {"idle", "closing"}
  BY <1>3, <1>4, Modal, ReadsMode
<1> QED
  BY <1>1, <1>5, ComesFree, RestsKeeps

\* A client that connects again has no clone of the connection before.
LEMMA ReconnectsKeeps ==
    ASSUME IInv, NEW c \in Conn, Reconnects(c)
    PROVE  IInv'
<1>1. /\ kept[c] = NULL /\ (req # NULL => req.conn # c)
      /\ client' = [client EXCEPT ![c] = Idle]
      /\ UNCHANGED <<tables, at, req, call, allowed, kept>>
  BY DEF Reconnects
<1>2. ~Busy(c)
  BY <1>1, Types DEF Busy
<1> QED
  BY <1>1, <1>2, Modal, RestsKeeps

\* A callback begins: it has the right to answer a client that waits.
LEMMA BeginsKeeps ==
    ASSUME IInv, NEW c \in Conn, \A d \in Conn : d # c => ~Busy(d),
           kept[c] # NULL => kept[c].said = "all",
           at' \in {"prerouting", "handler"}, NEW r \in Request, req' = r,
           r.conn = c, r.self.said = "nothing", ~r.self.chunked,
           client' \in [Conn -> Client], Matches(r.self, client'[c]),
           \A d \in Conn : d # c => client'[d] = client[d],
           IF at' = "handler"
           THEN call' \in [handler : Handler, via : {"route", "white"}]
           ELSE call' = NoCall,
           allowed' \in BOOLEAN, at' = "handler" /\ call'.via = "route" => allowed',
           UNCHANGED <<tables, kept>>
    PROVE  IInv'
<1>1. SyncAt(c)'
  BY DEF SyncAt, Busy
<1>2. ASSUME NEW d \in Conn, d # c PROVE SyncAt(d)'
  <2>1. ~Busy(d) /\ ~Busy(d)' /\ client'[d] = client[d]
    BY <1>2 DEF Busy
  <2> QED
    BY <2>1, SyncElsewhere DEF IInv
<1>3. TypeOK'
  <2>1. \A d \in Conn : client'[d].mode \in Modes
    BY DEF Client
  <2>2. req' \in Request /\ at' # "loop"
    OBVIOUS
  <2> QED
    BY <2>1, <2>2 DEF IInv, TypeOK, tables
<1> QED
  BY <1>1, <1>2, <1>3 DEF IInv, PreroutingDecides

\* A callback ends, or none begins: the client of c is owed nothing, or by the
\* clone.
LEMMA EndsKeeps ==
    ASSUME IInv, NEW c \in Conn, \A d \in Conn : d # c => ~Busy(d), Loop,
           client' \in [Conn -> Client],
           \A d \in Conn : d # c => client'[d] = client[d],
           \/ /\ kept[c] # NULL => kept[c].said = "all"
              /\ client'[c].mode \in {"idle", "closing"}
           \/ ~Busy(c) /\ client'[c] = client[c],
           allowed' \in BOOLEAN, UNCHANGED <<tables, kept>>
    PROVE  IInv'
<1>1. at' = "loop" /\ req' = NULL /\ call' = NoCall
  BY DEF Loop
<1>2. \A d : ~Busy(d)'
  BY <1>1 DEF Busy
<1>3. SyncAt(c)'
  <2>1. CASE /\ kept[c] # NULL => kept[c].said = "all"
             /\ client'[c].mode \in {"idle", "closing"}
    BY <1>2, <2>1, Types DEF SyncAt, Matches
  <2>2. CASE ~Busy(c) /\ client'[c] = client[c]
    BY <1>2, <2>2, SyncElsewhere DEF IInv
  <2> QED
    BY <2>1, <2>2
<1>4. ASSUME NEW d \in Conn, d # c PROVE SyncAt(d)'
  <2>1. ~Busy(d) /\ client'[d] = client[d]
    BY <1>4
  <2> QED
    BY <1>2, <2>1, SyncElsewhere DEF IInv
<1>5. TypeOK'
  <2>1. \A d \in Conn : client'[d].mode \in Modes
    BY DEF Client
  <2> QED
    BY <1>1, <2>1 DEF IInv, TypeOK, tables
<1> QED
  BY <1>1, <1>3, <1>4, <1>5 DEF IInv, PreroutingDecides

\* Routes lead to a handler, or to the page of status 404.
LEMMA Routed ==
    ASSUME IInv, NEW r, Route(r)
    PROVE  \/ Loop
           \/ /\ at' = "handler" /\ req' = r
              /\ call' \in [handler : Handler, via : {"route", "white"}]
  BY DEF Route, Calls, IInv, TypeOK, Loop

\* A white route is called without leave, else the prerouting is asked first.
LEMMA HandleDynamicKeeps ==
    ASSUME IInv, NEW c \in Conn, NEW m \in Method, NEW u \in Uri, HandleDynamic(c, m, u)
    PROVE  IInv'
<1> DEFINE r == NewRequest(c, m, u)
<1>1. /\ Comes(c) /\ UNCHANGED <<tables, kept>>
      /\ client' = [client EXCEPT ![c] = IF at' = "loop" THEN Leaving ELSE Asking(m)]
  BY DEF HandleDynamic
<1>2. /\ \A d : ~Busy(d)
      /\ kept[c] # NULL => kept[c].said = "all"
  BY <1>1, ComesFree
<1>3. /\ r \in Request /\ r.conn = c /\ r.self.said = "nothing" /\ ~r.self.chunked
      /\ r.self.method = m
  BY NewRequestTypes
<1>4. \/ /\ at' = "handler" /\ req' = r /\ ~allowed' /\ allowed' \in BOOLEAN
         /\ call' \in [handler : Handler, via : {"route", "white"}]
         /\ call'.via = "white"
      \/ /\ at' = "prerouting" /\ req' = r /\ call' = NoCall /\ allowed' \in BOOLEAN
      \/ Route(r) /\ allowed' = TRUE
  <2>1. CASE Trim(u) \in DOMAIN whiteroutes
    <3>1. Calls(r, whiteroutes[Trim(u)], "white") /\ allowed' = FALSE
      BY <2>1 DEF HandleDynamic
    <3>2. whiteroutes[Trim(u)] \in Handler
      BY <2>1 DEF IInv, TypeOK
    <3> QED
      BY <3>1, <3>2 DEF Calls
  <2>2. CASE Trim(u) \notin DOMAIN whiteroutes /\ prerouting
    BY <2>2 DEF HandleDynamic
  <2>3. CASE ~(Trim(u) \in DOMAIN whiteroutes) /\ ~prerouting
    BY <2>3 DEF HandleDynamic
  <2> QED
    BY <2>1, <2>2, <2>3
<1> HIDE DEF r
<1>5. CASE at' \in {"prerouting", "handler"}
  <2>1. client' \in [Conn -> Client] /\ client'[c] = Asking(m)
        /\ \A d \in Conn : d # c => client'[d] = client[d]
    BY <1>1, <1>5, Modal DEF IInv
  <2>2. Matches(r.self, client'[c])
    BY <1>3, <2>1, Modal DEF Matches
  <2>3. /\ req' = r /\ allowed' \in BOOLEAN
        /\ IF at' = "handler"
           THEN call' \in [handler : Handler, via : {"route", "white"}]
           ELSE call' = NoCall
        /\ at' = "handler" /\ call'.via = "route" => allowed'
    BY <1>4, <1>5, Routed DEF Loop
  <2> QED
    BY <1>1, <1>2, <1>3, <1>5, <2>1, <2>2, <2>3, BeginsKeeps
<1>6. CASE Route(r) /\ allowed' = TRUE /\ at' = "loop"
  <2>1. Loop
    BY <1>6, Routed
  <2>2. client' \in [Conn -> Client] /\ client'[c] = Leaving
        /\ \A d \in Conn : d # c => client'[d] = client[d]
    BY <1>1, <1>6, Modal DEF IInv
  <2> QED
    BY <1>1, <1>2, <1>6, <2>1, <2>2, Modal, EndsKeeps
<1> QED
  BY <1>4, <1>5, <1>6, Routed DEF Loop

\* After the prerouting, its leave is there, or no handler is called.
LEMMA PreroutingReturnsKeeps ==
    ASSUME IInv, NEW ok \in BOOLEAN, PreroutingReturns(ok)
    PROVE  IInv'
<1>1. at = "prerouting" /\ UNCHANGED <<tables, kept>>
  BY DEF PreroutingReturns
<1>2. PICK c \in Conn : c = req.conn
  BY <1>1, Types
<1>3. req \in Request /\ req.self \in Answering /\ client[c] \in Client
  BY <1>1, Types
<1>4. \A d \in Conn : d # c => ~Busy(d)
  BY <1>2 DEF Busy
<1>5. CASE ok
  <2>1. req.self.said = "nothing" /\ Route(req) /\ allowed' = TRUE
    BY <1>5 DEF PreroutingReturns
  <2>2. /\ Busy(c) /\ Matches(req.self, client[c])
        /\ kept[c] # NULL => kept[c].said = "all"
    BY <1>1, <1>2, <2>1 DEF Busy, IInv, SyncAt
  <2>3. CASE at' = "loop"
    <3>1. client' = [client EXCEPT ![c] = Reads(@, StatusPage)]
      BY <1>2, <1>5, <2>3, ReadsOne DEF PreroutingReturns, Write
    <3>2. ModeAfter(client[c], StatusPage) = "closing"
      BY <2>1, <2>2 DEF Matches, ModeAfter, StatusPage
    <3>3. Reads(client[c], StatusPage) \in Client
          /\ Reads(client[c], StatusPage).mode = "closing"
      BY <1>3, <3>2, ReadsMode
    <3>4. client' \in [Conn -> Client] /\ client'[c].mode = "closing"
          /\ \A d \in Conn : d # c => client'[d] = client[d]
      BY <3>1, <3>3 DEF IInv
    <3>5. Loop
      BY <2>1, <2>3, Routed
    <3> QED
      BY <1>1, <1>4, <2>1, <2>2, <3>4, <3>5, EndsKeeps
  <2>4. CASE at' # "loop"
    <3>1. client' = client
      BY <1>5, <2>4 DEF PreroutingReturns
    <3>2. /\ at' = "handler" /\ req' = req
          /\ call' \in [handler : Handler, via : {"route", "white"}]
      BY <2>1, <2>4, Routed DEF Loop
    <3>3. ~req.self.chunked /\ req.conn = c
      BY <1>2, <2>1, <2>2 DEF Matches
    <3>4. client' \in [Conn -> Client] /\ client'[c] = client[c]
          /\ \A d \in Conn : d # c => client'[d] = client[d]
      BY <3>1 DEF IInv
    <3> QED
      BY <1>1, <1>3, <1>4, <2>1, <2>2, <3>2, <3>3, <3>4, BeginsKeeps
  <2> QED
    BY <2>3, <2>4
<1>6. CASE ~ok
  <2>1. /\ req.self.said # "part" /\ Loop /\ allowed' = allowed
        /\ client' = [client EXCEPT ![c] = IF req.self.said = "nothing" THEN Leaving ELSE @]
    BY <1>2, <1>6 DEF PreroutingReturns
  <2>2. client' \in [Conn -> Client]
        /\ client'[c] = (IF req.self.said = "nothing" THEN Leaving ELSE client[c])
        /\ \A d \in Conn : d # c => client'[d] = client[d]
    BY <2>1, Modal DEF IInv
  <2>3. CASE req.self.said = "cloned"
    <3>1. ~Busy(c) /\ client'[c] = client[c]
      BY <1>2, <2>2, <2>3 DEF Busy
    <3> QED
      BY <1>1, <1>4, <2>1, <2>2, <3>1, EndsKeeps DEF IInv, TypeOK
  <2>4. CASE req.self.said # "cloned"
    <3>1. /\ Matches(req.self, client[c])
          /\ kept[c] # NULL => kept[c].said = "all"
      BY <1>1, <1>2, <2>4 DEF Busy, IInv, SyncAt
    <3>2. req.self.said \in {"nothing", "all"}
      BY <1>3, <2>1, <2>4 DEF Answering
    <3>3. client'[c].mode \in {"idle", "closing"}
      BY <2>2, <3>1, <3>2, Modal DEF Matches
    <3> QED
      BY <1>1, <1>4, <2>1, <2>2, <3>1, <3>3, EndsKeeps DEF IInv, TypeOK
  <2> QED
    BY <2>3, <2>4
<1> QED
  BY <1>5, <1>6

\* After the handler nobody but a clone may answer.
LEMMA HandlerReturnsKeeps ==
    ASSUME IInv, HandlerReturns
    PROVE  IInv'
<1>1. /\ at = "handler" /\ req.self.said \in {"all", "cloned"} /\ Loop
      /\ UNCHANGED <<tables, allowed, kept, client>>
  BY DEF HandlerReturns
<1>2. PICK c \in Conn : c = req.conn
  BY <1>1, Types
<1>3. \A d \in Conn : d # c => ~Busy(d)
  BY <1>2 DEF Busy
<1>4. \/ /\ kept[c] # NULL => kept[c].said = "all"
         /\ client'[c].mode \in {"idle", "closing"}
      \/ ~Busy(c) /\ client'[c] = client[c]
  BY <1>1, <1>2 DEF Busy, IInv, SyncAt, Matches
<1>5. client' \in [Conn -> Client] /\ allowed' \in BOOLEAN
  BY <1>1 DEF IInv, TypeOK
<1> QED
  BY <1>1, <1>3, <1>4, <1>5, EndsKeeps

\* Every step keeps the invariant.
LEMMA StepIInv == IInv /\ [Next]_vars => IInv'
<1> SUFFICES ASSUME IInv, [Next]_vars PROVE IInv'
  OBVIOUS
<1>1. ASSUME NEW u \in Uri, NEW h \in Handler, SetRoute(u, h) PROVE IInv'
  <2>1. /\ routes' = With(routes, u, h)
        /\ UNCHANGED <<whiteroutes, prerouting, at, req, call, allowed, kept, client>>
    BY <1>1 DEF SetRoute
  <2>2. /\ DOMAIN routes' \subseteq Name
        /\ \A n \in DOMAIN routes' : routes'[n] \in Handler
    BY <2>1, WithType DEF IInv, TypeOK
  <2> QED
    BY <2>1, <2>2, TablesKeep DEF IInv, TypeOK
<1>2. ASSUME NEW u \in Uri, NEW h \in Handler, SetWhiteroute(u, h) PROVE IInv'
  <2>1. /\ whiteroutes' = With(whiteroutes, u, h)
        /\ UNCHANGED <<routes, prerouting, at, req, call, allowed, kept, client>>
    BY <1>2 DEF SetWhiteroute
  <2>2. /\ DOMAIN whiteroutes' \subseteq Name
        /\ \A n \in DOMAIN whiteroutes' : whiteroutes'[n] \in Handler
    BY <2>1, WithType DEF IInv, TypeOK
  <2> QED
    BY <2>1, <2>2, TablesKeep DEF IInv, TypeOK
<1>3. ASSUME NEW b \in BOOLEAN, SetPrerouting(b) PROVE IInv'
  BY <1>3, TablesKeep DEF SetPrerouting, IInv, TypeOK
<1>4. ASSUME NEW b \in BOOLEAN, PreroutingReturns(b) PROVE IInv'
  BY <1>4, PreroutingReturnsKeeps
<1>5. ASSUME NEW c \in Conn, NEW m \in Method, NEW u \in Uri,
             HandleStatic(c, m, u) \/ HandleFavicon(c, m, u) \/ HandleDynamic(c, m, u)
      PROVE  IInv'
  BY <1>5, HandleStaticKeeps, HandleFaviconKeeps, HandleDynamicKeeps
<1>6. CASE CallbackAnswers
  BY <1>6, CallbackAnswersKeeps
<1>7. CASE Clone
  BY <1>7, CloneKeeps
<1>8. CASE HandlerReturns
  BY <1>8, HandlerReturnsKeeps
<1>9. ASSUME NEW c \in Conn,
             CloneAnswers(c) \/ CloneFree(c) \/ Malformed(c) \/ Reconnects(c)
      PROVE  IInv'
  BY <1>9, CloneAnswersKeeps, CloneFreeKeeps, MalformedKeeps, ReconnectsKeeps
<1>10. CASE UNCHANGED vars
  <2>1. UNCHANGED <<routes, whiteroutes, prerouting, at, req, call, allowed, kept, client>>
    BY <1>10 DEF vars, tables
  <2> QED
    BY <2>1, TablesKeep DEF IInv, TypeOK
<1> QED
  BY <1>1, <1>2, <1>3, <1>4, <1>5, <1>6, <1>7, <1>8, <1>9, <1>10 DEF Next

-----------------------------------------------------------------------------
(* The theorems. *)

\* Whoever may answer a client is where the client is, in every state.
THEOREM AnswersInvariant == Spec => []IInv
<1>1. Init => IInv
  BY InitIInv
<1>2. IInv /\ [Next]_vars => IInv'
  BY StepIInv
<1> QED
  BY <1>1, <1>2, PTL DEF Spec

\* Routes are spelled as they are looked up, and every request, clone and client
\* has its type (server.c:329-367, request.c:443-488).
THEOREM TypeCorrect == Spec => []TypeOK
<1>1. IInv => TypeOK
  BY DEF IInv
<1> QED
  BY <1>1, AnswersInvariant, PTL

\* No handler but a white route's runs without the prerouting's leave.
THEOREM LeaveNeeded == Spec => []PreroutingDecides
<1>1. IInv => PreroutingDecides
  BY DEF IInv
<1> QED
  BY <1>1, AnswersInvariant, PTL

\* A client that keeps its connection is never lost in the stream, and nobody
\* leaves it waiting who has no clone of its request.
THEOREM ClientsInSync == Spec => []InSync
<1>1. ASSUME IInv, NEW c \in Conn PROVE client[c].mode # "lost"
  <2>1. SyncAt(c)
    BY <1>1 DEF IInv
  <2>2. CASE Busy(c)
    <3>1. req.self \in Answering /\ Matches(req.self, client[c])
      BY <1>1, <2>1, <2>2, Types DEF Busy, SyncAt
    <3> QED
      BY <3>1 DEF Matches, Answering
  <2>3. CASE ~Busy(c) /\ kept[c] # NULL
    <3>1. kept[c] \in Answering /\ Matches(kept[c], client[c])
      BY <1>1, <2>1, <2>3, Types DEF SyncAt
    <3> QED
      BY <3>1 DEF Matches, Answering
  <2>4. CASE ~Busy(c) /\ kept[c] = NULL
    BY <2>1, <2>4 DEF SyncAt
  <2> QED
    BY <2>2, <2>3, <2>4
<1>2. ASSUME IInv, NEW c \in Conn, req = NULL \/ req.conn # c, kept[c] = NULL
      PROVE  client[c].mode \in {"idle", "closing"}
  <2>1. ~Busy(c)
    BY <1>2, Types DEF Busy
  <2> QED
    BY <1>2, <2>1 DEF IInv, SyncAt
<1>3. IInv => InSync
  BY <1>1, <1>2 DEF InSync
<1> QED
  BY <1>3, AnswersInvariant, PTL

=============================================================================
