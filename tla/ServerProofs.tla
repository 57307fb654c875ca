---------------------------- MODULE ServerProofs ----------------------------
(***************************************************************************)
(* Proofs about Server and Scarce, for every set of descriptors, objects   *)
(* and timers, every timeout and every number of failing allocations.      *)
(*                                                                         *)
(* The inductive invariant is in two layers.  BaseInv is what the safety   *)
(* of memory rests on, and is kept even by the steps of module Scarce, in  *)
(* which allocations fail: every open descriptor leads to its connection   *)
(* and back, no timer is left of an object that was freed, the counters    *)
(* are exact (HeapInv), and every event not handled yet is of an open      *)
(* descriptor (LoopInv).  Whole is what Server's steps keep besides, and   *)
(* failing allocations break: no entry of conns dangles, and every         *)
(* connection has a timer.                                                 *)
(*                                                                         *)
(* No part of BaseInv is inductive alone: a connection is freed only when  *)
(* its counter is zero, which protects the requests because the counter is *)
(* exact, which needs the request being freed to be one of those counted;  *)
(* and the descriptor of an event leads to an allocated connection only    *)
(* because the loop closes no other connection than that of the event.     *)
(***************************************************************************)
EXTENDS Scarce, FiniteSetTheorems, TLAPS

\* A connection that may be without a timer.
LooseConn == [fd : FD, refer : 0 .. ReferMod - 1, timer : Timer \cup {NULL},
              idle : 0 .. MaxIdle, unsent : Nat, recvBuf : BOOLEAN]

HeapType ==
    /\ DOMAIN sock \subseteq FD /\ sock \in [DOMAIN sock -> SockRec]
    /\ DOMAIN conns \subseteq FD /\ conns \in [DOMAIN conns -> Conn]
    /\ DOMAIN conn \subseteq Conn /\ conn \in [DOMAIN conn -> LooseConn]
    /\ DOMAIN sess \subseteq Session /\ sess \in [DOMAIN sess -> SessRec]
    /\ DOMAIN req \subseteq Request /\ req \in [DOMAIN req -> ReqRec]
    /\ DOMAIN timer \subseteq Timer /\ timer \in [DOMAIN timer -> TimerRec]

\* Open descriptors and connections lead to each other; an entry of conns may
\* be left of a descriptor that is closed.
ConnsReached ==
    /\ \A f \in DOMAIN sock :
          f \in DOMAIN conns /\ conns[f] \in DOMAIN conn /\ conn[conns[f]].fd = f
    /\ \A c \in DOMAIN conn :
          conn[c].fd \in DOMAIN sock /\ conns[conn[c].fd] = c

\* A connection's timer, if it has one, is its own, and it has no other; a
\* session has one timer; no timer is left of anything else.
TimersReached ==
    /\ \A t \in DOMAIN timer : timer[t].arg \in DOMAIN conn \cup DOMAIN sess
    /\ \A c \in DOMAIN conn :
          conn[c].timer # NULL =>
              conn[c].timer \in DOMAIN timer /\ timer[conn[c].timer].arg = c
    /\ \A t \in DOMAIN timer :
          timer[t].arg \in DOMAIN conn => conn[timer[t].arg].timer = t
    /\ \A s \in DOMAIN sess : \E t \in DOMAIN timer : timer[t].arg = s
    /\ \A t, u \in DOMAIN timer : timer[t].arg = timer[u].arg => t = u

RequestsCounted ==
    /\ \A r \in DOMAIN req : Intact(r)
    /\ \A c \in DOMAIN conn : conn[c].refer = Cardinality(ConnRequests(c))
    /\ \A s \in DOMAIN sess : sess[s].refer = Cardinality(SessRequests(s))

HeapInv ==
    HeapType /\ fault = FALSE /\ ConnsReached /\ TimersReached /\ RequestsCounted

LoopInv ==
    /\ backlog \in 0 .. MaxBacklog
    /\ phase \in {"wait", "events", "handler", "timers"}
    /\ DOMAIN evts \subseteq DOMAIN sock
    /\ evts \in [DOMAIN evts -> {"in", "out", "hup"}]
    /\ acceptable \in BOOLEAN
    /\ acceptable => backlog > 0
    /\ cur \in Request \cup {NULL}
    /\ RequestOnStack

BaseInv == HeapInv /\ LoopInv

\* Nothing is missing and nothing dangles.
Whole ==
    /\ DOMAIN conns \subseteq DOMAIN sock
    /\ \A c \in DOMAIN conn : conn[c].timer # NULL

IInv == BaseInv /\ Whole

\* What the lemmas on single steps show.
KeepsHeap == HeapInv' /\ (Whole => Whole')
KeepsInv  == KeepsHeap /\ LoopInv'

-----------------------------------------------------------------------------
(* Numbers and the sets the counters count. *)

\* The width of a counter does not show while the count is below it.
LEMMA ModSmall ==
  ASSUME NEW n \in Nat, NEW m \in Nat, n < m
  PROVE  n % m = n
OBVIOUS

\* Fewer requests hold one connection, or one session, than refer can count.
LEMMA CountBound ==
  ASSUME ServerAssumption, HeapType
  PROVE  /\ \A c : /\ IsFiniteSet(ConnRequests(c))
                   /\ Cardinality(ConnRequests(c)) \in 0 .. ReferMod - 1
         /\ \A s : /\ IsFiniteSet(SessRequests(s))
                   /\ Cardinality(SessRequests(s)) \in Nat
<1>1. IsFiniteSet(Request) /\ Cardinality(Request) < ReferMod /\ ReferMod \in Nat
  BY DEF ServerAssumption
<1>2. Cardinality(Request) \in Nat
  BY <1>1, FS_CardinalityType
<1>3. ASSUME NEW c
      PROVE  /\ IsFiniteSet(ConnRequests(c))
             /\ Cardinality(ConnRequests(c)) \in 0 .. ReferMod - 1
  <2>1. ConnRequests(c) \in SUBSET Request
    BY DEF ConnRequests, HeapType
  <2>2. IsFiniteSet(ConnRequests(c)) /\ Cardinality(ConnRequests(c)) <= Cardinality(Request)
    BY <1>1, <2>1, FS_Subset
  <2>3. Cardinality(ConnRequests(c)) \in Nat
    BY <2>2, FS_CardinalityType
  <2> QED BY <1>1, <1>2, <2>2, <2>3
<1>4. ASSUME NEW s
      PROVE  IsFiniteSet(SessRequests(s)) /\ Cardinality(SessRequests(s)) \in Nat
  <2>1. SessRequests(s) \in SUBSET Request
    BY DEF SessRequests, HeapType
  <2>2. IsFiniteSet(SessRequests(s))
    BY <1>1, <2>1, FS_Subset
  <2> QED BY <2>2, FS_CardinalityType
<1> QED BY <1>3, <1>4

\* A connection, or a session, whose counter is zero is named by no request.
LEMMA ZeroMeansUnused ==
  ASSUME ServerAssumption, HeapInv
  PROVE  /\ \A c \in DOMAIN conn :
               conn[c].refer = 0 => \A r \in DOMAIN req : req[r].conn # c
         /\ \A s \in DOMAIN sess :
               sess[s].refer = 0 => \A r \in DOMAIN req : req[r].sess # s
<1>1. /\ \A c : IsFiniteSet(ConnRequests(c))
      /\ \A s : IsFiniteSet(SessRequests(s))
  BY CountBound DEF HeapInv
<1>2. ASSUME NEW c \in DOMAIN conn, conn[c].refer = 0
      PROVE  \A r \in DOMAIN req : req[r].conn # c
  <2>1. ConnRequests(c) = {}
    BY <1>1, <1>2, FS_EmptySet DEF HeapInv, RequestsCounted
  <2> QED BY <2>1 DEF ConnRequests
<1>3. ASSUME NEW s \in DOMAIN sess, sess[s].refer = 0
      PROVE  \A r \in DOMAIN req : req[r].sess # s
  <2>1. SessRequests(s) = {}
    BY <1>1, <1>3, FS_EmptySet DEF HeapInv, RequestsCounted
  <2> QED BY <2>1 DEF SessRequests
<1> QED BY <1>2, <1>3

\* A request that is added is counted once by its connection and its session.
LEMMA RequestAdded ==
  ASSUME ServerAssumption, HeapType,
         NEW r, r \notin DOMAIN req, NEW c \in Conn, NEW s \in Session,
         req' = Put(req, r, [conn |-> c, sess |-> s])
  PROVE  /\ \A d : Cardinality(ConnRequests(d)')
                     = IF d = c THEN Cardinality(ConnRequests(d)) + 1
                                ELSE Cardinality(ConnRequests(d))
         /\ \A q : Cardinality(SessRequests(q)')
                     = IF q = s THEN Cardinality(SessRequests(q)) + 1
                                ELSE Cardinality(SessRequests(q))
<1>1. /\ \A d : IsFiniteSet(ConnRequests(d))
      /\ \A q : IsFiniteSet(SessRequests(q))
  BY CountBound
<1>2. r \notin ConnRequests(c) /\ r \notin SessRequests(s)
  BY DEF ConnRequests, SessRequests
<1>3. /\ DOMAIN req' = DOMAIN req \cup {r}
      /\ req'[r].conn = c /\ req'[r].sess = s
      /\ \A q \in DOMAIN req : req'[q] = req[q]
  BY DEF Put
<1>4. /\ \A d : ConnRequests(d)' = IF d = c THEN ConnRequests(d) \cup {r} ELSE ConnRequests(d)
      /\ \A q : SessRequests(q)' = IF q = s THEN SessRequests(q) \cup {r} ELSE SessRequests(q)
  BY <1>3 DEF ConnRequests, SessRequests
<1>5. /\ Cardinality(ConnRequests(c) \cup {r}) = Cardinality(ConnRequests(c)) + 1
      /\ Cardinality(SessRequests(s) \cup {r}) = Cardinality(SessRequests(s)) + 1
  <2>1. Cardinality(ConnRequests(c) \cup {r}) = Cardinality(ConnRequests(c)) + 1
    BY <1>1, <1>2, FS_AddElement
  <2>2. Cardinality(SessRequests(s) \cup {r}) = Cardinality(SessRequests(s)) + 1
    BY <1>1, <1>2, FS_AddElement
  <2> QED BY <2>1, <2>2
<1> QED BY <1>4, <1>5

\* A request that is freed was counted once by each.
LEMMA RequestRemoved ==
  ASSUME ServerAssumption, HeapType, NEW r \in DOMAIN req, req' = Drop(req, r)
  PROVE  /\ \A d : Cardinality(ConnRequests(d)')
                     = IF d = req[r].conn THEN Cardinality(ConnRequests(d)) - 1
                                          ELSE Cardinality(ConnRequests(d))
         /\ \A q : Cardinality(SessRequests(q)')
                     = IF q = req[r].sess THEN Cardinality(SessRequests(q)) - 1
                                          ELSE Cardinality(SessRequests(q))
<1> DEFINE c == req[r].conn
           s == req[r].sess
<1>1. /\ \A d : IsFiniteSet(ConnRequests(d))
      /\ \A q : IsFiniteSet(SessRequests(q))
  BY CountBound
<1>2. r \in ConnRequests(c) /\ r \in SessRequests(s)
  BY DEF ConnRequests, SessRequests
<1>3. DOMAIN req' = DOMAIN req \ {r} /\ \A q \in DOMAIN req' : req'[q] = req[q]
  BY DEF Drop
<1>4. /\ \A d : ConnRequests(d)' = IF d = c THEN ConnRequests(d) \ {r} ELSE ConnRequests(d)
      /\ \A q : SessRequests(q)' = IF q = s THEN SessRequests(q) \ {r} ELSE SessRequests(q)
  BY <1>3 DEF ConnRequests, SessRequests
<1>5. /\ Cardinality(ConnRequests(c) \ {r}) = Cardinality(ConnRequests(c)) - 1
      /\ Cardinality(SessRequests(s) \ {r}) = Cardinality(SessRequests(s)) - 1
  <2> DEFINE C == ConnRequests(c)
             S == SessRequests(s)
  <2>1. IsFiniteSet(C) /\ IsFiniteSet(S) /\ r \in C /\ r \in S
    BY <1>1, <1>2
  <2> HIDE DEF C, S
  <2>2. Cardinality(C \ {r}) = Cardinality(C) - 1
    BY <2>1, FS_RemoveElement
  <2>3. Cardinality(S \ {r}) = Cardinality(S) - 1
    BY <2>1, FS_RemoveElement
  <2> QED BY <2>2, <2>3 DEF C, S
<1> QED BY <1>4, <1>5

-----------------------------------------------------------------------------
(* What each kind of step does to the heap. *)

\* Steps that allocate, free and count nothing.
LEMMA MildStep ==
  ASSUME ServerAssumption, HeapInv,
         sock' \in [DOMAIN sock -> SockRec],
         conn' \in [DOMAIN conn -> LooseConn],
         \A c \in DOMAIN conn : /\ conn'[c].fd = conn[c].fd
                                /\ conn'[c].refer = conn[c].refer
                                /\ conn'[c].timer = conn[c].timer,
         sess' \in [DOMAIN sess -> SessRec],
         \A s \in DOMAIN sess : sess'[s].refer = sess[s].refer,
         timer' \in [DOMAIN timer -> TimerRec],
         \A t \in DOMAIN timer : timer'[t].arg = timer[t].arg,
         UNCHANGED <<conns, req, fault>>
  PROVE  KeepsHeap
<1>1. /\ DOMAIN sock' = DOMAIN sock /\ DOMAIN conn' = DOMAIN conn
      /\ DOMAIN sess' = DOMAIN sess /\ DOMAIN timer' = DOMAIN timer
  OBVIOUS
<1>2. HeapType'
  BY DEF HeapInv, HeapType
<1>3. ConnsReached'
  BY <1>1 DEF HeapInv, ConnsReached
<1>4. TimersReached'
  BY <1>1 DEF HeapInv, TimersReached
<1>5. RequestsCounted'
  BY DEF HeapInv, RequestsCounted, Intact, ConnRequests, SessRequests
<1>6. Whole => Whole'
  BY <1>1 DEF Whole
<1> QED BY <1>2, <1>3, <1>4, <1>5, <1>6 DEF HeapInv, KeepsHeap

\* A connection's timer t gives way to a new one u.
LEMMA RetimeStep ==
  ASSUME ServerAssumption, HeapInv, NEW c \in DOMAIN conn,
         NEW u \in Timer \ DOMAIN timer, NEW n \in Nat,
         timer' = Put(Drop(timer, conn[c].timer), u, [left |-> n, arg |-> c]),
         conn' \in [DOMAIN conn -> LooseConn],
         \A d \in DOMAIN conn : /\ conn'[d].fd = conn[d].fd
                                /\ conn'[d].refer = conn[d].refer
                                /\ conn'[d].timer = IF d = c THEN u ELSE conn[d].timer,
         sock' \in [DOMAIN sock -> SockRec],
         UNCHANGED <<conns, sess, req, fault>>
  PROVE  KeepsHeap
<1>0. /\ c \in Conn /\ c \notin Session /\ u # NULL
      /\ conn[c].timer \in DOMAIN timer => timer[conn[c].timer].arg = c
  BY DEF HeapInv, HeapType, TimersReached, ServerAssumption
<1>1. DOMAIN timer' \subseteq Timer /\ timer' \in [DOMAIN timer' -> TimerRec]
  <2>1. [left |-> n, arg |-> c] \in TimerRec
    BY <1>0 DEF TimerRec
  <2> QED BY <2>1 DEF Put, Drop, HeapInv, HeapType
<1>2. DOMAIN conn' = DOMAIN conn /\ DOMAIN sock' = DOMAIN sock
  OBVIOUS
<1>4. HeapType'
  BY <1>1 DEF HeapInv, HeapType
<1>5. ConnsReached'
  BY <1>2 DEF HeapInv, ConnsReached
<1>6. TimersReached'
  <2>1. /\ DOMAIN timer' = (DOMAIN timer \ {conn[c].timer}) \cup {u}
        /\ timer'[u].arg = c
        /\ \A t \in DOMAIN timer' : t # u => timer'[t] = timer[t]
    BY DEF Put, Drop
  <2>2. \A t \in DOMAIN timer : timer[t].arg = c => t = conn[c].timer
    BY <1>0 DEF HeapInv, TimersReached
  <2>3. \A d \in DOMAIN conn :
           d # c /\ conn[d].timer # NULL => conn[d].timer # conn[c].timer
    BY <1>0 DEF HeapInv, TimersReached
  <2>4. DOMAIN conn' = DOMAIN conn /\ DOMAIN sess' = DOMAIN sess
    BY <1>2
  <2>5. \A t \in DOMAIN timer' : timer'[t].arg \in DOMAIN conn' \cup DOMAIN sess'
    BY <2>1, <2>4 DEF HeapInv, TimersReached
  <2>6. /\ \A d \in DOMAIN conn' :
              conn'[d].timer # NULL =>
                  conn'[d].timer \in DOMAIN timer' /\ timer'[conn'[d].timer].arg = d
        /\ \A t \in DOMAIN timer' :
              timer'[t].arg \in DOMAIN conn' => conn'[timer'[t].arg].timer = t
    BY <2>1, <2>2, <2>3, <2>4 DEF HeapInv, TimersReached
  <2>7. \A s \in DOMAIN sess' : \E t \in DOMAIN timer' : timer'[t].arg = s
    <3> SUFFICES ASSUME NEW s \in DOMAIN sess PROVE \E t \in DOMAIN timer' : timer'[t].arg = s
      BY <2>4
    <3>1. PICK t \in DOMAIN timer : timer[t].arg = s
      BY DEF HeapInv, TimersReached
    <3>2. t # conn[c].timer /\ t # u
      BY <1>0, <3>1 DEF HeapInv, HeapType
    <3> QED BY <2>1, <3>1, <3>2
  <2>8. \A t, v \in DOMAIN timer' : timer'[t].arg = timer'[v].arg => t = v
    BY <2>1, <2>2 DEF HeapInv, TimersReached
  <2> QED BY <2>5, <2>6, <2>7, <2>8 DEF TimersReached
<1>7. RequestsCounted'
  BY <1>2 DEF HeapInv, RequestsCounted, Intact, ConnRequests, SessRequests
<1>8. Whole => Whole'
  BY <1>0, <1>2 DEF Whole
<1> QED BY <1>4, <1>5, <1>6, <1>7, <1>8 DEF HeapInv, KeepsHeap

\* The same when nothing else of the connection changes.
LEMMA RetimeOnlyStep ==
  ASSUME ServerAssumption, HeapInv, NEW c \in DOMAIN conn,
         NEW u \in Timer \ DOMAIN timer, NEW n \in Nat,
         timer' = Put(Drop(timer, conn[c].timer), u, [left |-> n, arg |-> c]),
         conn' = [conn EXCEPT ![c].timer = u],
         UNCHANGED <<sock, conns, sess, req, fault>>
  PROVE  KeepsHeap
<1>1. /\ conn' \in [DOMAIN conn -> LooseConn]
      /\ \A d \in DOMAIN conn : /\ conn'[d].fd = conn[d].fd
                                /\ conn'[d].refer = conn[d].refer
                                /\ conn'[d].timer = IF d = c THEN u ELSE conn[d].timer
  BY DEF HeapInv, HeapType, LooseConn
<1>2. sock' \in [DOMAIN sock -> SockRec]
  BY DEF HeapInv, HeapType
<1> QED BY <1>1, <1>2, RetimeStep

\* close_conn keeps the heap whole, whether it frees or waits.
LEMMA CloseStep ==
  ASSUME ServerAssumption, HeapInv, NEW c \in DOMAIN conn,
         CloseConn(c, timer), UNCHANGED <<sess, req>>
  PROVE  KeepsHeap /\ DOMAIN sock \ {conn[c].fd} \subseteq DOMAIN sock'
<1>0. conn[c].timer # NULL =>
          conn[c].timer \in DOMAIN timer /\ timer[conn[c].timer].arg = c
  BY DEF HeapInv, TimersReached
<1>1. CASE conn[c].refer > 0
  <2>1. PICK u \in Timer \ DOMAIN timer :
           /\ timer' = Put(Drop(timer, conn[c].timer), u,
                           [left |-> SocketTimeout, arg |-> c])
           /\ conn' = [conn EXCEPT ![c].timer = u]
           /\ UNCHANGED <<sock, conns, fault>>
    BY <1>0, <1>1 DEF CloseConn
  <2>2. SocketTimeout \in Nat
    BY DEF ServerAssumption
  <2> QED BY <2>1, <2>2, RetimeOnlyStep
<1>2. CASE ~(conn[c].refer > 0)
  <2>1. /\ timer' = Drop(timer, conn[c].timer)
        /\ sock' = Drop(sock, conn[c].fd)
        /\ conns' = Drop(conns, conn[c].fd)
        /\ conn' = Drop(conn, c)
        /\ UNCHANGED fault
    BY <1>0, <1>2 DEF CloseConn
  <2>2. conn[c].refer = 0
    BY <1>2 DEF HeapInv, HeapType, LooseConn
  <2>3. \A r \in DOMAIN req : req[r].conn # c
    BY <2>2, ZeroMeansUnused
  <2>4. HeapType'
    BY <2>1 DEF Drop, HeapInv, HeapType
  <2>5. ConnsReached'
    BY <2>1 DEF Drop, HeapInv, ConnsReached
  <2>6. TimersReached'
    <3>1. \A t \in DOMAIN timer : timer[t].arg = c => t = conn[c].timer
      BY <1>0 DEF HeapInv, TimersReached
    <3>2. c \notin DOMAIN sess
      BY DEF HeapInv, HeapType, ServerAssumption
    <3>3. \A d \in DOMAIN conn :
             d # c /\ conn[d].timer # NULL => conn[d].timer # conn[c].timer
      BY <1>0 DEF HeapInv, TimersReached
    <3>5. NULL \notin DOMAIN timer
      BY DEF HeapInv, HeapType, ServerAssumption
    <3>4. \A s \in DOMAIN sess : \E t \in DOMAIN timer' : timer'[t].arg = s
      <4> SUFFICES ASSUME NEW s \in DOMAIN sess PROVE \E t \in DOMAIN timer' : timer'[t].arg = s
        OBVIOUS
      <4>1. PICK t \in DOMAIN timer : timer[t].arg = s
        BY DEF HeapInv, TimersReached
      <4>2. t # conn[c].timer
        BY <1>0, <3>2, <3>5, <4>1
      <4> QED BY <2>1, <4>1, <4>2 DEF Drop
    <3> QED BY <2>1, <3>1, <3>2, <3>3, <3>4 DEF Drop, HeapInv, TimersReached
  <2>7. RequestsCounted'
    BY <2>1, <2>3 DEF Drop, HeapInv, RequestsCounted, Intact, ConnRequests, SessRequests
  <2>8. Whole => Whole'
    BY <2>1 DEF Drop, Whole
  <2> QED BY <2>1, <2>4, <2>5, <2>6, <2>7, <2>8 DEF Drop, HeapInv, KeepsHeap
<1> QED BY <1>1, <1>2

\* A new connection with its descriptor, its dictionary entry and its timer.
LEMMA AcceptStep ==
  ASSUME ServerAssumption, HeapInv,
         NEW f \in FD, NEW c \in Conn, NEW t \in Timer, Accept(f, c, t)
  PROVE  KeepsHeap
<1>1. f \notin DOMAIN sock /\ c \notin DOMAIN conn /\ t \notin DOMAIN timer
  BY DEF Accept
<1>2. HeapType'
  <2>1. /\ [peer |-> "open", data |-> FALSE, interest |-> "in"] \in SockRec
        /\ [left |-> SocketTimeout, arg |-> c] \in TimerRec
    BY DEF SockRec, TimerRec, ServerAssumption
  <2>2. [fd |-> f, refer |-> 0, timer |-> t, idle |-> 0,
         unsent |-> 0, recvBuf |-> FALSE] \in LooseConn
    <3>1. 0 \in 0 .. ReferMod - 1
      BY FS_CardinalityType DEF ServerAssumption
    <3>2. 0 \in 0 .. MaxIdle
      BY DEF ServerAssumption
    <3> QED BY <3>1, <3>2 DEF LooseConn
  <2> QED BY <2>1, <2>2 DEF Accept, Put, HeapInv, HeapType
<1>3. ConnsReached'
  BY <1>1 DEF Accept, Put, HeapInv, ConnsReached
<1>4. TimersReached'
  <2>1. c \notin DOMAIN sess
    BY DEF HeapInv, HeapType, ServerAssumption
  <2>2. \A u \in DOMAIN timer : timer[u].arg # c
    BY <1>1, <2>1 DEF HeapInv, TimersReached
  <2>3. \A d \in DOMAIN conn : d # c /\ conn[d].timer # t
    BY <1>1 DEF HeapInv, TimersReached
  <2>4. /\ DOMAIN timer' = DOMAIN timer \cup {t} /\ timer'[t].arg = c
        /\ \A u \in DOMAIN timer : timer'[u] = timer[u]
        /\ DOMAIN conn' = DOMAIN conn \cup {c} /\ conn'[c].timer = t
        /\ \A d \in DOMAIN conn : conn'[d] = conn[d]
        /\ sess' = sess
    BY <1>1 DEF Accept, Put
  <2> QED BY <2>1, <2>2, <2>3, <2>4 DEF HeapInv, TimersReached
<1>5. RequestsCounted'
  <2>1. \A r \in DOMAIN req : req[r].conn # c
    BY <1>1 DEF HeapInv, RequestsCounted, Intact
  <2>2. ConnRequests(c)' = {}
    BY <2>1 DEF Accept, ConnRequests
  <2>3. Cardinality(ConnRequests(c)') = 0
    BY <2>2, FS_EmptySet
  <2>4. /\ DOMAIN conn' = DOMAIN conn \cup {c} /\ conn'[c].refer = 0
        /\ \A d \in DOMAIN conn : conn'[d] = conn[d]
        /\ sess' = sess /\ req' = req
    BY <1>1 DEF Accept, Put
  <2>5. \A d : ConnRequests(d)' = ConnRequests(d)
    BY <2>4 DEF ConnRequests
  <2>6. \A d \in DOMAIN conn' : conn'[d].refer = Cardinality(ConnRequests(d)')
    BY <1>1, <2>3, <2>4, <2>5 DEF HeapInv, RequestsCounted
  <2> QED BY <2>4, <2>6 DEF HeapInv, RequestsCounted, Intact, SessRequests
<1>6. fault' = FALSE
  BY DEF Accept, HeapInv
<1>7. Whole => Whole'
  <2>1. t # NULL
    BY DEF ServerAssumption
  <2> QED BY <2>1 DEF Accept, Put, Whole
<1> QED BY <1>2, <1>3, <1>4, <1>5, <1>6, <1>7 DEF HeapInv, KeepsHeap

\* A new request counts itself at its connection and its session; a session
\* made for it gets its timer.
LEMMA RequestStep ==
  ASSUME ServerAssumption, HeapInv, NEW c \in DOMAIN conn, RecvRequest(c)
  PROVE  KeepsHeap /\ cur' \in DOMAIN req' /\ phase' = "handler" /\ DOMAIN sock' = DOMAIN sock
<1>1. PICK r \in Request \ DOMAIN req, s \in Session :
         /\ req' = Put(req, r, [conn |-> c, sess |-> s])
         /\ cur' = r
         /\ AcquireSession(s)
  BY DEF RecvRequest
<1>0. c \in Conn /\ conn[c] \in LooseConn /\ ReferMod \in Nat /\ ReferMod > 0
  BY FS_CardinalityType DEF HeapInv, HeapType, ServerAssumption
<1>2. /\ sock' \in [DOMAIN sock -> SockRec]
      /\ DOMAIN sock' = DOMAIN sock
      /\ UNCHANGED <<conns, fault>>
      /\ phase' = "handler"
  <2>1. conn[c].fd \in DOMAIN sock
    BY DEF HeapInv, ConnsReached
  <2>2. /\ sock' = [sock EXCEPT ![conn[c].fd].data = FALSE]
        /\ UNCHANGED <<conns, fault>>
        /\ phase' = "handler"
    BY DEF RecvRequest
  <2>3. sock \in [DOMAIN sock -> SockRec]
    BY DEF HeapInv, HeapType
  <2>4. sock' \in [DOMAIN sock -> SockRec] /\ DOMAIN sock' = DOMAIN sock
    BY <2>1, <2>2, <2>3 DEF SockRec
  <2> QED BY <2>2, <2>4
<1>3. /\ conn' \in [DOMAIN conn -> LooseConn]
      /\ DOMAIN conn' = DOMAIN conn
      /\ \A d \in DOMAIN conn :
            /\ conn'[d].fd = conn[d].fd /\ conn'[d].timer = conn[d].timer
            /\ conn'[d].refer = IF d = c THEN (conn[d].refer + 1) % ReferMod
                                         ELSE conn[d].refer
  <2>1. (conn[c].refer + 1) % ReferMod \in 0 .. ReferMod - 1
    BY <1>0 DEF LooseConn
  <2>2. 0 \in 0 .. MaxIdle
    BY DEF ServerAssumption
  <2> QED BY <1>0, <2>1, <2>2 DEF RecvRequest, HeapInv, HeapType, LooseConn
<1>4. HeapType /\ r \notin DOMAIN req
  BY DEF HeapInv
<1>5. /\ \A d : Cardinality(ConnRequests(d)')
                  = IF d = c THEN Cardinality(ConnRequests(d)) + 1
                             ELSE Cardinality(ConnRequests(d))
      /\ \A q : Cardinality(SessRequests(q)')
                  = IF q = s THEN Cardinality(SessRequests(q)) + 1
                             ELSE Cardinality(SessRequests(q))
  BY <1>0, <1>1, <1>4, RequestAdded
<1>6. /\ DOMAIN req' \subseteq Request /\ req' \in [DOMAIN req' -> ReqRec]
      /\ DOMAIN req' = DOMAIN req \cup {r}
      /\ req'[r].conn = c /\ req'[r].sess = s
      /\ \A q \in DOMAIN req : req'[q] = req[q]
  BY <1>0, <1>1 DEF Put, HeapInv, HeapType, ReqRec
<1>7. \A d \in DOMAIN conn' : conn'[d].refer = Cardinality(ConnRequests(d)')
  <2>1. Cardinality(ConnRequests(c)') \in 0 .. ReferMod - 1
    <3>1. ConnRequests(c)' \in SUBSET Request
      BY <1>6 DEF ConnRequests
    <3>2. /\ IsFiniteSet(ConnRequests(c)')
          /\ Cardinality(ConnRequests(c)') <= Cardinality(Request)
      BY <3>1, FS_Subset DEF ServerAssumption
    <3> QED BY <1>0, <3>2, FS_CardinalityType DEF ServerAssumption
  <2>2. conn[c].refer + 1 = Cardinality(ConnRequests(c)')
    BY <1>5 DEF HeapInv, RequestsCounted
  <2>3. (conn[c].refer + 1) % ReferMod = conn[c].refer + 1
    BY <1>0, <2>1, <2>2, ModSmall DEF LooseConn
  <2> QED BY <1>3, <1>5, <2>2, <2>3 DEF HeapInv, RequestsCounted
<1>10. Whole => Whole'
  BY <1>2, <1>3 DEF Whole
<1>8. CASE s \in DOMAIN sess
  <2>1. /\ sess' = [sess EXCEPT ![s].refer = @ + 1, ![s].idle = 0]
        /\ UNCHANGED timer
    BY <1>1, <1>8 DEF AcquireSession
  <2>2. 0 \in 0 .. MaxIdle
    BY DEF ServerAssumption
  <2>3. /\ sess' \in [DOMAIN sess -> SessRec]
        /\ DOMAIN sess' = DOMAIN sess
        /\ \A q \in DOMAIN sess : sess'[q].refer = IF q = s THEN sess[q].refer + 1
                                                           ELSE sess[q].refer
    <3>1. sess \in [DOMAIN sess -> SessRec]
      BY DEF HeapInv, HeapType
    <3>2. sess[s] \in SessRec
      BY <1>8, <3>1
    <3>3. /\ DOMAIN sess' = DOMAIN sess
          /\ sess'[s] = [sess[s] EXCEPT !.refer = sess[s].refer + 1, !.idle = 0]
          /\ \A q \in DOMAIN sess : q # s => sess'[q] = sess[q]
          /\ sess' = [q \in DOMAIN sess |-> sess'[q]]
      BY <1>8, <2>1
    <3>4. sess'[s] \in SessRec /\ sess'[s].refer = sess[s].refer + 1
      <4> DEFINE old == sess[s]
      <4>1. old \in [refer : Nat, idle : 0 .. MaxIdle, data : BOOLEAN]
        BY <3>2 DEF SessRec
      <4>2. sess'[s] = [old EXCEPT !.refer = old.refer + 1, !.idle = 0]
        BY <3>3
      <4> HIDE DEF old
      <4>3. /\ sess'[s] \in [refer : Nat, idle : 0 .. MaxIdle, data : BOOLEAN]
            /\ sess'[s].refer = old.refer + 1
        <5>1. [old EXCEPT !.refer = old.refer + 1]
                \in [refer : Nat, idle : 0 .. MaxIdle, data : BOOLEAN]
          BY <4>1
        <5>2. sess'[s] = [[old EXCEPT !.refer = old.refer + 1] EXCEPT !.idle = 0]
          BY <4>1, <4>2
        <5>3. [old EXCEPT !.refer = old.refer + 1].refer = old.refer + 1
          BY <4>1
        <5> QED BY <2>2, <5>1, <5>2, <5>3
      <4> QED BY <4>3 DEF SessRec, old
    <3>5. \A q \in DOMAIN sess : sess'[q] \in SessRec
      BY <3>1, <3>3, <3>4
    <3> QED BY <3>3, <3>4, <3>5
  <2>4. HeapType'
    BY <1>2, <1>3, <1>6, <2>1, <2>3 DEF HeapInv, HeapType
  <2>5. ConnsReached'
    BY <1>2, <1>3 DEF HeapInv, ConnsReached
  <2>6. TimersReached'
    BY <1>3, <2>1, <2>3 DEF HeapInv, TimersReached
  <2>7. \A q \in DOMAIN sess' : sess'[q].refer = Cardinality(SessRequests(q)')
    BY <1>5, <2>3 DEF HeapInv, RequestsCounted
  <2>8. \A q \in DOMAIN req' : Intact(q)'
    BY <1>3, <1>6, <1>8, <2>3 DEF HeapInv, RequestsCounted, Intact
  <2>9. RequestsCounted'
    BY <1>7, <2>7, <2>8 DEF RequestsCounted
  <2> QED BY <1>1, <1>2, <1>6, <2>4, <2>5, <2>6, <2>9, <1>10 DEF HeapInv, KeepsHeap
<1>9. CASE s \notin DOMAIN sess
  <2>1. sess' = Put(sess, s, [refer |-> 1, idle |-> 0, data |-> FALSE])
    BY <1>1, <1>9 DEF AcquireSession
  <2>2. PICK t \in Timer \ DOMAIN timer :
           timer' = Put(timer, t, [left |-> SessionTimeout, arg |-> s])
    BY <1>1, <1>9 DEF AcquireSession
  <2>3. [refer |-> 1, idle |-> 0, data |-> FALSE] \in SessRec
    BY DEF SessRec, ServerAssumption
  <2>4. /\ sess' \in [DOMAIN sess' -> SessRec] /\ DOMAIN sess' = DOMAIN sess \cup {s}
        /\ sess'[s].refer = 1 /\ \A q \in DOMAIN sess : sess'[q] = sess[q]
    BY <1>9, <2>1, <2>3 DEF Put, HeapInv, HeapType
  <2>5. [left |-> SessionTimeout, arg |-> s] \in TimerRec
    BY DEF TimerRec, ServerAssumption
  <2>6. /\ timer' \in [DOMAIN timer' -> TimerRec] /\ DOMAIN timer' = DOMAIN timer \cup {t}
        /\ timer'[t].arg = s /\ \A u \in DOMAIN timer : timer'[u] = timer[u]
    BY <2>2, <2>5 DEF Put, HeapInv, HeapType
  <2>7. HeapType'
    BY <1>2, <1>3, <1>6, <2>4, <2>6 DEF HeapInv, HeapType
  <2>8. ConnsReached'
    BY <1>2, <1>3 DEF HeapInv, ConnsReached
  <2>9. TimersReached'
    <3>1. s \notin DOMAIN conn
      BY DEF HeapInv, HeapType, ServerAssumption
    <3>2. \A u \in DOMAIN timer : timer[u].arg # s
      BY <1>9, <3>1 DEF HeapInv, TimersReached
    <3> QED BY <1>3, <2>4, <2>6, <3>1, <3>2 DEF HeapInv, TimersReached
  <2>10. \A q \in DOMAIN sess' : sess'[q].refer = Cardinality(SessRequests(q)')
    <3>1. SessRequests(s) = {}
      BY <1>9 DEF HeapInv, RequestsCounted, Intact, SessRequests
    <3>2. Cardinality(SessRequests(s)) = 0
      BY <3>1, FS_EmptySet
    <3> QED BY <1>5, <1>9, <2>4, <3>2 DEF HeapInv, RequestsCounted
  <2>11. \A q \in DOMAIN req' : Intact(q)'
    BY <1>3, <1>6, <2>4 DEF HeapInv, RequestsCounted, Intact
  <2>12. RequestsCounted'
    BY <1>7, <2>10, <2>11 DEF RequestsCounted
  <2> QED BY <1>1, <1>2, <1>6, <2>7, <2>8, <2>9, <2>12, <1>10 DEF HeapInv, KeepsHeap
<1> QED BY <1>8, <1>9

\* free_request takes the request out of both counters.
LEMMA FreeStep ==
  ASSUME ServerAssumption, HeapInv, NEW r \in DOMAIN req,
         FreeRequest(r), UNCHANGED <<sock, conns, timer>>
  PROVE  KeepsHeap /\ DOMAIN req' = DOMAIN req \ {r}
<1> DEFINE c == req[r].conn
           s == req[r].sess
<1>0. /\ c \in DOMAIN conn /\ s \in DOMAIN sess /\ Intact(r)
      /\ conn[c] \in LooseConn /\ sess[s] \in SessRec
      /\ ReferMod \in Nat /\ ReferMod > 0
  BY FS_CardinalityType DEF HeapInv, HeapType, RequestsCounted, Intact, ServerAssumption
<1>1. /\ conn' = [conn EXCEPT ![c].refer = (@ - 1) % ReferMod, ![c].recvBuf = FALSE]
      /\ sess' = [sess EXCEPT ![s].refer = @ - 1]
      /\ req' = Drop(req, r)
      /\ UNCHANGED fault
  BY <1>0 DEF FreeRequest
<1>2. HeapType
  BY DEF HeapInv
<1>3. /\ \A d : Cardinality(ConnRequests(d)')
                  = IF d = c THEN Cardinality(ConnRequests(d)) - 1
                             ELSE Cardinality(ConnRequests(d))
      /\ \A q : Cardinality(SessRequests(q)')
                  = IF q = s THEN Cardinality(SessRequests(q)) - 1
                             ELSE Cardinality(SessRequests(q))
  BY <1>1, <1>2, RequestRemoved
<1>4. /\ DOMAIN req' = DOMAIN req \ {r}
      /\ req' \in [DOMAIN req' -> ReqRec]
      /\ \A q \in DOMAIN req' : req'[q] = req[q]
  BY <1>1, <1>2 DEF Drop, HeapType
<1>5. conn[c].refer >= 1 /\ sess[s].refer >= 1
  <2>1. r \in ConnRequests(c) /\ r \in SessRequests(s)
    BY DEF ConnRequests, SessRequests
  <2>2. /\ IsFiniteSet(ConnRequests(c)) /\ IsFiniteSet(SessRequests(s))
        /\ Cardinality(ConnRequests(c)) \in Nat /\ Cardinality(SessRequests(s)) \in Nat
    BY <1>2, CountBound, FS_CardinalityType
  <2>3. Cardinality(ConnRequests(c)) # 0 /\ Cardinality(SessRequests(s)) # 0
    BY <2>1, <2>2, FS_EmptySet
  <2> QED BY <1>0, <2>2, <2>3 DEF HeapInv, RequestsCounted
<1>6. (conn[c].refer - 1) % ReferMod = conn[c].refer - 1
  <2>1. conn[c].refer - 1 \in Nat /\ conn[c].refer - 1 < ReferMod
    BY <1>0, <1>5 DEF LooseConn
  <2> QED BY <1>0, <2>1, ModSmall
<1>7. /\ conn' \in [DOMAIN conn -> LooseConn]
      /\ DOMAIN conn' = DOMAIN conn
      /\ \A d \in DOMAIN conn :
            /\ conn'[d].fd = conn[d].fd /\ conn'[d].timer = conn[d].timer
            /\ conn'[d].refer = IF d = c THEN conn[d].refer - 1 ELSE conn[d].refer
  <2>1. (conn[c].refer - 1) % ReferMod \in 0 .. ReferMod - 1
    BY <1>0, <1>5, <1>6 DEF LooseConn
  <2> QED BY <1>0, <1>1, <1>2, <1>6, <2>1 DEF HeapType, LooseConn
<1>8. /\ sess' \in [DOMAIN sess -> SessRec]
      /\ DOMAIN sess' = DOMAIN sess
      /\ \A q \in DOMAIN sess : sess'[q].refer = IF q = s THEN sess[q].refer - 1
                                                         ELSE sess[q].refer
  <2>1. sess[s].refer - 1 \in Nat
    BY <1>0, <1>5 DEF SessRec
  <2> QED BY <1>0, <1>1, <1>2, <2>1 DEF HeapType, SessRec
<1>9. HeapType'
  BY <1>2, <1>4, <1>7, <1>8 DEF HeapType
<1>10. ConnsReached'
  BY <1>7 DEF HeapInv, ConnsReached
<1>11. TimersReached'
  BY <1>7, <1>8 DEF HeapInv, TimersReached
<1>12. RequestsCounted'
  <2>1. \A d \in DOMAIN conn' : conn'[d].refer = Cardinality(ConnRequests(d)')
    BY <1>3, <1>7 DEF HeapInv, RequestsCounted
  <2>2. \A q \in DOMAIN sess' : sess'[q].refer = Cardinality(SessRequests(q)')
    BY <1>3, <1>8 DEF HeapInv, RequestsCounted
  <2>3. \A q \in DOMAIN req' : Intact(q)'
    BY <1>4, <1>7, <1>8 DEF HeapInv, RequestsCounted, Intact
  <2> QED BY <2>1, <2>2, <2>3 DEF RequestsCounted
<1>13. Whole => Whole'
  BY <1>7 DEF Whole
<1> QED BY <1>1, <1>4, <1>9, <1>10, <1>11, <1>12, <1>13 DEF HeapInv, KeepsHeap

\* A session's timer t gives way to a new one u, and the session may be cleared.
LEMMA RearmStep ==
  ASSUME ServerAssumption, HeapInv,
         NEW t \in DOMAIN timer, timer[t].arg \in DOMAIN sess,
         NEW n \in Nat, Rearm(t, n),
         sess' \in [DOMAIN sess -> SessRec],
         \A q \in DOMAIN sess : sess'[q].refer = sess[q].refer,
         UNCHANGED <<sock, conns, conn, req, fault>>
  PROVE  KeepsHeap
<1> DEFINE s == timer[t].arg
<1>1. PICK u \in Timer \ DOMAIN timer :
         timer' = Put(Drop(timer, t), u, [left |-> n, arg |-> s])
  BY DEF Rearm
<1>2. s \in Session /\ s \notin DOMAIN conn
  BY DEF HeapInv, HeapType, ServerAssumption
<1>3. [left |-> n, arg |-> s] \in TimerRec
  BY <1>2 DEF TimerRec
<1>4. /\ DOMAIN timer' = (DOMAIN timer \ {t}) \cup {u}
      /\ timer'[u].arg = s
      /\ \A v \in DOMAIN timer' : v # u => timer'[v] = timer[v]
      /\ timer' \in [DOMAIN timer' -> TimerRec]
  BY <1>1, <1>3 DEF Put, Drop, HeapInv, HeapType
<1>5. HeapType'
  BY <1>4 DEF HeapInv, HeapType
<1>6. ConnsReached'
  BY DEF HeapInv, ConnsReached
<1>7. TimersReached'
  <2>1. \A c \in DOMAIN conn : conn[c].timer # t
    BY <1>2 DEF HeapInv, HeapType, TimersReached, ServerAssumption
  <2>2. DOMAIN sess' = DOMAIN sess
    OBVIOUS
  <2>3. \A q \in DOMAIN sess : \E v \in DOMAIN timer' : timer'[v].arg = q
    <3> SUFFICES ASSUME NEW q \in DOMAIN sess PROVE \E v \in DOMAIN timer' : timer'[v].arg = q
      OBVIOUS
    <3>1. PICK v \in DOMAIN timer : timer[v].arg = q
      BY DEF HeapInv, TimersReached
    <3>2. CASE v = t
      BY <1>4, <3>1, <3>2
    <3>3. CASE v # t
      BY <1>4, <3>1, <3>3
    <3> QED BY <3>2, <3>3
  <2>4. \A v, w \in DOMAIN timer' : timer'[v].arg = timer'[w].arg => v = w
    BY <1>4 DEF HeapInv, TimersReached
  <2> QED BY <1>4, <2>1, <2>2, <2>3, <2>4 DEF HeapInv, TimersReached
<1>8. RequestsCounted'
  BY DEF HeapInv, RequestsCounted, Intact, ConnRequests, SessRequests
<1>9. Whole => Whole'
  BY DEF Whole
<1> QED BY <1>5, <1>6, <1>7, <1>8, <1>9 DEF HeapInv, KeepsHeap

\* A session nobody holds goes with its timer.
LEMMA DestroyStep ==
  ASSUME ServerAssumption, HeapInv,
         NEW t \in DOMAIN timer, NEW s \in DOMAIN sess,
         timer[t].arg = s, sess[s].refer = 0,
         sess' = Drop(sess, s), timer' = Drop(timer, t),
         UNCHANGED <<sock, conns, conn, req, fault>>
  PROVE  KeepsHeap
<1>1. s \notin DOMAIN conn
  BY DEF HeapInv, HeapType, ServerAssumption
<1>2. /\ DOMAIN timer' = DOMAIN timer \ {t} /\ DOMAIN sess' = DOMAIN sess \ {s}
      /\ \A v \in DOMAIN timer' : timer'[v] = timer[v]
      /\ \A q \in DOMAIN sess' : sess'[q] = sess[q]
  BY DEF Drop
<1>3. \A r \in DOMAIN req : req[r].sess # s
  BY ZeroMeansUnused
<1>4. HeapType'
  BY DEF Drop, HeapInv, HeapType
<1>5. ConnsReached'
  BY DEF HeapInv, ConnsReached
<1>6. TimersReached'
  <2>1. \A c \in DOMAIN conn : conn[c].timer # t
    BY <1>1 DEF HeapInv, HeapType, TimersReached, ServerAssumption
  <2>2. \A v \in DOMAIN timer : timer[v].arg = s => v = t
    BY DEF HeapInv, TimersReached
  <2>3. \A q \in DOMAIN sess' : \E v \in DOMAIN timer' : timer'[v].arg = q
    BY <1>2 DEF HeapInv, TimersReached
  <2> QED BY <1>2, <2>1, <2>2, <2>3 DEF HeapInv, TimersReached
<1>7. RequestsCounted'
  BY <1>2, <1>3 DEF HeapInv, RequestsCounted, Intact, ConnRequests, SessRequests
<1>8. Whole => Whole'
  BY DEF Whole
<1> QED BY <1>4, <1>5, <1>6, <1>7, <1>8 DEF HeapInv, KeepsHeap

\* One turn of the timer pass.
LEMMA ExplodeStep ==
  ASSUME ServerAssumption, HeapInv, NEW t \in Timer, Explode(t)
  PROVE  KeepsHeap /\ UNCHANGED sock
<1> DEFINE arg == timer[t].arg
<1>1. t \in DOMAIN timer /\ UNCHANGED req
  BY DEF Explode, DueTimers
<1>2. arg \in DOMAIN conn \cup DOMAIN sess
  BY <1>1 DEF HeapInv, TimersReached
<1>3. CASE arg \in DOMAIN conn
  <2>1. arg \notin DOMAIN sess
    BY <1>3 DEF HeapInv, HeapType, ServerAssumption
  <2>2. CheckTimeout(arg, t) /\ UNCHANGED sess
    BY <1>3, <2>1 DEF Explode
  <2>3. conn[arg].timer = t
    BY <1>1, <1>3 DEF HeapInv, TimersReached
  <2>4. conn[arg] \in LooseConn
    BY <1>3 DEF HeapInv, HeapType
  <2>5. /\ conn[arg].idle \in Nat
        /\ SocketTimeout \in Nat /\ SocketTimeout > 0
    BY <2>4 DEF LooseConn, ServerAssumption
  <2>6. -conn[arg].idle < SocketTimeout /\ SocketTimeout - (-conn[arg].idle) \in Nat
    BY <2>5
  <2>7. PICK u \in Timer \ DOMAIN timer :
           /\ timer' = Put(Drop(timer, t), u,
                           [left |-> SocketTimeout - (-conn[arg].idle), arg |-> arg])
           /\ conn' = [conn EXCEPT ![arg].timer = u]
           /\ UNCHANGED <<sock, conns, fault>>
    BY <2>2, <2>6 DEF CheckTimeout
  <2> QED BY <1>1, <1>3, <2>2, <2>3, <2>6, <2>7, RetimeOnlyStep
<1>4. CASE arg \in DOMAIN sess
  <2>1. arg \notin DOMAIN conn
    BY <1>4 DEF HeapInv, HeapType, ServerAssumption
  <2>2. CheckSessionTimeout(arg, t) /\ UNCHANGED <<sock, conns, conn, fault>>
    BY <1>4, <2>1 DEF Explode
  <2>3. sess[arg] \in SessRec /\ sess \in [DOMAIN sess -> SessRec]
    BY <1>4 DEF HeapInv, HeapType
  <2>4. CASE sess[arg].idle < SessionTimeout
    <3>1. Rearm(t, SessionTimeout - sess[arg].idle) /\ UNCHANGED sess
      BY <2>2, <2>4 DEF CheckSessionTimeout
    <3>2. SessionTimeout - sess[arg].idle \in Nat
      BY <2>3, <2>4 DEF SessRec, ServerAssumption
    <3> QED BY <1>1, <1>4, <2>2, <2>3, <3>1, <3>2, RearmStep
  <2>5. CASE ~(sess[arg].idle < SessionTimeout) /\ sess[arg].refer > 0
    <3>1. Rearm(t, 1) /\ sess' = [sess EXCEPT ![arg].data = FALSE]
      BY <2>2, <2>5 DEF CheckSessionTimeout
    <3>2. /\ sess' \in [DOMAIN sess -> SessRec]
          /\ \A q \in DOMAIN sess : sess'[q].refer = sess[q].refer
      BY <1>4, <2>3, <3>1 DEF SessRec
    <3> QED BY <1>1, <1>4, <2>2, <3>1, <3>2, RearmStep
  <2>6. CASE ~(sess[arg].idle < SessionTimeout) /\ ~(sess[arg].refer > 0)
    <3>1. sess' = Drop(sess, arg) /\ timer' = Drop(timer, t)
      BY <2>2, <2>6 DEF CheckSessionTimeout
    <3>2. sess[arg].refer = 0
      BY <2>3, <2>6 DEF SessRec
    <3> QED BY <1>1, <1>4, <2>2, <3>1, <3>2, DestroyStep
  <2> QED BY <2>4, <2>5, <2>6
<1> QED BY <1>2, <1>3, <1>4

\* write_to_buf, from the library or from a handler.
LEMMA WriteStep ==
  ASSUME ServerAssumption, HeapInv, NEW c \in DOMAIN conn,
         NEW connNow \in [DOMAIN conn -> LooseConn],
         \A d \in DOMAIN conn : /\ connNow[d].fd = conn[d].fd
                                /\ connNow[d].refer = conn[d].refer
                                /\ connNow[d].timer = conn[d].timer,
         NEW sockNow \in [DOMAIN sock -> SockRec],
         WriteToBuf(c, connNow, sockNow),
         UNCHANGED <<conns, sess, req, timer, fault>>
  PROVE  KeepsHeap
<1>1. conn[c].fd \in DOMAIN sock
  BY DEF HeapInv, ConnsReached
<1>2. /\ conn' = [connNow EXCEPT ![c].unsent = @ + 1]
      /\ sock' = [sockNow EXCEPT ![connNow[c].fd].interest = "out"]
  BY DEF WriteToBuf
<1>3. /\ conn' \in [DOMAIN conn -> LooseConn]
      /\ \A d \in DOMAIN conn : /\ conn'[d].fd = connNow[d].fd
                                /\ conn'[d].refer = connNow[d].refer
                                /\ conn'[d].timer = connNow[d].timer
  BY <1>2 DEF LooseConn
<1>4. sock' \in [DOMAIN sock -> SockRec]
  BY <1>1, <1>2 DEF SockRec
<1>5. /\ sess' \in [DOMAIN sess -> SessRec] /\ timer' \in [DOMAIN timer -> TimerRec]
      /\ \A s \in DOMAIN sess : sess'[s].refer = sess[s].refer
      /\ \A t \in DOMAIN timer : timer'[t].arg = timer[t].arg
  BY DEF HeapInv, HeapType
<1> QED BY <1>3, <1>4, <1>5, MildStep

\* recv_from_peer.
LEMMA RecvStep ==
  ASSUME ServerAssumption, HeapInv, NEW c \in DOMAIN conn, RecvFromPeer(c)
  PROVE  /\ KeepsHeap
         /\ DOMAIN sock \ {conn[c].fd} \subseteq DOMAIN sock'
         /\ \/ phase' = "handler" /\ cur' \in DOMAIN req'
            \/ UNCHANGED <<phase, cur, req>>
<1>0. /\ conn[c].fd \in DOMAIN sock /\ conn[c] \in LooseConn
      /\ conn \in [DOMAIN conn -> LooseConn] /\ sock \in [DOMAIN sock -> SockRec]
      /\ 0 \in 0 .. MaxIdle
  BY DEF HeapInv, HeapType, ConnsReached, ServerAssumption
<1>1. CASE RecvEof(c)
  BY <1>1, CloseStep DEF RecvEof
<1>2. CASE RecvRefused(c)
  <2>1. PICK idle \in {0, conn[c].idle} :
           WriteToBuf(c, [conn EXCEPT ![c].idle = idle, ![c].recvBuf = FALSE],
                         [sock EXCEPT ![conn[c].fd].data = FALSE])
    BY <1>2 DEF RecvRefused
  <2>2. UNCHANGED <<phase, cur, conns, sess, req, timer, fault>>
    BY <1>2 DEF RecvRefused
  <2> DEFINE connNow == [conn EXCEPT ![c].idle = idle, ![c].recvBuf = FALSE]
             sockNow == [sock EXCEPT ![conn[c].fd].data = FALSE]
  <2>3. idle \in 0 .. MaxIdle
    BY <1>0 DEF LooseConn
  <2>4. /\ connNow \in [DOMAIN conn -> LooseConn]
        /\ \A d \in DOMAIN conn : /\ connNow[d].fd = conn[d].fd
                                  /\ connNow[d].refer = conn[d].refer
                                  /\ connNow[d].timer = conn[d].timer
    BY <1>0, <2>3 DEF LooseConn
  <2>5. sockNow \in [DOMAIN sock -> SockRec]
    BY <1>0 DEF SockRec
  <2> QED BY <2>1, <2>2, <2>4, <2>5, WriteStep DEF WriteToBuf
<1>3. CASE RecvPart(c)
  <2>1. /\ sock' = [sock EXCEPT ![conn[c].fd].data = FALSE]
        /\ conn' = [conn EXCEPT ![c].idle = IF conn[c].recvBuf THEN @ ELSE 0,
                                ![c].recvBuf = TRUE]
        /\ UNCHANGED <<phase, cur, conns, sess, req, timer, fault>>
    BY <1>3 DEF RecvPart
  <2>2. sock' \in [DOMAIN sock -> SockRec]
    BY <1>0, <2>1 DEF SockRec
  <2>3. /\ conn' \in [DOMAIN conn -> LooseConn]
        /\ \A d \in DOMAIN conn : /\ conn'[d].fd = conn[d].fd
                                  /\ conn'[d].refer = conn[d].refer
                                  /\ conn'[d].timer = conn[d].timer
    BY <1>0, <2>1 DEF LooseConn
  <2>4. sess \in [DOMAIN sess -> SessRec] /\ timer \in [DOMAIN timer -> TimerRec]
    BY DEF HeapInv, HeapType
  <2> QED BY <2>1, <2>2, <2>3, <2>4, MildStep
<1>4. CASE RecvRequest(c)
  BY <1>4, RequestStep
<1>5. CASE RecvCut(c)
  <2>1. PICK u \in Timer \ DOMAIN timer :
           /\ timer' = Put(Drop(timer, conn[c].timer), u,
                           [left |-> SocketTimeout, arg |-> c])
           /\ conn' = [conn EXCEPT ![c].timer = u, ![c].idle = 0, ![c].recvBuf = TRUE]
    BY <1>5 DEF RecvCut
  <2>2. /\ sock' = [sock EXCEPT ![conn[c].fd].data = FALSE]
        /\ UNCHANGED <<phase, cur, conns, sess, req, fault>>
    BY <1>5 DEF RecvCut
  <2>3. u \in Timer /\ SocketTimeout \in Nat
    BY DEF ServerAssumption
  <2>4. /\ conn' \in [DOMAIN conn -> LooseConn]
        /\ \A d \in DOMAIN conn : /\ conn'[d].fd = conn[d].fd
                                  /\ conn'[d].refer = conn[d].refer
                                  /\ conn'[d].timer = IF d = c THEN u ELSE conn[d].timer
    BY <1>0, <2>1, <2>3 DEF LooseConn
  <2>5. sock' \in [DOMAIN sock -> SockRec]
    BY <1>0, <2>2 DEF SockRec
  <2>6. KeepsHeap
    BY <2>1, <2>2, <2>3, <2>4, <2>5, RetimeStep
  <2> QED BY <2>2, <2>5, <2>6
<1> QED BY <1>1, <1>2, <1>3, <1>4, <1>5 DEF RecvFromPeer

\* send_to_peer.
LEMMA SendStep ==
  ASSUME ServerAssumption, HeapInv, NEW c \in DOMAIN conn,
         SendToPeer(c), UNCHANGED <<sess, req>>
  PROVE  KeepsHeap /\ DOMAIN sock \ {conn[c].fd} \subseteq DOMAIN sock'
<1>0. /\ conn[c].fd \in DOMAIN sock /\ conn[c] \in LooseConn
      /\ conn \in [DOMAIN conn -> LooseConn] /\ sock \in [DOMAIN sock -> SockRec]
      /\ 0 \in 0 .. MaxIdle
  BY DEF HeapInv, HeapType, ConnsReached, ServerAssumption
<1>1. CASE CloseConn(c, timer)
  BY <1>1, CloseStep
<1>2. CASE ~CloseConn(c, timer)
  <2>1. PICK left \in 0 .. conn[c].unsent, blocked \in BOOLEAN :
           /\ conn' = [conn EXCEPT ![c].unsent = left,
                                   ![c].idle = IF blocked THEN @ ELSE 0]
           /\ sock' = IF left = 0
                      THEN [sock EXCEPT ![conn[c].fd].interest = "in"]
                      ELSE sock
    BY <1>2 DEF SendToPeer
  <2>2. UNCHANGED <<conns, timer, fault>>
    BY <1>2 DEF SendToPeer
  <2>3. left \in Nat
    OBVIOUS
  <2>4. /\ conn' \in [DOMAIN conn -> LooseConn]
        /\ \A d \in DOMAIN conn : /\ conn'[d].fd = conn[d].fd
                                  /\ conn'[d].refer = conn[d].refer
                                  /\ conn'[d].timer = conn[d].timer
    BY <1>0, <2>1, <2>3 DEF LooseConn
  <2>5. sock' \in [DOMAIN sock -> SockRec]
    BY <1>0, <2>1 DEF SockRec
  <2>6. sess \in [DOMAIN sess -> SessRec] /\ timer \in [DOMAIN timer -> TimerRec]
    BY DEF HeapInv, HeapType
  <2> QED BY <2>2, <2>4, <2>5, <2>6, MildStep
<1> QED BY <1>1, <1>2

-----------------------------------------------------------------------------
(* Every step keeps BaseInv, and what is whole whole. *)

\* The peers and the clocks.
LEMMA WorldStep ==
  ASSUME ServerAssumption, BaseInv, World \/ Tick
  PROVE  KeepsInv
<1>0. /\ sock \in [DOMAIN sock -> SockRec] /\ conn \in [DOMAIN conn -> LooseConn]
      /\ sess \in [DOMAIN sess -> SessRec] /\ timer \in [DOMAIN timer -> TimerRec]
  BY DEF BaseInv, HeapInv, HeapType
<1>1. CASE Connect
  <2>1. LoopInv'
    BY <1>1 DEF BaseInv, LoopInv, RequestOnStack, Connect, loopVars, heapVars, ServerAssumption
  <2>2. KeepsHeap
    <3>1. UNCHANGED <<sock, conns, conn, sess, req, timer, fault>>
      BY <1>1 DEF Connect, heapVars
    <3> QED BY <1>0, <3>1, MildStep DEF BaseInv
  <2> QED BY <2>1, <2>2 DEF KeepsInv
<1>2. ASSUME NEW f \in DOMAIN sock, PeerSends(f) \/ PeerCloses(f)
      PROVE  KeepsInv
  <2>1. /\ sock' \in [DOMAIN sock -> SockRec]
        /\ UNCHANGED <<backlog, loopVars, heapVars, fault>>
    <3>1. CASE PeerSends(f)
      BY <1>0, <3>1 DEF PeerSends, SockRec
    <3>2. CASE PeerCloses(f)
      BY <1>0, <3>2 DEF PeerCloses, SockRec
    <3> QED BY <1>2, <3>1, <3>2
  <2>2. KeepsHeap
    BY <1>0, <2>1, MildStep DEF BaseInv, heapVars
  <2>3. LoopInv'
    BY <2>1 DEF BaseInv, LoopInv, RequestOnStack, loopVars, heapVars
  <2> QED BY <2>2, <2>3 DEF KeepsInv
<1>3. ASSUME NEW d \in Jumps, WallClockStep(d)
      PROVE  KeepsInv
  <2>1. /\ timer' = [t \in DOMAIN timer |-> [timer[t] EXCEPT !.left = AtLeast0(@ - d)]]
        /\ UNCHANGED <<kernelVars, loopVars, conns, conn, sess, req, fault>>
    BY <1>3 DEF WallClockStep
  <2>2. d \in Int
    BY DEF ServerAssumption
  <2>3. /\ timer' \in [DOMAIN timer -> TimerRec]
        /\ \A t \in DOMAIN timer : timer'[t].arg = timer[t].arg
    BY <1>0, <2>1, <2>2 DEF TimerRec, AtLeast0
  <2>4. KeepsHeap
    BY <1>0, <2>1, <2>3, MildStep DEF BaseInv, kernelVars
  <2>5. LoopInv'
    BY <2>1 DEF BaseInv, LoopInv, RequestOnStack, loopVars, kernelVars
  <2> QED BY <2>4, <2>5 DEF KeepsInv
<1>4. CASE Tick
  <2>1. /\ timer' = [t \in DOMAIN timer |-> [timer[t] EXCEPT !.left = AtLeast0(@ - 1)]]
        /\ conn' = [c \in DOMAIN conn |-> [conn[c] EXCEPT !.idle = Aged(@)]]
        /\ sess' = [s \in DOMAIN sess |-> [sess[s] EXCEPT !.idle = Aged(@)]]
        /\ UNCHANGED <<kernelVars, loopVars, conns, req, fault>>
    BY <1>4 DEF Tick
  <2>2. \A n \in 0 .. MaxIdle : Aged(n) \in 0 .. MaxIdle
    BY DEF Aged, ServerAssumption
  <2>3. /\ timer' \in [DOMAIN timer -> TimerRec]
        /\ \A t \in DOMAIN timer : timer'[t].arg = timer[t].arg
    <3>1. \A n \in Nat : AtLeast0(n - 1) \in Nat
      BY DEF AtLeast0
    <3> QED BY <1>0, <2>1, <3>1 DEF TimerRec
  <2>4. /\ conn' \in [DOMAIN conn -> LooseConn]
        /\ \A d \in DOMAIN conn : /\ conn'[d].fd = conn[d].fd
                                  /\ conn'[d].refer = conn[d].refer
                                  /\ conn'[d].timer = conn[d].timer
    BY <1>0, <2>1, <2>2 DEF LooseConn
  <2>5. /\ sess' \in [DOMAIN sess -> SessRec]
        /\ \A s \in DOMAIN sess : sess'[s].refer = sess[s].refer
    BY <1>0, <2>1, <2>2 DEF SessRec
  <2>6. KeepsHeap
    BY <1>0, <2>1, <2>3, <2>4, <2>5, MildStep DEF BaseInv, kernelVars
  <2>7. LoopInv'
    BY <2>1 DEF BaseInv, LoopInv, RequestOnStack, loopVars, kernelVars
  <2> QED BY <2>6, <2>7 DEF KeepsInv
<1> QED BY <1>1, <1>2, <1>3, <1>4 DEF World

\* What every branch of the event loop does to evts.
LEMMA TakenEvent ==
  ASSUME LoopInv, NEW f, NEW kind, TakeEvent(f, kind)
  PROVE  /\ phase = "events" /\ cur = NULL /\ f \in DOMAIN sock
         /\ backlog' \in 0 .. MaxBacklog
         /\ DOMAIN evts' = DOMAIN evts \ {f} /\ DOMAIN evts \subseteq DOMAIN sock
         /\ evts' \in [DOMAIN evts' -> {"in", "out", "hup"}]
         /\ acceptable' \in BOOLEAN /\ (acceptable' => backlog' > 0)
BY DEF LoopInv, RequestOnStack, TakeEvent, Drop

\* Data, room or a hang-up on a peer's socket.
LEMMA EventStep ==
  ASSUME ServerAssumption, BaseInv, NEW f \in FD,
         ReadData(f) \/ WriteData(f) \/ CloseByFd(f)
  PROVE  KeepsInv
<1> DEFINE c == conns[f]
<1>0. HeapInv /\ LoopInv
  BY DEF BaseInv
<1>1. PICK kind : TakeEvent(f, kind)
  BY DEF ReadData, WriteData, CloseByFd
<1>2. /\ phase = "events" /\ cur = NULL /\ f \in DOMAIN sock
      /\ backlog' \in 0 .. MaxBacklog
      /\ DOMAIN evts' = DOMAIN evts \ {f} /\ DOMAIN evts \subseteq DOMAIN sock
      /\ evts' \in [DOMAIN evts' -> {"in", "out", "hup"}]
      /\ acceptable' \in BOOLEAN /\ (acceptable' => backlog' > 0)
  BY <1>0, <1>1, TakenEvent
<1>3. f \in DOMAIN conns /\ c \in DOMAIN conn /\ conn[c].fd = f
  BY <1>0, <1>2 DEF HeapInv, ConnsReached
<1>4. ASSUME KeepsHeap, UNCHANGED <<phase, cur>>,
             DOMAIN sock \ {conn[c].fd} \subseteq DOMAIN sock'
      PROVE  KeepsInv
  BY <1>0, <1>2, <1>3, <1>4 DEF KeepsInv, LoopInv, RequestOnStack
<1>5. CASE ReadData(f)
  <2>1. RecvFromPeer(c)
    BY <1>3, <1>5 DEF ReadData, WithConn
  <2>2. /\ KeepsHeap
        /\ DOMAIN sock \ {conn[c].fd} \subseteq DOMAIN sock'
        /\ \/ phase' = "handler" /\ cur' \in DOMAIN req'
           \/ UNCHANGED <<phase, cur, req>>
    BY <1>0, <1>3, <2>1, RecvStep
  <2>3. CASE UNCHANGED <<phase, cur>>
    BY <1>4, <2>2, <2>3
  <2>4. CASE phase' = "handler" /\ cur' \in DOMAIN req'
    <3>1. cur' \in Request
      BY <2>2, <2>4 DEF KeepsHeap, HeapInv, HeapType
    <3>2. DOMAIN evts' \subseteq DOMAIN sock'
      BY <1>2, <1>3, <2>2
    <3> QED BY <1>2, <2>2, <2>4, <3>1, <3>2 DEF KeepsInv, LoopInv, RequestOnStack
  <2> QED BY <2>2, <2>3, <2>4
<1>6. CASE WriteData(f)
  <2>1. SendToPeer(c) /\ UNCHANGED <<phase, cur, sess, req>>
    BY <1>3, <1>6 DEF WriteData, WithConn
  <2>2. KeepsHeap /\ DOMAIN sock \ {conn[c].fd} \subseteq DOMAIN sock'
    BY <1>0, <1>3, <2>1, SendStep
  <2> QED BY <1>4, <2>1, <2>2
<1>7. CASE CloseByFd(f)
  <2>1. CloseConn(c, timer) /\ UNCHANGED <<phase, cur, sess, req>>
    BY <1>3, <1>7 DEF CloseByFd, WithConn
  <2>2. KeepsHeap /\ DOMAIN sock \ {conn[c].fd} \subseteq DOMAIN sock'
    BY <1>0, <1>3, <2>1, CloseStep
  <2> QED BY <1>4, <2>1, <2>2
<1> QED BY <1>5, <1>6, <1>7

\* What the application does, and the return of its handler.
LEMMA HandlerStep ==
  ASSUME ServerAssumption, BaseInv,
         \/ \E r \in Request : AppWrites(r) \/ AppSetsSession(r) \/ AppFrees(r)
         \/ ReturnComplete \/ ReturnIncomplete
  PROVE  KeepsInv
<1>0. /\ HeapInv /\ LoopInv
      /\ sock \in [DOMAIN sock -> SockRec] /\ conn \in [DOMAIN conn -> LooseConn]
      /\ sess \in [DOMAIN sess -> SessRec] /\ timer \in [DOMAIN timer -> TimerRec]
  BY DEF BaseInv, HeapInv, HeapType
<1>1. ASSUME NEW r \in Request, AppWrites(r)
      PROVE  KeepsInv
  <2>1. r \in DOMAIN req /\ Intact(r)
    BY <1>0, <1>1 DEF AppWrites, HeapInv, RequestsCounted
  <2>2. /\ WriteToBuf(req[r].conn, conn, sock)
        /\ UNCHANGED <<backlog, loopVars, conns, sess, req, timer, fault>>
    BY <1>1, <2>1 DEF AppWrites
  <2>3. req[r].conn \in DOMAIN conn
    BY <2>1 DEF Intact
  <2>4. KeepsHeap
    BY <1>0, <2>2, <2>3, WriteStep
  <2> QED BY <1>0, <2>2, <2>4 DEF WriteToBuf, KeepsInv, LoopInv, RequestOnStack, loopVars
<1>2. ASSUME NEW r \in Request, AppSetsSession(r)
      PROVE  KeepsInv
  <2>1. r \in DOMAIN req /\ Intact(r)
    BY <1>0, <1>2 DEF AppSetsSession, HeapInv, RequestsCounted
  <2>2. /\ sess' = [sess EXCEPT ![req[r].sess].data = TRUE]
        /\ UNCHANGED <<kernelVars, loopVars, conns, conn, req, timer, fault>>
    BY <1>2, <2>1 DEF AppSetsSession
  <2>3. /\ sess' \in [DOMAIN sess -> SessRec]
        /\ \A s \in DOMAIN sess : sess'[s].refer = sess[s].refer
    BY <1>0, <2>2 DEF SessRec
  <2>4. KeepsHeap
    BY <1>0, <2>2, <2>3, MildStep DEF kernelVars
  <2> QED BY <1>0, <2>2, <2>4 DEF KeepsInv, LoopInv, RequestOnStack, loopVars, kernelVars
<1>3. ASSUME NEW r \in Request, AppFrees(r)
      PROVE  KeepsInv
  <2>1. /\ r \in DOMAIN req /\ r # cur
        /\ FreeRequest(r)
        /\ UNCHANGED <<kernelVars, loopVars, conns, timer>>
    BY <1>3 DEF AppFrees
  <2>2. KeepsHeap /\ DOMAIN req' = DOMAIN req \ {r}
    BY <1>0, <2>1, FreeStep DEF kernelVars
  <2> QED BY <1>0, <2>1, <2>2 DEF KeepsInv, LoopInv, RequestOnStack, loopVars, kernelVars
<1>4. CASE ReturnComplete
  <2>1. cur \in DOMAIN req
    BY <1>0, <1>4 DEF ReturnComplete, LoopInv, RequestOnStack
  <2>2. FreeRequest(cur) /\ BackToLoop
    BY <1>4 DEF ReturnComplete
  <2>3. KeepsHeap
    BY <1>0, <2>1, <2>2, FreeStep DEF BackToLoop, kernelVars
  <2> QED BY <1>0, <2>2, <2>3 DEF BackToLoop, KeepsInv, BaseInv, LoopInv, RequestOnStack, kernelVars
<1>5. CASE ReturnIncomplete
  <2>1. cur \in DOMAIN req /\ Intact(cur)
    BY <1>0, <1>5 DEF ReturnIncomplete, LoopInv, RequestOnStack, HeapInv, RequestsCounted
  <2>2. req[cur].conn \in DOMAIN conn
    BY <2>1 DEF Intact
  <2>3. /\ conn' = [conn EXCEPT ![req[cur].conn].recvBuf = FALSE]
        /\ UNCHANGED <<sess, req, fault>> /\ BackToLoop
    BY <1>5, <2>2 DEF ReturnIncomplete
  <2>4. /\ conn' \in [DOMAIN conn -> LooseConn]
        /\ \A d \in DOMAIN conn : /\ conn'[d].fd = conn[d].fd
                                  /\ conn'[d].refer = conn[d].refer
                                  /\ conn'[d].timer = conn[d].timer
    <3>1. /\ conn' = [conn EXCEPT ![req[cur].conn].recvBuf = FALSE]
          /\ conn \in [DOMAIN conn -> LooseConn]
      BY <1>0, <2>3
    <3>2. \A d \in DOMAIN conn :
             /\ conn[d] \in LooseConn
             /\ conn'[d] \in {conn[d], [conn[d] EXCEPT !.recvBuf = FALSE]}
      BY <3>1
    <3>3. \A b \in LooseConn :
             LET e == [b EXCEPT !.recvBuf = FALSE]
             IN  /\ e \in LooseConn
                 /\ e.fd = b.fd /\ e.refer = b.refer /\ e.timer = b.timer
      BY DEF LooseConn
    <3>4. \A d \in DOMAIN conn : /\ conn'[d] \in LooseConn
                                 /\ conn'[d].fd = conn[d].fd
                                 /\ conn'[d].refer = conn[d].refer
                                 /\ conn'[d].timer = conn[d].timer
      BY <3>2, <3>3
    <3> QED BY <3>1, <3>4
  <2>5. KeepsHeap
    BY <1>0, <2>3, <2>4, MildStep DEF BackToLoop, kernelVars
  <2> QED BY <1>0, <2>3, <2>5 DEF BackToLoop, KeepsInv, BaseInv, LoopInv, RequestOnStack, kernelVars
<1> QED BY <1>1, <1>2, <1>3, <1>4, <1>5

\* IInv holds of the initial state.
LEMMA InitIInv == ServerAssumption /\ Init => IInv
<1> SUFFICES ASSUME ServerAssumption, Init PROVE IInv
  OBVIOUS
<1>1. HeapInv /\ Whole
  BY DEF Init, Empty, HeapInv, HeapType, ConnsReached, TimersReached, RequestsCounted, Whole
<1>2. LoopInv
  <2>1. DOMAIN evts = {} /\ evts \in [DOMAIN evts -> {"in", "out", "hup"}]
    BY DEF Init, Empty
  <2>2. backlog \in 0 .. MaxBacklog
    BY DEF Init, ServerAssumption
  <2> QED BY <2>1, <2>2 DEF Init, LoopInv, RequestOnStack
<1> QED BY <1>1, <1>2 DEF IInv, BaseInv

\* Every step keeps BaseInv, and what is whole whole.
LEMMA NextKeepsInv == ServerAssumption /\ BaseInv /\ [Next]_vars => KeepsInv
<1> SUFFICES ASSUME ServerAssumption, BaseInv, [Next]_vars PROVE KeepsInv
  OBVIOUS
<1>0. HeapInv /\ LoopInv
  BY DEF BaseInv
<1>1. ASSUME UNCHANGED <<sock, heapVars, fault>> PROVE KeepsHeap
  BY <1>0, <1>1 DEF heapVars, HeapInv, HeapType, ConnsReached, TimersReached,
                    RequestsCounted, Intact, ConnRequests, SessRequests, Whole, KeepsHeap
<1>2. CASE World \/ Tick
  BY <1>2, WorldStep
<1>3. CASE EpollWait
  <2>1. KeepsHeap
    BY <1>1, <1>3 DEF EpollWait, kernelVars
  <2>2. PICK F \in SUBSET DOMAIN sock : evts' \in [F -> {"in", "out", "hup"}]
    BY <1>3 DEF EpollWait
  <2>3. LoopInv'
    BY <1>0, <1>3, <2>2 DEF EpollWait, kernelVars, heapVars, LoopInv, RequestOnStack
  <2> QED BY <2>1, <2>3 DEF KeepsInv
<1>4. ASSUME NEW f \in FD, NEW c \in Conn, NEW t \in Timer, Accept(f, c, t)
      PROVE  KeepsInv
  <2>1. KeepsHeap
    BY <1>0, <1>4, AcceptStep
  <2>2. LoopInv'
    <3>1. /\ acceptable /\ acceptable' = FALSE /\ backlog' = backlog - 1
          /\ phase = "events" /\ UNCHANGED <<phase, evts, cur, req>>
          /\ DOMAIN sock' = DOMAIN sock \cup {f}
      BY <1>4 DEF Accept, Put
    <3>2. backlog' \in 0 .. MaxBacklog
      BY <1>0, <3>1 DEF LoopInv, ServerAssumption
    <3> QED BY <1>0, <3>1, <3>2 DEF LoopInv, RequestOnStack
  <2> QED BY <2>1, <2>2 DEF KeepsInv
<1>5. CASE AcceptFails \/ EndEvents
  <2>1. KeepsHeap
    BY <1>1, <1>5 DEF AcceptFails, EndEvents, kernelVars
  <2>2. LoopInv'
    <3>1. /\ UNCHANGED <<backlog, sock, evts, cur, req>>
          /\ phase = "events" /\ phase' \in {"events", "timers"}
          /\ acceptable' \in BOOLEAN /\ (acceptable' => acceptable)
      <4>1. CASE AcceptFails
        BY <4>1 DEF AcceptFails, kernelVars, heapVars
      <4>2. CASE EndEvents
        BY <1>0, <4>2 DEF EndEvents, kernelVars, heapVars, LoopInv
      <4> QED BY <1>5, <4>1, <4>2
    <3> QED BY <1>0, <3>1 DEF LoopInv, RequestOnStack
  <2> QED BY <2>1, <2>2 DEF KeepsInv
<1>6. ASSUME NEW f \in FD, ReadData(f) \/ WriteData(f) \/ CloseByFd(f)
      PROVE  KeepsInv
  BY <1>6, EventStep
<1>7. CASE \/ \E r \in Request : AppWrites(r) \/ AppSetsSession(r) \/ AppFrees(r)
           \/ ReturnComplete \/ ReturnIncomplete
  BY <1>7, HandlerStep
<1>8. ASSUME NEW t \in Timer, Explode(t)
      PROVE  KeepsInv
  <2>1. KeepsHeap /\ UNCHANGED sock
    BY <1>0, <1>8, ExplodeStep
  <2>2. UNCHANGED <<backlog, loopVars, req>>
    BY <1>8 DEF Explode
  <2> QED BY <1>0, <2>1, <2>2 DEF KeepsInv, LoopInv, RequestOnStack, loopVars
<1>9. CASE EndTimers
  <2>1. KeepsHeap
    BY <1>1, <1>9 DEF EndTimers, kernelVars
  <2>2. LoopInv'
    BY <1>0, <1>9 DEF EndTimers, kernelVars, heapVars, LoopInv, RequestOnStack
  <2> QED BY <2>1, <2>2 DEF KeepsInv
<1>10. CASE UNCHANGED vars
  <2>1. KeepsHeap
    BY <1>1, <1>10 DEF vars, kernelVars, heapVars
  <2>2. LoopInv'
    BY <1>0, <1>10 DEF vars, kernelVars, loopVars, heapVars, LoopInv, RequestOnStack
  <2> QED BY <2>1, <2>2 DEF KeepsInv
<1> QED
  BY <1>2, <1>3, <1>4, <1>5, <1>6, <1>7, <1>8, <1>9, <1>10 DEF Next, ServerStep

\* IInv is an invariant of the server.
THEOREM SpecIInv == Spec => []IInv
<1>1. Init => IInv
  BY InitIInv, ServerAssumption
<1>2. IInv /\ [Next]_vars => IInv'
  BY NextKeepsInv, ServerAssumption DEF IInv, BaseInv, KeepsInv, KeepsHeap
<1> QED BY <1>1, <1>2, PTL DEF Spec

\* The variables keep their types.
THEOREM TypeCorrect == Spec => []TypeOK
<1>1. IInv => TypeOK
  <2> SUFFICES ASSUME IInv PROVE TypeOK
    OBVIOUS
  <2>1. conn \in [DOMAIN conn -> ConnRec]
    BY DEF IInv, BaseInv, HeapInv, HeapType, Whole, LooseConn, ConnRec
  <2> QED BY <2>1 DEF IInv, BaseInv, HeapInv, HeapType, LoopInv, TypeOK
<1> QED BY <1>1, SpecIInv, PTL

\* No step of the loop, of a handler or of a timer uses freed memory.
THEOREM MemorySafe == Spec => []NoUseOfFreedMemory
<1>1. IInv => NoUseOfFreedMemory
  BY DEF IInv, BaseInv, HeapInv, NoUseOfFreedMemory
<1> QED BY <1>1, SpecIInv, PTL

\* The kernel's descriptors, the dictionary and the connections stay in step
\* (server.c:126-135, connection.c:71-74).
THEOREM ConnsStayExact == Spec => []ConnsExact
<1>1. IInv => ConnsExact
  BY DEF IInv, BaseInv, HeapInv, ConnsReached, Whole, ConnsExact
<1> QED BY <1>1, SpecIInv, PTL

\* Every connection and session has its one timer, and no timer another
\* argument (connection.c:53-88, request.c:109-127).
THEOREM TimersStayExact == Spec => []TimersExact
<1>1. IInv => TimersExact
  BY DEF IInv, BaseInv, HeapInv, TimersReached, Whole, TimersExact
<1> QED BY <1>1, SpecIInv, PTL

\* The counters of connections and sessions count the requests that hold them
\* (request.c:428-441, 498-499).
THEOREM RefersStayExact == Spec => []RefersExact
<1>1. IInv => RefersExact
  BY DEF IInv, BaseInv, HeapInv, RequestsCounted, LoopInv, RefersExact
<1> QED BY <1>1, SpecIInv, PTL

-----------------------------------------------------------------------------
(* What no step may do: destroy a session in use (SessionKept), leave an    *)
(* event behind for a descriptor that changes hands (EventsCurrent), or     *)
(* lose sight of data that waits to be sent (InterestMatchesUnsent).  BaseInv *)
(* is enough for all three.                                                 *)

SessionKeptStep ==
    \A s \in DOMAIN sess :
        \/ s \in DOMAIN sess' /\ (sess[s].data => sess'[s].data)
        \/ sess[s].idle >= SessionTimeout

EventsCurrentStep ==
    \A f \in FD :
        (f \in DOMAIN conns <=> f \in DOMAIN conns') \/ f \notin DOMAIN evts'

-----------------------------------------------------------------------------
(* Frames: the little a step on one connection or one timer changes. *)

\* close_conn takes at most its own entry out of the dictionary.
LEMMA CloseFrame ==
  ASSUME ServerAssumption, HeapInv, NEW c \in DOMAIN conn, CloseConn(c, timer)
  PROVE  \A f : f # conn[c].fd => (f \in DOMAIN conns <=> f \in DOMAIN conns')
<1>1. conn[c].timer # NULL => conn[c].timer \in DOMAIN timer
  BY DEF HeapInv, TimersReached
<1>2. CASE conn[c].refer > 0
  BY <1>1, <1>2 DEF CloseConn
<1>3. CASE ~(conn[c].refer > 0)
  BY <1>1, <1>3 DEF CloseConn, Drop
<1> QED BY <1>2, <1>3

\* The descriptor of an event leads to its connection.
LEMMA EventOpen ==
  ASSUME BaseInv, NEW f, ReadData(f) \/ WriteData(f) \/ CloseByFd(f)
  PROVE  f \in DOMAIN conns /\ conns[f] \in DOMAIN conn /\ conn[conns[f]].fd = f
<1>1. f \in DOMAIN evts
  BY DEF ReadData, WriteData, CloseByFd, TakeEvent
<1>2. f \in DOMAIN sock
  BY <1>1 DEF BaseInv, LoopInv
<1> QED BY <1>2 DEF BaseInv, HeapInv, ConnsReached

\* A timer's turn opens and closes no connection.
LEMMA ExplodeFrame ==
  ASSUME ServerAssumption, HeapInv, NEW t \in Timer, Explode(t)
  PROVE  /\ UNCHANGED <<conns, sock>>
         /\ \/ UNCHANGED conn
            \/ \E c \in DOMAIN conn, u \in Timer : conn' = [conn EXCEPT ![c].timer = u]
         /\ SessionKeptStep
<1> DEFINE arg == timer[t].arg
<1>1. t \in DOMAIN timer
  BY DEF Explode, DueTimers
<1>2. arg \in DOMAIN conn \cup DOMAIN sess
  BY <1>1 DEF HeapInv, TimersReached
<1>3. CASE arg \in DOMAIN conn
  <2>1. arg \notin DOMAIN sess
    BY <1>3 DEF HeapInv, HeapType, ServerAssumption
  <2>2. CheckTimeout(arg, t) /\ UNCHANGED sess
    BY <1>3, <2>1 DEF Explode
  <2>3. conn[arg].idle \in Nat /\ SocketTimeout \in Nat /\ SocketTimeout > 0
    BY <1>3 DEF HeapInv, HeapType, LooseConn, ServerAssumption
  <2>4. -conn[arg].idle < SocketTimeout
    BY <2>3
  <2>5. \E u \in Timer : /\ conn' = [conn EXCEPT ![arg].timer = u]
                         /\ UNCHANGED <<sock, conns>>
    BY <2>2, <2>4 DEF CheckTimeout
  <2> QED BY <1>3, <2>2, <2>5 DEF SessionKeptStep
<1>4. CASE arg \in DOMAIN sess
  <2>1. arg \notin DOMAIN conn
    BY <1>4 DEF HeapInv, HeapType, ServerAssumption
  <2>2. CheckSessionTimeout(arg, t) /\ UNCHANGED <<sock, conns, conn, fault>>
    BY <1>4, <2>1 DEF Explode
  <2>3. CASE sess[arg].idle < SessionTimeout
    <3>1. UNCHANGED sess
      BY <2>2, <2>3 DEF CheckSessionTimeout
    <3> QED BY <2>2, <3>1 DEF SessionKeptStep
  <2>4. CASE ~(sess[arg].idle < SessionTimeout)
    <3>1. sess[arg].idle >= SessionTimeout
      BY <1>4, <2>4 DEF HeapInv, HeapType, SessRec, ServerAssumption
    <3>2. \A s \in DOMAIN sess : s # arg => s \in DOMAIN sess' /\ sess'[s] = sess[s]
      <4>1. CASE sess[arg].refer > 0
        BY <2>2, <2>4, <4>1 DEF CheckSessionTimeout
      <4>2. CASE ~(sess[arg].refer > 0)
        BY <2>2, <2>4, <4>2 DEF CheckSessionTimeout, Drop
      <4> QED BY <4>1, <4>2
    <3> QED BY <2>2, <3>1, <3>2 DEF SessionKeptStep
  <2> QED BY <2>3, <2>4
<1> QED BY <1>2, <1>3, <1>4

\* What recv_from_peer does to sessions.
LEMMA RecvKeepsSessions ==
  ASSUME HeapInv, NEW c \in DOMAIN conn, RecvFromPeer(c)
  PROVE  \A s \in DOMAIN sess : s \in DOMAIN sess' /\ sess'[s].data = sess[s].data
<1>1. CASE RecvEof(c) \/ RecvCut(c) \/ RecvRefused(c) \/ RecvPart(c)
  BY <1>1 DEF RecvEof, RecvCut, RecvRefused, RecvPart
<1>2. CASE RecvRequest(c)
  <2>1. PICK s \in Session : AcquireSession(s)
    BY <1>2 DEF RecvRequest
  <2>2. CASE s \in DOMAIN sess
    <3>1. sess' = [sess EXCEPT ![s].refer = @ + 1, ![s].idle = 0]
      BY <2>1, <2>2 DEF AcquireSession
    <3>2. sess[s] \in SessRec /\ DOMAIN sess' = DOMAIN sess
      BY <2>2, <3>1 DEF HeapInv, HeapType
    <3>3. sess'[s] = [sess[s] EXCEPT !.refer = sess[s].refer + 1, !.idle = 0]
      BY <2>2, <3>1
    <3>4. sess'[s].data = sess[s].data
      BY <3>2, <3>3 DEF SessRec
    <3>5. \A q \in DOMAIN sess : q # s => sess'[q] = sess[q]
      BY <3>1
    <3> QED BY <3>2, <3>4, <3>5
  <2>3. CASE s \notin DOMAIN sess
    <3>1. sess' = Put(sess, s, [refer |-> 1, idle |-> 0, data |-> FALSE])
      BY <2>1, <2>3 DEF AcquireSession
    <3> QED BY <2>3, <3>1 DEF Put
  <2> QED BY <2>2, <2>3
<1> QED BY <1>1, <1>2 DEF RecvFromPeer

-----------------------------------------------------------------------------
(* Sessions. *)

\* Only a session's own timer, and only after a whole timeout of idleness,
\* destroys it or clears it.
LEMMA NextKeepsSessions ==
  ASSUME ServerAssumption, BaseInv, [Next]_vars
  PROVE  SessionKeptStep
<1>0. HeapInv /\ sess \in [DOMAIN sess -> SessRec]
  BY DEF BaseInv, HeapInv, HeapType
<1>1. ASSUME UNCHANGED sess PROVE SessionKeptStep
  BY <1>1 DEF SessionKeptStep
<1>2. ASSUME \A s \in DOMAIN sess : s \in DOMAIN sess' /\ (sess[s].data => sess'[s].data)
      PROVE SessionKeptStep
  BY <1>2 DEF SessionKeptStep
<1>3. CASE World \/ EpollWait \/ AcceptFails \/ EndEvents \/ EndTimers \/ ReturnIncomplete
  BY <1>1, <1>3 DEF World, Connect, PeerSends, PeerCloses, WallClockStep, EpollWait,
                    AcceptFails, EndEvents, EndTimers, ReturnIncomplete, heapVars
<1>4. CASE Tick
  <2>1. sess' = [s \in DOMAIN sess |-> [sess[s] EXCEPT !.idle = Aged(@)]]
    BY <1>4 DEF Tick
  <2>2. \A s \in DOMAIN sess : s \in DOMAIN sess' /\ sess'[s].data = sess[s].data
    BY <1>0, <2>1 DEF SessRec
  <2> QED BY <1>2, <2>2
<1>5. ASSUME NEW f \in FD, NEW c \in Conn, NEW t \in Timer, Accept(f, c, t)
      PROVE  SessionKeptStep
  BY <1>1, <1>5 DEF Accept
<1>6. ASSUME NEW f \in FD, ReadData(f) \/ WriteData(f) \/ CloseByFd(f)
      PROVE  SessionKeptStep
  <2>1. CASE f \notin DOMAIN conns
    BY <1>1, <1>6, <2>1 DEF ReadData, WriteData, CloseByFd, WithConn, heapVars
  <2>2. CASE f \in DOMAIN conns
    <3>1. conns[f] \in DOMAIN conn
      BY <1>6, EventOpen
    <3>2. CASE ReadData(f)
      <4>1. RecvFromPeer(conns[f])
        BY <2>2, <3>1, <3>2 DEF ReadData, WithConn
      <4> QED BY <1>0, <1>2, <3>1, <4>1, RecvKeepsSessions
    <3>3. CASE WriteData(f) \/ CloseByFd(f)
      BY <1>1, <2>2, <3>1, <3>3 DEF WriteData, CloseByFd, WithConn
    <3> QED BY <1>6, <3>2, <3>3
  <2> QED BY <2>1, <2>2
<1>7. ASSUME NEW r \in Request, AppWrites(r) \/ AppSetsSession(r) \/ AppFrees(r)
      PROVE  SessionKeptStep
  <2>1. CASE AppWrites(r)
    BY <1>1, <2>1 DEF AppWrites
  <2>2. CASE AppSetsSession(r)
    <3>1. \/ UNCHANGED sess
          \/ sess' = [sess EXCEPT ![req[r].sess].data = TRUE]
      BY <2>2 DEF AppSetsSession, UseFreed
    <3> QED BY <1>0, <1>1, <1>2, <3>1 DEF SessRec
  <2>3. CASE AppFrees(r)
    <3>1. \/ UNCHANGED sess
          \/ sess' = [sess EXCEPT ![req[r].sess].refer = @ - 1]
      BY <2>3 DEF AppFrees, FreeRequest, UseFreed
    <3> QED BY <1>0, <1>1, <1>2, <3>1 DEF SessRec
  <2> QED BY <1>7, <2>1, <2>2, <2>3
<1>8. CASE ReturnComplete
  <2>1. \/ UNCHANGED sess
        \/ sess' = [sess EXCEPT ![req[cur].sess].refer = @ - 1]
    BY <1>8 DEF ReturnComplete, FreeRequest, UseFreed
  <2> QED BY <1>0, <1>1, <1>2, <2>1 DEF SessRec
<1>9. ASSUME NEW t \in Timer, Explode(t)
      PROVE  SessionKeptStep
  BY <1>0, <1>9, ExplodeFrame
<1>10. CASE UNCHANGED vars
  BY <1>1, <1>10 DEF vars, heapVars
<1> QED
  BY <1>3, <1>4, <1>5, <1>6, <1>7, <1>8, <1>9, <1>10 DEF Next, ServerStep

\* A session lives, with its data, until it has been idle for session_timeout
\* (request.c:109-127), whatever steps the wall clock takes.
THEOREM SessionsKept == Spec => SessionKept
<1>1. IInv /\ [Next]_vars => [SessionKeptStep]_vars
  BY NextKeepsSessions, ServerAssumption DEF IInv
<1> QED BY <1>1, SpecIInv, PTL DEF Spec, SessionKept, SessionKeptStep

-----------------------------------------------------------------------------
(* Events. *)

\* The descriptors that change hands have no event left.
LEMMA NextKeepsEvents ==
  ASSUME ServerAssumption, BaseInv, [Next]_vars
  PROVE  EventsCurrentStep
<1>0. HeapInv /\ DOMAIN evts \subseteq DOMAIN sock
  BY DEF BaseInv, LoopInv
<1>1. ASSUME UNCHANGED conns
      PROVE  EventsCurrentStep
  BY <1>1 DEF EventsCurrentStep
<1>2. CASE World \/ Tick
  BY <1>1, <1>2 DEF World, Connect, PeerSends, PeerCloses, WallClockStep, Tick,
                    loopVars, heapVars
<1>3. CASE EpollWait
  BY <1>1, <1>3 DEF EpollWait, heapVars
<1>4. ASSUME NEW f \in FD, NEW c \in Conn, NEW t \in Timer, Accept(f, c, t)
      PROVE  EventsCurrentStep
  <2>1. f \notin DOMAIN evts /\ UNCHANGED evts /\ DOMAIN conns' = DOMAIN conns \cup {f}
    BY <1>0, <1>4 DEF Accept, Put
  <2> QED BY <2>1 DEF EventsCurrentStep
<1>5. CASE AcceptFails \/ EndEvents \/ EndTimers
  BY <1>1, <1>5 DEF AcceptFails, EndEvents, EndTimers, heapVars
<1>6. ASSUME NEW f \in FD, ReadData(f) \/ WriteData(f) \/ CloseByFd(f)
      PROVE  EventsCurrentStep
  <2>1. DOMAIN evts' = DOMAIN evts \ {f}
    BY <1>6 DEF ReadData, WriteData, CloseByFd, TakeEvent, Drop
  <2>2. CASE f \notin DOMAIN conns
    <3>1. UNCHANGED conns
      BY <1>6, <2>2 DEF ReadData, WriteData, CloseByFd, WithConn, heapVars
    <3> QED BY <1>1, <2>1, <3>1
  <2>3. CASE f \in DOMAIN conns
    <3> DEFINE c == conns[f]
    <3>1. c \in DOMAIN conn /\ conn[c].fd = f
      BY <1>6, EventOpen
    <3>2. \/ UNCHANGED conns
          \/ CloseConn(c, timer)
      <4>1. CASE ReadData(f)
        <5>1. RecvFromPeer(c)
          BY <2>3, <3>1, <4>1 DEF ReadData, WithConn
        <5> QED BY <5>1 DEF RecvFromPeer, RecvEof, RecvCut, RecvRefused, RecvPart, RecvRequest
      <4>2. CASE WriteData(f)
        <5>1. SendToPeer(c)
          BY <2>3, <3>1, <4>2 DEF WriteData, WithConn
        <5> QED BY <5>1 DEF SendToPeer
      <4>3. CASE CloseByFd(f)
        BY <2>3, <3>1, <4>3 DEF CloseByFd, WithConn
      <4> QED BY <1>6, <4>1, <4>2, <4>3
    <3>3. \A g : g # f => (g \in DOMAIN conns <=> g \in DOMAIN conns')
      BY <1>0, <3>1, <3>2, CloseFrame
    <3> QED BY <2>1, <3>3 DEF EventsCurrentStep
  <2> QED BY <2>2, <2>3
<1>7. CASE \/ \E r \in Request : AppWrites(r) \/ AppSetsSession(r) \/ AppFrees(r)
           \/ ReturnComplete \/ ReturnIncomplete
  BY <1>1, <1>7 DEF AppWrites, AppSetsSession, AppFrees, ReturnComplete,
                    ReturnIncomplete, BackToLoop, loopVars
<1>8. ASSUME NEW t \in Timer, Explode(t)
      PROVE  EventsCurrentStep
  <2>1. UNCHANGED conns
    BY <1>0, <1>8, ExplodeFrame
  <2>2. UNCHANGED evts
    BY <1>8 DEF Explode, loopVars
  <2> QED BY <1>1, <2>1, <2>2
<1>9. CASE UNCHANGED vars
  BY <1>1, <1>9 DEF vars, loopVars, heapVars
<1> QED
  BY <1>2, <1>3, <1>4, <1>5, <1>6, <1>7, <1>8, <1>9 DEF Next, ServerStep

\* An event handled by the loop is never of another connection than the one
\* the kernel reported it for (server.c:293-320).
THEOREM EventsStayCurrent == Spec => EventsCurrent
<1>1. IInv /\ [Next]_vars => [EventsCurrentStep]_vars
  BY NextKeepsEvents, ServerAssumption DEF IInv
<1> QED BY <1>1, SpecIInv, PTL DEF Spec, EventsCurrent, EventsCurrentStep

-----------------------------------------------------------------------------
(* Interest. *)

\* Steps that leave what a connection has to send, and what epoll watches, alone.
LEMMA InterestFrame ==
  ASSUME HeapInv, InterestMatchesUnsent,
         DOMAIN conn' = DOMAIN conn,
         \A c \in DOMAIN conn : conn'[c].fd = conn[c].fd /\ conn'[c].unsent = conn[c].unsent,
         \A f \in DOMAIN sock : sock'[f].interest = sock[f].interest
  PROVE  InterestMatchesUnsent'
<1>1. \A c \in DOMAIN conn : conn[c].fd \in DOMAIN sock
  BY DEF HeapInv, ConnsReached
<1> QED BY <1>1 DEF InterestMatchesUnsent

\* write_to_buf queues data and tells epoll in one go.
LEMMA WriteInterest ==
  ASSUME HeapInv, InterestMatchesUnsent, NEW c \in DOMAIN conn,
         NEW connNow \in [DOMAIN conn -> LooseConn],
         \A d \in DOMAIN conn : connNow[d].fd = conn[d].fd /\ connNow[d].unsent = conn[d].unsent,
         NEW sockNow \in [DOMAIN sock -> SockRec],
         \A f \in DOMAIN sock : sockNow[f].interest = sock[f].interest,
         WriteToBuf(c, connNow, sockNow)
  PROVE  InterestMatchesUnsent'
<1>1. \A d \in DOMAIN conn : conn[d].fd \in DOMAIN sock /\ (conn[d].fd = conn[c].fd => d = c)
  BY DEF HeapInv, ConnsReached
<1>2. /\ conn' = [connNow EXCEPT ![c].unsent = @ + 1]
      /\ sock' = [sockNow EXCEPT ![conn[c].fd].interest = "out"]
  BY DEF WriteToBuf
<1>3. /\ DOMAIN conn' = DOMAIN conn /\ conn'[c].unsent > 0 /\ conn'[c].fd = conn[c].fd
      /\ \A d \in DOMAIN conn :
            d # c => conn'[d].unsent = conn[d].unsent /\ conn'[d].fd = conn[d].fd
  BY <1>2 DEF LooseConn
<1>4. /\ sock'[conn[c].fd].interest = "out"
      /\ \A f \in DOMAIN sock : f # conn[c].fd => sock'[f].interest = sock[f].interest
  BY <1>1, <1>2 DEF SockRec
<1> QED BY <1>1, <1>3, <1>4 DEF InterestMatchesUnsent

\* close_conn touches no other connection's socket.
LEMMA CloseInterest ==
  ASSUME ServerAssumption, HeapInv, InterestMatchesUnsent,
         NEW c \in DOMAIN conn, CloseConn(c, timer)
  PROVE  InterestMatchesUnsent'
<1>1. /\ conn[c].timer # NULL => conn[c].timer \in DOMAIN timer
      /\ conn \in [DOMAIN conn -> LooseConn]
  BY DEF HeapInv, HeapType, TimersReached
<1>2. CASE conn[c].refer > 0
  <2>1. PICK u \in Timer : conn' = [conn EXCEPT ![c].timer = u] /\ UNCHANGED sock
    BY <1>1, <1>2 DEF CloseConn
  <2>2. /\ DOMAIN conn' = DOMAIN conn
        /\ \A d \in DOMAIN conn : conn'[d].fd = conn[d].fd /\ conn'[d].unsent = conn[d].unsent
    BY <1>1, <2>1 DEF LooseConn
  <2> QED BY <2>1, <2>2, InterestFrame
<1>3. CASE ~(conn[c].refer > 0)
  <2>1. sock' = Drop(sock, conn[c].fd) /\ conn' = Drop(conn, c)
    BY <1>1, <1>3 DEF CloseConn
  <2>2. \A d \in DOMAIN conn : conn[d].fd \in DOMAIN sock /\ (conn[d].fd = conn[c].fd => d = c)
    BY DEF HeapInv, ConnsReached
  <2> QED BY <2>1, <2>2 DEF Drop, InterestMatchesUnsent
<1> QED BY <1>2, <1>3

\* recv_from_peer.
LEMMA RecvInterest ==
  ASSUME ServerAssumption, HeapInv, InterestMatchesUnsent,
         NEW c \in DOMAIN conn, RecvFromPeer(c)
  PROVE  InterestMatchesUnsent'
<1>0. /\ conn[c].fd \in DOMAIN sock /\ conn[c] \in LooseConn
      /\ conn \in [DOMAIN conn -> LooseConn] /\ sock \in [DOMAIN sock -> SockRec]
      /\ 0 \in 0 .. MaxIdle
  BY DEF HeapInv, HeapType, ConnsReached, ServerAssumption
<1>1. CASE RecvEof(c)
  BY <1>1, CloseInterest DEF RecvEof
<1> DEFINE sockNow == [sock EXCEPT ![conn[c].fd].data = FALSE]
<1>2. /\ sockNow \in [DOMAIN sock -> SockRec]
      /\ \A f \in DOMAIN sock : sockNow[f].interest = sock[f].interest
  BY <1>0 DEF SockRec
<1>3. CASE RecvRefused(c)
  <2>1. PICK idle \in {0, conn[c].idle} :
           WriteToBuf(c, [conn EXCEPT ![c].idle = idle, ![c].recvBuf = FALSE], sockNow)
    BY <1>3 DEF RecvRefused
  <2> DEFINE connNow == [conn EXCEPT ![c].idle = idle, ![c].recvBuf = FALSE]
  <2>2. /\ connNow \in [DOMAIN conn -> LooseConn]
        /\ \A d \in DOMAIN conn : connNow[d].fd = conn[d].fd /\ connNow[d].unsent = conn[d].unsent
    BY <1>0 DEF LooseConn
  <2> QED BY <1>2, <2>1, <2>2, WriteInterest
<1>4. CASE RecvPart(c)
  <2>1. /\ sock' = sockNow
        /\ conn' = [conn EXCEPT ![c].idle = IF conn[c].recvBuf THEN @ ELSE 0,
                                ![c].recvBuf = TRUE]
    BY <1>4 DEF RecvPart
  <2>2. /\ DOMAIN conn' = DOMAIN conn
        /\ \A d \in DOMAIN conn : conn'[d].fd = conn[d].fd /\ conn'[d].unsent = conn[d].unsent
    BY <1>0, <2>1 DEF LooseConn
  <2> QED BY <1>2, <2>1, <2>2, InterestFrame
<1>5. CASE RecvRequest(c)
  <2>1. /\ sock' = sockNow
        /\ conn' = [conn EXCEPT ![c].refer = (@ + 1) % ReferMod,
                                ![c].idle = IF conn[c].recvBuf THEN @ ELSE 0,
                                ![c].recvBuf = TRUE]
    BY <1>5 DEF RecvRequest
  <2>2. /\ DOMAIN conn' = DOMAIN conn
        /\ \A d \in DOMAIN conn : conn'[d].fd = conn[d].fd /\ conn'[d].unsent = conn[d].unsent
    BY <1>0, <2>1 DEF LooseConn
  <2> QED BY <1>2, <2>1, <2>2, InterestFrame
<1>6. CASE RecvCut(c)
  <2>1. /\ sock' = sockNow
        /\ \E t \in Timer :
              conn' = [conn EXCEPT ![c].timer = t, ![c].idle = 0, ![c].recvBuf = TRUE]
    BY <1>6 DEF RecvCut
  <2>2. /\ DOMAIN conn' = DOMAIN conn
        /\ \A d \in DOMAIN conn : conn'[d].fd = conn[d].fd /\ conn'[d].unsent = conn[d].unsent
    BY <1>0, <2>1 DEF LooseConn
  <2> QED BY <1>2, <2>1, <2>2, InterestFrame
<1> QED BY <1>1, <1>3, <1>4, <1>5, <1>6 DEF RecvFromPeer

\* send_to_peer stops watching for room exactly when nothing is left.
LEMMA SendInterest ==
  ASSUME ServerAssumption, HeapInv, InterestMatchesUnsent,
         NEW c \in DOMAIN conn, SendToPeer(c)
  PROVE  InterestMatchesUnsent'
<1>0. /\ conn[c] \in LooseConn
      /\ conn \in [DOMAIN conn -> LooseConn] /\ sock \in [DOMAIN sock -> SockRec]
      /\ \A d \in DOMAIN conn : conn[d].fd \in DOMAIN sock /\ (conn[d].fd = conn[c].fd => d = c)
  BY DEF HeapInv, HeapType, ConnsReached
<1>1. CASE CloseConn(c, timer)
  BY <1>1, CloseInterest
<1>2. CASE ~CloseConn(c, timer)
  <2>1. PICK left \in 0 .. conn[c].unsent, blocked \in BOOLEAN :
           /\ left = conn[c].unsent => left = 0
           /\ conn' = [conn EXCEPT ![c].unsent = left,
                                   ![c].idle = IF blocked THEN @ ELSE 0]
           /\ sock' = IF left = 0
                      THEN [sock EXCEPT ![conn[c].fd].interest = "in"]
                      ELSE sock
    BY <1>2 DEF SendToPeer
  <2>2. /\ DOMAIN conn' = DOMAIN conn /\ conn'[c].unsent = left /\ conn'[c].fd = conn[c].fd
        /\ \A d \in DOMAIN conn : d # c => conn'[d] = conn[d]
    BY <1>0, <2>1 DEF LooseConn
  <2>3. CASE left = 0
    <3>1. /\ sock'[conn[c].fd].interest = "in"
          /\ \A f \in DOMAIN sock : f # conn[c].fd => sock'[f].interest = sock[f].interest
      BY <1>0, <2>1, <2>3 DEF SockRec
    <3> QED BY <1>0, <2>2, <2>3, <3>1 DEF InterestMatchesUnsent
  <2>4. CASE left # 0
    <3>1. left > 0 /\ conn[c].unsent > 0 /\ UNCHANGED sock
      BY <1>0, <2>1, <2>4 DEF LooseConn
    <3> QED BY <1>0, <2>2, <3>1 DEF InterestMatchesUnsent
  <2> QED BY <2>3, <2>4
<1> QED BY <1>1, <1>2

\* What waits to be sent is watched for after every step.
LEMMA NextInterest ==
  ASSUME ServerAssumption, BaseInv, InterestMatchesUnsent, [Next]_vars
  PROVE  InterestMatchesUnsent'
<1>0. /\ HeapInv
      /\ conn \in [DOMAIN conn -> LooseConn] /\ sock \in [DOMAIN sock -> SockRec]
      /\ \A c \in DOMAIN conn : conn[c].fd \in DOMAIN sock
  BY DEF BaseInv, HeapInv, HeapType, ConnsReached
<1>1. ASSUME UNCHANGED <<conn, sock>> PROVE InterestMatchesUnsent'
  BY <1>1 DEF InterestMatchesUnsent
<1>2. CASE Connect \/ EpollWait \/ AcceptFails \/ EndEvents \/ EndTimers
  BY <1>1, <1>2 DEF Connect, EpollWait, AcceptFails, EndEvents, EndTimers,
                    kernelVars, heapVars
<1>3. ASSUME NEW f \in DOMAIN sock, PeerSends(f) \/ PeerCloses(f)
      PROVE  InterestMatchesUnsent'
  <2>1. UNCHANGED conn
    BY <1>3 DEF PeerSends, PeerCloses, heapVars
  <2>2. CASE PeerSends(f)
    <3>1. sock' = [sock EXCEPT ![f].data = TRUE]
      BY <2>2 DEF PeerSends
    <3>2. \A g \in DOMAIN sock : sock'[g].interest = sock[g].interest
      BY <1>0, <3>1 DEF SockRec
    <3> QED BY <1>0, <2>1, <3>2, InterestFrame
  <2>3. CASE PeerCloses(f)
    <3>1. sock' = [sock EXCEPT ![f].peer = "closed"]
      BY <2>3 DEF PeerCloses
    <3>2. \A g \in DOMAIN sock : sock'[g].interest = sock[g].interest
      BY <1>0, <3>1 DEF SockRec
    <3> QED BY <1>0, <2>1, <3>2, InterestFrame
  <2> QED BY <1>3, <2>2, <2>3
<1>4. ASSUME NEW d \in Jumps, WallClockStep(d)
      PROVE  InterestMatchesUnsent'
  BY <1>1, <1>4 DEF WallClockStep, kernelVars
<1>5. CASE Tick
  <2>1. /\ conn' = [c \in DOMAIN conn |-> [conn[c] EXCEPT !.idle = Aged(@)]]
        /\ UNCHANGED sock
    BY <1>5 DEF Tick, kernelVars
  <2>2. /\ DOMAIN conn' = DOMAIN conn
        /\ \A d \in DOMAIN conn : conn'[d].fd = conn[d].fd /\ conn'[d].unsent = conn[d].unsent
    BY <1>0, <2>1 DEF LooseConn
  <2> QED BY <1>0, <2>1, <2>2, InterestFrame
<1>6. ASSUME NEW f \in FD, NEW c \in Conn, NEW t \in Timer, Accept(f, c, t)
      PROVE  InterestMatchesUnsent'
  <2>1. \A d \in DOMAIN conn : d # c /\ conn[d].fd # f
    BY <1>0, <1>6 DEF Accept
  <2>2. /\ sock' = Put(sock, f, [peer |-> "open", data |-> FALSE, interest |-> "in"])
        /\ conn' = Put(conn, c, [fd |-> f, refer |-> 0, timer |-> t, idle |-> 0,
                                 unsent |-> 0, recvBuf |-> FALSE])
    BY <1>6 DEF Accept
  <2>3. /\ DOMAIN conn' = DOMAIN conn \cup {c}
        /\ conn'[c].fd = f /\ conn'[c].unsent = 0 /\ sock'[f].interest = "in"
        /\ \A d \in DOMAIN conn : conn'[d] = conn[d]
        /\ \A g \in DOMAIN sock : g # f => sock'[g] = sock[g]
    BY <2>1, <2>2 DEF Put
  <2> QED BY <1>0, <2>1, <2>3 DEF InterestMatchesUnsent
<1>7. ASSUME NEW f \in FD, ReadData(f) \/ WriteData(f) \/ CloseByFd(f)
      PROVE  InterestMatchesUnsent'
  <2>1. CASE f \notin DOMAIN conns
    BY <1>1, <1>7, <2>1 DEF ReadData, WriteData, CloseByFd, WithConn, heapVars
  <2>2. CASE f \in DOMAIN conns
    <3>1. conns[f] \in DOMAIN conn
      BY <1>7, EventOpen
    <3>2. CASE ReadData(f)
      <4>1. RecvFromPeer(conns[f])
        BY <2>2, <3>1, <3>2 DEF ReadData, WithConn
      <4> QED BY <1>0, <3>1, <4>1, RecvInterest
    <3>3. CASE WriteData(f)
      <4>1. SendToPeer(conns[f])
        BY <2>2, <3>1, <3>3 DEF WriteData, WithConn
      <4> QED BY <1>0, <3>1, <4>1, SendInterest
    <3>4. CASE CloseByFd(f)
      <4>1. CloseConn(conns[f], timer)
        BY <2>2, <3>1, <3>4 DEF CloseByFd, WithConn
      <4> QED BY <1>0, <3>1, <4>1, CloseInterest
    <3> QED BY <1>7, <3>2, <3>3, <3>4
  <2> QED BY <2>1, <2>2
<1>8. ASSUME NEW r \in Request, AppWrites(r) \/ AppSetsSession(r) \/ AppFrees(r)
      PROVE  InterestMatchesUnsent'
  <2>1. CASE AppWrites(r)
    <3>1. CASE UNCHANGED <<conn, sock>>
      BY <1>1, <3>1
    <3>2. CASE ~UNCHANGED <<conn, sock>>
      <4>1. WriteToBuf(req[r].conn, conn, sock) /\ Intact(r)
        BY <2>1, <3>2 DEF AppWrites, UseFreed
      <4>2. req[r].conn \in DOMAIN conn
        BY <4>1 DEF Intact
      <4> QED BY <1>0, <4>1, <4>2, WriteInterest
    <3> QED BY <3>1, <3>2
  <2>2. CASE AppSetsSession(r)
    BY <1>1, <2>2 DEF AppSetsSession, kernelVars
  <2>3. CASE AppFrees(r)
    <3>1. /\ UNCHANGED sock
          /\ \/ UNCHANGED conn
             \/ conn' = [conn EXCEPT ![req[r].conn].refer = (@ - 1) % ReferMod,
                                     ![req[r].conn].recvBuf = FALSE]
      BY <2>3 DEF AppFrees, FreeRequest, UseFreed, kernelVars
    <3>2. /\ DOMAIN conn' = DOMAIN conn
          /\ \A d \in DOMAIN conn : conn'[d].fd = conn[d].fd /\ conn'[d].unsent = conn[d].unsent
      BY <1>0, <3>1 DEF LooseConn
    <3> QED BY <1>0, <3>1, <3>2, InterestFrame
  <2> QED BY <1>8, <2>1, <2>2, <2>3
<1>9. CASE ReturnComplete \/ ReturnIncomplete
  <2>1. /\ UNCHANGED sock
        /\ \/ UNCHANGED conn
           \/ conn' = [conn EXCEPT ![req[cur].conn].refer = (@ - 1) % ReferMod,
                                   ![req[cur].conn].recvBuf = FALSE]
           \/ conn' = [conn EXCEPT ![req[cur].conn].recvBuf = FALSE]
    BY <1>9 DEF ReturnComplete, ReturnIncomplete, BackToLoop, FreeRequest, UseFreed, kernelVars
  <2>2. /\ DOMAIN conn' = DOMAIN conn
        /\ \A d \in DOMAIN conn : conn'[d].fd = conn[d].fd /\ conn'[d].unsent = conn[d].unsent
    BY <1>0, <2>1 DEF LooseConn
  <2> QED BY <1>0, <2>1, <2>2, InterestFrame
<1>10. ASSUME NEW t \in Timer, Explode(t)
       PROVE  InterestMatchesUnsent'
  <2>1. /\ UNCHANGED sock
        /\ \/ UNCHANGED conn
           \/ \E c \in DOMAIN conn, u \in Timer : conn' = [conn EXCEPT ![c].timer = u]
    BY <1>0, <1>10, ExplodeFrame
  <2>2. /\ DOMAIN conn' = DOMAIN conn
        /\ \A d \in DOMAIN conn : conn'[d].fd = conn[d].fd /\ conn'[d].unsent = conn[d].unsent
    BY <1>0, <2>1 DEF LooseConn
  <2> QED BY <1>0, <2>1, <2>2, InterestFrame
<1>11. CASE UNCHANGED vars
  BY <1>1, <1>11 DEF vars, kernelVars, heapVars
<1> QED
  BY <1>2, <1>3, <1>4, <1>5, <1>6, <1>7, <1>8, <1>9, <1>10, <1>11
  DEF Next, World, ServerStep

\* No response is left without a watch for room to send it, and no peer is
\* left unread once it is sent (connection.c:242-244, 271).
THEOREM InterestMatches == Spec => []InterestMatchesUnsent
<1>1. Init => InterestMatchesUnsent
  BY DEF Init, Empty, InterestMatchesUnsent
<1>2. IInv /\ InterestMatchesUnsent /\ [Next]_vars => InterestMatchesUnsent'
  BY NextInterest, ServerAssumption DEF IInv
<1> QED BY <1>1, <1>2, SpecIInv, PTL DEF Spec

-----------------------------------------------------------------------------
(***************************************************************************)
(* Scarce.  A failed allocation may leave an entry of conns dangling, or   *)
(* an open connection without a timer: Whole does not hold here, and       *)
(* ConnsExact and TimersExact are lost for good.  BaseInv is kept, and is  *)
(* all that the safety of memory needs: a dangling entry is harmless       *)
(* because its descriptor is closed, so that no event is of it, and accept *)
(* overwrites the entry when the descriptor is used again.                 *)
(***************************************************************************)

(* What a failing allocation does to the heap. *)

\* A step that changes no object of the heap.
LEMMA HeapUntouched ==
  ASSUME HeapInv, UNCHANGED <<sock, heapVars, fault>>
  PROVE  HeapInv'
BY DEF heapVars, HeapInv, HeapType, ConnsReached, TimersReached,
       RequestsCounted, Intact, ConnRequests, SessRequests

\* A connection that gets no timer.
LEMMA AcceptWithoutTimerStep ==
  ASSUME ServerAssumption, HeapInv, NEW f \in FD, NEW c \in Conn,
         AcceptWithoutTimer(f, c)
  PROVE  HeapInv'
<1>1. f \notin DOMAIN sock /\ c \notin DOMAIN conn /\ UNCHANGED <<timer, sess, req, fault>>
  BY DEF AcceptWithoutTimer
<1>2. /\ DOMAIN conn' = DOMAIN conn \cup {c}
      /\ conn'[c] = [fd |-> f, refer |-> 0, timer |-> NULL, idle |-> 0,
                     unsent |-> 0, recvBuf |-> FALSE]
      /\ \A d \in DOMAIN conn : conn'[d] = conn[d]
      /\ DOMAIN conns' = DOMAIN conns \cup {f} /\ conns'[f] = c
      /\ \A g \in DOMAIN conns : g # f => conns'[g] = conns[g]
      /\ DOMAIN sock' = DOMAIN sock \cup {f}
  BY <1>1 DEF AcceptWithoutTimer, Put
<1>3. c \notin DOMAIN sess
  BY DEF HeapInv, HeapType, ServerAssumption
<1>4. HeapType'
  <2>1. [peer |-> "open", data |-> FALSE, interest |-> "in"] \in SockRec
    BY DEF SockRec
  <2>2. [fd |-> f, refer |-> 0, timer |-> NULL, idle |-> 0,
         unsent |-> 0, recvBuf |-> FALSE] \in LooseConn
    <3>1. 0 \in 0 .. ReferMod - 1
      BY FS_CardinalityType DEF ServerAssumption
    <3>2. 0 \in 0 .. MaxIdle
      BY DEF ServerAssumption
    <3> QED BY <3>1, <3>2 DEF LooseConn
  <2> QED BY <2>1, <2>2 DEF AcceptWithoutTimer, Put, HeapInv, HeapType
<1>5. ConnsReached'
  BY <1>1, <1>2 DEF HeapInv, ConnsReached
<1>6. TimersReached'
  <2>1. \A t \in DOMAIN timer : timer[t].arg # c
    BY <1>1, <1>3 DEF HeapInv, TimersReached
  <2> QED BY <1>1, <1>2, <2>1 DEF HeapInv, TimersReached
<1>7. RequestsCounted'
  <2>1. ConnRequests(c)' = {}
    BY <1>1 DEF HeapInv, RequestsCounted, Intact, ConnRequests
  <2>2. Cardinality(ConnRequests(c)') = 0
    BY <2>1, FS_EmptySet
  <2>3. \A d : ConnRequests(d)' = ConnRequests(d)
    BY <1>1 DEF ConnRequests
  <2>4. \A d \in DOMAIN conn' : conn'[d].refer = Cardinality(ConnRequests(d)')
    BY <1>1, <1>2, <2>2, <2>3 DEF HeapInv, RequestsCounted
  <2> QED BY <1>1, <1>2, <2>4 DEF HeapInv, RequestsCounted, Intact, SessRequests
<1> QED BY <1>1, <1>4, <1>5, <1>6, <1>7 DEF HeapInv

\* A connection loses its timer, and gets no other.
LEMMA TimerLostStep ==
  ASSUME ServerAssumption, HeapInv, NEW c \in DOMAIN conn,
         timer' = Drop(timer, conn[c].timer),
         conn' \in [DOMAIN conn -> LooseConn],
         \A d \in DOMAIN conn : /\ conn'[d].fd = conn[d].fd
                                /\ conn'[d].refer = conn[d].refer
                                /\ conn'[d].timer = IF d = c THEN NULL ELSE conn[d].timer,
         sock' \in [DOMAIN sock -> SockRec],
         UNCHANGED <<conns, sess, req, fault>>
  PROVE  HeapInv'
<1>1. DOMAIN conn' = DOMAIN conn /\ DOMAIN sock' = DOMAIN sock
  OBVIOUS
<1>2. /\ DOMAIN timer' = DOMAIN timer \ {conn[c].timer}
      /\ \A t \in DOMAIN timer' : timer'[t] = timer[t]
  BY DEF Drop
<1>3. /\ \A t \in DOMAIN timer' : timer[t].arg # c
      /\ \A d \in DOMAIN conn :
            d # c /\ conn[d].timer # NULL => conn[d].timer # conn[c].timer
      /\ \A t \in DOMAIN timer : timer[t].arg \in DOMAIN sess => t # conn[c].timer
  <2>1. \A t \in DOMAIN timer : timer[t].arg = c => t = conn[c].timer
    BY DEF HeapInv, TimersReached
  <2>2. conn[c].timer \in DOMAIN timer => timer[conn[c].timer].arg = c
    BY DEF HeapInv, HeapType, TimersReached, ServerAssumption
  <2>3. c \notin DOMAIN sess
    BY DEF HeapInv, HeapType, ServerAssumption
  <2> QED BY <1>2, <2>1, <2>2, <2>3 DEF HeapInv, TimersReached
<1>4. HeapType'
  BY <1>1 DEF Drop, HeapInv, HeapType
<1>5. ConnsReached'
  BY <1>1 DEF HeapInv, ConnsReached
<1>6. TimersReached'
  <2>1. \A s \in DOMAIN sess : \E t \in DOMAIN timer' : timer'[t].arg = s
    BY <1>2, <1>3 DEF HeapInv, TimersReached
  <2> QED BY <1>1, <1>2, <1>3, <2>1 DEF HeapInv, TimersReached
<1>7. RequestsCounted'
  BY <1>1 DEF HeapInv, RequestsCounted, Intact, ConnRequests, SessRequests
<1> QED BY <1>4, <1>5, <1>6, <1>7 DEF HeapInv

\* A connection is freed, and its entry of conns stays behind.
LEMMA CloseWithoutKeyStep ==
  ASSUME ServerAssumption, HeapInv, NEW c \in DOMAIN conn,
         CloseWithoutKey(c), UNCHANGED <<sess, req, fault>>
  PROVE  HeapInv' /\ DOMAIN sock' = DOMAIN sock \ {conn[c].fd}
<1>1. /\ conn[c].refer = 0
      /\ timer' = Drop(timer, conn[c].timer)
      /\ sock' = Drop(sock, conn[c].fd)
      /\ conn' = Drop(conn, c)
      /\ UNCHANGED conns
  BY DEF CloseWithoutKey
<1>2. \A r \in DOMAIN req : req[r].conn # c
  BY <1>1, ZeroMeansUnused
<1>3. HeapType'
  BY <1>1 DEF Drop, HeapInv, HeapType
<1>4. ConnsReached'
  BY <1>1 DEF Drop, HeapInv, ConnsReached
<1>5. TimersReached'
  <2>1. \A t \in DOMAIN timer : timer[t].arg = c => t = conn[c].timer
    BY DEF HeapInv, TimersReached
  <2>2. conn[c].timer \in DOMAIN timer => timer[conn[c].timer].arg = c
    BY DEF HeapInv, HeapType, TimersReached, ServerAssumption
  <2>3. c \notin DOMAIN sess
    BY DEF HeapInv, HeapType, ServerAssumption
  <2>4. \A s \in DOMAIN sess : \E t \in DOMAIN timer' : timer'[t].arg = s
    <3> SUFFICES ASSUME NEW s \in DOMAIN sess PROVE \E t \in DOMAIN timer' : timer'[t].arg = s
      OBVIOUS
    <3>1. PICK t \in DOMAIN timer : timer[t].arg = s
      BY DEF HeapInv, TimersReached
    <3>2. t # conn[c].timer
      BY <2>2, <2>3, <3>1
    <3> QED BY <1>1, <3>1, <3>2 DEF Drop
  <2>5. /\ DOMAIN timer' = DOMAIN timer \ {conn[c].timer}
        /\ \A t \in DOMAIN timer' : timer'[t] = timer[t] /\ timer[t].arg # c
        /\ DOMAIN conn' = DOMAIN conn \ {c}
        /\ \A d \in DOMAIN conn' : conn'[d] = conn[d]
    BY <1>1, <2>1 DEF Drop
  <2>6. \A d \in DOMAIN conn : d # c /\ conn[d].timer # NULL => conn[d].timer # conn[c].timer
    BY <2>2 DEF HeapInv, TimersReached
  <2> QED BY <2>4, <2>5, <2>6 DEF HeapInv, TimersReached
<1>6. RequestsCounted'
  BY <1>1, <1>2 DEF Drop, HeapInv, RequestsCounted, Intact, ConnRequests, SessRequests
<1>7. DOMAIN sock' = DOMAIN sock \ {conn[c].fd}
  BY <1>1 DEF Drop
<1> QED BY <1>3, <1>4, <1>5, <1>6, <1>7 DEF HeapInv

-----------------------------------------------------------------------------
(* Every failure keeps BaseInv. *)

\* The loop closes the connection of the event it handles, and a failure of
\* close_conn leaves it open or its entry behind.
LEMMA CloseFailsStep ==
  ASSUME ServerAssumption, BaseInv, NEW f \in FD, NEW kind, CloseFails(f, kind)
  PROVE  BaseInv'
<1> DEFINE c == conns[f]
<1>0. HeapInv /\ LoopInv
  BY DEF BaseInv
<1>1. /\ TakeEvent(f, kind)
      /\ f \in DOMAIN conns /\ c \in DOMAIN conn
      /\ CloseWithoutTimer(c, kind) \/ CloseWithoutKey(c)
      /\ UNCHANGED <<phase, cur, sess, req, fault>>
  BY DEF CloseFails
<1>2. /\ phase = "events" /\ cur = NULL /\ f \in DOMAIN sock
      /\ backlog' \in 0 .. MaxBacklog
      /\ DOMAIN evts' = DOMAIN evts \ {f} /\ DOMAIN evts \subseteq DOMAIN sock
      /\ evts' \in [DOMAIN evts' -> {"in", "out", "hup"}]
      /\ acceptable' \in BOOLEAN /\ (acceptable' => backlog' > 0)
  BY <1>0, <1>1, TakenEvent
<1>3. conn[c].fd = f
  BY <1>0, <1>2 DEF HeapInv, ConnsReached
<1>4. HeapInv' /\ DOMAIN sock \ {f} \subseteq DOMAIN sock'
  <2>1. CASE CloseWithoutTimer(c, kind)
    <3> DEFINE cut == kind = "in" /\ sock[conn[c].fd].data
    <3>1. /\ timer' = Drop(timer, conn[c].timer)
          /\ conn' = [conn EXCEPT ![c].timer = NULL,
                                  ![c].idle = IF cut THEN 0 ELSE @,
                                  ![c].recvBuf = cut \/ @]
          /\ sock' = [sock EXCEPT ![conn[c].fd].data = IF cut THEN FALSE ELSE @]
          /\ UNCHANGED conns
      BY <2>1 DEF CloseWithoutTimer
    <3>2. /\ conn \in [DOMAIN conn -> LooseConn] /\ sock \in [DOMAIN sock -> SockRec]
          /\ conn[c].fd \in DOMAIN sock /\ 0 \in 0 .. MaxIdle
      BY <1>0, <1>2, <1>3 DEF HeapInv, HeapType, ServerAssumption
    <3>3. /\ conn' \in [DOMAIN conn -> LooseConn]
          /\ \A d \in DOMAIN conn : /\ conn'[d].fd = conn[d].fd
                                    /\ conn'[d].refer = conn[d].refer
                                    /\ conn'[d].timer = IF d = c THEN NULL ELSE conn[d].timer
      BY <1>1, <3>1, <3>2 DEF LooseConn
    <3>4. sock' \in [DOMAIN sock -> SockRec]
      <4>1. sock[conn[c].fd].data \in BOOLEAN
        BY <3>2 DEF SockRec
      <4>2. CASE cut
        <5>1. sock' = [sock EXCEPT ![conn[c].fd].data = FALSE]
          BY <3>1, <4>2
        <5> QED BY <3>2, <5>1 DEF SockRec
      <4>3. CASE ~cut
        <5>1. sock' = [sock EXCEPT ![conn[c].fd].data = sock[conn[c].fd].data]
          BY <3>1, <4>3
        <5> HIDE DEF cut
        <5> QED BY <3>2, <4>1, <5>1 DEF SockRec
      <4> QED BY <4>2, <4>3
    <3> QED BY <1>0, <1>1, <3>1, <3>3, <3>4, TimerLostStep
  <2>2. CASE CloseWithoutKey(c)
    BY <1>0, <1>1, <1>3, <2>2, CloseWithoutKeyStep
  <2> QED BY <1>1, <2>1, <2>2
<1>5. LoopInv'
  BY <1>0, <1>1, <1>2, <1>4 DEF LoopInv, RequestOnStack
<1> QED BY <1>4, <1>5 DEF BaseInv

\* Every failing allocation keeps BaseInv.
LEMMA FailureKeepsInv ==
  ASSUME ServerAssumption, BaseInv, AllocationFails
  PROVE  BaseInv'
<1>0. HeapInv /\ LoopInv
  BY DEF BaseInv
<1>1. CASE AcceptWithoutConn
  <2>1. /\ phase = "events" /\ acceptable /\ acceptable' = FALSE /\ backlog' = backlog - 1
        /\ UNCHANGED <<sock, phase, evts, cur, heapVars, fault>>
    BY <1>1 DEF AcceptWithoutConn
  <2>2. HeapInv'
    BY <1>0, <2>1, HeapUntouched
  <2>3. backlog' \in 0 .. MaxBacklog
    BY <1>0, <2>1 DEF LoopInv, ServerAssumption
  <2>4. LoopInv'
    BY <1>0, <2>1, <2>3 DEF LoopInv, RequestOnStack, heapVars
  <2> QED BY <2>2, <2>4 DEF BaseInv
<1>2. ASSUME NEW f \in FD, NEW c \in Conn, AcceptWithoutTimer(f, c)
      PROVE  BaseInv'
  <2>1. /\ phase = "events" /\ acceptable /\ acceptable' = FALSE /\ backlog' = backlog - 1
        /\ DOMAIN sock' = DOMAIN sock \cup {f}
        /\ UNCHANGED <<phase, evts, cur, req>>
    BY <1>2 DEF AcceptWithoutTimer, Put
  <2>2. HeapInv'
    BY <1>0, <1>2, AcceptWithoutTimerStep
  <2>3. backlog' \in 0 .. MaxBacklog
    BY <1>0, <2>1 DEF LoopInv, ServerAssumption
  <2>4. LoopInv'
    BY <1>0, <2>1, <2>3 DEF LoopInv, RequestOnStack
  <2> QED BY <2>2, <2>4 DEF BaseInv
<1>3. ASSUME NEW f \in FD, NEW kind, LookupFails(f, kind)
      PROVE  BaseInv'
  <2>1. TakeEvent(f, kind) /\ UNCHANGED <<sock, phase, cur, heapVars, fault>>
    BY <1>3 DEF LookupFails
  <2>2. HeapInv'
    BY <1>0, <2>1, HeapUntouched
  <2>3. /\ phase = "events" /\ cur = NULL /\ f \in DOMAIN sock
        /\ backlog' \in 0 .. MaxBacklog
        /\ DOMAIN evts' = DOMAIN evts \ {f} /\ DOMAIN evts \subseteq DOMAIN sock
        /\ evts' \in [DOMAIN evts' -> {"in", "out", "hup"}]
        /\ acceptable' \in BOOLEAN /\ (acceptable' => backlog' > 0)
    BY <1>0, <2>1, TakenEvent
  <2>4. LoopInv'
    BY <1>0, <2>1, <2>3 DEF LoopInv, RequestOnStack, heapVars
  <2> QED BY <2>2, <2>4 DEF BaseInv
<1>4. ASSUME NEW t \in Timer, RearmFails(t)
      PROVE  BaseInv'
  <2> DEFINE c == timer[t].arg
  <2>1. /\ t \in DOMAIN timer /\ c \in DOMAIN conn
        /\ timer' = Drop(timer, t)
        /\ conn' = [conn EXCEPT ![c].timer = NULL]
        /\ UNCHANGED <<kernelVars, loopVars, conns, sess, req, fault>>
    BY <1>4 DEF RearmFails, DueTimers
  <2>2. conn[c].timer = t
    BY <1>0, <2>1 DEF HeapInv, TimersReached
  <2>3. HeapInv'
    <3>1. /\ conn' \in [DOMAIN conn -> LooseConn]
          /\ \A d \in DOMAIN conn : /\ conn'[d].fd = conn[d].fd
                                    /\ conn'[d].refer = conn[d].refer
                                    /\ conn'[d].timer = IF d = c THEN NULL ELSE conn[d].timer
      BY <1>0, <2>1 DEF HeapInv, HeapType, LooseConn
    <3>2. sock' \in [DOMAIN sock -> SockRec]
      BY <1>0, <2>1 DEF HeapInv, HeapType, kernelVars
    <3> QED BY <1>0, <2>1, <2>2, <3>1, <3>2, TimerLostStep DEF kernelVars
  <2>4. LoopInv'
    BY <1>0, <2>1 DEF LoopInv, RequestOnStack, kernelVars, loopVars
  <2> QED BY <2>3, <2>4 DEF BaseInv
<1> QED BY <1>1, <1>2, <1>3, <1>4, CloseFailsStep DEF AllocationFails

\* BaseInv is an invariant, however many allocations fail.
THEOREM ScarceInvariant == ScarceSpec => []BaseInv
<1>1. ScarceInit => BaseInv
  BY InitIInv, ServerAssumption DEF ScarceInit, IInv
<1>2. BaseInv /\ [ScarceNext]_scarceVars => BaseInv'
  <2> SUFFICES ASSUME BaseInv, [ScarceNext]_scarceVars PROVE BaseInv'
    OBVIOUS
  <2>1. [Next]_vars => BaseInv'
    BY NextKeepsInv, ServerAssumption DEF KeepsInv, KeepsHeap, BaseInv
  <2>2. AllocationFails => BaseInv'
    BY FailureKeepsInv, ServerAssumption
  <2> QED BY <2>1, <2>2 DEF ScarceNext, scarceVars
<1> QED BY <1>1, <1>2, PTL DEF ScarceSpec

\* Whatever allocations fail, and in whatever order, no step of the loop, of
\* a handler or of a timer uses freed memory (connection.c:54-76,
\* server.c:126-140).
THEOREM ScarceMemorySafe == ScarceSpec => []NoUseOfFreedMemory
<1>1. BaseInv => NoUseOfFreedMemory
  BY DEF BaseInv, HeapInv, NoUseOfFreedMemory
<1> QED BY <1>1, ScarceInvariant, PTL

\* The counters stay exact, so that a request in flight keeps its connection
\* and its session (request.c:428-441, 498-499).
THEOREM ScarceRefersExact == ScarceSpec => []RefersExact
<1>1. BaseInv => RefersExact
  BY DEF BaseInv, HeapInv, RequestsCounted, LoopInv, RefersExact
<1> QED BY <1>1, ScarceInvariant, PTL

-----------------------------------------------------------------------------
(* What no step may do, allocations failing or not. *)

\* A failure destroys and clears no session.
LEMMA FailureKeepsSessions ==
  ASSUME AllocationFails
  PROVE  UNCHANGED sess
BY DEF AllocationFails, AcceptWithoutConn, AcceptWithoutTimer, LookupFails, CloseFails,
       RearmFails, heapVars

\* A session lives, with its data, until it has been idle for session_timeout,
\* whatever allocations of the connections it is used through fail
\* (request.c:109-127).
THEOREM ScarceSessionsKept == ScarceSpec => SessionKept
<1>1. BaseInv /\ [ScarceNext]_scarceVars => [SessionKeptStep]_vars
  <2> SUFFICES ASSUME BaseInv, [ScarceNext]_scarceVars PROVE [SessionKeptStep]_vars
    OBVIOUS
  <2>1. [Next]_vars => SessionKeptStep
    BY NextKeepsSessions, ServerAssumption
  <2>2. AllocationFails => SessionKeptStep
    BY FailureKeepsSessions DEF SessionKeptStep
  <2> QED BY <2>1, <2>2 DEF ScarceNext, scarceVars
<1> QED BY <1>1, ScarceInvariant, PTL DEF ScarceSpec, SessionKept, SessionKeptStep

\* An entry of conns that dangles is of a descriptor without events.
LEMMA FailureKeepsEvents ==
  ASSUME BaseInv, AllocationFails
  PROVE  EventsCurrentStep
<1>1. CASE UNCHANGED conns
  BY <1>1 DEF EventsCurrentStep
<1>2. ASSUME NEW f \in FD, NEW c \in Conn, AcceptWithoutTimer(f, c)
      PROVE  EventsCurrentStep
  <2>1. f \notin DOMAIN evts /\ UNCHANGED evts /\ DOMAIN conns' = DOMAIN conns \cup {f}
    BY <1>2 DEF AcceptWithoutTimer, Put, BaseInv, LoopInv
  <2> QED BY <2>1 DEF EventsCurrentStep
<1>3. \/ UNCHANGED conns
      \/ \E f \in FD, c \in Conn : AcceptWithoutTimer(f, c)
  BY DEF AllocationFails, AcceptWithoutConn, LookupFails, CloseFails, CloseWithoutTimer,
         CloseWithoutKey, RearmFails, heapVars
<1> QED BY <1>1, <1>2, <1>3

\* No event of an earlier connection reaches a later one of the same
\* descriptor, even when close_conn leaves its entry behind (server.c:293-320).
THEOREM ScarceEventsCurrent == ScarceSpec => EventsCurrent
<1>1. BaseInv /\ [ScarceNext]_scarceVars => [EventsCurrentStep]_vars
  <2> SUFFICES ASSUME BaseInv, [ScarceNext]_scarceVars PROVE [EventsCurrentStep]_vars
    OBVIOUS
  <2>1. [Next]_vars => EventsCurrentStep
    BY NextKeepsEvents, ServerAssumption
  <2>2. AllocationFails => EventsCurrentStep
    BY FailureKeepsEvents
  <2> QED BY <2>1, <2>2 DEF ScarceNext, scarceVars
<1> QED BY <1>1, ScarceInvariant, PTL DEF ScarceSpec, EventsCurrent, EventsCurrentStep

\* A failure leaves what waits to be sent watched for.
LEMMA FailureKeepsInterest ==
  ASSUME ServerAssumption, BaseInv, InterestMatchesUnsent, AllocationFails
  PROVE  InterestMatchesUnsent'
<1>0. /\ HeapInv
      /\ conn \in [DOMAIN conn -> LooseConn]
      /\ \A c, d \in DOMAIN conn : /\ conn[c].fd \in DOMAIN sock
                                   /\ conn[c].fd = conn[d].fd => c = d
  BY DEF BaseInv, HeapInv, HeapType, ConnsReached
<1>1. CASE UNCHANGED <<conn, sock>>
  BY <1>1 DEF InterestMatchesUnsent
<1>2. ASSUME NEW c \in DOMAIN conn, conn' = [conn EXCEPT ![c].timer = NULL], UNCHANGED sock
      PROVE  InterestMatchesUnsent'
  <2>1. /\ DOMAIN conn' = DOMAIN conn
        /\ \A d \in DOMAIN conn : conn'[d].fd = conn[d].fd /\ conn'[d].unsent = conn[d].unsent
    BY <1>0, <1>2 DEF LooseConn
  <2> QED BY <1>0, <1>2, <2>1, InterestFrame
<1>3. ASSUME NEW c \in DOMAIN conn, CloseWithoutKey(c)
      PROVE  InterestMatchesUnsent'
  BY <1>0, <1>3 DEF CloseWithoutKey, Drop, InterestMatchesUnsent
<1>8. ASSUME NEW c \in DOMAIN conn, NEW kind, CloseWithoutTimer(c, kind)
      PROVE  InterestMatchesUnsent'
  <2> DEFINE cut == kind = "in" /\ sock[conn[c].fd].data
  <2>1. /\ conn' = [conn EXCEPT ![c].timer = NULL,
                                ![c].idle = IF cut THEN 0 ELSE @,
                                ![c].recvBuf = cut \/ @]
        /\ sock' = [sock EXCEPT ![conn[c].fd].data = IF cut THEN FALSE ELSE @]
    BY <1>8 DEF CloseWithoutTimer
  <2>2. sock \in [DOMAIN sock -> SockRec]
    BY <1>0 DEF HeapInv, HeapType
  <2>3. /\ DOMAIN conn' = DOMAIN conn
        /\ \A d \in DOMAIN conn : conn'[d].fd = conn[d].fd /\ conn'[d].unsent = conn[d].unsent
    BY <1>0, <2>1 DEF LooseConn
  <2>4. \A f \in DOMAIN sock : sock'[f].interest = sock[f].interest
    BY <2>1, <2>2 DEF SockRec
  <2> QED BY <1>0, <2>1, <2>3, <2>4, InterestFrame
<1>4. ASSUME NEW f \in FD, NEW c \in Conn, AcceptWithoutTimer(f, c)
      PROVE  InterestMatchesUnsent'
  <2>1. /\ DOMAIN conn' = DOMAIN conn \cup {c}
        /\ conn'[c].fd = f /\ conn'[c].unsent = 0 /\ sock'[f].interest = "in"
        /\ \A d \in DOMAIN conn : conn'[d] = conn[d]
        /\ \A g \in DOMAIN sock : sock'[g] = sock[g]
    BY <1>4 DEF AcceptWithoutTimer, Put
  <2> QED BY <1>0, <2>1 DEF InterestMatchesUnsent
<1>5. CASE AcceptWithoutConn
  BY <1>1, <1>5 DEF AcceptWithoutConn, heapVars
<1>6. ASSUME NEW f \in FD, NEW kind, LookupFails(f, kind) \/ CloseFails(f, kind)
      PROVE  InterestMatchesUnsent'
  BY <1>1, <1>3, <1>6, <1>8 DEF LookupFails, CloseFails, heapVars
<1>7. ASSUME NEW t \in Timer, RearmFails(t)
      PROVE  InterestMatchesUnsent'
  BY <1>2, <1>7 DEF RearmFails, kernelVars
<1> QED BY <1>4, <1>5, <1>6, <1>7 DEF AllocationFails

\* No response is left without a watch for room to send it, whatever fails
\* (connection.c:242-244, 271).
THEOREM ScarceInterestMatches == ScarceSpec => []InterestMatchesUnsent
<1>1. ScarceInit => InterestMatchesUnsent
  BY DEF ScarceInit, Init, Empty, InterestMatchesUnsent
<1>2. BaseInv /\ InterestMatchesUnsent /\ [ScarceNext]_scarceVars => InterestMatchesUnsent'
  <2> SUFFICES ASSUME BaseInv, InterestMatchesUnsent, [ScarceNext]_scarceVars
               PROVE  InterestMatchesUnsent'
    OBVIOUS
  <2>1. [Next]_vars => InterestMatchesUnsent'
    BY NextInterest, ServerAssumption
  <2>2. AllocationFails => InterestMatchesUnsent'
    BY FailureKeepsInterest, ServerAssumption
  <2> QED BY <2>1, <2>2 DEF ScarceNext, scarceVars
<1> QED BY <1>1, <1>2, ScarceInvariant, PTL DEF ScarceSpec

=============================================================================
