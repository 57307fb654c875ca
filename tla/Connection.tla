----------------------------- MODULE Connection -----------------------------
(***************************************************************************)
(* The bytes of one connection: src/server/connection.c (recv_from_peer,   *)
(* send_to_peer, write_to_buf, send_status, clear_fd_buf, close_conn) and  *)
(* the way src/server/request.c answers, keeps and frees a request.        *)
(*                                                                         *)
(* The byte stream of a request is a sequence of tokens <<i, p>> of the    *)
(* request i: <<i, -1>> is its header without the end, <<i, 0>> the end of *)
(* the header (the empty line), and <<i, 1>>, <<i, 2>>... its body.  The   *)
(* Content-Length of a header is the number of body tokens.  A written     *)
(* response is a sequence of units <<i, k, n>>, the k-th of n.             *)
(*                                                                         *)
(* The peer asks, waits for the whole answer and asks again; it stops      *)
(* after a status page, which says "Connection: close".                    *)
(***************************************************************************)
EXTENDS Integers, Sequences, SequencesExt

CONSTANTS
    Bodies,       \* sizes of request bodies
    BufSize,      \* sizeof buffer - 1: what the first recv may take
    MaxContent,   \* cfg.max_content_len
    Shapes,       \* answers: the unit at which each buffer of a handler ends
    MaxAsk        \* bound: requests of the peer

\* The first recv takes a header that has arrived; buffers are not empty.
ASSUME ConnectionAssumption ==
    /\ Bodies \subseteq Nat /\ MaxContent \in Nat /\ MaxAsk \in Nat
    /\ BufSize \in Nat /\ BufSize >= 2
    /\ \A shape \in Shapes :
          /\ shape \in Seq(Nat \ {0}) /\ shape # <<>>
          /\ \A b \in 2 .. Len(shape) : shape[b - 1] < shape[b]

VARIABLES
    asked,        \* the requests sent, as token sequences
    wire,         \* tokens sent that have not arrived
    inbox,        \* the receive buffer of the socket
    gone,         \* "no", "eof" (the peer shut down), "reset"
    recvBuf,      \* connection_t.recv_buf
    handled,      \* the data given to handlers
    held,         \* kept requests: number -> buffers still to write
    sendBuf,      \* connection_t.send_buf, the unsent part of each buffer
    sendLen,      \* connection_t.send_buf_len
    interest,     \* what epoll watches: "in" or "out"
    delivered,    \* units the kernel took for the peer
    refused,      \* history: send_status was called
    spoiled,      \* history: the current request cannot be read any more: its
                  \* header was cut, or a kept request was freed during its body
    open          \* the connection_t is allocated

peerVars == <<asked, wire, gone>>
readVars == <<inbox, recvBuf, handled>>
sendVars == <<sendBuf, sendLen, interest>>
vars == <<peerVars, readVars, sendVars, held, delivered, refused, spoiled, open>>

-----------------------------------------------------------------------------
(* Requests, answers and buffers. *)

Tokens(i, n) == [p \in 1 .. n + 2 |-> <<i, p - 2>>]

ContentLength(i) == Len(asked[i]) - 2

Status == <<0, 0, 0>>

\* The units of the answer to request i, and its buffers in the given shape.
Units(i, n) == [k \in 1 .. n |-> <<i, k, n>>]
Start(shape, b) == IF b = 1 THEN 0 ELSE shape[b - 1]
Buffers(i, shape) ==
    [b \in 1 .. Len(shape) |->
        SubSeq(Units(i, Last(shape)), Start(shape, b) + 1, shape[b])]

NoBuf == [data |-> <<>>, left |-> 0]

AtMost(s, n)  == SubSeq(s, 1, n)
Without(s, n) == SubSeq(s, n + 1, Len(s))

Min2(a, b) == IF a < b THEN a ELSE b

Drop(f, i) == [j \in DOMAIN f \ {i} |-> f[j]]

LastBuffers(k) == IF k \in DOMAIN held THEN held[k] ELSE <<>>

Token == (1 .. MaxAsk) \X (Nat \cup {-1})
Unit  == Nat \X Nat \X Nat

Tokenised == UNION {{Tokens(i, n) : n \in Bodies} : i \in 1 .. MaxAsk}

TypeOK ==
    /\ asked \in Seq(Tokenised) /\ handled \in Seq(Seq(Token))
    /\ wire \in Seq(Token) /\ inbox \in Seq(Token)
    /\ gone \in {"no", "eof", "reset"}
    /\ recvBuf \in [data : Seq(Token), left : Nat]
    /\ DOMAIN held \subseteq 1 .. Len(handled)
    /\ sendBuf \in Seq(Seq(Unit) \ {<<>>})
    /\ sendLen \in Nat
    /\ interest \in {"in", "out"}
    /\ delivered \in Seq(Unit)
    /\ refused \in BOOLEAN /\ spoiled \in BOOLEAN /\ open \in BOOLEAN

Init ==
    /\ asked = <<>> /\ wire = <<>> /\ gone = "no"
    /\ inbox = <<>> /\ recvBuf = NoBuf /\ handled = <<>>
    /\ sendBuf = <<>> /\ sendLen = 0 /\ interest = "in"
    /\ held = <<>>
    /\ delivered = <<>> /\ refused = FALSE /\ spoiled = FALSE
    /\ open = TRUE

-----------------------------------------------------------------------------
(* The peer and the network. *)

\* The answer to the last request is there to its last unit.
Answered ==
    \/ asked = <<>>
    \/ /\ delivered # <<>>
       /\ LET u == Last(delivered) IN u[1] = Len(asked) /\ u[2] = u[3]

StatusSeen == \E k \in DOMAIN delivered : delivered[k] = Status

Ask(n) ==
    /\ gone = "no" /\ Len(asked) < MaxAsk
    /\ Answered /\ ~StatusSeen
    /\ asked' = Append(asked, Tokens(Len(asked) + 1, n))
    /\ wire' = wire \o asked'[Len(asked')]
    /\ spoiled' = FALSE
    /\ UNCHANGED <<gone, readVars, sendVars, held, delivered, refused, open>>

\* A segment, which may end inside a header.
Arrive(k) ==
    /\ spoiled' = (spoiled \/ wire[k][2] = -1)
    /\ inbox' = inbox \o AtMost(wire, k)
    /\ wire' = Without(wire, k)
    /\ UNCHANGED <<asked, gone, recvBuf, handled, sendVars, held, delivered,
                   refused, open>>

\* The peer shuts its side down; it still reads.
PeerShutsDown ==
    /\ gone = "no"
    /\ gone' = "eof"
    /\ wire' = <<>>
    /\ UNCHANGED <<asked, readVars, sendVars, held, delivered, refused, spoiled, open>>

PeerResets ==
    /\ gone # "reset" /\ open
    /\ gone' = "reset"
    /\ wire' = <<>> /\ inbox' = <<>>
    /\ UNCHANGED <<asked, recvBuf, handled, sendVars, held, delivered, refused,
                   spoiled, open>>

-----------------------------------------------------------------------------
(* Closing and writing. *)

\* close_conn: a connection with requests in flight only re-arms its timer.
CloseConn ==
    IF held # <<>>
    THEN UNCHANGED <<sendVars, open>>
    ELSE /\ open' = FALSE
         /\ sendBuf' = <<>> /\ sendLen' = 0 /\ interest' = interest

\* Variant: the length counts the last buffer only.
WriteOverwritesLen(bufs) ==
    IF bufs = <<>>
    THEN UNCHANGED sendVars
    ELSE /\ sendBuf' = sendBuf \o bufs
         /\ sendLen' = Len(FlattenSeq(bufs))
         /\ interest' = "out"

\* write_to_buf of each of the buffers.
Write(bufs) ==
    IF bufs = <<>>
    THEN UNCHANGED sendVars
    ELSE /\ sendBuf' = sendBuf \o bufs
         /\ sendLen' = sendLen + Len(FlattenSeq(bufs))
         /\ interest' = "out"

SendStatus ==
    /\ Write(<< <<Status>> >>)
    /\ refused' = TRUE
    /\ UNCHANGED spoiled

-----------------------------------------------------------------------------
(* recv_from_peer. *)

Readable == open /\ interest = "in"

\* recv finds the end of the stream or an error.
RecvClosed ==
    /\ Readable /\ inbox = <<>> /\ gone # "no"
    /\ CloseConn
    /\ UNCHANGED <<peerVars, readVars, held, delivered, refused, spoiled>>

\* The handler answers at once, or keeps a clone and answers later what it has
\* not written (holyreq_t.incomplete).
Handle(data) ==
    /\ handled' = Append(handled, data)
    /\ LET i == data[1][1]
       IN  \E shape \in Shapes : \E now \in 0 .. Len(shape) :
              LET bufs == Buffers(i, shape)
              IN  /\ Write(AtMost(bufs, now))
                  /\ \/ now = Len(shape) /\ held' = held
                     \/ held' = [j \in DOMAIN held \cup {i} |->
                               IF j = i THEN Without(bufs, now) ELSE held[j]]
    /\ UNCHANGED <<refused, spoiled>>

\* "done": drain the socket, call handle_data, drop the buffer.  Without its
\* start a request is malformed.
HandleData(data) ==
    /\ inbox' = <<>>
    /\ recvBuf' = NoBuf
    /\ IF data[1][2] = -1 THEN Handle(data)
       ELSE SendStatus /\ UNCHANGED <<handled, held>>
    /\ UNCHANGED <<peerVars, delivered, open>>

\* Variant: the offset does not advance, a part overwrites the one before.
RecvRestOverwrites ==
    /\ Readable /\ inbox # <<>> /\ recvBuf # NoBuf
    /\ LET got  == Min2(Len(inbox), recvBuf.left)
           data == recvBuf.data \o AtMost(inbox, got)
       IN  IF got = recvBuf.left
           THEN HandleData(data)
           ELSE /\ recvBuf' = [recvBuf EXCEPT !.left = @ - got]
                /\ inbox' = Without(inbox, got)
                /\ UNCHANGED <<peerVars, handled, sendVars, held, delivered,
                               refused, spoiled, open>>

\* Variant: left is not decremented, the body is never complete.
RecvRestWaitsForAll ==
    /\ Readable /\ inbox # <<>> /\ recvBuf # NoBuf
    /\ LET got  == Min2(Len(inbox), recvBuf.left)
           data == recvBuf.data \o AtMost(inbox, got)
       IN  IF got = recvBuf.left
           THEN HandleData(data)
           ELSE /\ recvBuf' = [recvBuf EXCEPT !.data = data]
                /\ inbox' = Without(inbox, got)
                /\ UNCHANGED <<peerVars, handled, sendVars, held, delivered,
                               refused, spoiled, open>>

\* A part of the body: one recv.  The length that the code hands on with the whole
\* request lacks the last part; it is only tested for 0 (packet.c:458).
RecvRest ==
    /\ Readable /\ inbox # <<>> /\ recvBuf # NoBuf
    /\ LET got  == Min2(Len(inbox), recvBuf.left)
           data == recvBuf.data \o AtMost(inbox, got)
       IN  IF got = recvBuf.left
           THEN HandleData(data)
           ELSE /\ recvBuf' = [data |-> data, left |-> recvBuf.left - got]
                /\ inbox' = Without(inbox, got)
                /\ UNCHANGED <<peerVars, handled, sendVars, held, delivered,
                               refused, spoiled, open>>

\* The first recv takes at most BufSize tokens.
First == AtMost(inbox, Min2(Len(inbox), BufSize))

\* strstr: the length of the header in s, 0 if its end is not there.
HeaderLength(s) ==
    IF \E p \in DOMAIN s : s[p][2] = 0
    THEN SelectInSeq(s, LAMBDA t : t[2] = 0)
    ELSE 0

\* strcasestr finds the length of the content if its field is in this part of the
\* header; without it there is none.
Lengths(h) ==
    {ContentLength(First[h][1])} \cup (IF First[1][2] = -1 THEN {} ELSE {0})

Acceptable(n) == n <= MaxContent

\* No end of a header, or too much content: a status page.
RecvRefused ==
    /\ Readable /\ inbox # <<>> /\ recvBuf = NoBuf
    /\ LET h == HeaderLength(First)
       IN  h # 0 => \E n \in Lengths(h) : ~Acceptable(n)
    /\ inbox' = Without(inbox, Len(First))
    /\ SendStatus
    /\ UNCHANGED <<peerVars, recvBuf, handled, held, delivered, open>>

\* The header and what there is of the body; recv is called until the body is
\* complete, the socket is empty, or the peer has left.
RecvFirst ==
    /\ Readable /\ inbox # <<>> /\ recvBuf = NoBuf
    /\ LET h == HeaderLength(First)
       IN  /\ h # 0
           /\ \E n \in Lengths(h) :
                 /\ Acceptable(n)
                 /\ IF h + n <= Len(inbox)
                    THEN HandleData(AtMost(inbox, h + n))
                    ELSE /\ recvBuf' = [data |-> inbox, left |-> h + n - Len(inbox)]
                         /\ inbox' = <<>>
                         /\ IF gone = "eof" THEN CloseConn
                                            ELSE UNCHANGED <<sendVars, open>>
                         /\ UNCHANGED <<peerVars, handled, held, delivered, refused,
                                        spoiled>>

-----------------------------------------------------------------------------
(* send_to_peer: the buffers in order, until the kernel takes no more. *)

\* Variant: a buffer sent to its end stays in the list.
UnsentKeepsEmpty(bufs, whole, part) ==
    IF part = 0 THEN [Without(bufs, whole - 1) EXCEPT ![1] = <<>>]
    ELSE [Without(bufs, whole) EXCEPT ![1] = Without(@, part)]

\* The buffers after the kernel took the first ones whole and a part of the next.
Unsent(bufs, whole, part) ==
    IF part = 0 THEN Without(bufs, whole)
    ELSE [Without(bufs, whole) EXCEPT ![1] = Without(@, part)]

Taken(bufs, whole, part) ==
    FlattenSeq(AtMost(bufs, whole))
        \o (IF part = 0 THEN <<>> ELSE AtMost(bufs[whole + 1], part))

SendToPeer(whole, part) ==
    /\ open /\ interest = "out" /\ gone # "reset"
    /\ whole + part > 0
    /\ part > 0 => whole < Len(sendBuf) /\ part < Len(sendBuf[whole + 1])
    /\ delivered' = delivered \o Taken(sendBuf, whole, part)
    /\ sendBuf' = Unsent(sendBuf, whole, part)
    /\ sendLen' = sendLen - Len(Taken(sendBuf, whole, part))
    /\ interest' = IF sendLen' = 0 THEN "in" ELSE "out"
    /\ UNCHANGED <<peerVars, readVars, held, refused, spoiled, open>>

Send == \E whole \in 0 .. Len(sendBuf), part \in 0 .. sendLen : SendToPeer(whole, part)

\* send fails after a reset; or the socket is full and EPOLLRDHUP comes alone.
SendFails ==
    /\ open /\ interest = "out" /\ gone # "no"
    /\ CloseConn
    /\ UNCHANGED <<peerVars, readVars, held, delivered, refused, spoiled>>

-----------------------------------------------------------------------------
(* A kept request: the application writes the rest of the answer and frees *)
(* it.  free_request drops recv_buf with it, also when the body of the next *)
(* request is being received into it (request.c:433-434).                  *)

FreeRequest(i) ==
    /\ held' = Drop(held, i)
    /\ recvBuf' = NoBuf
    /\ spoiled' = (spoiled \/ recvBuf # NoBuf)

AppWrites(i) ==
    /\ i \in DOMAIN held /\ held[i] # <<>>
    /\ Write(<<Head(held[i])>>)
    /\ \/ Len(held[i]) = 1 /\ FreeRequest(i)
       \/ held' = [held EXCEPT ![i] = Tail(@)] /\ UNCHANGED <<recvBuf, spoiled>>
    /\ UNCHANGED <<peerVars, inbox, handled, delivered, refused, open>>

AppFrees(i) ==
    /\ i \in DOMAIN held /\ held[i] = <<>>
    /\ FreeRequest(i)
    /\ UNCHANGED <<peerVars, inbox, handled, sendVars, delivered, refused, open>>

-----------------------------------------------------------------------------
Recv == RecvClosed \/ RecvRest \/ RecvRefused \/ RecvFirst

Next ==
    \/ \E n \in Bodies : Ask(n)
    \/ \E k \in 1 .. Len(wire) : Arrive(k)
    \/ PeerShutsDown \/ PeerResets
    \/ Recv
    \/ Send \/ SendFails
    \/ \E i \in 1 .. MaxAsk : AppWrites(i) \/ AppFrees(i)

\* Packets arrive, the event loop serves the socket, the peer reads, and the
\* application completes the answers it keeps.
Fairness ==
    /\ WF_vars(\E k \in 1 .. Len(wire) : Arrive(k))
    /\ WF_vars(Recv)
    /\ WF_vars(Send)
    /\ WF_vars(\E i \in 1 .. MaxAsk : AppWrites(i) \/ AppFrees(i))

Spec == Init /\ [][Next]_vars /\ Fairness

-----------------------------------------------------------------------------
(* Properties. *)

Fits(r) == Len(r) - 2 <= MaxContent

\* Every request that is not too large, or spoiled, reaches its handler once and
\* whole, and every unit written reaches the peer once and in order, however the
\* stream is cut, the body continued, the buffers sent in part and the request
\* kept; a spoiled request is refused, and never handled in part
\* (connection.c:113-248, server.c:206-211, request.c:433).
X == INSTANCE Exchange WITH
        Requests  <- Tokenised,
        Sizes     <- {Last(shape) : shape \in Shapes},
        owed      <- FlattenSeq(LastBuffers(Len(handled))),
        pending   <- FlattenSeq(sendBuf),
        gone      <- gone # "no"
ImplementsExchange == X!Spec

\* send_buf_len, which decides when epoll stops watching for EPOLLOUT, is what
\* the buffers hold, and epoll watches for writing exactly while they hold
\* something (connection.c:231, 242-244, 269-271).
SendLenExact ==
    open => /\ sendLen = Len(FlattenSeq(sendBuf))
            /\ interest = IF sendBuf = <<>> THEN "in" ELSE "out"

\* A peer that stays is answered: no order of partial reads, partial writes
\* and late answers leaves it waiting (connection.c:113-248).
EveryRequestAnswered ==
    \A i \in 1 .. MaxAsk :
        Len(asked) = i ~> Len(asked) > i \/ Answered \/ StatusSeen \/ gone # "no"

=============================================================================
