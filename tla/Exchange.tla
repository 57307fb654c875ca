------------------------------ MODULE Exchange ------------------------------
(***************************************************************************)
(* What a connection promises a peer that waits for the whole answer to a  *)
(* request before it sends the next one: a request that fits and is not    *)
(* spoiled on its way reaches its handler once and whole, every unit the   *)
(* handler writes reaches the peer once and in order, and the connection   *)
(* is closed only after the peer has left and the handler has said all it  *)
(* had to say.                                                             *)
(***************************************************************************)
EXTENDS Integers, Sequences

CONSTANTS
    Requests,     \* what the peer may ask
    Fits(_),      \* the requests the server has to handle
    Sizes,        \* lengths of answers
    Status        \* the answer to a refused request

VARIABLES
    asked,        \* the requests the peer has sent
    handled,      \* the requests given to handlers
    owed,         \* units of the current answer that are not written yet
    pending,      \* units written that the peer has not got
    delivered,    \* units the peer has got
    refused,      \* a request was refused
    spoiled,      \* the current request cannot be read any more
    gone,         \* the peer has left
    open          \* the server has the connection

vars == <<asked, handled, owed, pending, delivered, refused, spoiled, gone,
          open>>

Init ==
    /\ asked = <<>> /\ handled = <<>>
    /\ owed = <<>> /\ pending = <<>> /\ delivered = <<>>
    /\ refused = FALSE /\ spoiled = FALSE /\ gone = FALSE /\ open = TRUE

\* The unit k of the n units of the answer to request i.
Answer(i, n) == [k \in 1 .. n |-> <<i, k, n>>]

Waiting == Len(handled) < Len(asked)
Current == asked[Len(handled) + 1]

Ask(r) ==
    /\ ~gone /\ ~Waiting /\ ~refused
    /\ owed = <<>> /\ pending = <<>>
    /\ asked' = Append(asked, r)
    /\ spoiled' = FALSE
    /\ UNCHANGED <<handled, owed, pending, delivered, refused, gone, open>>

\* What the server does not bear: a header in pieces, a late free of the request
\* before.
Spoil ==
    /\ Waiting
    /\ spoiled' = TRUE
    /\ UNCHANGED <<asked, handled, owed, pending, delivered, refused, gone, open>>

\* The handler gets the request and writes the first w units of the answer.
Handle(n, w) ==
    /\ open /\ Waiting /\ ~refused /\ Fits(Current)
    /\ handled' = Append(handled, Current)
    /\ LET answer == Answer(Len(asked), n)
       IN  /\ pending' = pending \o SubSeq(answer, 1, w)
           /\ owed' = SubSeq(answer, w + 1, n)
    /\ UNCHANGED <<asked, delivered, refused, spoiled, gone, open>>

\* What is left of a refused request may be refused again.
Refuse ==
    /\ open /\ Waiting
    /\ refused \/ spoiled \/ ~Fits(Current)
    /\ refused' = TRUE
    /\ pending' = Append(pending, Status)
    /\ UNCHANGED <<asked, handled, owed, delivered, spoiled, gone, open>>

Write(w) ==
    /\ open
    /\ pending' = pending \o SubSeq(owed, 1, w)
    /\ owed' = SubSeq(owed, w + 1, Len(owed))
    /\ UNCHANGED <<asked, handled, delivered, refused, spoiled, gone, open>>

Deliver(k) ==
    /\ open
    /\ delivered' = delivered \o SubSeq(pending, 1, k)
    /\ pending' = SubSeq(pending, k + 1, Len(pending))
    /\ UNCHANGED <<asked, handled, owed, refused, spoiled, gone, open>>

Leave ==
    /\ gone' = TRUE
    /\ UNCHANGED <<asked, handled, owed, pending, delivered, refused, spoiled, open>>

Close ==
    /\ gone /\ owed = <<>>
    /\ open' = FALSE
    /\ pending' = <<>>
    /\ UNCHANGED <<asked, handled, owed, delivered, refused, spoiled, gone>>

Next ==
    \/ \E r \in Requests : Ask(r)
    \/ \E n \in Sizes : \E w \in 0 .. n : Handle(n, w)
    \/ Spoil \/ Refuse
    \/ \E w \in 1 .. Len(owed) : Write(w)
    \/ \E k \in 1 .. Len(pending) : Deliver(k)
    \/ Leave
    \/ Close

Spec == Init /\ [][Next]_vars

=============================================================================
