-------------------------------- MODULE Scarce --------------------------------
(***************************************************************************)
(* Server when memory is short: any of the allocations of connection.c,    *)
(* server.c and dict.c that are named here may fail, beside every step of  *)
(* Server.  A request that cannot be parsed, initialised or buffered for   *)
(* want of memory is refused with a status page, which is RecvRefused.     *)
(*                                                                         *)
(* Four allocations are assumed to succeed, because the code does not      *)
(* survive their failure: the entry of a new connection in conns           *)
(* (server.c:135), a session's timer (request.c:116, 122, 176), its cookie *)
(* (request.c:171) and the key to delete it by (request.c:125).            *)
(***************************************************************************)
EXTENDS Server

CONSTANT MaxFailures   \* bound: allocations that fail

VARIABLE spare         \* how many may still fail

ASSUME ScarceAssumption == MaxFailures \in Nat

scarceVars == <<vars, spare>>

\* accept_connection: holy_new_conn fails and the descriptor is closed.
AcceptWithoutConn ==
    /\ phase = "events" /\ acceptable
    /\ DOMAIN sock # FD
    /\ acceptable' = FALSE
    /\ backlog' = backlog - 1
    /\ UNCHANGED <<sock, phase, evts, cur, heapVars, fault>>

\* holy_new_conn: the connection gets no timer.
AcceptWithoutTimer(f, c) ==
    /\ phase = "events" /\ acceptable
    /\ f \notin DOMAIN sock /\ c \notin DOMAIN conn
    /\ acceptable' = FALSE
    /\ backlog' = backlog - 1
    /\ sock' = Put(sock, f, [peer |-> "open", data |-> FALSE, interest |-> "in"])
    /\ conns' = Put(conns, f, c)
    /\ conn' = Put(conn, c, [fd |-> f, refer |-> 0, timer |-> NULL, idle |-> 0,
                             unsent |-> 0, recvBuf |-> FALSE])
    /\ UNCHANGED <<timer, phase, evts, cur, sess, req, fault>>

\* get_ip cannot make its key: the event is ignored as if nobody were there.
LookupFails(f, kind) ==
    /\ TakeEvent(f, kind)
    /\ UNCHANGED <<sock, phase, cur, heapVars, fault>>

\* close_conn of a connection in use: the timer is killed, no new one made.  A
\* request cut off by the end of the stream stays as far as it was read.
CloseWithoutTimer(c, kind) ==
    LET cut == kind = "in" /\ sock[conn[c].fd].data
    IN  /\ conn[c].refer > 0
        /\ timer' = Drop(timer, conn[c].timer)
        /\ conn' = [conn EXCEPT ![c].timer = NULL,
                                ![c].idle = IF cut THEN 0 ELSE @,
                                ![c].recvBuf = cut \/ @]
        /\ sock' = [sock EXCEPT ![conn[c].fd].data = IF cut THEN FALSE ELSE @]
        /\ UNCHANGED conns

\* close_conn: del_i cannot make its key, and conns keeps an entry that dangles.
CloseWithoutKey(c) ==
    /\ conn[c].refer = 0
    /\ timer' = Drop(timer, conn[c].timer)
    /\ sock' = Drop(sock, conn[c].fd)
    /\ conn' = Drop(conn, c)
    /\ UNCHANGED conns

\* What makes the loop close connection c: the branches of run_server.
Closes(c, kind) ==
    LET s == sock[conn[c].fd]
    IN  CASE kind = "in"  -> s.peer = "closed" /\ (s.data => ~conn[c].recvBuf)
          [] kind = "out" -> s.peer = "closed"
          [] OTHER        -> TRUE

CloseFails(f, kind) ==
    /\ TakeEvent(f, kind)
    /\ f \in DOMAIN conns /\ conns[f] \in DOMAIN conn
    /\ Closes(conns[f], kind)
    /\ CloseWithoutTimer(conns[f], kind) \/ CloseWithoutKey(conns[f])
    /\ UNCHANGED <<phase, cur, sess, req, fault>>

\* check_timeout: the timer that fires is not followed by another.
RearmFails(t) ==
    /\ phase = "timers" /\ t \in DueTimers
    /\ timer[t].arg \in DOMAIN conn
    /\ timer' = Drop(timer, t)
    /\ conn' = [conn EXCEPT ![timer[t].arg].timer = NULL]
    /\ UNCHANGED <<kernelVars, loopVars, conns, sess, req, fault>>

AllocationFails ==
    \/ AcceptWithoutConn
    \/ \E f \in FD, c \in Conn : AcceptWithoutTimer(f, c)
    \/ \E f \in FD, kind \in {"in", "out", "hup"} :
          LookupFails(f, kind) \/ CloseFails(f, kind)
    \/ \E t \in Timer : RearmFails(t)

ScarceInit == Init /\ spare = MaxFailures

ScarceNext ==
    \/ Next /\ UNCHANGED spare
    \/ AllocationFails /\ spare > 0 /\ spare' = spare - 1

\* Memory is not short for ever: the fairness of Server is enough.
ScarceSpec == ScarceInit /\ [][ScarceNext]_scarceVars /\ Fairness

=============================================================================
