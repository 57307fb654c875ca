------------------------------- MODULE Server -------------------------------
(***************************************************************************)
(* The event loop of HolyHttp and the life of the objects it manages:      *)
(* connections, sessions, requests, timers and the file descriptors and    *)
(* epoll registrations behind them.                                        *)
(*                                                                         *)
(*   src/server/server.c      run_server, accept_connection, handle_data   *)
(*   src/server/connection.c  close_conn, check_timeout, recv_from_peer,   *)
(*                            send_to_peer, write_to_buf                   *)
(*   src/server/request.c     holy_request_init, get_or_new_session,       *)
(*                            check_session_timeout, free_request          *)
(*   src/server/timer.c       holy_set_timeout, holy_kill_timer,           *)
(*                            holy_explode_timers                          *)
(*                                                                         *)
(* A heap of objects is a function whose domain is the set of allocated    *)
(* objects: malloc extends the domain and free shrinks it, so a pointer    *)
(* dangles exactly when its value is outside the domain.  The use of a     *)
(* dangling pointer sets fault, and the model goes no further into it.     *)
(*                                                                         *)
(* One thread runs everything.  One iteration of the loop is the phases    *)
(* "wait" (epoll_wait), "events" (the array evts), "handler" (inside the   *)
(* application's handler of one request) and "timers" (the timer pass).    *)
(* Every allocation succeeds here; module Scarce lets them fail.            *)
(***************************************************************************)
EXTENDS Integers, FiniteSets

CONSTANTS
    FD,              \* file descriptors the process may open for peers
    Conn,            \* addresses of connection_t objects
    Session,         \* addresses of session_t objects
    Request,         \* addresses of request_t objects
    Timer,           \* addresses of holytimer_t objects
    NULL,
    SocketTimeout,   \* cfg.socket_timeout, seconds
    SessionTimeout,  \* cfg.session_timeout, seconds
    ReferMod,        \* 2^16: connection_t.refer is a u16
    Jumps,           \* steps of the wall clock, seconds
    MaxIdle,         \* bound: idle times are counted up to this many seconds
    MaxLeft,         \* bound: the wall clock is not set back beyond this delay
    MaxUnsent,       \* bound: the application stops writing at this many units
    MaxBacklog       \* bound: connections the kernel holds for accept

ASSUME ServerAssumption ==
    /\ Conn \cap Session = {}
    /\ NULL \notin FD \cup Conn \cup Session \cup Request \cup Timer
    /\ SocketTimeout \in Nat \ {0}
    /\ SessionTimeout \in Nat \ {0}
    /\ MaxIdle \in Nat /\ MaxIdle >= SessionTimeout
    /\ Jumps \subseteq Int
    /\ MaxLeft \in Nat /\ MaxUnsent \in Nat /\ MaxBacklog \in Nat
    /\ IsFiniteSet(Request)
    \* Fewer requests are in flight than the width of refer can count.
    /\ ReferMod \in Nat /\ Cardinality(Request) < ReferMod

VARIABLES
    backlog,    \* connections waiting in the kernel for accept
    sock,       \* open fds: what the kernel knows of the socket and of epoll
    phase,      \* where the thread is: "wait", "events", "handler", "timers"
    evts,       \* fds with an event of this epoll_wait not handled yet
    acceptable, \* the listening socket has such an event
    conns,      \* server_t.conns: fd -> connection
    conn,       \* allocated connection_t objects
    sess,       \* allocated session_t objects, all of them in server_t.sessions
    req,        \* requests initialised and not freed
    cur,        \* the request on handle_data's stack
    timer,      \* armed timers
    fault       \* freed memory was used

kernelVars == <<backlog, sock>>
loopVars   == <<phase, evts, acceptable, cur>>
heapVars   == <<conns, conn, sess, req, timer>>
vars       == <<kernelVars, loopVars, heapVars, fault>>

-----------------------------------------------------------------------------
(* Heaps and numbers. *)

Put(heap, x, object) ==
    [y \in DOMAIN heap \cup {x} |-> IF y = x THEN object ELSE heap[y]]

Drop(heap, x) == [y \in DOMAIN heap \ {x} |-> heap[y]]

Empty == [x \in {} |-> NULL]

AtLeast0(n) == IF n < 0 THEN 0 ELSE n
Aged(n)     == IF n < MaxIdle THEN n + 1 ELSE n

SockRec == [peer : {"open", "closed"}, data : BOOLEAN, interest : {"in", "out"}]
ConnRec == [fd : FD, refer : 0 .. ReferMod - 1, timer : Timer,
            idle : 0 .. MaxIdle, unsent : Nat, recvBuf : BOOLEAN]
SessRec == [refer : Nat, idle : 0 .. MaxIdle, data : BOOLEAN]
ReqRec  == [conn : Conn, sess : Session]
TimerRec == [left : Nat, arg : Conn \cup Session]

TypeOK ==
    /\ backlog \in 0 .. MaxBacklog
    /\ DOMAIN sock \subseteq FD /\ sock \in [DOMAIN sock -> SockRec]
    /\ phase \in {"wait", "events", "handler", "timers"}
    /\ DOMAIN evts \subseteq FD /\ evts \in [DOMAIN evts -> {"in", "out", "hup"}]
    /\ acceptable \in BOOLEAN
    /\ DOMAIN conns \subseteq FD /\ conns \in [DOMAIN conns -> Conn]
    /\ DOMAIN conn \subseteq Conn /\ conn \in [DOMAIN conn -> ConnRec]
    /\ DOMAIN sess \subseteq Session /\ sess \in [DOMAIN sess -> SessRec]
    /\ DOMAIN req \subseteq Request /\ req \in [DOMAIN req -> ReqRec]
    /\ cur \in Request \cup {NULL}
    /\ DOMAIN timer \subseteq Timer /\ timer \in [DOMAIN timer -> TimerRec]
    /\ fault \in BOOLEAN

Init ==
    /\ backlog = 0
    /\ sock = Empty
    /\ phase = "wait"
    /\ evts = Empty
    /\ acceptable = FALSE
    /\ conns = Empty
    /\ conn = Empty
    /\ sess = Empty
    /\ req = Empty
    /\ cur = NULL
    /\ timer = Empty
    /\ fault = FALSE

-----------------------------------------------------------------------------
(* The world: peers, elapsed time, and an administrator or NTP that steps  *)
(* the wall clock.  Timers run on gettimeofday, idle times on sysinfo's    *)
(* uptime (src/utils/time.c), so a step moves the first and not the other. *)

Connect ==
    /\ backlog < MaxBacklog
    /\ backlog' = backlog + 1
    /\ UNCHANGED <<sock, loopVars, heapVars, fault>>

PeerSends(f) ==
    /\ sock[f].peer = "open" /\ ~sock[f].data
    /\ sock' = [sock EXCEPT ![f].data = TRUE]
    /\ UNCHANGED <<backlog, loopVars, heapVars, fault>>

PeerCloses(f) ==
    /\ sock[f].peer = "open"
    /\ sock' = [sock EXCEPT ![f].peer = "closed"]
    /\ UNCHANGED <<backlog, loopVars, heapVars, fault>>

\* Time passes while the loop waits and while the application works in a
\* handler; the library's own steps take none that matters, and the pass over
\* the timers reads the clock once (timer.c:111).
TimePasses == phase \in {"wait", "handler"}

Tick ==
    /\ TimePasses
    /\ timer' = [t \in DOMAIN timer |->
                    [timer[t] EXCEPT !.left = AtLeast0(@ - 1)]]
    /\ conn' = [c \in DOMAIN conn |-> [conn[c] EXCEPT !.idle = Aged(@)]]
    /\ sess' = [s \in DOMAIN sess |-> [sess[s] EXCEPT !.idle = Aged(@)]]
    /\ UNCHANGED <<kernelVars, loopVars, conns, req, fault>>

WallClockStep(d) ==
    /\ TimePasses
    /\ \A t \in DOMAIN timer : timer[t].left - d <= MaxLeft
    /\ timer' = [t \in DOMAIN timer |->
                    [timer[t] EXCEPT !.left = AtLeast0(@ - d)]]
    /\ UNCHANGED <<kernelVars, loopVars, conns, conn, sess, req, fault>>

-----------------------------------------------------------------------------
(* connection.c *)

\* Using a dangling pointer: whatever it would do, the fault is recorded and
\* the objects are left alone.
UseFreed(untouched) == fault' = TRUE /\ UNCHANGED untouched

\* Faulty variants of close_conn: the dictionary keeps the entry; the timer is
\* started anew without killing the old one.
CloseConnKeepsEntry(c, armed) ==
    /\ conn[c].refer = 0
    /\ timer' = Drop(armed, conn[c].timer)
    /\ sock' = Drop(sock, conn[c].fd)
    /\ conn' = Drop(conn, c)
    /\ UNCHANGED <<conns, fault>>

CloseConnKeepsTimer(c, armed) ==
    \E t \in Timer \ DOMAIN armed :
        /\ conn[c].refer > 0
        /\ timer' = Put(armed, t, [left |-> SocketTimeout, arg |-> c])
        /\ conn' = [conn EXCEPT ![c].timer = t]
        /\ UNCHANGED <<sock, conns, fault>>

\* A faulty variant: kill_timer does not look whether there is a timer.
CloseConnUnchecked(c, armed) ==
    IF conn[c].timer \notin DOMAIN armed
    THEN UseFreed(<<sock, conns, conn, timer>>)
    ELSE \E t \in Timer \ DOMAIN armed :
            /\ conn[c].refer > 0
            /\ timer' = Put(Drop(armed, conn[c].timer), t,
                            [left |-> SocketTimeout, arg |-> c])
            /\ conn' = [conn EXCEPT ![c].timer = t]
            /\ UNCHANGED <<sock, conns, fault>>

\* close_conn.  kill_timer on a timer that is not armed erases and frees it
\* a second time; on NULL it does nothing.  A connection with requests in flight
\* is not closed: its timer starts anew.
CloseConn(c, armed) ==
    IF conn[c].timer # NULL /\ conn[c].timer \notin DOMAIN armed
    THEN UseFreed(<<sock, conns, conn, timer>>)
    ELSE IF conn[c].refer > 0
    THEN \E t \in Timer \ DOMAIN armed :
            /\ timer' = Put(Drop(armed, conn[c].timer), t,
                            [left |-> SocketTimeout, arg |-> c])
            /\ conn' = [conn EXCEPT ![c].timer = t]
            /\ UNCHANGED <<sock, conns, fault>>
    ELSE /\ timer' = Drop(armed, conn[c].timer)
         /\ sock' = Drop(sock, conn[c].fd)
         /\ conns' = Drop(conns, conn[c].fd)
         /\ conn' = Drop(conn, c)
         /\ UNCHANGED fault

\* A faulty variant of check_timeout: the sign of the idle time is right, and
\* the connection is closed from inside its own timer.
CheckTimeoutBySeconds(c, t) ==
    IF conn[c].idle < SocketTimeout
    THEN \E u \in Timer \ DOMAIN timer :
            /\ timer' = Put(Drop(timer, t), u,
                            [left |-> SocketTimeout - conn[c].idle, arg |-> c])
            /\ conn' = [conn EXCEPT ![c].timer = u]
            /\ UNCHANGED <<sock, conns, fault>>
    ELSE CloseConn(c, Drop(timer, t))

\* check_timeout, called with its own timer t already removed.  The code
\* computes last_active - now, which is never positive, and compares it with
\* the u32 timeout as 64-bit longs.
CheckTimeout(c, t) ==
    LET interval == -conn[c].idle
    IN  IF interval < SocketTimeout
        THEN \E u \in Timer \ DOMAIN timer :
                /\ timer' = Put(Drop(timer, t), u,
                                [left |-> SocketTimeout - interval, arg |-> c])
                /\ conn' = [conn EXCEPT ![c].timer = u]
                /\ UNCHANGED <<sock, conns, fault>>
        ELSE CloseConn(c, Drop(timer, t))

\* A faulty variant of write_to_buf: epoll is not told.
WriteToBufUnwatched(c, connNow, sockNow) ==
    /\ conn' = [connNow EXCEPT ![c].unsent = @ + 1]
    /\ sock' = sockNow

\* write_to_buf: queue one unit and wait for the socket to be writable.
WriteToBuf(c, connNow, sockNow) ==
    /\ conn' = [connNow EXCEPT ![c].unsent = @ + 1]
    /\ sock' = [sockNow EXCEPT ![connNow[c].fd].interest = "out"]

\* do_recv returns 0 or fails.  A new request whose header came with the end
\* of the stream gets here from the loop that reads the rest of its body.
RecvEof(c) ==
    /\ LET s == sock[conn[c].fd]
       IN  s.peer = "closed" /\ (s.data => ~conn[c].recvBuf /\ conn[c].refer = 0)
    /\ CloseConn(c, timer)
    /\ UNCHANGED <<phase, cur, sess, req>>

\* The same where close_conn waits for other requests of the connection: the
\* timer starts anew, and the new request stays as far as it was read.
RecvCut(c) ==
    /\ sock[conn[c].fd].peer = "closed" /\ sock[conn[c].fd].data
    /\ ~conn[c].recvBuf /\ conn[c].refer > 0
    /\ sock' = [sock EXCEPT ![conn[c].fd].data = FALSE]
    /\ \E t \in Timer \ DOMAIN timer :
          /\ timer' = Put(Drop(timer, conn[c].timer), t,
                          [left |-> SocketTimeout, arg |-> c])
          /\ conn' = [conn EXCEPT ![c].timer = t, ![c].idle = 0, ![c].recvBuf = TRUE]
    /\ UNCHANGED <<phase, cur, conns, sess, req, fault>>

\* recv_from_peer or handle_data answers with a status of its own: no end of
\* header, a body too large, a malformed packet.  Only the first of these
\* leaves last_active alone.  What a peer sends beyond the buffer that is read
\* counts as sent after it, by PeerSends.
RecvRefused(c) ==
    /\ sock[conn[c].fd].data
    /\ \E idle \in {0, conn[c].idle} :
          WriteToBuf(c, [conn EXCEPT ![c].idle = idle, ![c].recvBuf = FALSE],
                        [sock EXCEPT ![conn[c].fd].data = FALSE])
    /\ UNCHANGED <<phase, cur, conns, sess, req, timer, fault>>

\* The header and a part of the body, or a later part of the body, which
\* does not count as activity.
RecvPart(c) ==
    /\ sock[conn[c].fd].data
    /\ sock[conn[c].fd].peer = "closed" => conn[c].recvBuf
    /\ sock' = [sock EXCEPT ![conn[c].fd].data = FALSE]
    /\ conn' = [conn EXCEPT ![c].idle = IF conn[c].recvBuf THEN @ ELSE 0,
                            ![c].recvBuf = TRUE]
    /\ UNCHANGED <<phase, cur, conns, sess, req, timer, fault>>

\* A faulty variant of holy_request_init: only a new session counts its request.
AcquireSessionUncounted(s) ==
    IF s \in DOMAIN sess
    THEN sess' = [sess EXCEPT ![s].idle = 0] /\ UNCHANGED timer
    ELSE /\ sess' = Put(sess, s, [refer |-> 1, idle |-> 0, data |-> FALSE])
         /\ \E t \in Timer \ DOMAIN timer :
               timer' = Put(timer, t, [left |-> SessionTimeout, arg |-> s])

\* get_or_new_session and the counting in holy_request_init: the cookie names
\* a session of the table, or a new one is made with its timer.
AcquireSession(s) ==
    IF s \in DOMAIN sess
    THEN /\ sess' = [sess EXCEPT ![s].refer = @ + 1, ![s].idle = 0]
         /\ UNCHANGED timer
    ELSE /\ sess' = Put(sess, s, [refer |-> 1, idle |-> 0, data |-> FALSE])
         /\ \E t \in Timer \ DOMAIN timer :
               timer' = Put(timer, t, [left |-> SessionTimeout, arg |-> s])

\* A complete request: the rest of the socket's data is drained, and
\* handle_data runs up to the call of the application's handler.
RecvRequest(c) ==
    /\ sock[conn[c].fd].data
    /\ sock' = [sock EXCEPT ![conn[c].fd].data = FALSE]
    /\ \E r \in Request \ DOMAIN req, s \in Session :
          /\ req' = Put(req, r, [conn |-> c, sess |-> s])
          /\ cur' = r
          /\ AcquireSession(s)
    /\ conn' = [conn EXCEPT ![c].refer = (@ + 1) % ReferMod,
                            ![c].idle = IF conn[c].recvBuf THEN @ ELSE 0,
                            ![c].recvBuf = TRUE]
    /\ phase' = "handler"
    /\ UNCHANGED <<conns, fault>>

RecvFromPeer(c) ==
    RecvEof(c) \/ RecvCut(c) \/ RecvRefused(c) \/ RecvPart(c) \/ RecvRequest(c)

\* A faulty variant of send_to_peer: a broken peer is taken for a slow one.
SendToPeerWaits(c) ==
    \/ /\ sock[conn[c].fd].peer = "closed"
       /\ UNCHANGED <<sock, conns, conn, timer, fault>>
    \/ /\ conn[c].unsent > 0
       /\ conn' = [conn EXCEPT ![c].unsent = 0, ![c].idle = 0]
       /\ sock' = [sock EXCEPT ![conn[c].fd].interest = "in"]
       /\ UNCHANGED <<conns, timer, fault>>

\* send_to_peer: an error closes; else at least one unit goes out.  When a
\* later buffer would block, the call returns before it notes the activity.
SendToPeer(c) ==
    \/ /\ sock[conn[c].fd].peer = "closed"
       /\ CloseConn(c, timer)
    \/ /\ \E left \in 0 .. conn[c].unsent, blocked \in BOOLEAN :
             /\ left = conn[c].unsent => left = 0
             /\ blocked => left > 0
             /\ conn' = [conn EXCEPT ![c].unsent = left,
                                     ![c].idle = IF blocked THEN @ ELSE 0]
             /\ sock' = IF left = 0
                        THEN [sock EXCEPT ![conn[c].fd].interest = "in"]
                        ELSE sock
       /\ UNCHANGED <<conns, timer, fault>>

-----------------------------------------------------------------------------
(* server.c: epoll_wait and the loop over its events. *)

\* What level-triggered epoll reports for a socket, reduced to the branch of
\* run_server it selects.  Room in the send buffer is the kernel's choice.
Reports(f) ==
    CASE sock[f].interest = "in" /\ (sock[f].data \/ sock[f].peer = "closed") -> {"in"}
      [] sock[f].interest = "in" /\ ~sock[f].data /\ sock[f].peer = "open" -> {"none"}
      [] sock[f].interest = "out" /\ sock[f].peer = "closed" -> {"out", "hup"}
      [] OTHER -> {"out", "none"}

DueTimers == {t \in DOMAIN timer : timer[t].left = 0}

\* epoll_wait returns with events, with a connection to accept, or when a timer
\* is due, which may be one of an application that has kept requests to serve.
EpollWait ==
    /\ phase = "wait"
    /\ phase' = "events"
    /\ acceptable' = (backlog > 0)
    /\ \E F \in SUBSET DOMAIN sock :
          /\ \A f \in DOMAIN sock \ F : "none" \in Reports(f)
          /\ evts' \in [F -> {"in", "out", "hup"}]
          /\ \A f \in F : evts'[f] \in Reports(f)
          /\ F # {} \/ backlog > 0 \/ DueTimers # {} \/ DOMAIN req # {}
    /\ UNCHANGED <<kernelVars, cur, heapVars, fault>>

\* accept_connection: register the fd, make the connection, enter it in conns.
Accept(f, c, t) ==
    /\ phase = "events" /\ acceptable
    /\ f \notin DOMAIN sock /\ c \notin DOMAIN conn /\ t \notin DOMAIN timer
    /\ acceptable' = FALSE
    /\ backlog' = backlog - 1
    /\ sock' = Put(sock, f, [peer |-> "open", data |-> FALSE, interest |-> "in"])
    /\ conns' = Put(conns, f, c)
    /\ conn' = Put(conn, c, [fd |-> f, refer |-> 0, timer |-> t, idle |-> 0,
                             unsent |-> 0, recvBuf |-> FALSE])
    /\ timer' = Put(timer, t, [left |-> SocketTimeout, arg |-> c])
    /\ UNCHANGED <<phase, evts, cur, sess, req, fault>>

\* A faulty variant: accept is tried again until it succeeds.
AcceptFailsRetries ==
    /\ phase = "events" /\ acceptable
    /\ DOMAIN sock = FD
    /\ UNCHANGED vars

\* accept fails for want of a descriptor; the connection stays in the backlog.
AcceptFails ==
    /\ phase = "events" /\ acceptable
    /\ DOMAIN sock = FD
    /\ acceptable' = FALSE
    /\ UNCHANGED <<kernelVars, phase, evts, cur, heapVars, fault>>

\* The lookup all three event branches start with.  No entry: the event is
\* ignored.  An entry for a freed connection: its fields are read anyway.
WithConn(f, Serve(_)) ==
    IF f \notin DOMAIN conns
    THEN UNCHANGED <<sock, phase, cur, heapVars, fault>>
    ELSE IF conns[f] \notin DOMAIN conn
    THEN UseFreed(<<sock, phase, cur, heapVars>>)
    ELSE Serve(conns[f])

\* A faulty variant of the loop: without the else of server.c:312, a readable
\* socket is written to in the same turn.
TakeEventTwice(f, kind) ==
    /\ phase = "events"
    /\ f \in DOMAIN evts /\ evts[f] = kind
    /\ evts' = IF kind = "in" THEN [evts EXCEPT ![f] = "out"] ELSE Drop(evts, f)
    /\ UNCHANGED <<backlog, acceptable>>

TakeEvent(f, kind) ==
    /\ phase = "events"
    /\ f \in DOMAIN evts /\ evts[f] = kind
    /\ evts' = Drop(evts, f)
    /\ UNCHANGED <<backlog, acceptable>>

ReadData(f) == TakeEvent(f, "in") /\ WithConn(f, RecvFromPeer)

WriteData(f) ==
    LET Send(c) == SendToPeer(c) /\ UNCHANGED <<phase, cur, sess, req>>
    IN  TakeEvent(f, "out") /\ WithConn(f, Send)

CloseByFd(f) ==
    LET Close(c) == CloseConn(c, timer) /\ UNCHANGED <<phase, cur, sess, req>>
    IN  TakeEvent(f, "hup") /\ WithConn(f, Close)

EndEvents ==
    /\ phase = "events"
    /\ DOMAIN evts = {} /\ ~acceptable
    /\ phase' = "timers"
    /\ UNCHANGED <<kernelVars, evts, acceptable, cur, heapVars, fault>>

-----------------------------------------------------------------------------
(* request.c: what an application does inside a handler, or in the callback  *)
(* of a timer of its own.  It may use the request it was called with and any *)
(* clone it kept of an earlier one.                                          *)

AppRuns == phase \in {"handler", "timers"}

Intact(r) == req[r].conn \in DOMAIN conn /\ req[r].sess \in DOMAIN sess

AppWrites(r) ==
    /\ AppRuns /\ r \in DOMAIN req
    /\ IF ~Intact(r)
       THEN UseFreed(<<conn, sock>>)
       ELSE /\ conn[req[r].conn].unsent < MaxUnsent
            /\ WriteToBuf(req[r].conn, conn, sock)
            /\ UNCHANGED fault
    /\ UNCHANGED <<backlog, loopVars, conns, sess, req, timer>>

AppSetsSession(r) ==
    /\ AppRuns /\ r \in DOMAIN req
    /\ IF ~Intact(r)
       THEN UseFreed(sess)
       ELSE sess' = [sess EXCEPT ![req[r].sess].data = TRUE] /\ UNCHANGED fault
    /\ UNCHANGED <<kernelVars, loopVars, conns, conn, req, timer>>

\* free_request: the counters go down, and a partly received next request of
\* the same connection is dropped.
FreeRequest(r) ==
    IF ~Intact(r)
    THEN UseFreed(<<conn, sess, req>>)
    ELSE /\ conn' = [conn EXCEPT ![req[r].conn].refer = (@ - 1) % ReferMod,
                                 ![req[r].conn].recvBuf = FALSE]
         /\ sess' = [sess EXCEPT ![req[r].sess].refer = @ - 1]
         /\ req' = Drop(req, r)
         /\ UNCHANGED fault

AppFrees(r) ==
    /\ AppRuns /\ r \in DOMAIN req \ {cur}
    /\ FreeRequest(r)
    /\ UNCHANGED <<kernelVars, loopVars, conns, timer>>

BackToLoop ==
    /\ phase' = "events"
    /\ cur' = NULL
    /\ UNCHANGED <<kernelVars, evts, acceptable, conns, timer>>

\* The handler returns and handle_data frees the request.
ReturnComplete ==
    /\ phase = "handler"
    /\ FreeRequest(cur)
    /\ BackToLoop

\* A faulty variant: handle_data frees the request of a kept clone as well.
ReturnIncompleteFreed ==
    /\ phase = "handler" /\ DOMAIN req # Request
    /\ conn' = [conn EXCEPT ![req[cur].conn].refer = (@ - 1) % ReferMod,
                            ![req[cur].conn].recvBuf = FALSE]
    /\ sess' = [sess EXCEPT ![req[cur].sess].refer = @ - 1]
    /\ UNCHANGED <<req, fault>>
    /\ BackToLoop

\* The handler kept a clone and set incomplete; recv_from_peer frees the
\* receive buffer.  Bound: one request_t is always left for the next request.
ReturnIncomplete ==
    /\ phase = "handler" /\ DOMAIN req # Request
    /\ IF req[cur].conn \notin DOMAIN conn
       THEN UseFreed(conn)
       ELSE conn' = [conn EXCEPT ![req[cur].conn].recvBuf = FALSE] /\ UNCHANGED fault
    /\ UNCHANGED <<sess, req>>
    /\ BackToLoop

-----------------------------------------------------------------------------
(* timer.c and the timers' handlers. *)

Rearm(t, delay) ==
    \E u \in Timer \ DOMAIN timer :
        timer' = Put(Drop(timer, t), u, [left |-> delay, arg |-> timer[t].arg])

\* Faulty variants of check_session_timeout: the timer is taken at its word; a
\* session in use when its time is over is not tried again.
CheckSessionTimeoutAtOnce(s, t) ==
    IF sess[s].refer > 0
    THEN Rearm(t, 1) /\ sess' = [sess EXCEPT ![s].data = FALSE]
    ELSE sess' = Drop(sess, s) /\ timer' = Drop(timer, t)

CheckSessionTimeoutOnce(s, t) ==
    IF sess[s].idle < SessionTimeout
    THEN Rearm(t, SessionTimeout - sess[s].idle) /\ UNCHANGED sess
    ELSE IF sess[s].refer > 0
    THEN timer' = Drop(timer, t) /\ sess' = [sess EXCEPT ![s].data = FALSE]
    ELSE sess' = Drop(sess, s) /\ timer' = Drop(timer, t)

\* check_session_timeout, called with its own timer t already removed.
CheckSessionTimeout(s, t) ==
    IF sess[s].idle < SessionTimeout
    THEN Rearm(t, SessionTimeout - sess[s].idle) /\ UNCHANGED sess
    ELSE IF sess[s].refer > 0
    THEN Rearm(t, 1) /\ sess' = [sess EXCEPT ![s].data = FALSE]
    ELSE sess' = Drop(sess, s) /\ timer' = Drop(timer, t)

\* holy_explode_timers: one turn of its loop.  Which of several due timers is
\* first depends on microseconds the model does not count.
Explode(t) ==
    /\ phase = "timers" /\ t \in DueTimers
    /\ LET arg == timer[t].arg
       IN  \/ /\ arg \in DOMAIN conn
              /\ CheckTimeout(arg, t)
              /\ UNCHANGED sess
           \/ /\ arg \in DOMAIN sess
              /\ CheckSessionTimeout(arg, t)
              /\ UNCHANGED <<sock, conns, conn, fault>>
           \/ /\ arg \notin DOMAIN conn \cup DOMAIN sess
              /\ UseFreed(<<sock, conns, conn, sess, timer>>)
    /\ UNCHANGED <<backlog, loopVars, req>>

EndTimers ==
    /\ phase = "timers" /\ DueTimers = {}
    /\ phase' = "wait"
    /\ UNCHANGED <<kernelVars, evts, acceptable, cur, heapVars, fault>>

-----------------------------------------------------------------------------
World ==
    \/ Connect
    \/ \E f \in DOMAIN sock : PeerSends(f) \/ PeerCloses(f)
    \/ \E d \in Jumps : WallClockStep(d)

ServerStep ==
    \/ EpollWait
    \/ \E f \in FD, c \in Conn, t \in Timer : Accept(f, c, t)
    \/ AcceptFails
    \/ \E f \in FD : ReadData(f) \/ WriteData(f) \/ CloseByFd(f)
    \/ EndEvents
    \/ \E r \in Request : AppWrites(r) \/ AppSetsSession(r) \/ AppFrees(r)
    \/ ReturnComplete \/ ReturnIncomplete
    \/ \E t \in Timer : Explode(t)
    \/ EndTimers

Next == World \/ Tick \/ ServerStep

Spec == Init /\ [][Next]_vars

\* The thread runs, handlers return, and time passes.
Fairness == WF_vars(ServerStep) /\ SF_vars(Tick)

FairSpec == Spec /\ Fairness

-----------------------------------------------------------------------------
(* Properties. *)

\* No step of the loop follows a pointer to a freed connection, session or
\* timer, nor frees a timer twice (connection.c:58, timer.c:46-53).
NoUseOfFreedMemory == ~fault

\* Three records of the open sockets never part: the kernel's descriptors,
\* the dictionary conns and the connection objects (server.c:126-135,
\* connection.c:71-74).
ConnsExact ==
    /\ DOMAIN conns = DOMAIN sock
    /\ \A f \in DOMAIN conns :
          conns[f] \in DOMAIN conn /\ conn[conns[f]].fd = f
    /\ \A c \in DOMAIN conn :
          conn[c].fd \in DOMAIN conns /\ conns[conn[c].fd] = c

\* Every connection and every session has exactly one armed timer, a
\* connection's is the one it will kill, and no timer outlives its argument
\* (timer.c:119-123 frees the timer only after its handler).
TimersExact ==
    /\ \A t \in DOMAIN timer : timer[t].arg \in DOMAIN conn \cup DOMAIN sess
    /\ \A c \in DOMAIN conn :
          conn[c].timer \in DOMAIN timer /\ timer[conn[c].timer].arg = c
    /\ \A s \in DOMAIN sess : \E t \in DOMAIN timer : timer[t].arg = s
    /\ \A t, u \in DOMAIN timer : timer[t].arg = timer[u].arg => t = u

ConnRequests(c) == {r \in DOMAIN req : req[r].conn = c}
SessRequests(s) == {r \in DOMAIN req : req[r].sess = s}
RequestOnStack  == IF phase = "handler" THEN cur \in DOMAIN req ELSE cur = NULL

\* A request in flight keeps its connection and its session, and the counters
\* that protect them count exactly such requests (request.c:431-432, 498-499).
RefersExact ==
    /\ \A r \in DOMAIN req : Intact(r)
    /\ \A c \in DOMAIN conn : conn[c].refer = Cardinality(ConnRequests(c))
    /\ \A s \in DOMAIN sess : sess[s].refer = Cardinality(SessRequests(s))
    /\ RequestOnStack

\* epoll watches a socket for writing exactly while data waits to be sent,
\* whoever queued it: a response is never stuck and the peer is never left
\* unread (connection.c:242-244, 271).
InterestMatchesUnsent ==
    \A c \in DOMAIN conn :
        sock[conn[c].fd].interest = IF conn[c].unsent > 0 THEN "out" ELSE "in"

\* A step that opens or closes the connection of a descriptor leaves no event
\* of an older connection behind for it (server.c:305-320).
EventsCurrent ==
    [][\A f \in FD :
          (f \in DOMAIN conns <=> f \in DOMAIN conns') \/ f \notin DOMAIN evts']_vars

\* A session is destroyed, or its data cleared, only when it has been idle
\* for session_timeout, however the wall clock that drives the timers steps
\* (request.c:113-126).
SessionKept ==
    [][\A s \in DOMAIN sess :
          \/ s \in DOMAIN sess' /\ (sess[s].data => sess'[s].data)
          \/ sess[s].idle >= SessionTimeout]_vars

\* When the peer has gone, its connection is closed unless a request still
\* holds it (connection.c:60-64, server.c:314-319).
ClosedPeerReleased ==
    \A f \in FD :
        (f \in DOMAIN sock /\ sock[f].peer = "closed")
            ~> (f \notin DOMAIN sock \/ \E r \in DOMAIN req : conn[req[r].conn].fd = f)

\* A session nobody uses any more is destroyed (request.c:109-127).
IdleSessionDestroyed ==
    \A s \in Session :
        s \in DOMAIN sess
            ~> (s \notin DOMAIN sess \/ sess[s].idle = 0 \/ sess[s].refer > 0)

\* At the limit of descriptors accept fails again and again, but once the peers of
\* the open connections have gone, and no request holds them, a waiting peer gets
\* its turn (server.c:108-117, 298-327).
WaitingPeerAccepted ==
    (/\ backlog > 0 /\ DOMAIN req = {}
     /\ \A f \in DOMAIN sock : sock[f].peer = "closed")
        ~> (backlog = 0 \/ DOMAIN req # {})

\* Nothing to read, nothing to send, nobody using it, and longer than the
\* timeout.
IdleConn(c) ==
    /\ c \in DOMAIN conn
    /\ conn[c].idle >= SocketTimeout /\ conn[c].refer = 0 /\ conn[c].unsent = 0
    /\ ~sock[conn[c].fd].data

\* What holyhttp.h:39 says of socket_timeout: "max seconds for a socket(tcp
\* connection) to keep idle".  The code (connection.c:82-83) does not do it.
IdleConnClosed == \A c \in Conn : IdleConn(c) ~> ~IdleConn(c)

=============================================================================
