------------------------------ MODULE Dispatch ------------------------------
(***************************************************************************)
(* From a request to its answer: the routes of src/holyhttp.c and          *)
(* src/server/server.c (set_route, handle_data, handle_static,             *)
(* handle_dynamic), and the answers of src/server/request.c (response,     *)
(* redirect, send_status, clone), as a client that keeps its connection    *)
(* reads them.                                                             *)
(*                                                                         *)
(* Callbacks of the application run inside a request: the prerouting, then *)
(* the handler.  They call the API, answer the request in one piece or in  *)
(* chunks, or clone it and answer later.  The application keeps to the     *)
(* API: one answer for a request, none through the original after a clone; *)
(* chunks are not empty but the last, and are not sent to a HEAD.          *)
(***************************************************************************)
EXTENDS Integers, Sequences, SequencesExt

CONSTANTS
    Conn, Handler, NULL,
    Uri,        \* sequences of characters
    Slash,      \* the character '/'
    Prefix,     \* cfg.static_uri_prefix
    Favicon,    \* "/favicon.ico"
    Length      \* lengths of contents

VARIABLES
    routes,      \* server_t.routes: trimmed uri -> handler
    whiteroutes, \* server_t.whiteroutes
    prerouting,  \* whether server_t.prerouting is set
    at,          \* what runs: "loop", "prerouting" or "handler"
    req,         \* the request on the stack of handle_data
    call,        \* the handler that runs and the table it is from
    allowed,     \* history: no prerouting was set, or it returned 1
    kept,        \* clones, by connection
    client       \* what each client has read so far

tables == <<routes, whiteroutes, prerouting>>
vars == <<tables, at, req, call, allowed, kept, client>>

Method == {"HEAD", "GET"}
Idle   == [mode |-> "idle", method |-> "none"]
NoCall == [handler |-> NULL, via |-> "none"]

\* A request_t as answers need it, and what the application has said on it.
Answering == [method : Method, chunked : BOOLEAN,
              said : {"nothing", "part", "all", "cloned"}]
Request == [conn : Conn, uri : Uri, self : Answering]

\* NULL is the pointer to no request.
ASSUME DispatchAssumption == NULL \notin Answering /\ NULL \notin Request

\* holy_str_trim(uri, '/').
Trim(u) ==
    LET inner == {i \in DOMAIN u : u[i] # Slash}
    IN  IF inner = {} THEN <<>>
        ELSE SubSeq(u, CHOOSE i \in inner : \A j \in inner : i <= j,
                       CHOOSE i \in inner : \A j \in inner : i >= j)

Name == {Trim(u) : u \in Uri}

Modes == {"idle", "waiting", "body", "chunks", "closing", "lost"}

TypeOK ==
    /\ DOMAIN routes \subseteq Name /\ DOMAIN whiteroutes \subseteq Name
    /\ \A n \in DOMAIN routes : routes[n] \in Handler
    /\ \A n \in DOMAIN whiteroutes : whiteroutes[n] \in Handler
    /\ prerouting \in BOOLEAN /\ allowed \in BOOLEAN
    /\ at \in {"loop", "prerouting", "handler"}
    /\ IF at = "loop" THEN req = NULL ELSE req \in Request
    /\ IF at = "handler"
       THEN call \in [handler : Handler, via : {"route", "white"}]
       ELSE call = NoCall
    /\ \A c \in Conn : kept[c] \in Answering \cup {NULL}
    /\ \A c \in Conn : client[c].mode \in Modes

Init ==
    /\ routes = <<>> /\ whiteroutes = <<>> /\ prerouting = FALSE
    /\ at = "loop" /\ req = NULL /\ call = NoCall /\ allowed = FALSE
    /\ kept = [c \in Conn |-> NULL]
    /\ client = [c \in Conn |-> Idle]

-----------------------------------------------------------------------------
(* What is written, and how a client reads it.  A status page says         *)
(* "Connection: close".                                                    *)

Header(n)  == [t |-> "head", n |-> n]
ChunkedHeader == [t |-> "chunked", n |-> 0]
Body(n)    == [t |-> "body", n |-> n]
Chunk(n)   == [t |-> "chunk", n |-> n]
StatusPage == [t |-> "status", n |-> 0]

ModeAfter(c, piece) ==
    CASE c.mode = "closing"                              -> "closing"
      [] c.mode = "waiting" /\ piece.t = "status"        -> "closing"
      [] c.mode = "waiting" /\ piece.t = "head"          ->
            IF c.method = "HEAD" \/ piece.n = 0 THEN "idle" ELSE "body"
      [] c.mode = "waiting" /\ piece.t = "chunked"       ->
            IF c.method = "HEAD" THEN "idle" ELSE "chunks"
      [] c.mode = "body" /\ piece.t = "body"             -> "idle"
      [] c.mode = "chunks" /\ piece.t = "chunk"          ->
            IF piece.n = 0 THEN "idle" ELSE "chunks"
      [] OTHER                                           -> "lost"

Reads(c, piece) ==
    LET mode == ModeAfter(c, piece)
    IN  IF mode \in {"idle", "closing"} THEN [Idle EXCEPT !.mode = mode]
        ELSE [c EXCEPT !.mode = mode]

\* An answer writes one piece, or a header and what follows it.
ReadsAll(c, pieces) ==
    LET first == Reads(c, pieces[1])
    IN  IF Len(pieces) = 1 THEN first ELSE Reads(first, pieces[2])

Write(c, pieces) ==
    client' = [client EXCEPT ![c] = ReadsAll(@, pieces)]

\* Variant: a HEAD is answered with the content.
ResponseToHead(r, n, chunked) ==
    IF ~chunked THEN <<Header(n)>> \o (IF n = 0 THEN <<>> ELSE <<Body(n)>>)
    ELSE IF r.chunked THEN <<Chunk(n)>> ELSE <<ChunkedHeader, Chunk(n)>>

\* response: the pieces it writes on a request r.
Response(r, len, chunked) ==
    LET n == IF r.method = "HEAD" THEN 0 ELSE len
    IN  IF ~chunked THEN <<Header(n)>> \o (IF n = 0 THEN <<>> ELSE <<Body(n)>>)
        ELSE IF r.chunked THEN <<Chunk(n)>> ELSE <<ChunkedHeader, Chunk(n)>>

\* request_t.chunked after a chunk.
ChunkedAfter(r, len) == ~r.chunked \/ len # 0

-----------------------------------------------------------------------------
(* The application answers on r, the request of the callback or a clone.   *)

\* send_html, send_file, redirect...: one answer; or a status page.
WholeAnswers(r) ==
    {[to |-> [r EXCEPT !.said = "all"], pieces |-> p] :
        p \in {Response(r, n, FALSE) : n \in Length} \cup {<<StatusPage>>}}

ChunkAnswers(r) ==
    {[to     |-> [r EXCEPT !.said = IF n = 0 THEN "all" ELSE "part",
                           !.chunked = ChunkedAfter(r, n)],
      pieces |-> Response(r, n, TRUE)] : n \in Length}

Answers(r) ==
    CASE r.said = "nothing" /\ r.method = "HEAD" -> WholeAnswers(r)
      [] r.said = "nothing" /\ r.method # "HEAD" ->
            WholeAnswers(r) \cup {a \in ChunkAnswers(r) : a.to.said = "part"}
      [] r.said = "part"                         -> ChunkAnswers(r)
      [] OTHER                                   -> {}

\* By the request a callback was given.
CallbackAnswers ==
    /\ at # "loop"
    /\ \E a \in Answers(req.self) :
          req' = [req EXCEPT !.self = a.to] /\ Write(req.conn, a.pieces)
    /\ UNCHANGED <<tables, at, call, allowed, kept>>

\* clone_request; the callback sets incomplete.
Clone ==
    /\ at # "loop" /\ req.self.said \in {"nothing", "part"}
    /\ kept' = [kept EXCEPT ![req.conn] = req.self]
    /\ req' = [req EXCEPT !.self.said = "cloned"]
    /\ UNCHANGED <<tables, at, call, allowed, client>>

\* Later, or from another callback.
CloneAnswers(c) ==
    /\ kept[c] # NULL
    /\ \E a \in Answers(kept[c]) :
          kept' = [kept EXCEPT ![c] = a.to] /\ Write(c, a.pieces)
    /\ UNCHANGED <<tables, at, req, call, allowed>>

CloneFree(c) ==
    /\ kept[c] # NULL /\ kept[c].said = "all"
    /\ kept' = [kept EXCEPT ![c] = NULL]
    /\ UNCHANGED <<tables, at, req, call, allowed, client>>

-----------------------------------------------------------------------------
(* holyhttp_set_route, holyhttp_set_white_route, holyhttp_set_prerouting,  *)
(* before the loop, in a callback or in a timer.                           *)

\* Variant: the uri is not trimmed.
WithUntrimmed(table, u, h) ==
    [n \in DOMAIN table \cup {u} |-> IF n = u THEN h ELSE table[n]]

With(table, u, h) ==
    [n \in DOMAIN table \cup {Trim(u)} |-> IF n = Trim(u) THEN h ELSE table[n]]

SetRoute(u, h) ==
    /\ routes' = With(routes, u, h)
    /\ UNCHANGED <<whiteroutes, prerouting, at, req, call, allowed, kept, client>>

SetWhiteroute(u, h) ==
    /\ whiteroutes' = With(whiteroutes, u, h)
    /\ UNCHANGED <<routes, prerouting, at, req, call, allowed, kept, client>>

SetPrerouting(b) ==
    /\ prerouting' = b
    /\ UNCHANGED <<routes, whiteroutes, at, req, call, allowed, kept, client>>

-----------------------------------------------------------------------------
(* handle_data *)

NewRequest(c, m, u) ==
    [conn |-> c, uri |-> u,
     self |-> [method |-> m, chunked |-> FALSE, said |-> "nothing"]]

\* The client of c sends a request, and handle_data takes it.
Comes(c) == at = "loop" /\ client[c] = Idle
Asking(m) == [mode |-> "waiting", method |-> m]
Leaving == [Idle EXCEPT !.mode = "closing"]

Loop == at' = "loop" /\ req' = NULL /\ call' = NoCall

Calls(r, h, via) ==
    /\ at' = "handler" /\ req' = r
    /\ call' = [handler |-> h, via |-> via]

\* Not a request, or no memory for one: a status page.
Malformed(c) ==
    /\ Comes(c)
    /\ client' = [client EXCEPT ![c] = Leaving]
    /\ UNCHANGED <<tables, at, req, call, allowed, kept>>

IsStatic(u) == IsPrefix(Prefix, u)

\* handle_static: send_file answers with the file or a status page.
HandleStatic(c, m, u) ==
    /\ Comes(c) /\ IsStatic(u)
    /\ \E a \in WholeAnswers(NewRequest(c, m, u).self) :
          client' = [client EXCEPT ![c] = ReadsAll(Asking(m), a.pieces)]
    /\ UNCHANGED <<tables, at, req, call, allowed, kept>>

\* The icon is redirected before anything is asked.
HandleFavicon(c, m, u) ==
    /\ Comes(c) /\ ~IsStatic(u) /\ u = Favicon
    /\ client' = [client EXCEPT ![c] =
           ReadsAll(Asking(m), Response(NewRequest(c, m, u).self, 0, FALSE))]
    /\ UNCHANGED <<tables, at, req, call, allowed, kept>>

\* handle_dynamic looks for the handler of r in routes.
Route(r) ==
    IF Trim(r.uri) \in DOMAIN routes
    THEN Calls(r, routes[Trim(r.uri)], "route")
    ELSE Loop

\* handle_dynamic: white routes, the prerouting, routes; nothing: 404.
HandleDynamic(c, m, u) ==
    /\ Comes(c) /\ ~IsStatic(u) /\ u # Favicon
    /\ LET r == NewRequest(c, m, u)
       IN  /\ CASE Trim(u) \in DOMAIN whiteroutes ->
                     Calls(r, whiteroutes[Trim(u)], "white") /\ allowed' = FALSE
                [] Trim(u) \notin DOMAIN whiteroutes /\ prerouting ->
                     /\ at' = "prerouting" /\ req' = r /\ call' = NoCall
                     /\ allowed' = FALSE
                [] OTHER -> Route(r) /\ allowed' = TRUE
           /\ client' = [client EXCEPT ![c] =
                            IF at' = "loop" THEN Leaving ELSE Asking(m)]
    /\ UNCHANGED <<tables, kept>>

\* Variant: what the prerouting returns is not looked at.
PreroutingReturnsAnything(ok) ==
    /\ at = "prerouting" /\ req.self.said = "nothing"
    /\ Route(req)
    /\ allowed' = ok
    /\ IF at' = "loop" THEN Write(req.conn, <<StatusPage>>) ELSE UNCHANGED client
    /\ UNCHANGED <<tables, kept>>

\* The prerouting returns 1 and routes are looked up, or 0 and the request is
\* ignored: then it has answered, or keeps the request, or the client will give
\* up.
PreroutingReturns(ok) ==
    /\ at = "prerouting"
    /\ IF ok
       THEN /\ req.self.said = "nothing"
            /\ Route(req)
            /\ allowed' = TRUE
            /\ IF at' = "loop" THEN Write(req.conn, <<StatusPage>>)
                               ELSE UNCHANGED client
       ELSE /\ req.self.said # "part"
            /\ Loop
            /\ UNCHANGED allowed
            /\ client' = [client EXCEPT ![req.conn] =
                             IF req.self.said = "nothing" THEN Leaving ELSE @]
    /\ UNCHANGED <<tables, kept>>

HandlerReturns ==
    /\ at = "handler" /\ req.self.said \in {"all", "cloned"}
    /\ Loop
    /\ UNCHANGED <<tables, allowed, kept, client>>

\* A client that was told to close connects again.
Reconnects(c) ==
    /\ client[c] = Leaving /\ kept[c] = NULL
    /\ req # NULL => req.conn # c
    /\ client' = [client EXCEPT ![c] = Idle]
    /\ UNCHANGED <<tables, at, req, call, allowed, kept>>

Next ==
    \/ \E u \in Uri, h \in Handler : SetRoute(u, h) \/ SetWhiteroute(u, h)
    \/ \E b \in BOOLEAN : SetPrerouting(b) \/ PreroutingReturns(b)
    \/ \E c \in Conn, m \in Method :
          \E u \in Uri : \/ HandleStatic(c, m, u)
                         \/ HandleFavicon(c, m, u)
                         \/ HandleDynamic(c, m, u)
    \/ CallbackAnswers \/ Clone \/ HandlerReturns
    \/ \E c \in Conn :
          CloneAnswers(c) \/ CloneFree(c) \/ Malformed(c) \/ Reconnects(c)

Spec == Init /\ [][Next]_vars

-----------------------------------------------------------------------------
(* Properties. *)

\* holyhttp.h:208-211: a handler that is not a white route's runs only if no
\* prerouting is set or the prerouting of this request returned 1, whatever
\* the callbacks register meanwhile (server.c:173-186).
PreroutingDecides == at = "handler" /\ call.via = "route" => allowed

\* A client that keeps its connection reads one whole answer for each of its
\* requests and nothing else: HEAD or GET, at once, in chunks or by a clone
\* (request.c:189-280, 443-452).
InSync ==
    \A c \in Conn :
        /\ client[c].mode # "lost"
        /\ (req = NULL \/ req.conn # c) /\ kept[c] = NULL =>
               client[c].mode \in {"idle", "closing"}

=============================================================================
