# HolyHttp in TLA+

HolyHttp is an HTTP server library in C: one thread, an epoll loop, timers,
connections, requests with sessions, routes, static files and templates. This
directory holds TLA+ modules that model it, TLC configurations that check them on
small instances, and proofs, checked by TLAPS, for all instances.

Run a model with `tlc -workers 2 -config MCServerSafety.cfg MCServer`, a proof with
`tlapm ServerProofs.tla`. `PROJECT.json` lists components, runs, mutants (a
plausible bug for every property, which TLC must find), the source lines each
definition models, findings, hazards and theorems.

## The system

| Component | State | Operations | Talks to |
|---|---|---|---|
| Event loop, `server/server.c` | `server_t`: listening fd, epoll fd, `conns`, `routes`, `whiteroutes`, `sessions`, `prerouting`, start time | `run_server` (wait, events, timers), `accept_connection`, `read_data`, `write_data`, `close_conn_by_fd`, `handle_data`, `set_route` | connections by fd, timers, handlers |
| Connections, `server/connection.c` | `connection_t`: fd, `refer`, `timer`, `last_active`, `recv_buf`, `send_buf`, `send_buf_len` | `recv_from_peer`, `send_to_peer`, `write_to_buf`, `send_status`, `close_conn`, `check_timeout` | epoll, timers, `handle_data` as callback |
| Requests, sessions, `server/request.c`, `session.h` | `request_t` (on the loop's stack, or a clone on the heap): connection, session, packet, cookies, `chunked`; `session_t`: `refer`, `last_req`, `dict` | `holy_request_init`, `get_or_new_session`, `check_session_timeout`, `response`, `send_file`, `redirect`, `clone`, `free_request` | connection (`write`), sessions table, timers, files, templates |
| Timers, `server/timer.c` | a red-black tree by expiry | `holy_set_timeout`, `holy_set_interval`, `holy_kill_timer`, `holy_explode_timers`, `holy_get_min_timeout` | everything that waits |
| Dictionary, `utils/dict.c`, `tlv.c` | 2^8 chains of pairs, `count` | set, get, del, clear, foreach | every table above |
| Files and dates, `utils/file.c`, `time.c` | `cache`; the last date printed and the last date parsed (statics) | `holy_get_file`, `holy_gmtimestr`, `holy_gmtimeint`, `holy_get_sys_uptime` | `send_file`, `response` |
| Templates, data sets, `server/template.c`, `utils/dataset.c` | parsed templates, a tree of subsets | `holy_srender_by`, `parse_*`, `render_*`; `set`, `get`, `foreach_by`, `clear` | `send_srender`, dictionary |
| Request parser, `server/packet.c` | none | request line, headers, query, multipart, cookies | `handle_data` |
| Strings, `utils/string.c` | none | trim, join, real path, search, hash | all |
| API, `holyhttp.c` | `holyserver` | init, run, routes, timers | the application |
| `utils/rbtree.c`, `list.h` (from Linux), `print.c`, make files | | | |

The application's code runs inside callbacks: handlers, the prerouting, timers. It may
answer at once, or set `incomplete`, keep a clone of the request and answer later from
a timer or from another request's handler.

What is hard here is not parallelism (there is one thread) but order: epoll events,
timers, peers that leave, kept requests and two clocks (timers run on
`gettimeofday`, idle times on the uptime) meet in any order, and objects with
pointers to each other (connection and timer, request and connection, request and
session) are freed on many paths. Second come bytes cut anywhere by TCP on both
sides; third, results that are kept (dates, files, item aliases of loops). The list
is under "hazards" in `PROJECT.json`, each with its line and the properties that
would catch it.

What makes each component correct:

* **Loop and objects**: no use after free; tables, counters and timers agree with
  the objects that exist; no event reaches another connection than its own; a
  session in use keeps its values; what is dead is released.
* **Connection**: each request reaches its handler once and whole, its answer
  reaches the peer once, whole and in order.
* **Timers**: in order, never early, none forgotten, no oversleeping.
* **Dictionary**: a finite map, also when memory runs out, with nothing leaked.
* **Files**: never a stale file, never back in time, true dates.
* **Dispatch**: no routed handler runs past the prerouting but those of white routes (static
  files and the favicon have no handler, and are served before it); a client that keeps its
  connection never gets out of step.
* **Request parser**: a handler reads what the client meant, or less of it when memory was
  short; a refusal names a fault the request has or the lack of memory; nothing stays allocated. A
  static file is the one its path leads to, below its directory unless the rest of the path begins with `//`.
* **Templates**: the parser inverts what was written; rendering means what the data
  says, and leaves the data alone.

## The modules

### Server (`Server.tla`, `MCServer.tla`, `ServerProofs.tla`)

The loop and the life of objects. A heap (`conn`, `sess`, `req`, `timer`) is a function
whose domain is the allocated objects, so a dangling pointer is a value outside the
domain; using one sets `fault`. `phase` is where the thread is: `wait` (`EpollWait`
fixes the set of events), `events` (`Accept`, `ReadData`, `WriteData`, `CloseByFd`, one
per event in any order), `handler` (the application inside `handle_data`, and the ways back)
and `timers` (`Explode` one due timer, `EndTimers`). `AppWrites`, `AppSetsSession` and `AppFrees` of a clone
happen in a handler and among the timers, where a callback of the application may serve the requests it
has kept; its own timers are not counted, but wake the loop. `CloseConn`, `CheckTimeout`, `CheckSessionTimeout`,
`WriteToBuf`, `AcquireSession`, `FreeRequest` are the functions of those names with every
branch. Around it are the peers (`Connect`, `PeerSends`, `PeerCloses`), time (`Tick`)
and steps of the wall clock (`WallClockStep`), which move timers and not idle times.
Answers are counted in units of data; contents are in Connection. Every allocation
succeeds in Server.

### Scarce (`Scarce.tla`, `MCScarce.tla`, `ServerProofs.tla`)

Server when memory is short: beside every step of Server, an allocation may fail
(`AcceptWithoutConn`, `AcceptWithoutTimer`, `LookupFails`, `CloseWithoutTimer`,
`CloseWithoutKey`, `RearmFails`), up to `MaxFailures` times. What is left is a connection without a
timer, an event that finds no connection, an entry of `conns` that dangles; the
properties are those of Server. The invariants that say "exactly" (`ConnsExact`, `TimersExact`) do not hold
here, and need not; `RefersExact`, `EventsCurrent` and `InterestMatchesUnsent` do, and are proved.

### Timers (`Timers.tla`, `MCTimers.tla`, `TimersProofs.tla`)

The tree is the sequence of its in-order traversal; insertion after equal keys, a
pass with the clock read once, re-arming of intervals, the sleep with its minimum and
the division by 1000, and the 32-bit product of `holy_set_timeout`. Times are relative
to now (`left` is `expiry - now`), so no clock is bounded. `due` is when the caller
wanted the timer, without the wrap.

### Connection and Exchange (`Connection.tla`, `Exchange.tla`, `MCConnection.tla`, `ConnectionProofs.tla`)

The byte stream of one connection. A request is a sequence of tokens: header, the
empty line, body. `RecvFirst`, `RecvRefused`, `RecvRest`, `RecvClosed` are the paths
of `recv_from_peer`, `SendToPeer` cuts the buffers where the kernel stops, `Arrive`
cuts the stream of the peer anywhere, also in a header. A request may be malformed,
which `handle_data` answers with a status page. `Exchange` is the promise to a peer, without buffers or
segments: ask, handle, write, deliver, leave, close; `ImplementsExchange` is the refinement.

Two things make the code refuse a request that was whole when it was sent: TCP cut its header
(`connection.c:151`), or a kept request was freed while its body came
(`request.c:433`). The history variable `spoiled` holds them, and Exchange lets what is
`spoiled`, too large or malformed be refused, and nothing else; what is refused is still answered, and its rest is
never taken for a request that was sent.

### Dict and Map (`Dict.tla`, `Map.tla`, `MCDict.tla`, `DictProofs.tla`)

Chains, hash, counter and the number of blocks allocated; every allocation of `set`
may fail. `Map` is a finite map whose calls take effect as a whole or not at all;
`ImplementsMap` is the refinement. Keys are integers or strings, and an integer and a string never match.

### Static (`Static.tla`, `MCStatic.tla`, `StaticProofs.tla`)

`send_file`: If-Modified-Since against the server's start, the file cache, the disk;
`Gmtimestr` and `Gmtimeint` with their static results; `Restart` forgets both and the
cache. Clients keep the last copy and its Last-Modified and ask with it. A file's
content is its version number.

### Dispatch (`Dispatch.tla`, `MCDispatch.tla`, `DispatchProofs.tla`)

The path of a request through `handle_data`: malformed, static prefix, favicon, white
route, prerouting, route; and `response`, whole or in chunks, on the request or on a
clone, read by a client that keeps its place in the stream (`client`): it is "lost"
when it gets a piece it did not expect. Callbacks are phases (`at`), in which the API
can be called.

### Packet and Strings (`Packet.tla`, `Strings.tla`, `MCPacket.tla`, `PacketProofs.tla`, `StringProofs.tla`)

`Strings` holds functions of `string.c` (search, trim, join, real path, cutting into
items, ends_with) and the guess of a mime type as operators on sequences of characters. `Packet` is
`holy_new_req_pkt` as one action for each of its parts, and
`HandleStatic` after it. Any allocation may fail. Where the code tests for it, the request is given up; the
results of `set_ss` and `set_sb` it ignores (`packet.c:241`, `288`, `412`, `441`), so any set of pairs and fields may be
missing afterwards (`SetThese`, `ReadFields`), and the history variable `short` says of what kind they were. `asked` is what a client means: path, arguments,
cookies, kind of body, and how it writes them (`Escaped`, `Multipart`, `Lines`); the properties compare what the
parser found with it. `Writable` says what a client can mean. A word that no search of the code can cut (`\r\n`, a
boundary) is one character.

### Template (`Template.tla`, `MCTemplate.tla`)

Templates are lines; `Lines` writes a tree of elements as lines with indentation,
`Parse` is `parse_normal_elem`, `parse_if_elem`, `parse_for_elem` on them. A data set
is a heap of subsets; `RenderFor` hangs the item into it under its alias as
`_render_each_item` does. `IfTrue` compares as numbers when both sides are numbers
(`Number`) and as text otherwise (`TextOrder`, the order of `strcmp`). `Means` is the reference: the text by substitution in an
environment that maps loop variables to paths, with no alias and no heap. This module
uses RECURSIVE operators (elements nest), so it is checked by TLC only.

## The runs

| Run | Question | Instance |
|---|---|---|
| `server_memory` | Is every object used, counted and freed rightly in every order? | 2 fds, 2 connections, 1 session, 2 requests, 4 timers |
| `server_sessions` | With memory short: are sessions kept while in use, is what is dead released, is a waiting peer accepted? | 1 fd, 1 connection, 1 session, 2 requests, clock steps, 2 failing allocations, fairness |
| `server_idle_conn` | Is an idle connection closed? **No** | 1 of each, fairness |
| `timers_order` | Order, nothing left due, no oversleeping, no catch-up, all fire | several timers of two delays, slow handlers, fairness |
| `timers_wrap` | Does a timer ever fire early? **Yes** | a delay beyond the 32-bit product |
| `connection_exchange` | Does a connection keep its promise, and answer everything? | 3 requests of four sizes, any segments, late frees, fairness |
| `dict_map` | Is the table a map, wherever memory fails? | 5 keys, 2 values, 2 buckets |
| `static_files` | Are files current and dates right? | 2 clients, restarts, 3 versions (one uncached) |
| `static_dates` | Is a 304 true? **No** | the same, addresses reused |
| `dispatch` | Is prerouting respected, are clients in step? | 2 clients, 1 handler, 4 uris |
| `packet` | Does a handler read what the client meant? Does a refusal fit? Is a static file the one its path leads to? | twenty thousand requests, any failing allocations (940,000 states) |
| `template` | Parse, render, data kept | blocks in blocks, lists of values and of records |

### Bounds, and why they are enough

*Server.* Two descriptors and two connections are what it takes to mix up two
connections or to reuse a descriptor; two requests what it takes for one to be freed while
another holds the object; two requests of one session with `ReferMod = 3` let counters
reach their last value. Four timers let each of the three objects have one and leave
one more, so that a forgotten timer does not end the exploration. Time-outs of one or two
seconds let other events fall before, at and after them. `MaxIdle`, `MaxLeft`,
`MaxUnsent`, `MaxBacklog` cap counters: beyond `MaxIdle` >= the time-out, idle times are not distinguished by
the code. The proofs remove all these bounds but the constants' assumptions.
*Timers.* `U32` and the microsecond are scaled so that one delay wraps. `MaxLate` lets
a pass come as late as the shortest delay.
*Connection.* Bodies below, at and above the first recv and above `max_content_len`;
answers of one and two buffers; two to three requests, so that state left by one
request meets the next.
*Scarce.* One descriptor, so that its limit is reached; one connection and session that are made again
and again; two failures, so that the second meets what the first left. With two of each,
`NoUseOfFreedMemory` and `RefersExact` were checked as well (937,000 states), too many for the liveness properties.
*Packet.* Every character with a meaning (`& = % + ? ; / .`, blank, CRLF, the boundary) in names and
values of up to two characters; one to three fields, so that names repeat and a part is first, in the
middle and last; data of a form of up to four words; paths of up to four names, dots and double dots; urls just below and above `MaxUrl`.
*Dict.* Two buckets with three and two keys: removal at the head, in the middle and at the
end of a chain.
*Static.* Three versions: before a restart, after, and after the next; four seconds.
*Dispatch.* Two spellings of one route, one static, one favicon; contents of 0 and 1 byte (a
chunk of 0 ends an answer).
*Template.* All shapes of two nested blocks of the kinds there are, and pairs of
elements of which one is a block: a block's end can only be mistaken for an inner, an outer
or the following block's. Values `9`, `09` and `10`: numbers whose order as text is another, and two that are
equal as numbers only.

### Fairness

`Server`: `WF(ServerStep)`: the loop runs, and a handler returns (an application that
loops for ever in a handler stops this server, so nothing could be promised);
`SF(Tick)`: time passes again and again although the loop is busy. Peers are not fair:
none must send or leave. `Scarce` has the same, and its failures
are few (`MaxFailures`): memory is not short for ever. `Timers`: `WF(Loop)` and `SF(Tick)` for the same reasons; the
application may set timers for ever. `Connection`: weak fairness of arrival of what was
sent, of the reading and writing loop, and of an application that finishes its kept requests.
It is not assumed that the peer asks.

### Assumptions of single runs

* Four allocations succeed (Scarce): the entry of a new connection in `conns`
  (`server.c:135`), a session's timer (`request.c:116`, `122`, `176`), its cookie (`171`) and the key to
  delete it by (`125`). The code does not check them, and what they leave is a descriptor that is never
  read, a session that is never destroyed or has a freed dict. Buffers of answers are allocated too:
  when `write_to_buf` fails it calls `send_status`, which calls it again until there is memory.
* The peer of Connection waits for its whole answer before it asks again; what comes early
  is thrown away (`connection.c:201`).
* Clients of Packet write `name="..."` before other parameters of a form's part
  (`packet.c:389`: after `filename="` the search does not advance), and names
  and values shorter than the buffers of the parser; `content-length` is the length of the content.
* Where two slashes end the static prefix, what is left of the path is absolute, and `holy_join_path` takes it
  alone (`string.c:275`): `StaticResolves` says of these paths that they lead to a file from the root, and
  of the others that they lead to one from `static_path` and not above it. It says nothing where `holy_get_real_path`
  fails for want of memory: its result is not tested, and what the array held before is joined (`server.c:149`).
* A restart of the server takes place in a later second than its last start, and the clock of Static is not set back.
* `FreshAddresses` (Static): a header's value is not at the address of the last one
  parsed; `static_dates` drops it and is violated.
* The application answers a request once, sends no chunk to a HEAD, no empty chunk but
  the last, and nothing through the original of a clone (Dispatch); it frees a clone once (Server).
* Nested loops have different variables, and a list's items are of one kind (Template).

## What the runs found

* `check_timeout` never closes an idle connection (`connection.c:82`): the sign of the
  difference is wrong. `holyhttp.h:39` promises a maximum idle time.
* A delay of 4295 s or more wraps (`timer.c:67`); `session_timeout` has no such bound.
* `holy_gmtimeint` (`time.c:36`) keeps the date of a pointer, not of a text: a client
  may be told 304 because of another's date.

## The proofs

`ServerProofs` proves, for any sets of descriptors, connections, sessions, requests and
timers and any time-outs, `Spec => []IInv` and from it `TypeOK`, `NoUseOfFreedMemory`,
`ConnsExact`, `TimersExact` and `RefersExact`, the action properties `SessionKept` and
`EventsCurrent`, and `InterestMatchesUnsent`. The second part of it proves `NoUseOfFreedMemory`, `RefersExact`,
`SessionKept`, `EventsCurrent` and `InterestMatchesUnsent` of `ScarceSpec` too, for any number of failing
allocations; `TypeOK`, `ConnsExact` and `TimersExact` are false there. The assumption is `ServerAssumption`: connections and sessions are different objects, the
time-outs are positive, and fewer requests are in flight than `refer` counts.

`NoUseOfFreedMemory` is not inductive: that `close_conn` finds its timer armed needs "a timer
a connection points to is armed, and is its own", which needs, when a timer fires, "the object of a timer is
allocated, and points to it"; that a request's connection is still there needs "the counters
count the requests", which when a connection is freed at 0 says that no request refers to it; that an event
finds an allocated connection needs "an event is of an open descriptor, and an open descriptor leads to its
connection and back". These are `BaseInv` (types, `ConnsReached`, `TimersReached`, `RequestsCounted`, `LoopInv`).
Every step of Server keeps it, and so does every failing allocation of Scarce: a connection may lose its
timer, and `close_conn` may leave an entry of `conns` behind, but then the descriptor is closed, no event
is of it, and `accept_connection` overwrites the entry when the kernel gives the number out again. `Whole` is
what failing allocations break: no entry of `conns` dangles, every connection has a timer. `IInv` is `BaseInv` with
`Whole`; TLC checked `BaseInv` under `Scarce` before it was proved (one descriptor and two failures, and two descriptors
with three: 6 million states). There is one lemma per kind of step, and each shows both layers at once (`KeepsHeap`);
closing a connection, a session's time-out and the acquisition of a session are lemmas of their own because several
actions use them. Counting (`RefersExact`) rests on the facts about cardinality of the library.

`DictProofs` proves `DInv` (types, pairs in their buckets, unique keys, exact count and
blocks) for any keys, values, size and hash, and that every step of `Dict` is a
step of `Map` or a stutter. Chains are sequences; a lemma says what `Removed` leaves. The
assumption is `DictAssumption` (`Size` positive, a hash for every string).

`StaticProofs` proves `TypeOK`, `DatesRight`, `NeverBackwards` and, under `FreshAddresses`,
`NotStale`, for any clients, files, ages and bounds. None of the last three is inductive: a
304 is right only because no copy carries a later start than the server's, a copy with this
start was on the disk after it, and what the cache holds is neither older than the start
nor older than any copy (`SInv`). `FreshAddresses` is used in one place, where the date
parsed becomes the date the client sent. The assumption is `StaticAssumption`:
files are not `NULL`, ages are positive (the configuration replaces 0 by its default).

`PacketProofs` proves `AllOrNothing`, `StatusFits`, `ParsesBack` and `StaticResolves` for any requests that a client can write
(`ClientAssumption`), texts of any length, any table of escapes (`PacketAssumption`: two digits for each
character, no two characters with the same) and any static path and prefix. `AllOrNothing` rests on `PInv`, which says
between which steps the dictionaries are allocated and that no exit at `fail` comes after the
packet. `StatusFits` rests on `FitInv`: a part of `holy_new_req_pkt` is reached only by requests without the
faults that the parts before it find; whether the content is a form that ends is decided by fields that were parsed
from lines, and `LinesTell` says which fields come out of which lines. `StatusFits` and `ParsesBack` do not say that a
failing allocation is always told, because it is not: they say which pairs may be missing and which requests are then read as
others. `ParsesBack` rests on `HeardInv`: what is in
the packet before each part is what is meant so far, where `short` names no pair that was lost, and in any case a value that
the client gave to that name (`Gave`). Its steps are round trips, each an induction over a text or a
list from its end to its start: `DecodesBack` (`url_decode` after the client's escapes), `QueryBack` (`parse_query`
after the pairs of a query), `CookiesRead` (`parse_cookies`) and `FormRead` (the loop over the parts of a form: from the place of
a part, the next boundary that is found is the one that ends it, because no boundary begins in its data nor where data and boundary
meet). `SetKept` says that leaving out empty fields is what `MeantArgs` says. The loops of the code are `Collect`, a
recursive function; `CollectStep` unfolds it.

`StaticResolves` rests on `FileInv` (no file before `handle_static`) and on `HeardInv`, by which the path is the one that
was asked. `Followed` says in one formula which names of a path count: those that no later `..` leads back over, by
counting names and dots between two places. `holy_get_real_path` keeps a stack (`Resolve`). `PlacedAt` relates the two after
each item: the stack holds the names that count so far, in order, and the l-th from its top is l names above the
dots since (`AllPlaced`, by `DotPlaced`, `UpPlaced`, `NamePlaced`; `CountPlaces` counts them). The rest is what trimming, joining and cutting do to the text
(`JoinedPathIs`, `FileBelow`), and that the last characters of a name allow one type only (`TypesAgree`), although
`holy_str_ends_with` does not compare the first character of an end.

`StringProofs` holds what `ConnectionProofs` and `PacketProofs` share: concatenations (`FlattenSeq`), slices, the first
place of a character or a text (`Until`, `Find`), trimming, `Collect` and `Items`, the fold of `RealPath`, the types by ends,
and inductions on numbers and sequences.

`TimersProofs` proves, for any timers, delays and clock widths, that the tree is sorted (`IInv`: sorted by
`left`, equal keys by the time they have been armed, no timer twice, only allocated ones) and from it
`FiresInOrder`, `NothingDueLeft` and `NeverOversleeps`. Sortedness is needed for each of them: a pass looks
at the first timer only. The lemmas say where `Inserted` puts a timer (behind those that are not later) and
what removal leaves. Two theorems carry a hypothesis, because without it they are false. `OncePerPass` wants no
interval to be 0; the 32-bit product makes it 0 for a delay of 2^26 s = 67108864 s and its multiples, and
such an interval would be fired again and again by one pass. `EarlyOnlyByWrap` is the other side of
the run `timers_wrap`: delays that fit in 32 bits of microseconds never fire early, so the wrap is the only cause.

`DispatchProofs` proves `PreroutingDecides` and `InSync` for any clients, handlers and uris. `InSync` alone is not
inductive: the invariant says of each connection who has the right to answer it (the request of the callback that
runs, or else a clone) and that what it has said (nothing, a part, all) is what the client has read. `DispatchAssumption`
only keeps `NULL` apart from requests.

`ConnectionProofs` proves `TypeOK`, `SendLenExact` and `ImplementsExchange`, step by step, for any bodies, limit of
content, size of the first recv, shapes of answers and number of requests. The invariant has two halves. The reader's:
while a request is not handled, there are points a <= m <= b of it such that a tokens are read, what is between a and m
is in the socket and between m and b on the wire; `recv_buf` is empty, or holds the request up to a with the right number
left, or starts with something that is no header, and in that case the request is spoiled, too large, or refused before; the peer
has asked nothing further. The writer's: there are points d <= w <= n of the current answer such that the peer has d units,
`send_buf` holds those up to w and the application keeps the rest; kept requests before the last one owe nothing;
a connection is freed with nothing kept and the peer gone. Each action of Connection moves one of the points, which is the step of
Exchange. The number of units in the buffers is a `FlattenSeq`, a recursive function: it is unfolded by an induction on
sets of numbers, which the library's well-foundedness of `<` on `Nat` gives. `ConnectionAssumption` says that the first recv
takes at least two tokens (a header that has arrived whole fits the buffer of 4 KB or more) and that the buffers
of an answer are not empty.

Only model-checked: liveness (beyond the prover's reach) and `Template`, whose recursive operators the prover
does not take.

Proving changed the model in one place: three choices of `Packet` (`Escaped`, `LineFault` and its variant) were CASEs whose arms overlap. The
code tests one after the other, and so they are IFs now; TLC takes the first arm that holds and had not told the difference.

## What is not modelled

* Failing `epoll_ctl`, `sysinfo`, `setsockopt`; the allocations named above, and those of answers, files
  and templates; in `holy_guess_mime_type` the copy of the name.
* What `content-length` says when it is not the length of the content: `atoi` of a text that is no number or too large for 32
  bits, and the copy of the content by that length (`packet.c:294`, `512`).
* The application's own timers as objects: Server lets their callbacks run in any pass over the timers.
* Start-up: `server_listen`, the defaults of the configuration, `set_fd_limit`.
* Text: `Set-Cookie`, session ids, the wording of headers and status pages; the
  lengths at which the parser cuts long names and values.
* Descriptor 0 (`dict` ignores the integer key 0) and 32-bit builds (`long` is 64 bits wide).
* Memory that is lost without harm (`recv_buf` of a closed connection, nodes of a cleared data set).
* Templates: the cache of parsed templates, which changes no result, files, comma-separated arguments;
  nested loops with one variable and lists of mixed items, whose aliases meet.
* A file that changes while it is read.
* `rbtree.c` and `list.h`, which come from Linux; logging; make files.

## Plan

Done, in this order: Server and its invariant and proofs; Timers; Connection against Exchange; Dict
against Map with proofs; Static with proofs; Dispatch; Template; Packet and Strings; Scarce; malformed
and spoiled requests in Connection; the operators of `#if`; the proofs about Packet, Timers, Dispatch, Connection and Scarce;
the round trips of Packet and its static files.

Next:

1. Start-up (`holy_server_init`, `set_fd_limit`) and reads that race with writers
   (`holy_fetch_file`).
