------------------------------- MODULE Static -------------------------------
(***************************************************************************)
(* Static files and their dates: send_file and response of                 *)
(* src/server/request.c, the file cache of src/utils/file.c, the two       *)
(* date functions of src/utils/time.c with the results they keep, and the  *)
(* start time of run_server.                                               *)
(*                                                                         *)
(* The server says that every file was last modified when the server       *)
(* started, and answers 304 to a date that is not before its start.  A     *)
(* file is a version, 0 when it does not exist; a date is a second.        *)
(***************************************************************************)
EXTENDS Integers

CONSTANTS
    Client, File,
    Address,         \* where malloc puts the value of an If-Modified-Since
    NULL,
    Large,           \* versions of more than MAX_CACHED_FILE_SIZE bytes
    FileAge,         \* cfg.static_file_age
    YearAge,         \* SECPERYEAR
    FreshAddresses,  \* assumption: a value is never where the one parsed
                     \* before it was, unless it is the same date
    MaxNow,          \* bound: seconds
    MaxVersion       \* bound: versions of a file

ASSUME StaticAssumption ==
    /\ NULL \notin File \cup Address
    /\ Large \subseteq Nat
    /\ FileAge \in Nat \ {0} /\ YearAge \in Nat \ {0}
    /\ MaxNow \in Nat \ {0} /\ MaxVersion \in Nat \ {0}

VARIABLES
    now,         \* time(NULL)
    disk,        \* the version of each file
    written,     \* the last version of it that was written
    start,       \* server_t.start
    startTime,   \* server_t.start_time
    cache,       \* file.c: cache
    gmtStr,      \* time.c: t0 and what the buffer ts shows
    gmtInt,      \* time.c: s0 and t
    copy,        \* what each client holds: the version and its Last-Modified
    diskAtStart, \* history: the files when the server started
    answer       \* the last answer, until the clock ticks

fileVars == <<disk, written, cache>>
serverVars == <<start, startTime, diskAtStart>>
vars == <<now, fileVars, serverVars, gmtStr, gmtInt, copy, answer>>

Second  == 1 .. MaxNow
Version == 1 .. MaxVersion
NoCopy  == [lm |-> 0, ver |-> 0]
NoAnswer == [code |-> 0]

OK == 200
MOVED_PERMANENTLY == 301
NOT_MODIFIED == 304
NOT_FOUND == 404

TypeOK ==
    /\ now \in Second
    /\ disk \in [File -> Version \cup {0}] /\ written \in [File -> Version]
    /\ diskAtStart \in [File -> Version \cup {0}]
    /\ start \in Second /\ startTime \in Second
    /\ DOMAIN cache \subseteq File /\ \A f \in DOMAIN cache : cache[f] \in Version \ Large
    /\ gmtStr \in [t0 : Nat, ts : Nat]
    /\ gmtInt \in [s0 : Address \cup {NULL}, t : Nat]
    /\ \A c \in Client, f \in File :
          copy[c][f] \in [lm : Second, ver : Version] \cup {NoCopy}
    /\ answer.code \in {0, OK, MOVED_PERMANENTLY, NOT_MODIFIED, NOT_FOUND}

-----------------------------------------------------------------------------
(* time.c: both functions keep their last result. *)

\* holy_gmtimestr: the buffer after a call for t.
Gmtimestr(buf, t) == [t0 |-> t, ts |-> IF t = buf.t0 THEN buf.ts ELSE t]

\* Variant: local time instead of GMT, one second east.
GmtimeintLocal(s, date) ==
    [s0 |-> s, t |-> IF s = gmtInt.s0 THEN gmtInt.t ELSE date + 1]

\* holy_gmtimeint of the date that is at s.
Gmtimeint(s, date) ==
    [s0 |-> s, t |-> IF s = gmtInt.s0 THEN gmtInt.t ELSE date]

-----------------------------------------------------------------------------
(* The answers.  A date is printed from the buffer at the time it is       *)
(* printed, whatever call filled the buffer last.                          *)

\* Variant: Expires is computed with Date, before the header is printed.
ResponseExpiresFirst(code, age) ==
    LET b1 == Gmtimestr(gmtStr, now)
        b2 == IF age = 0 THEN b1 ELSE Gmtimestr(b1, now + age)
    IN  [code    |-> code,
         date    |-> b2.ts,
         lm      |-> IF age = 0 THEN 0
                     ELSE IF code = MOVED_PERMANENTLY THEN b2.ts ELSE startTime,
         expires |-> IF age = 0 THEN 0 ELSE b2.ts,
         buf     |-> b2]

\* response: Date, then Last-Modified and Expires if the answer has an age.
Response(code, age) ==
    LET b1 == Gmtimestr(gmtStr, now)
        b2 == IF age = 0 THEN b1 ELSE Gmtimestr(b1, now + age)
    IN  [code    |-> code,
         date    |-> b1.ts,
         lm      |-> IF age = 0 THEN 0
                     ELSE IF code = MOVED_PERMANENTLY THEN b1.ts ELSE startTime,
         expires |-> IF age = 0 THEN 0 ELSE b2.ts,
         buf     |-> b2]

\* The status page of connection.c: a Date only.
StatusPage(code) == Response(code, 0)

Answer(r, f, ver) ==
    /\ gmtStr' = r.buf
    /\ answer' = [code |-> r.code, date |-> r.date, lm |-> r.lm,
                  expires |-> r.expires, file |-> f, ver |-> ver]

-----------------------------------------------------------------------------
(* file.c *)

\* Variant: the disk first, and what is cached if the file is gone.
GetFileFromDisk(f) ==
    IF disk[f] # 0 THEN disk[f]
    ELSE IF f \in DOMAIN cache THEN cache[f] ELSE 0

\* holy_get_file: what is cached, whatever the disk has now; 0: it fails.
GetFile(f) == IF f \in DOMAIN cache THEN cache[f] ELSE disk[f]

\* Variant: a file that is not there is cached as an empty one.
CachedAfterMissing(f) ==
    IF f \in DOMAIN cache \/ disk[f] \in Large THEN cache
    ELSE [g \in DOMAIN cache \cup {f} |-> IF g = f THEN disk[f] ELSE cache[g]]

\* The cache after holy_get_file.
CachedAfter(f) ==
    IF f \in DOMAIN cache \/ disk[f] = 0 \/ disk[f] \in Large THEN cache
    ELSE [g \in DOMAIN cache \cup {f} |-> IF g = f THEN disk[f] ELSE cache[g]]

-----------------------------------------------------------------------------
Init ==
    /\ now = 1
    /\ disk = [f \in File |-> 1] /\ diskAtStart = disk
    /\ written = disk
    /\ start = 1 /\ startTime = 1
    /\ cache = <<>>
    /\ gmtStr = [t0 |-> 1, ts |-> 1]
    /\ gmtInt = [s0 |-> NULL, t |-> 0]
    /\ copy = [c \in Client |-> [f \in File |-> NoCopy]]
    /\ answer = NoAnswer

Tick ==
    /\ now < MaxNow
    /\ now' = now + 1
    /\ answer' = NoAnswer
    /\ UNCHANGED <<fileVars, serverVars, gmtStr, gmtInt, copy>>

\* A file is written, removed, written again.
FileChanges(f) ==
    /\ \/ /\ written[f] < MaxVersion
          /\ written' = [written EXCEPT ![f] = @ + 1]
          /\ disk' = [disk EXCEPT ![f] = written'[f]]
       \/ /\ disk[f] # 0
          /\ disk' = [disk EXCEPT ![f] = 0]
          /\ UNCHANGED written
    /\ UNCHANGED <<now, cache, serverVars, gmtStr, gmtInt, copy, answer>>

\* The process ends and starts again, in a later second.
Restart ==
    /\ now > start
    /\ start' = now
    /\ gmtStr' = [t0 |-> now, ts |-> now]
    /\ startTime' = now
    /\ cache' = <<>>
    /\ gmtInt' = [s0 |-> NULL, t |-> 0]
    /\ diskAtStart' = disk
    /\ answer' = NoAnswer
    /\ UNCHANGED <<now, disk, written, copy>>

\* The date a client sends with a request for f, parsed at s.
Parse(c, f, s) ==
    /\ copy[c][f] # NoCopy
    /\ FreshAddresses /\ s = gmtInt.s0 => copy[c][f].lm = gmtInt.t
    /\ gmtInt' = Gmtimeint(s, copy[c][f].lm)

NotModified(c, f, s) ==
    /\ Parse(c, f, s)
    /\ gmtInt'.t >= start
    /\ Answer(StatusPage(NOT_MODIFIED), f, copy[c][f].ver)
    /\ UNCHANGED <<now, fileVars, serverVars, copy>>

\* No date, or one before the start: the file, if there is one.
SendFile(c, f, s) ==
    /\ \/ UNCHANGED gmtInt
       \/ Parse(c, f, s) /\ gmtInt'.t < start
    /\ LET ver == GetFile(f)
           r   == IF ver = 0 THEN StatusPage(NOT_FOUND) ELSE Response(OK, FileAge)
       IN  /\ Answer(r, f, ver)
           /\ copy' = [copy EXCEPT ![c][f] =
                          IF ver = 0 THEN NoCopy ELSE [lm |-> r.lm, ver |-> ver]]
    /\ cache' = CachedAfter(f)
    /\ UNCHANGED <<now, disk, written, serverVars>>

\* Answers that are not files: a page, and redirect_forever.
Page ==
    /\ Answer(Response(OK, 0), NULL, 0)
    /\ UNCHANGED <<now, fileVars, serverVars, gmtInt, copy>>

RedirectForever ==
    /\ Answer(Response(MOVED_PERMANENTLY, YearAge), NULL, 0)
    /\ UNCHANGED <<now, fileVars, serverVars, gmtInt, copy>>

Next ==
    \/ Tick \/ Restart \/ Page \/ RedirectForever
    \/ \E f \in File : FileChanges(f)
    \/ \E c \in Client, f \in File, s \in Address :
          NotModified(c, f, s) \/ SendFile(c, f, s)

Spec == Init /\ [][Next]_vars

-----------------------------------------------------------------------------
(* Properties. *)

Answered == answer # NoAnswer

\* A client that is answered 200 or 304 has the file as it was when the server
\* started, or newer: restarting the server is enough to publish a change,
\* whatever is cached here or there (request.c:328-341, file.c:74-93).
NotStale ==
    Answered /\ answer.file # NULL /\ answer.code \in {OK, NOT_MODIFIED} =>
        answer.ver >= diskAtStart[answer.file]

\* No client is given an older version of a file after a newer one, across the
\* two caches, restarts and files that grow, shrink, go and come (file.c:74-93).
NeverBackwards ==
    [][\A c \in Client, f \in File :
          copy'[c][f] # NoCopy => copy'[c][f].ver >= copy[c][f].ver]_vars

\* The dates of an answer are those of the answer, although they come from one
\* buffer that every call overwrites (request.c:186, 207-216; time.c:12-28).
DatesRight ==
    Answered =>
        /\ answer.date = now
        /\ answer.lm \in {0, IF answer.code = MOVED_PERMANENTLY THEN now ELSE start}
        /\ answer.expires \in {0, now + FileAge, now + YearAge}

\* holyhttp.h:77 calls a 304 NOT_MODIFIED: the client's copy is not older than
\* the file was at the start.
NotModifiedIsTrue ==
    Answered /\ answer.code = NOT_MODIFIED =>
        answer.ver >= diskAtStart[answer.file]

=============================================================================
