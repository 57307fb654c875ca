---------------------------- MODULE StaticProofs ----------------------------
(***************************************************************************)
(* Proofs about Static, for any clients, files, sizes, ages and numbers of *)
(* restarts.                                                               *)
(*                                                                         *)
(* That no one is served a stale file rests on three facts that no single  *)
(* step shows: a copy carries the start of the server that sent it, never  *)
(* a later one; what the cache holds was on the disk after the start; and  *)
(* no copy is newer than the cache.                                        *)
(***************************************************************************)
EXTENDS Static, TLAPS

\* The clock, the start and the buffer that the dates are printed from.
ClockInv ==
    /\ now \in Second
    /\ start \in 1 .. now /\ startTime = start
    /\ gmtStr \in [t0 : Nat, ts : Nat] /\ gmtStr.ts = gmtStr.t0

\* The disk has the last version of a file or none.
DiskInv ==
    /\ written \in [File -> Version]
    /\ disk \in [File -> Version \cup {0}]
    /\ diskAtStart \in [File -> Version \cup {0}]
    /\ \A f \in File : disk[f] \in {0, written[f]} /\ diskAtStart[f] <= written[f]

CacheInv ==
    /\ DOMAIN cache \subseteq File
    /\ \A f \in DOMAIN cache :
          /\ cache[f] \in Version \ Large
          /\ diskAtStart[f] <= cache[f] /\ cache[f] <= written[f]

\* A copy k of the file f.
CopyOK(k, f) ==
    k # NoCopy =>
        /\ k \in [lm : Second, ver : Version]
        /\ k.lm <= start /\ k.ver <= written[f]
        /\ k.lm = start => k.ver >= diskAtStart[f]
        /\ f \in DOMAIN cache => k.ver <= cache[f]

CopyInv ==
    /\ copy \in [Client -> [File -> [lm : Second, ver : Version] \cup {NoCopy}]]
    /\ \A c \in Client, f \in File : CopyOK(copy[c][f], f)

SInv == ClockInv /\ DiskInv /\ CacheInv /\ CopyInv

-----------------------------------------------------------------------------
(* What an answer says. *)

\* Every date of an answer is its own: the buffer is filled between the
\* printing of one and the next (request.c:186, 207-216).
LEMMA ResponseDates ==
    ASSUME ClockInv, NEW code, NEW age \in Nat
    PROVE  LET r == Response(code, age)
           IN  /\ r.code = code
               /\ r.date = now
               /\ r.buf \in [t0 : Nat, ts : Nat] /\ r.buf.ts = r.buf.t0
               /\ age = 0 => r.lm = 0 /\ r.expires = 0
               /\ age # 0 => /\ r.lm = IF code = MOVED_PERMANENTLY THEN now ELSE start
                             /\ r.expires = now + age
<1>1. now \in Nat  BY StaticAssumption DEF ClockInv, Second
<1>2. LET b == Gmtimestr(gmtStr, now) IN b = [t0 |-> now, ts |-> now]
  BY <1>1 DEF ClockInv, Gmtimestr
<1>3. LET b == Gmtimestr([t0 |-> now, ts |-> now], now + age)
      IN  b = [t0 |-> now + age, ts |-> now + age]
  BY <1>1 DEF Gmtimestr
<1> QED  BY <1>1, <1>2, <1>3 DEF ClockInv, Response

\* What DatesRight says of an answer.
LEMMA AnswerDates ==
    ASSUME ClockInv, NEW code, NEW age \in {0, FileAge, YearAge}, NEW f, NEW ver,
           Answer(Response(code, age), f, ver), now' = now, start' = start,
           startTime' = startTime
    PROVE  /\ ClockInv' /\ DatesRight'
           /\ answer'.code = code /\ answer'.file = f /\ answer'.ver = ver
<1> DEFINE r == Response(code, age)
<1>1. age \in Nat /\ FileAge # 0 /\ YearAge # 0 /\ now \in Nat  BY StaticAssumption DEF ClockInv, Second
<1>2. /\ r.date = now /\ r.code = code
      /\ r.buf \in [t0 : Nat, ts : Nat] /\ r.buf.ts = r.buf.t0
      /\ r.lm \in {0, IF code = MOVED_PERMANENTLY THEN now ELSE start}
      /\ r.expires \in {0, now + FileAge, now + YearAge}
  BY <1>1, ResponseDates
<1>3. /\ gmtStr' = r.buf
      /\ answer' = [code |-> r.code, date |-> r.date, lm |-> r.lm,
                    expires |-> r.expires, file |-> f, ver |-> ver]
  BY DEF Answer
<1> HIDE DEF r
<1>4. ClockInv'  BY <1>2, <1>3 DEF ClockInv, Second
<1>5. DatesRight'  BY <1>2, <1>3 DEF DatesRight
<1> QED  BY <1>2, <1>3, <1>4, <1>5

-----------------------------------------------------------------------------
(* The cache and the copies. *)

\* What is served was on the disk after the start, and no copy is newer.
LEMMA Served ==
    ASSUME SInv, NEW f \in File
    PROVE  /\ GetFile(f) \in Version \cup {0}
           /\ GetFile(f) <= written[f]
           /\ GetFile(f) # 0 =>
                 /\ diskAtStart[f] <= GetFile(f)
                 /\ \A c \in Client : copy[c][f] # NoCopy => copy[c][f].ver <= GetFile(f)
BY DEF SInv, DiskInv, CacheInv, CopyInv, CopyOK, GetFile, Version

\* The cache keeps what it has, and what it gains is on the disk now.
LEMMA Cached ==
    ASSUME SInv, NEW f \in File
    PROVE  /\ DOMAIN CachedAfter(f) \subseteq File
           /\ DOMAIN cache \subseteq DOMAIN CachedAfter(f)
           /\ \A g \in DOMAIN cache : CachedAfter(f)[g] = cache[g]
           /\ \A g \in DOMAIN CachedAfter(f) \ DOMAIN cache :
                 g = f /\ CachedAfter(f)[g] = disk[f] /\ disk[f] \in Version \ Large
BY DEF SInv, DiskInv, CacheInv, CachedAfter

-----------------------------------------------------------------------------
(* The invariant. *)

\* A new server, clients without copies.
LEMMA InitSInv == Init => SInv
<1> SUFFICES ASSUME Init PROVE SInv  OBVIOUS
<1>1. 1 \in Second /\ 1 \in Version /\ MaxNow \in Nat /\ MaxVersion \in Nat
  BY StaticAssumption DEF Second, Version
<1>2. ClockInv  BY <1>1 DEF Init, ClockInv, Second
<1>3. DiskInv  BY <1>1 DEF Init, DiskInv, Version
<1>4. CacheInv  BY DEF Init, CacheInv
<1>5. CopyInv  BY <1>1 DEF Init, CopyInv, CopyOK
<1> QED  BY <1>2, <1>3, <1>4, <1>5 DEF SInv

\* Time passes: copies and the cache only get older.
LEMMA TickSInv == SInv /\ Tick => SInv'
<1> SUFFICES ASSUME SInv, Tick PROVE SInv'  OBVIOUS
<1>1. ClockInv'  BY StaticAssumption DEF SInv, ClockInv, Tick, serverVars, Second
<1>2. DiskInv' /\ CacheInv'  BY DEF SInv, DiskInv, CacheInv, Tick, fileVars, serverVars
<1>3. CopyInv'  BY DEF SInv, CopyInv, CopyOK, Tick, fileVars, serverVars
<1> QED  BY <1>1, <1>2, <1>3 DEF SInv

\* A write makes the last version larger, and touches no copy and no cache.
LEMMA FileChangesSInv ==
    ASSUME SInv, NEW f \in File, FileChanges(f)
    PROVE  SInv'
<1>1. /\ written' \in [File -> Version] /\ disk' \in [File -> Version \cup {0}]
      /\ \A g \in File : disk'[g] \in {0, written'[g]} /\ written[g] <= written'[g]
  <2>1. CASE /\ written[f] < MaxVersion
             /\ written' = [written EXCEPT ![f] = @ + 1]
             /\ disk' = [disk EXCEPT ![f] = written'[f]]
    <3>1. written[f] + 1 \in Version  BY <2>1, StaticAssumption DEF SInv, DiskInv, Version
    <3> QED  BY <2>1, <3>1 DEF SInv, DiskInv, Version
  <2>2. CASE disk' = [disk EXCEPT ![f] = 0] /\ UNCHANGED written
    BY <2>2 DEF SInv, DiskInv, Version
  <2> QED  BY <2>1, <2>2 DEF FileChanges
<1>2. ClockInv'  BY DEF SInv, ClockInv, FileChanges, serverVars
<1>3. DiskInv'  BY <1>1 DEF SInv, DiskInv, FileChanges, serverVars, Version
<1>4. CacheInv'  BY <1>1 DEF SInv, DiskInv, CacheInv, FileChanges, serverVars, Version
<1>5. CopyInv'  BY <1>1 DEF SInv, DiskInv, CopyInv, CopyOK, FileChanges, serverVars, Version
<1> QED  BY <1>2, <1>3, <1>4, <1>5 DEF SInv

\* Every copy is from before the new start.
LEMMA RestartSInv == SInv /\ Restart => SInv'
<1> SUFFICES ASSUME SInv, Restart PROVE SInv'  OBVIOUS
<1>1. ClockInv'  BY StaticAssumption DEF SInv, ClockInv, Restart, Second
<1>2. DiskInv'  BY DEF SInv, DiskInv, Restart, Version
<1>3. DOMAIN cache' = {}  BY DEF Restart
<1>4. CacheInv'  BY <1>3 DEF CacheInv
<1>5. start < start'  BY DEF Restart
<1>6. ASSUME NEW c \in Client, NEW f \in File PROVE CopyOK(copy[c][f], f)'
  <2>1. start \in Nat /\ start' \in Nat  BY StaticAssumption DEF SInv, ClockInv, Second, Restart
  <2>2. CopyOK(copy[c][f], f)  BY DEF SInv, CopyInv
  <2> QED  BY <1>3, <1>5, <2>1, <2>2 DEF CopyOK, Restart, Second
<1>7. CopyInv'  BY <1>6 DEF SInv, CopyInv, Restart
<1> QED  BY <1>1, <1>2, <1>4, <1>7 DEF SInv

\* The copy that a file leaves with a client, and the cache beside it.
LEMMA SendFileSInv ==
    ASSUME SInv, NEW c \in Client, NEW f \in File, NEW s, SendFile(c, f, s)
    PROVE  /\ SInv' /\ DatesRight'
           /\ answer'.file = f /\ answer'.ver = GetFile(f)
           /\ copy'[c][f] # NoCopy => copy'[c][f].ver = GetFile(f)
           /\ \A d \in Client, g \in File :
                 d # c \/ g # f => copy'[d][g] = copy[d][g]
<1> DEFINE ver == GetFile(f)
           age == IF ver = 0 THEN 0 ELSE FileAge
           code == IF ver = 0 THEN NOT_FOUND ELSE OK
           r == Response(code, age)
           k == IF ver = 0 THEN NoCopy ELSE [lm |-> r.lm, ver |-> ver]
<1>1. /\ Answer(r, f, ver)
      /\ copy' = [copy EXCEPT ![c][f] = k]
      /\ cache' = CachedAfter(f)
      /\ UNCHANGED <<now, disk, written, serverVars>>
  BY DEF SendFile, StatusPage
<1>2. age \in {0, FileAge, YearAge} /\ age \in Nat /\ (ver # 0 => age # 0)
  BY StaticAssumption
<1>3. ClockInv /\ ClockInv' /\ DatesRight' /\ answer'.file = f /\ answer'.ver = ver
  <2>1. ClockInv /\ now' = now /\ start' = start /\ startTime' = startTime
    BY <1>1 DEF SInv, serverVars
  <2> HIDE DEF age, code, ver
  <2> QED  BY <1>1, <1>2, <2>1, AnswerDates DEF r
<1>4. ver # 0 => r.lm = start
  <2>1. code # MOVED_PERMANENTLY  BY DEF OK, NOT_FOUND, MOVED_PERMANENTLY
  <2> HIDE DEF age, code, ver
  <2> QED  BY <1>2, <1>3, <2>1, ResponseDates DEF r
<1> HIDE DEF r
<1>5. /\ ver \in Version \cup {0} /\ ver <= written[f]
      /\ ver # 0 => diskAtStart[f] <= ver
      /\ ver # 0 => \A d \in Client : copy[d][f] # NoCopy => copy[d][f].ver <= ver
  BY Served
<1>6. start \in Second /\ start \in Nat  BY StaticAssumption DEF SInv, ClockInv, Second
<1>7. k \in [lm : Second, ver : Version] \cup {NoCopy}
      /\ (k # NoCopy => k = [lm |-> start, ver |-> ver] /\ ver # 0)
  BY <1>4, <1>5, <1>6
<1>8. DiskInv'  BY <1>1 DEF SInv, DiskInv, serverVars
<1>9. CacheInv'
  <2>1. ASSUME NEW g \in DOMAIN cache'
        PROVE  cache'[g] \in Version \ Large /\ diskAtStart[g] <= cache'[g]
               /\ cache'[g] <= written[g]
    BY <1>1, <2>1, Cached DEF SInv, CacheInv, DiskInv, Version
  <2> QED  BY <1>1, <2>1, Cached DEF CacheInv, serverVars
<1>10. ver # 0 /\ f \in DOMAIN cache' => ver <= cache'[f]
  <2>1. CASE f \in DOMAIN cache
    BY <1>1, <1>5, <2>1, Cached DEF GetFile, Version
  <2>2. CASE f \notin DOMAIN cache
    BY <1>1, <1>5, <2>2, Cached DEF GetFile, Version
  <2> QED  BY <2>1, <2>2
<1> HIDE DEF ver, k
<1>11. /\ copy'[c][f] = k
       /\ \A d \in Client, g \in File : d # c \/ g # f => copy'[d][g] = copy[d][g]
       /\ copy' \in [Client -> [File -> [lm : Second, ver : Version] \cup {NoCopy}]]
  BY <1>1, <1>7 DEF SInv, CopyInv
<1>12. CopyOK(copy[c][f], f)'
  BY <1>1, <1>5, <1>6, <1>7, <1>10, <1>11 DEF CopyOK, serverVars
<1>13. ASSUME NEW d \in Client, NEW g \in File, d # c \/ g # f
       PROVE  CopyOK(copy[d][g], g)'
  <2>1. CopyOK(copy[d][g], g) /\ copy'[d][g] = copy[d][g]
    BY <1>11, <1>13 DEF SInv, CopyInv
  <2>2. g \in DOMAIN cache' =>
          \/ g \in DOMAIN cache /\ cache'[g] = cache[g]
          \/ cache'[g] = written[g]
    BY <1>1, Cached DEF SInv, DiskInv, Version
  <2>3. UNCHANGED <<start, written, diskAtStart>>  BY <1>1 DEF serverVars
  <2> QED  BY <2>1, <2>2, <2>3 DEF CopyOK
<1> QED  BY <1>3, <1>7, <1>8, <1>9, <1>11, <1>12, <1>13 DEF SInv, CopyInv, ver

\* An answer that is not a file changes no copy.
LEMMA OthersSInv ==
    ASSUME SInv, NEW code, NEW age \in {0, FileAge, YearAge}, NEW f, NEW ver,
           Answer(Response(code, age), f, ver),
           UNCHANGED <<now, fileVars, serverVars, copy>>
    PROVE  /\ SInv' /\ DatesRight'
           /\ answer'.code = code /\ answer'.file = f /\ answer'.ver = ver
<1>1. ClockInv' /\ DatesRight'
      /\ answer'.code = code /\ answer'.file = f /\ answer'.ver = ver
  BY AnswerDates DEF SInv, serverVars
<1>2. DiskInv' /\ CacheInv'
  BY DEF SInv, DiskInv, CacheInv, fileVars, serverVars
<1>3. CopyInv'
  BY DEF SInv, CopyInv, CopyOK, fileVars, serverVars
<1> QED  BY <1>1, <1>2, <1>3 DEF SInv

\* A 304 is about the copy that the client has.
LEMMA NotModifiedSInv ==
    ASSUME SInv, NEW c \in Client, NEW f \in File, NEW s, NotModified(c, f, s)
    PROVE  /\ SInv' /\ DatesRight'
           /\ answer'.code = NOT_MODIFIED /\ answer'.file = f
           /\ answer'.ver = copy[c][f].ver
BY OthersSInv DEF NotModified, StatusPage

\* Pages and redirections carry no file.
LEMMA PagesSInv ==
    ASSUME SInv, Page \/ RedirectForever
    PROVE  SInv' /\ DatesRight' /\ answer'.file = NULL /\ UNCHANGED <<gmtInt, copy>>
           /\ answer'.code \in {OK, MOVED_PERMANENTLY}
BY OthersSInv DEF Page, RedirectForever

\* Nothing else answers.
LEMMA SilentDates ==
    ASSUME SInv, DatesRight,
           Tick \/ Restart \/ (\E f \in File : FileChanges(f)) \/ UNCHANGED vars
    PROVE  DatesRight'
<1>1. CASE Tick \/ Restart  BY <1>1 DEF Tick, Restart, DatesRight, Answered
<1>2. CASE (\E f \in File : FileChanges(f)) \/ UNCHANGED vars
  BY <1>2 DEF FileChanges, vars, serverVars, DatesRight, Answered
<1> QED  BY <1>1, <1>2

\* A stutter.
LEMMA StutterSInv == SInv /\ UNCHANGED vars => SInv'
BY DEF SInv, ClockInv, DiskInv, CacheInv, CopyInv, CopyOK, vars, fileVars, serverVars

\* Every step keeps the invariant and the dates.
LEMMA NextSInv ==
    ASSUME SInv, DatesRight, [Next]_vars
    PROVE  SInv' /\ DatesRight'
<1>1. CASE Tick  BY <1>1, TickSInv, SilentDates
<1>2. CASE Restart  BY <1>2, RestartSInv, SilentDates
<1>3. CASE Page \/ RedirectForever  BY <1>3, PagesSInv
<1>4. CASE \E f \in File : FileChanges(f)  BY <1>4, FileChangesSInv, SilentDates
<1>5. ASSUME NEW c \in Client, NEW f \in File, NEW s \in Address, NotModified(c, f, s)
      PROVE  SInv' /\ DatesRight'
  BY <1>5, NotModifiedSInv
<1>6. ASSUME NEW c \in Client, NEW f \in File, NEW s \in Address, SendFile(c, f, s)
      PROVE  SInv' /\ DatesRight'
  BY <1>6, SendFileSInv
<1>7. CASE UNCHANGED vars  BY <1>7, StutterSInv, SilentDates
<1> QED  BY <1>1, <1>2, <1>3, <1>4, <1>5, <1>6, <1>7 DEF Next

\* Clocks, disk, caches and copies agree, and every answer has its own dates
\* (request.c:186, 207-216; time.c:12-28; file.c:57-96).
THEOREM SpecSInv == Spec => [](SInv /\ DatesRight)
<1>1. Init => SInv /\ DatesRight
  BY InitSInv DEF Init, DatesRight, Answered
<1>2. SInv /\ DatesRight /\ [Next]_vars => (SInv /\ DatesRight)'
  BY NextSInv
<1> QED  BY <1>1, <1>2, PTL DEF Spec

\* The dates of an answer are those of the answer, for every age and for every
\* order of answers.
THEOREM DatesStayRight == Spec => []DatesRight
BY SpecSInv, PTL

-----------------------------------------------------------------------------
(* Copies and answers. *)

\* A client's copy of a file is replaced by one that is not older
\* (file.c:74-93), for any number of files, versions and restarts.
THEOREM CopiesNeverGoBack == Spec => NeverBackwards
<1>1. ASSUME SInv, [Next]_vars, NEW c \in Client, NEW f \in File,
             copy'[c][f] # NoCopy
      PROVE  copy'[c][f].ver >= copy[c][f].ver
  <2> DEFINE Kept == copy'[c][f] = copy[c][f]
  <2>1. copy[c][f].ver \in Nat
    BY <1>1, StaticAssumption DEF SInv, CopyInv, Version, NoCopy
  <2>2. CASE Kept  BY <2>1, <2>2
  <2>3. ASSUME NEW d \in Client, NEW g \in File, NEW s \in Address, SendFile(d, g, s)
        PROVE  copy'[c][f].ver >= copy[c][f].ver
    <3>1. CASE d # c \/ g # f  BY <2>1, <2>3, <3>1, SendFileSInv, <1>1
    <3>2. CASE d = c /\ g = f
      <4>1. copy'[c][f].ver = GetFile(f)  BY <1>1, <2>3, <3>2, SendFileSInv
      <4>2. GetFile(f) # 0
        <5>1. CASE GetFile(f) = 0
          <6>1. copy' = [copy EXCEPT ![c][f] = NoCopy]  BY <2>3, <3>2, <5>1 DEF SendFile
          <6> QED  BY <6>1, <1>1 DEF SInv, CopyInv
        <5> QED  BY <5>1
      <4>3. CASE copy[c][f] = NoCopy
        BY <4>1, <4>3, Served, <1>1, StaticAssumption DEF NoCopy, Version
      <4>4. CASE copy[c][f] # NoCopy
        BY <4>1, <4>2, <4>4, <2>1, Served, <1>1, StaticAssumption DEF Version
      <4> QED  BY <4>3, <4>4
    <3> QED  BY <3>1, <3>2
  <2>4. CASE Tick \/ Restart \/ Page \/ RedirectForever \/ UNCHANGED vars
    BY <2>2, <2>4 DEF Tick, Restart, Page, RedirectForever, vars
  <2>5. CASE \E g \in File : FileChanges(g)  BY <2>2, <2>5 DEF FileChanges
  <2>6. CASE \E d \in Client, g \in File, s \in Address : NotModified(d, g, s)
    BY <2>2, <2>6 DEF NotModified
  <2> QED  BY <1>1, <2>3, <2>4, <2>5, <2>6 DEF Next
<1>2. SInv /\ [Next]_vars =>
        [\A c \in Client, f \in File :
            copy'[c][f] # NoCopy => copy'[c][f].ver >= copy[c][f].ver]_vars
  BY <1>1
<1> QED  BY <1>2, SpecSInv, PTL DEF Spec, NeverBackwards

\* A 304 is for the copy the client has; its date, whatever the address it was
\* parsed at, is the start's.
LEMMA NotModifiedNotStale ==
    ASSUME FreshAddresses, SInv,
           NEW c \in Client, NEW f \in File, NEW s, NotModified(c, f, s)
    PROVE  copy[c][f].ver >= diskAtStart'[f]
<1>1. gmtInt'.t = copy[c][f].lm  BY DEF NotModified, Parse, Gmtimeint
<1>2. copy[c][f] # NoCopy /\ copy[c][f].lm >= start
  BY <1>1 DEF NotModified, Parse
<1>3. CopyOK(copy[c][f], f) /\ start \in Nat
  BY StaticAssumption DEF SInv, CopyInv, ClockInv, Second
<1>4. copy[c][f].lm \in Nat /\ copy[c][f].lm <= start
  BY <1>2, <1>3, StaticAssumption DEF CopyOK, Second
<1>5. copy[c][f].lm = start  BY <1>2, <1>3, <1>4
<1> QED  BY <1>2, <1>3, <1>5 DEF CopyOK, NotModified, serverVars

\* A client that is answered 200 or 304 has the file as it was when the server
\* started, or newer (request.c:328-341, file.c:74-93), if no date is parsed
\* at the address of the one before it (time.c:36).
THEOREM NeverStale == FreshAddresses => (Spec => []NotStale)
<1> SUFFICES ASSUME FreshAddresses PROVE Spec => []NotStale  OBVIOUS
<1>1. Init => NotStale  BY DEF Init, NotStale, Answered
<1>2. ASSUME SInv, SInv', NotStale, [Next]_vars PROVE NotStale'
  <2>1. CASE Tick \/ Restart
    BY <2>1 DEF Tick, Restart, NotStale, Answered
  <2>2. CASE (\E f \in File : FileChanges(f)) \/ UNCHANGED vars
    BY <1>2, <2>2 DEF FileChanges, NotStale, Answered, vars, serverVars
  <2>3. CASE Page \/ RedirectForever
    BY <1>2, <2>3, PagesSInv DEF NotStale
  <2>4. ASSUME NEW c \in Client, NEW f \in File, NEW s \in Address, NotModified(c, f, s)
        PROVE  NotStale'
    BY <1>2, <2>4, NotModifiedSInv, NotModifiedNotStale DEF NotStale
  <2>5. ASSUME NEW c \in Client, NEW f \in File, NEW s \in Address, SendFile(c, f, s)
        PROVE  NotStale'
    <3>1. answer'.file = f /\ answer'.ver = GetFile(f)  BY <1>2, <2>5, SendFileSInv
    <3>2. CASE GetFile(f) = 0
      <4>1. answer'.code = NOT_FOUND  BY <2>5, <3>2 DEF SendFile, Answer, StatusPage, Response
      <4> QED  BY <4>1 DEF NotStale, OK, NOT_FOUND, NOT_MODIFIED
    <3>3. CASE GetFile(f) # 0
      <4>1. diskAtStart'[f] = diskAtStart[f]  BY <2>5 DEF SendFile, serverVars
      <4>2. diskAtStart[f] <= GetFile(f)  BY <1>2, <3>3, Served
      <4> QED  BY <3>1, <4>1, <4>2 DEF NotStale
    <3> QED  BY <3>2, <3>3
  <2> QED  BY <1>2, <2>1, <2>2, <2>3, <2>4, <2>5 DEF Next
<1> QED  BY <1>1, <1>2, SpecSInv, PTL DEF Spec

-----------------------------------------------------------------------------
(* Types. *)

\* What SInv leaves open: the parsed date and the code of the answer.
RestInv ==
    /\ gmtInt \in [s0 : Address \cup {NULL}, t : Nat]
    /\ answer.code \in {0, OK, MOVED_PERMANENTLY, NOT_MODIFIED, NOT_FOUND}

\* gmtimeint keeps an address and a time.
LEMMA ParseType ==
    ASSUME SInv, RestInv, NEW c \in Client, NEW f \in File, NEW s \in Address,
           Parse(c, f, s)
    PROVE  gmtInt' \in [s0 : Address \cup {NULL}, t : Nat]
<1>1. copy[c][f].lm \in Nat
  BY StaticAssumption DEF SInv, CopyInv, NoCopy, Second
<1> QED  BY <1>1 DEF RestInv, Parse, Gmtimeint

\* The types of the files, dates, copies and answers.
THEOREM StaticTypeCorrect == Spec => []TypeOK
<1>1. Init => RestInv  BY DEF Init, RestInv, NoAnswer
<1>2. ASSUME SInv, RestInv, [Next]_vars PROVE RestInv'
  <2>1. CASE Tick \/ Restart
    BY <1>2, <2>1 DEF Tick, Restart, RestInv, NoAnswer
  <2>2. CASE (\E f \in File : FileChanges(f)) \/ UNCHANGED vars
    BY <1>2, <2>2 DEF FileChanges, RestInv, vars
  <2>3. CASE Page \/ RedirectForever
    BY <1>2, <2>3, PagesSInv DEF RestInv
  <2>4. ASSUME NEW c \in Client, NEW f \in File, NEW s \in Address, NotModified(c, f, s)
        PROVE  RestInv'
    BY <1>2, <2>4, NotModifiedSInv, ParseType DEF NotModified, RestInv
  <2>5. ASSUME NEW c \in Client, NEW f \in File, NEW s \in Address, SendFile(c, f, s)
        PROVE  RestInv'
    <3>1. gmtInt' \in [s0 : Address \cup {NULL}, t : Nat]
      BY <1>2, <2>5, ParseType DEF SendFile, RestInv
    <3>2. answer'.code \in {OK, NOT_FOUND}
      BY <2>5 DEF SendFile, Answer, StatusPage, Response
    <3> QED  BY <3>1, <3>2 DEF RestInv
  <2> QED  BY <1>2, <2>1, <2>2, <2>3, <2>4, <2>5 DEF Next
<1>3. SInv /\ RestInv => TypeOK
  BY StaticAssumption
  DEF SInv, ClockInv, DiskInv, CacheInv, CopyInv, RestInv, TypeOK, Second
<1> QED  BY <1>1, <1>2, <1>3, SpecSInv, PTL DEF Spec

=============================================================================
