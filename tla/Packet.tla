------------------------------- MODULE Packet -------------------------------
(***************************************************************************)
(* From the text of a request to what a handler reads of it:               *)
(* holy_new_req_pkt of src/server/packet.c with the functions of           *)
(* src/utils/string.c it uses, and the file that handle_static of          *)
(* src/server/server.c makes of the uri.                                   *)
(*                                                                         *)
(* A client means something (asked): a path, arguments, cookies.  Print    *)
(* writes it as HTTP does; the actions read it as the code does, one for   *)
(* each part of holy_new_req_pkt.  A text is a sequence of characters; a   *)
(* word that no search of the code can cut, like "\r\n" or a boundary, is  *)
(* one character.                                                          *)
(*                                                                         *)
(* Any allocation of the parser may fail.  Where its result is tested the  *)
(* request is given up; but the results of set_ss and set_sb are not, and  *)
(* a pair that could not be set is missing from then on, or the one of its *)
(* name that was set before stays.  What content-length says is true here. *)
(***************************************************************************)
EXTENDS Integers, Sequences, Strings, FiniteSets

CONSTANTS
    Asked,        \* what clients may mean
    Char,         \* the characters of texts
    Hex,          \* the two hexadecimal digits of each character of a name
                  \* or value
    Prefix,       \* cfg.static_uri_prefix
    StaticPath,   \* cfg.static_path
    Garbage,      \* what an array that nobody wrote to may hold
    MaxUrl        \* MAX_URL_LEN

\* strings: separators, ends of lines, and the parts of a form
Blank     == " "
Semicolon == ";"
CRLF      == "\r\n"
Quote     == "\""
FormData  == "form-data;"
NameIs    == "name=\""

Words == {Blank, Semicolon, CRLF, Quote, FormData, NameIs, "--", "B", "file", "f",
          "Content-Type:", "=", "&", "%", "+", "?", "/"}

HexDigit == {"0", "1", "2", "3", "4", "5", "6", "7", "8", "9",
             "A", "B", "C", "D", "E", "F"}

ASSUME PacketAssumption ==
    /\ Words \cup HexDigit \cup DOMAIN Hex \subseteq Char
    /\ Hex \in [DOMAIN Hex -> HexDigit \X HexDigit]
    /\ \A c, d \in DOMAIN Hex : Hex[c] = Hex[d] => c = d
    /\ {Prefix, StaticPath} \cup Garbage \subseteq Seq(Char)
    /\ MaxUrl \in Nat \ {0}

VARIABLES
    asked,   \* the request
    stage,   \* the part of holy_new_req_pkt that is next
    dicts,   \* the dictionaries that are allocated
    tmp,     \* the req_pkt_t being filled
    pkt,     \* whether one is returned
    status,  \* *status when it returns
    file,    \* the path and the type handle_static answers with
    short    \* history: what the allocations that failed were for

vars == <<asked, stage, dicts, tmp, pkt, status, file, short>>

OK == 200
BAD_REQUEST == 400
METHOD_NOT_ALLOWED == 405
REQUEST_URI_TOO_LONG == 414
VERSION_NOT_SUPPORTED == 505
INSUFFICIENT_STORAGE == 507
Unset == 0  \* *status is not assigned: the caller reads what was there

-----------------------------------------------------------------------------
(* What a client writes.                                                   *)

\* asked.style: "form" writes a blank as + and escapes what must be escaped;
\* "percent" escapes every character.
Escaped(c, style) ==
    IF style = "percent" \/ c \in {"&", "=", "%", "+", "?"} THEN <<"%">> \o Hex[c]
    ELSE IF c = Blank THEN <<"+">> ELSE <<c>>

Encode(s, style) == FlattenSeq([i \in DOMAIN s |-> Escaped(s[i], style)])

Join(texts, separator) ==
    FlattenSeq([i \in DOMAIN texts |->
                   IF i = 1 THEN texts[i] ELSE separator \o texts[i]])

EncodeArgs(args, style) ==
    Join([i \in DOMAIN args |->
             Encode(args[i][1], style)
                 \o (IF args[i][2] = <<>> /\ style = "form" THEN <<>>
                     ELSE <<"=">> \o Encode(args[i][2], style))], <<"&">>)

Url(a) == a.path \o (IF a.query = <<>> THEN <<>>
                     ELSE <<"?">> \o EncodeArgs(a.query, a.style))

\* One field of a form, with the other parameters of its header after it.
FormPart(field) ==
    <<FormData, Blank, NameIs>> \o field[1] \o <<Quote>>
        \o <<Semicolon, Blank, "file", NameIs, "f", Quote, CRLF, "Content-Type:", CRLF, CRLF>>
        \o field[2]

Multipart(fields, b) ==
    <<"--", b, CRLF>>
        \o Join([i \in DOMAIN fields |-> FormPart(fields[i])], <<CRLF, "--", b, CRLF>>)
        \o <<CRLF, "--", b, "--", CRLF>>

Content(a) ==
    CASE a.type = "multipart"   -> Multipart(a.form, "B")
      [] a.type = "unended"     -> Front(Multipart(a.form, "B"))
      [] a.type \in {"urlencoded", "bare"} -> EncodeArgs(a.form, a.style)
      [] OTHER                  -> <<>>

CookieText(cookies) ==
    Join([i \in DOMAIN cookies |->
             cookies[i][1] \o (IF cookies[i][2] = <<>> THEN <<>>
                               ELSE <<"=">> \o cookies[i][2])], <<Semicolon, Blank>>)

\* A header line: its name, whether the name is in lower case, whether a blank
\* follows the colon, its value.
Lines(a) ==
    LET Line(name, lower, value) ==
            [name |-> name, lower |-> lower, blank |-> a.blank, value |-> value]
        type == CASE a.type \in {"multipart", "unended"}
                                          -> <<"multipart", "form-data", "B">>
                  [] a.type = "bare"      -> <<"multipart", "form-data">>
                  [] OTHER                -> <<"application", "x-www-form-urlencoded">>
    IN  (IF a.host THEN <<Line("host", FALSE, <<"h">>)>> ELSE <<>>)
        \o (IF a.type = "none" THEN <<>>
            ELSE <<Line("content-length", FALSE, <<Len(Content(a))>>),
                   Line("content-type", TRUE, type)>>)
        \o (IF a.cookies = <<>> THEN <<>>
            ELSE <<Line("cookie", FALSE, CookieText(a.cookies))>>)

-----------------------------------------------------------------------------
(* What a client can mean: a path that ends where a query would begin,     *)
(* arguments of characters that can be escaped, a form whose boundary      *)
(* begins no line of its data, cookies that end where the next begins.     *)

Pair == (Seq(DOMAIN Hex) \ {<<>>}) \X Seq(DOMAIN Hex)

HasBoundary(data) ==
    Find(<<CRLF>> \o data, <<CRLF, "--", "B">>, 1, Len(data) + 1) # 0

Part == {p \in (Seq(Char \ {CRLF, Quote}) \ {<<>>}) \X Seq(Char) :
            ~HasBoundary(p[2])}

Cookie == {p \in (Seq(Char \ {Semicolon, "=", CRLF}) \ {<<>>}) \X Seq(Char \ {Semicolon, CRLF}) :
              p[1][1] # Blank /\ Last(p[1]) # Blank}

Writable(a) ==
    /\ {a.cut, a.host, a.blank} \subseteq BOOLEAN
    /\ a.path \in Seq(Char \ {"?", Blank, CRLF})
    /\ a.style \in {"form", "percent"} /\ a.query \in Seq(Pair)
    /\ \/ a.type = "none" /\ a.form = <<>>
       \/ a.type \in {"urlencoded", "bare"} /\ a.form \in Seq(Pair)
       \/ a.type \in {"multipart", "unended"} /\ a.form \in Seq(Part)
    /\ a.cookies \in Seq(Cookie)

ASSUME ClientAssumption == \A a \in Asked : Writable(a)

-----------------------------------------------------------------------------
(* packet.c: names, values and fields.                                     *)

Unhex(hi, lo) == CHOOSE c \in DOMAIN Hex : Hex[c] = <<hi, lo>>

\* url_decode: an escape that the text cuts off is left as it is.
UrlDecode(s) ==
    LET escape == {i \in DOMAIN s : s[i] = "%" /\ i + 2 <= Len(s)}
    IN  Collect([i \in DOMAIN s |-> IF i \in escape THEN <<Unhex(s[i + 1], s[i + 2])>>
                                    ELSE IF s[i] = "+" THEN <<Blank>> ELSE <<s[i]>>],
                [i \in DOMAIN s |-> IF i \in escape THEN i + 3 ELSE i + 1], 1)

\* dict_t.set_ss succeeds for those of the pairs, in turn: the last of a name counts.
SetThese(args, pairs, those) ==
    LET of(k) == {i \in those : pairs[i][1] = k}
    IN  [k \in DOMAIN args \cup {pairs[i][1] : i \in those} |->
            IF of(k) = {} THEN args[k] ELSE pairs[Max(of(k))][2]]

SetAll(args, pairs) == SetThese(args, pairs, DOMAIN pairs)

\* A variant of parse_query: the text is decoded before it is cut.
DecodedThenCut(text) ==
    LET items == Items(UrlDecode(text), "&")
    IN  [i \in DOMAIN items |-> <<Until(items[i], "="), After(items[i], "=")>>]

\* parse_query: name=value&name=value; a value may be absent.
QueryPairs(text) ==
    LET items == Items(text, "&")
    IN  [i \in DOMAIN items |-> <<UrlDecode(Until(items[i], "=")),
                                  UrlDecode(After(items[i], "="))>>]

\* parse_headers: the lines it takes, whose names are in lower case.  sscanf wants
\* a blank after the colon and a value; a line without is skipped.
Readable(lines) == {i \in DOMAIN lines : lines[i].blank /\ lines[i].value # <<>>}

\* The fields, when set_ss succeeds for those lines.
Fields(lines, those) ==
    SetThese(<<>>, [i \in DOMAIN lines |-> <<lines[i].name, lines[i].value>>], those)

Field(name) == IF name \in DOMAIN tmp.fields THEN tmp.fields[name] ELSE <<>>

\* One part of a form, from pos up to next: the pairs it sets.  A part without
\* a name is skipped.  dict_t.set_sb refuses an empty value, so an empty field
\* is not set at all.  (Where the first name=" belongs to another parameter, as
\* in filename=", the search at packet.c:389-391 begins again at the place it
\* has found and does not end; clients here write the name first.)
PartPairs(text, pos, next) ==
    LET at   == Find(text, <<NameIs>>, pos, next - 1)
        name == Until(From(text, at + 1), Quote)
        gap  == Find(text, <<CRLF, CRLF>>, at, next - 1)
        data == SubSeq(text, gap + 2, next - 1)
    IN  IF at = 0 \/ name = <<>> \/ gap = 0 \/ data = <<>> THEN <<>>
        ELSE <<<<name, data>>>>

\* The loop over the parts: text[start .. end] without the closing boundary.
FormPairs(text, start, end, b) ==
    LET split == <<CRLF, "--", b, CRLF>>
        next(pos) == LET found == Find(text, split, pos, end)
                     IN  IF found = 0 THEN end + 1 ELSE found
    IN  Collect([pos \in start .. end - 1 |-> PartPairs(text, pos, next(pos))],
                [pos \in start .. end - 1 |-> next(pos) + Len(split)], start)

-----------------------------------------------------------------------------
(* holy_new_req_pkt *)

NewPacket == [uri |-> <<>>, args |-> <<>>, fields |-> <<>>, cookies |-> <<>>,
              content_length |-> 0, content_type |-> <<>>]

Init ==
    /\ asked \in Asked
    /\ stage = "new" /\ dicts = {} /\ tmp = NewPacket
    /\ pkt = FALSE /\ status = Unset /\ file = <<>> /\ short = {}

Goto(next) == stage' = next /\ UNCHANGED <<asked, pkt, status, file>>

\* A variant of the exit at fail: the dictionaries are left.
FailKeepsDicts(code) ==
    /\ stage' = "done" /\ status' = code
    /\ UNCHANGED <<asked, tmp, pkt, file, dicts>>

\* fail: the dictionaries are freed and no packet is returned.
Fail(code) ==
    /\ stage' = "done" /\ status' = code
    /\ dicts' = {}
    /\ UNCHANGED <<asked, tmp, pkt, file>>

Dicts ==
    /\ stage = "new"
    /\ \/ /\ dicts' = {"args", "fields", "cookies"}
          /\ Goto("line")
          /\ UNCHANGED <<tmp, short>>
       \/ Fail(INSUFFICIENT_STORAGE) /\ short' = short \cup {"dicts"}

\* A variant of parse_requset_line: a url as long as the buffer is taken.
LineFaultLong ==
    IF asked.cut \/ Len(Url(asked)) > MaxUrl THEN BAD_REQUEST
    ELSE IF asked.method \notin {"HEAD", "GET", "POST"} THEN METHOD_NOT_ALLOWED
    ELSE IF asked.version \notin {"1.0", "1.1", "2.0"} THEN VERSION_NOT_SUPPORTED
    ELSE OK

\* parse_requset_line.  sscanf takes MAX_URL_LEN characters of the url: a longer
\* one is followed by more of itself instead of the version.
LineFault ==
    IF asked.cut \/ Len(Url(asked)) > MaxUrl THEN BAD_REQUEST
    ELSE IF asked.method \notin {"HEAD", "GET", "POST"} THEN METHOD_NOT_ALLOWED
    ELSE IF Len(Url(asked)) >= MaxUrl THEN REQUEST_URI_TOO_LONG
    ELSE IF asked.version \notin {"1.0", "1.1", "2.0"} THEN VERSION_NOT_SUPPORTED
    ELSE OK

RequestLine ==
    /\ stage = "line"
    /\ UNCHANGED short
    /\ IF LineFault = OK THEN Goto("query") /\ UNCHANGED <<dicts, tmp>>
       ELSE Fail(LineFault)

\* The uri and the query; those of its arguments are set.  When the copy of the
\* query fails, status is unset.
Query ==
    /\ stage = "query"
    /\ LET url   == Url(asked)
           pairs == QueryPairs(After(url, "?"))
       IN  \/ \E those \in SUBSET DOMAIN pairs :
                 /\ tmp' = [tmp EXCEPT !.uri = Until(url, "?"),
                                       !.args = SetThese(@, pairs, those)]
                 /\ short' = short \cup {"argument" : i \in DOMAIN pairs \ those}
                 /\ Goto("headers")
                 /\ UNCHANGED dicts
           \/ Contains(url, "?") /\ Fail(Unset) /\ short' = short \cup {"query"}

\* The fields that parse_headers looks up.
Sought == {"content-type"} \cup (IF asked.method = "POST" THEN {"content-length"} ELSE {})

\* The fields are set for those lines, and looked up; a lookup allocates too, and
\* some are missed.  What is not set or missed is taken for absent.
ReadFields(those, missed) ==
    LET lines  == Lines(asked)
        fields == Fields(lines, those)
        found  == DOMAIN fields \ missed
        value(name) == IF name \in found THEN fields[name] ELSE <<>>
    IN  /\ tmp' = [tmp EXCEPT
               !.fields = fields,
               !.content_type = value("content-type"),
               !.content_length =
                   IF asked.method = "POST" /\ value("content-length") # <<>>
                   THEN value("content-length")[1] ELSE 0]
        /\ short' = short \cup ({lines[i].name : i \in Readable(lines)} \ found)

Headers ==
    /\ stage = "headers"
    /\ \/ /\ Lines(asked) = <<>>
          /\ Fail(BAD_REQUEST) /\ UNCHANGED short
       \/ /\ Lines(asked) # <<>>
          /\ \E those \in SUBSET Readable(Lines(asked)),
                missed \in SUBSET Sought :
                    ReadFields(those, missed)
          /\ Goto("content")
          /\ UNCHANGED dicts
       \/ /\ Lines(asked) # <<>>
          /\ Fail(INSUFFICIENT_STORAGE) /\ short' = short \cup {"fields"}

Typed(type) == asked.method = "POST" /\ StartsWith(tmp.content_type, type)

\* A multipart form; one that names no boundary is read like the other kind.
Form == Typed(<<"multipart", "form-data">>) /\ Len(tmp.content_type) > 2
Urlencoded ==
    \/ Typed(<<"application", "x-www-form-urlencoded">>)
    \/ Typed(<<"multipart", "form-data">>) /\ ~Form

Set(pairs) ==
    /\ \E those \in SUBSET DOMAIN pairs :
          /\ tmp' = [tmp EXCEPT !.args = SetThese(@, pairs, those)]
          /\ short' = short \cup {"argument" : i \in DOMAIN pairs \ those}
    /\ Goto("cookies")
    /\ UNCHANGED dicts

\* parse_content
ContentNone == stage = "content" /\ ~Form /\ ~Urlencoded /\ Set(<<>>)
ContentQuery == stage = "content" /\ Urlencoded /\ Set(QueryPairs(Content(asked)))

\* Without a content-length the end is before the content, in the header, whose
\* last line is empty and no boundary.
ContentForm ==
    /\ stage = "content" /\ Form
    /\ LET text  == Content(asked)
           b     == tmp.content_type[3]
           last  == <<CRLF, "--", b, "--", CRLF>>
           first == <<"--", b, CRLF>>
           end   == tmp.content_length - Len(last)
       IN  IF /\ end >= 0 /\ StartsWith(From(text, end + 1), last)
              /\ StartsWith(text, first)
           THEN Set(FormPairs(text, Len(first) + 1, end, b))
           ELSE Fail(BAD_REQUEST) /\ UNCHANGED short

\* parse_cookies: name=value; name=value; a value may be absent, a name may not.
CookiePairs(text) ==
    LET items == Items(text, Semicolon)
    IN  [i \in DOMAIN items |-> <<Trim(Until(items[i], "="), Blank), After(items[i], "=")>>]

Named(text) ==
    LET items == Items(text, Semicolon)
    IN  {i \in DOMAIN items : ~StartsWith(items[i], <<"=">>)}

\* When the lookup of the field or its copy fails, the request goes on without
\* its cookies.
Cookies ==
    /\ stage = "cookies"
    /\ LET text == Field("cookie")
       IN  \/ \E those \in SUBSET Named(text) :
                 /\ tmp' = [tmp EXCEPT !.cookies = SetThese(@, CookiePairs(text), those)]
                 /\ short' = short \cup {"cookies" : i \in Named(text) \ those}
           \/ text # <<>> /\ short' = short \cup {"cookies"} /\ UNCHANGED tmp
    /\ Goto("packet")
    /\ UNCHANGED dicts

Packet ==
    /\ stage = "packet"
    /\ \/ /\ pkt' = TRUE /\ status' = OK /\ stage' = "static"
          /\ UNCHANGED <<asked, dicts, tmp, file, short>>
       \/ Fail(INSUFFICIENT_STORAGE) /\ short' = short \cup {"packet"}

\* handle_static: what is left of the uri, made canonical, below static_path.
StaticFile(uri) ==
    LET rest == From(uri, Len(Prefix) + 1)
        relative == IF StartsWith(rest, <<"/">>) THEN Tail(rest) ELSE rest
    IN  JoinPath(StaticPath, RealPath(relative))

\* holy_get_real_path may fail for want of memory; what it has not written is
\* joined to static_path all the same.
HandleStatic ==
    /\ stage = "static"
    /\ stage' = "done"
    /\ \/ /\ file' = IF StartsWith(tmp.uri, Prefix) THEN StaticFile(tmp.uri) ELSE <<>>
          /\ UNCHANGED short
       \/ /\ StartsWith(tmp.uri, Prefix)
          /\ \E real \in Garbage : file' = JoinPath(StaticPath, real)
          /\ short' = short \cup {"real"}
    /\ UNCHANGED <<asked, dicts, tmp, pkt, status>>

Next ==
    \/ Dicts \/ RequestLine \/ Query \/ Headers
    \/ ContentNone \/ ContentQuery \/ ContentForm
    \/ Cookies \/ Packet \/ HandleStatic

Spec == Init /\ [][Next]_vars

-----------------------------------------------------------------------------
(* Properties. *)

\* What the handler should find: the last of a name counts, the form after the
\* query.  An empty field of a multipart form is absent; a form whose content-type
\* was lost is not read.
MeantArgs ==
    SetThese(SetAll(<<>>, asked.query), asked.form,
             {i \in DOMAIN asked.form :
                 /\ asked.method = "POST" /\ "content-type" \notin short
                 /\ asked.type = "multipart" => asked.form[i][2] # <<>>})

Gave(pairs, name, value) == \E i \in DOMAIN pairs : pairs[i][1] = name /\ pairs[i][2] = value

\* A handler reads the path, the arguments and the cookies that the client
\* meant, whatever characters they hold and however they are escaped, cut into
\* parts or repeated (packet.c:234-258, 380-412, 430-442), if the fields have a
\* blank after the colon and memory lasted for the dictionaries.  Where it did not,
\* arguments and cookies may be missing or have an earlier value of their name
\* (packet.c:241, 288, 412, 441), but every one that is there has a value that the
\* client gave to that name.
ParsesBack ==
    pkt =>
        /\ tmp.uri = asked.path
        /\ \A k \in DOMAIN tmp.args :
              Gave(asked.query, k, tmp.args[k]) \/ Gave(asked.form, k, tmp.args[k])
        /\ \A k \in DOMAIN tmp.cookies : Gave(asked.cookies, k, tmp.cookies[k])
        /\ asked.blank /\ "argument" \notin short => tmp.args = MeantArgs
        /\ asked.blank /\ short \cap {"cookie", "cookies"} = {} =>
              tmp.cookies = SetAll(<<>>, asked.cookies)

\* A multipart form that parse_content refuses: it does not end with its boundary
\* and CRLF, or the content-length that says where it ends was lost.  It passes
\* unread when the content-type was lost.
BadForm ==
    /\ asked.method = "POST" /\ asked.blank /\ "content-type" \notin short
    /\ \/ asked.type = "unended"
       \/ asked.type = "multipart" /\ "content-length" \in short

\* The faults of a request, as a client may be told of them.  A url that does
\* not fit at all is a malformed line to sscanf.
Faults ==
    {c \in {BAD_REQUEST} :
        asked.cut \/ Len(Url(asked)) > MaxUrl \/ Lines(asked) = <<>> \/ BadForm}
    \cup {c \in {METHOD_NOT_ALLOWED} : asked.method \notin {"GET", "HEAD", "POST"}}
    \cup {c \in {REQUEST_URI_TOO_LONG} : Len(Url(asked)) >= MaxUrl}
    \cup {c \in {VERSION_NOT_SUPPORTED} : asked.version \notin {"1.0", "1.1", "2.0"}}

\* A request without a fault is not refused, one with a fault is, and the status
\* names a fault it has or the lack of memory (packet.c:200-232, 267-277).  Two
\* failing allocations are not told: when the copy of the query fails the status is
\* anything (packet.c:478-480), and a field that could not be set is taken for
\* absent, so that a good form may be a bad request and a bad one pass (BadForm).
StatusFits ==
    stage = "done" =>
        IF "query" \in short THEN status = Unset
        ELSE IF short \cap {"dicts", "fields", "packet"} # {}
             THEN status = INSUFFICIENT_STORAGE
        ELSE IF Faults = {} THEN status = OK ELSE status \in Faults

\* A packet is returned with its three dictionaries and the status OK, or there
\* is none and nothing stays allocated (packet.c:518-522).
AllOrNothing ==
    stage = "done" =>
        /\ pkt <=> status = OK
        /\ dicts = IF pkt THEN {"args", "fields", "cookies"} ELSE {}

Extension(name) ==
    LET dot == SelectLastInSeq(name, LAMBDA c : c = ".")
    IN  IF dot = 0 THEN <<>> ELSE From(name, dot)

\* The names of a path that a file system would follow to its end: no ".." after
\* a name leads back over it.
Followed(items) ==
    LET names == {i \in DOMAIN items : items[i] \notin {<<".">>, <<".", ".">>}}
        ups   == {i \in DOMAIN items : items[i] = <<".", ".">>}
        kept  == {i \in names : \A j \in i .. Len(items) :
                     Cardinality(ups \cap i .. j) < Cardinality(names \cap i .. j)}
        place(k) == CHOOSE i \in kept : Cardinality(kept \cap 1 .. i) = k
    IN  [k \in 1 .. Cardinality(kept) |-> items[place(k)]]

\* A request for a static file is answered with the file that the names and dots of
\* its path lead to from static_path, none of them above it, and with the type of
\* its extension (server.c:145-151, string.c:287-339, file.c:98-144).  With two
\* slashes after static_uri_prefix the rest is an absolute path and static_path is
\* left out: the file is the one it leads to from the root (string.c:275).  When
\* memory for the real path was short nothing is said of the file (server.c:149).
StaticResolves ==
    LET rest  == From(asked.path, Len(Prefix) + 1)
        root  == IF StartsWith(rest, <<"/", "/">>) THEN <<>> ELSE TrimRight(StaticPath, "/")
        below == From(file, Len(root) + 1)
        names == Items(below, "/")
    IN  file # <<>> /\ "real" \notin short =>
            /\ StartsWith(file, root)
            /\ below = <<>> \/ StartsWith(below, <<"/">>)
            /\ names = Followed(Items(rest, "/"))
            /\ \A i \in DOMAIN MimeTypes :
                  /\ names # <<>> /\ Last(file) # "/"
                  /\ ToLower(Extension(Last(names))) = MimeTypes[i][1]
                  => GuessMimeType(file) = MimeTypes[i][2]

=============================================================================
