------------------------------- MODULE Strings -------------------------------
(***************************************************************************)
(* src/utils/string.c and holy_guess_mime_type of src/utils/file.c as      *)
(* operators on sequences.  A string is the sequence of its characters; a  *)
(* character may stand for a word that the code never looks into.          *)
(***************************************************************************)
EXTENDS Integers, Sequences, SequencesExt

\* holy_memfind, holy_strnstr: where p is first found in s[from .. to], or 0.
Find(s, p, from, to) ==
    LET hits == {i \in from .. to + 1 - Len(p) :
                    SubSeq(s, i, i + Len(p) - 1) = p}
    IN  IF p = <<>> \/ hits = {} THEN 0 ELSE Min(hits)

From(s, i)     == SubSeq(s, i, Len(s))
Before(s, i)   == SubSeq(s, 1, i - 1)

\* What %[^c] of sscanf takes and strchr looks for: the part before c, or all.
Until(s, c) ==
    LET i == SelectInSeq(s, LAMBDA x : x = c)
    IN  IF i = 0 THEN s ELSE Before(s, i)

After(s, c) == From(s, Len(Until(s, c)) + 2)

TrimLeft(s, c) ==
    LET i == SelectInSeq(s, LAMBDA x : x # c) IN IF i = 0 THEN <<>> ELSE From(s, i)

TrimRight(s, c) == SubSeq(s, 1, SelectLastInSeq(s, LAMBDA x : x # c))

Trim(s, c) == TrimRight(TrimLeft(s, c), c)

StartsWith(s, p) == IsPrefix(p, s)

\* holy_str_ends_with runs from both ends down to p > prefix: the suffix's
\* first character is never compared.
EndsWith(s, p) == Len(s) >= Len(p) /\ IsSuffix(Tail(p), s)

\* What a loop over a text collects from place i on: head[i], and then what it
\* collects from next[i] on; nothing where there is no head.
Collect(head, next, i) ==
    LET rest[j \in Nat] ==
            IF j \in DOMAIN head THEN head[j] \o rest[next[j]] ELSE <<>>
    IN  rest[i]

\* foreach_item_in_str: the runs between separators, none of them empty.
Items(s, c) ==
    LET item == [i \in DOMAIN s |-> Until(From(s, i), c)]
    IN  Collect([i \in DOMAIN s |-> IF item[i] = <<>> THEN <<>> ELSE <<item[i]>>],
                [i \in DOMAIN s |-> i + Len(item[i]) + 1], 1)

\* A variant of holy_get_real_path: ".." at the top stays.
RealPathUnbounded(path) ==
    LET Step(kept, item) ==
            CASE item = <<".">>                        -> kept
              [] item = <<".", ".">> /\ kept # <<>>    -> Front(kept)
              [] OTHER                                 -> Append(kept, item)
        kept == FoldLeft(Step, <<>>, Items(path, "/"))
    IN  TrimRight(FlattenSeq([k \in DOMAIN kept |-> Append(kept[k], "/")]), "/")

\* holy_get_real_path: the names that are kept, and then one item more of the path.
Resolve(kept, item) ==
    IF item = <<".">> THEN kept
    ELSE IF item = <<".", ".">> THEN IF kept = <<>> THEN kept ELSE Front(kept)
    ELSE Append(kept, item)

\* holy_get_real_path: dots are resolved; ".." at the top is dropped.  An empty
\* path comes out empty, although the code looks at the byte before it.
RealPath(path) ==
    LET kept  == FoldLeft(Resolve, <<>>, Items(path, "/"))
        root  == IF StartsWith(path, <<"/">>) THEN <<"/">> ELSE <<>>
        whole == root \o FlattenSeq([k \in DOMAIN kept |-> Append(kept[k], "/")])
    IN  IF path = <<>> \/ Last(path) = "/" \/ Len(whole) <= 1 THEN whole
        ELSE Front(whole)

\* holy_join_path; an absolute second path is taken alone.
JoinPath(path1, path2) ==
    IF StartsWith(path2, <<"/">>) THEN path2
    ELSE TrimRight(TrimRight(path1, "/") \o <<"/">> \o path2, "/")

-----------------------------------------------------------------------------
(* file.c: the type of a file, by the first of these ends that its name,   *)
(* in lower case, has.                                                     *)

MimeTypes ==
    << <<<<".", "h", "t", "m", "l">>, "text/html">>,
       <<<<".", "h", "t", "m">>, "text/html">>,
       <<<<".", "c", "s", "s">>, "text/css">>,
       <<<<".", "j", "s">>, "application/x-javascript">>,
       <<<<".", "t", "x", "t">>, "text">>,
       <<<<".", "t", "e", "x", "t">>, "text">>,
       <<<<".", "l", "o", "g">>, "text">>,
       <<<<".", "i", "c", "o">>, "image/x-icon">>,
       <<<<".", "g", "i", "f">>, "image/gif">>,
       <<<<".", "j", "p", "g">>, "image/jpeg">>,
       <<<<".", "j", "p", "e", "g">>, "image/jpeg">>,
       <<<<".", "p", "d", "f">>, "application/pdf">>,
       <<<<".", "s", "w", "f">>, "application/x-shockwave-flash">>,
       <<<<".", "s", "v", "g">>, "image/svg+xml">>,
       <<<<".", "t", "i", "f", "f">>, "mage/tiff">>,
       <<<<".", "t", "i", "f">>, "mage/tiff">> >>

\* A capital and its small letter.
Small == [A |-> "a", B |-> "b", C |-> "c", D |-> "d", E |-> "e", F |-> "f", G |-> "g",
          H |-> "h", I |-> "i", J |-> "j", K |-> "k", L |-> "l", M |-> "m", N |-> "n",
          O |-> "o", P |-> "p", Q |-> "q", R |-> "r", S |-> "s", T |-> "t", U |-> "u",
          V |-> "v", W |-> "w", X |-> "x", Y |-> "y", Z |-> "z"]

\* holy_str2lower
ToLower(s) == [i \in DOMAIN s |-> IF s[i] \in DOMAIN Small THEN Small[s[i]] ELSE s[i]]

\* holy_guess_mime_type, where memory for the copy of the name lasts.
GuessMimeType(name) ==
    LET i == SelectInSeq(MimeTypes, LAMBDA e : EndsWith(ToLower(name), e[1]))
    IN  IF i = 0 THEN "application/octet-stream" ELSE MimeTypes[i][2]

=============================================================================
