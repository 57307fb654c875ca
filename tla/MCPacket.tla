------------------------------ MODULE MCPacket ------------------------------
(***************************************************************************)
(* Requests for TLC: each set varies one part of a plain request.          *)
(***************************************************************************)
EXTENDS Packet

MCHex == [c \in {"a", "b", "&", "=", "%", "+", " ", "?"} |->
             CASE c = "a" -> <<"6", "1">> [] c = "b" -> <<"6", "2">>
               [] c = "&" -> <<"2", "6">> [] c = "=" -> <<"3", "D">>
               [] c = "%" -> <<"2", "5">> [] c = "+" -> <<"2", "B">>
               [] c = " " -> <<"2", "0">> [] OTHER   -> <<"3", "F">>]

MCChar == Words \cup HexDigit \cup DOMAIN MCHex
              \cup {".", "static", "d", "x", "j", "s", "h", "t", "m", "l", "J", "S"}

MCPrefix     == <<"/", "static", "/">>
MCStaticPath == <<"s", "/", "d">>

\* What the stack may hold where a path should be.
MCGarbage == {<<>>, <<"/", "x">>, <<".", ".", "/", "x">>}

Plain == [method |-> "GET", path |-> <<"/", "a">>, query |-> <<>>, style |-> "form",
          version |-> "1.1", cut |-> FALSE, host |-> TRUE, blank |-> TRUE,
          type |-> "none", form |-> <<>>, cookies |-> <<>>]

Seqs(S, m, n) == UNION {[1 .. k -> S] : k \in m .. n}

\* Arguments: one of any characters, or two or three of few.
Names  == Seqs({"a", "&", "=", "%", "+", " "}, 1, 2)
Values == Seqs({"a", "&", "=", "%", "+", " ", "?"}, 0, 1) \cup {<<"%", "a">>, <<"b", "=">>}
Few    == {<<"a">>, <<"b">>} \X {<<>>, <<"&">>, <<"a">>}
Args   == {<<p>> : p \in Names \X Values} \cup Seqs(Few, 2, 3)

Queries == {[Plain EXCEPT !.query = q, !.style = s, !.method = m] :
               q \in Args, s \in {"form", "percent"}, m \in {"GET"}}

Urlencodeds ==
    {[Plain EXCEPT !.method = m, !.type = t, !.form = f, !.query = q] :
        m \in {"POST", "HEAD"}, t \in {"urlencoded", "bare"}, f \in Seqs(Few, 1, 2), q \in Seqs(Few, 0, 1)}

\* Forms with data that looks like what is around it.
Datum   == {CRLF, "--", "B", "name=\"", "x"}
Fields1 == {<<"a">>} \X Seqs(Datum, 0, 4)
Fields2 == {<<"a">>, <<"b">>} \X {<<>>, <<"x">>, <<CRLF, CRLF>>, <<CRLF, "--">>, <<"--", "B">>}
Forms   == {<<p>> : p \in Fields1 \cap Part} \cup Seqs(Fields2 \cap Part, 2, 3)
Multiparts ==
    {[Plain EXCEPT !.method = "POST", !.type = "multipart", !.form = f] : f \in Forms}
    \cup {[Plain EXCEPT !.method = m, !.type = "unended", !.form = f] :
             m \in {"GET", "POST"}, f \in Seqs(Fields2 \cap Part, 1, 2)}
    \cup {[Plain EXCEPT !.method = "POST", !.type = "multipart", !.form = <<f>>,
                        !.query = <<p>>, !.blank = b] :
             f \in Fields2 \cap Part, p \in Few, b \in BOOLEAN}

Cookied == {[Plain EXCEPT !.cookies = k, !.host = h] :
               h \in BOOLEAN,
               k \in Seqs({<<"a">>, <<"b">>, <<"a", " ", "b">>} \X {<<>>, <<"x">>, <<"=">>}, 1, 3)}

\* Paths of a static file, and urls up to and beyond the longest.
Segment == {<<"a">>, <<".">>, <<".", ".">>, <<"a", ".", "j", "s">>, <<"b", ".", "h", "t", "m", "l">>,
            <<".", "t", "x", "t">>}
Statics == {[Plain EXCEPT !.path = MCPrefix \o slash \o Join(names, <<"/">>) \o end] :
               slash \in {<<>>, <<"/">>, <<"/", "/">>},
               names \in Seqs(Segment, 1, 4) \cup {<<<<"a", ".", "J", "S">>>>},
               end \in {<<>>, <<"/">>, <<"/", "/", "a">>}}
           \cup {[Plain EXCEPT !.path = MCPrefix]}
Longs   == {[Plain EXCEPT !.path = [i \in 1 .. n |-> "a"], !.query = q] :
               n \in MaxUrl - 5 .. MaxUrl + 1, q \in {<<>>, <<<<<<"a">>, <<"b">>>>>>}}

Faulty == {[Plain EXCEPT !.method = m, !.version = v, !.cut = c, !.host = h, !.path = p] :
              m \in {"GET", "HEAD", "POST", "PUT"}, v \in {"0.9", "1.0", "1.1", "2.0"},
              c \in BOOLEAN, h \in BOOLEAN,
              p \in {<<"/">>, [i \in 1 .. MaxUrl |-> "a"]}}

MCAsked ==
    Queries \cup Urlencodeds \cup Multiparts \cup Cookied \cup Statics \cup Longs \cup Faulty

=============================================================================
