----------------------------- MODULE MCTemplate -----------------------------
EXTENDS Template

\* A name a, a loop variable's name x, and a list l of values or of records.
MCOrder == <<"0", "1", "a", "l", "n", "x", ":for:x", ":for:y">>
MCSettings ==
    {<<<<"a">>, "9">>, <<<<"x">>, "10">>}
    \cup {<<"l", i>> : i \in {"0", "1"}} \X {"10", "09"}
    \cup {<<"l", i, "n">> : i \in {"0", "1"}} \X {"10", "09"}
MCAlias == [x |-> ":for:x", y |-> ":for:y"]

\* Numbers whose order as text is another one, and two that are equal.
MCNumber == [s \in {"9", "09", "10"} |-> IF s = "10" THEN 10 ELSE 9]
MCTextOrder ==
    <<Word("09"), Word("10"), Word("9"), Name(<<"a">>), Name(<<"x">>)>>

Leaf == {Text(<<Word("w")>>), Text(<<Name(<<"x">>), Name(<<"a">>)>>),
         Text(<<Name(<<"x", "n">>), Name(<<"y">>), Name(<<"y", "n">>)>>)}

Ifs(Op, S) == {If(Name(<<"x">>), op, Name(<<"a">>), <<e>>, no) : op \in Op,
                  e \in S, no \in {<<>>, <<Text(<<Name(<<"x">>)>>)>>}}

Loops(x, S) == {For(x, <<"l">>, <<e>>) : e \in S}

\* Every operator; blocks in blocks, and pairs of elements of which one is a
\* block.
Tests == Ifs({"=", "!=", ">", "<", ">=", "<="}, {Text(<<Word("w")>>)})
Inner == Leaf \cup Ifs({"=", "<"}, Leaf)
Outer == Loops("x", Inner \cup Loops("y", Leaf)) \cup Ifs({"=", "<"}, Loops("x", Leaf))

MCTemplates ==
    {<<e>> : e \in Outer \cup Inner \cup Tests \cup Loops("x", Tests)}
    \cup {<<e, f>> : e \in Outer, f \in Leaf}
    \cup {<<For("x", <<"l">>, <<e, f>>)>> :
             e \in Ifs({"=", "<"}, Leaf) \cup Loops("y", Leaf),
             f \in Leaf \cup Loops("y", Leaf)}

=============================================================================
