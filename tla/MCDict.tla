------------------------------- MODULE MCDict -------------------------------
EXTENDS Dict

CONSTANTS v1, v2

\* Two buckets; the integer keys 0 and 2 and the string "a" share one of them.
MCKey ==
    {[t |-> "int", v |-> 0], [t |-> "int", v |-> 2], [t |-> "int", v |-> 3],
     [t |-> "str", v |-> "a"], [t |-> "str", v |-> "b"]}
MCValue == {v1, v2}
MCStrHash == [s \in {"a", "b"} |-> IF s = "a" THEN 4 ELSE 7]

=============================================================================
