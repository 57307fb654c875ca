--------------------------------- MODULE Map ---------------------------------
(***************************************************************************)
(* What a dict_t promises its users: a finite map.  A call either takes    *)
(* effect as a whole or, when memory is short, changes nothing; the result *)
(* of the last call is in ret.                                             *)
(***************************************************************************)
CONSTANTS Key, Value, NULL

VARIABLES
    map,    \* the pairs, a function on the keys that are present
    ret     \* TRUE or FALSE from a set, a value or NULL from a get

vars == <<map, ret>>

Init == map = [k \in {} |-> NULL] /\ ret = NULL

Set(k, v) ==
    /\ map' = [j \in DOMAIN map \cup {k} |-> IF j = k THEN v ELSE map[j]]
    /\ ret' = TRUE

SetFails == map' = map /\ ret' = FALSE

Get(k) ==
    /\ map' = map
    /\ ret' = IF k \in DOMAIN map THEN map[k] ELSE NULL

GetFails == map' = map /\ ret' = NULL

Del(k) ==
    /\ map' = [j \in DOMAIN map \ {k} |-> map[j]]
    /\ ret' = ret

Clear == map' = [k \in {} |-> NULL] /\ ret' = ret

Next ==
    \/ \E k \in Key, v \in Value : Set(k, v)
    \/ SetFails
    \/ \E k \in Key : Get(k)
    \/ GetFails
    \/ \E k \in Key : Del(k)
    \/ Clear

Spec == Init /\ [][Next]_vars

=============================================================================
