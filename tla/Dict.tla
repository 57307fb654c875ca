-------------------------------- MODULE Dict --------------------------------
(***************************************************************************)
(* src/utils/dict.c and src/utils/tlv.c: the hash table behind the         *)
(* connections, sessions, routes, cookies, headers, arguments, data sets   *)
(* and caches of HolyHttp.                                                 *)
(*                                                                         *)
(* A key is an integer or a string.  A bucket is a list; a new pair goes   *)
(* to its tail.  A pair is three blocks of memory: the node, the key and   *)
(* the value.  Any allocation of a call may fail.                          *)
(***************************************************************************)
EXTENDS Integers, Sequences, FiniteSets

CONSTANTS
    Key,        \* keys: records [t |-> "int" or "str", v |-> ...]
    Value,      \* values
    NULL,
    Size,       \* DICT_HASH_SIZE
    StrHash     \* holy_bkdr_hash

ASSUME DictAssumption ==
    /\ Size \in Nat \ {0}
    /\ \A k \in Key : k.t \in {"int", "str"}
    /\ \A k \in Key : k.t = "int" => k.v \in Nat
    /\ \A k \in Key : k.t = "str" => StrHash[k.v] \in Nat
    /\ NULL \notin Value
    /\ NULL \notin BOOLEAN

VARIABLES
    kvs,        \* dict_t.kvs: the pairs of each bucket in order
    count,      \* dict_t.count
    blocks,     \* blocks of memory the table has allocated and not freed
    ret         \* what the last set or get returned

vars == <<kvs, count, blocks, ret>>

Bucket == 0 .. Size - 1

\* holy_tlv_hash & DICT_HASH_MASK.
Hash(k) == (IF k.t = "int" THEN k.v ELSE StrHash[k.v]) % Size

Pair == [key : Key, value : Value]

Has(k) == \E i \in DOMAIN kvs[Hash(k)] : kvs[Hash(k)][i].key = k

\* dict_find: the position of k in its bucket.
Position(k) == CHOOSE i \in DOMAIN kvs[Hash(k)] : kvs[Hash(k)][i].key = k

\* list_del of the i-th pair of a bucket.
Removed(chain, i) ==
    [j \in 1 .. Len(chain) - 1 |-> IF j < i THEN chain[j] ELSE chain[j + 1]]

Without(k) ==
    IF Has(k) THEN Removed(kvs[Hash(k)], Position(k)) ELSE kvs[Hash(k)]

Present == {k \in Key : Has(k)}

TypeOK ==
    /\ kvs \in [Bucket -> Seq(Pair)]
    /\ count \in Nat
    /\ blocks \in Nat
    /\ ret \in Value \cup BOOLEAN \cup {NULL}

Init ==
    /\ kvs = [b \in Bucket |-> <<>>]
    /\ count = 0 /\ blocks = 0
    /\ ret = NULL

-----------------------------------------------------------------------------

\* Variant: the old pair of the key is not looked for.
SetKeepsOld(k, v) ==
    /\ kvs' = [kvs EXCEPT ![Hash(k)] = Append(@, [key |-> k, value |-> v])]
    /\ count' = count + 1
    /\ blocks' = blocks + 3
    /\ ret' = TRUE

\* set_type_type and dict_set: the key, the value and the node are allocated,
\* an old pair of the key is removed, the new one is appended.
Set(k, v) ==
    /\ kvs' = [kvs EXCEPT ![Hash(k)] = Append(Without(k), [key |-> k, value |-> v])]
    /\ count' = (IF Has(k) THEN count - 1 ELSE count) + 1
    /\ blocks' = blocks + 3 - (IF Has(k) THEN 3 ELSE 0)
    /\ ret' = TRUE

\* Variant: the old pair is removed before the new node is allocated.
SetFailsAfterRemoval(k) ==
    /\ kvs' = [kvs EXCEPT ![Hash(k)] = Without(k)]
    /\ count' = IF Has(k) THEN count - 1 ELSE count
    /\ blocks' = IF Has(k) THEN blocks - 3 ELSE blocks
    /\ ret' = FALSE

\* One of the three allocations fails, and those made before it are freed.
SetFails(k) ==
    /\ ret' = FALSE
    /\ UNCHANGED <<kvs, count, blocks>>

\* get_type_type.
Get(k) ==
    /\ ret' = IF Has(k) THEN kvs[Hash(k)][Position(k)].value ELSE NULL
    /\ UNCHANGED <<kvs, count, blocks>>

\* The probe key cannot be allocated.
GetFails ==
    /\ ret' = NULL
    /\ UNCHANGED <<kvs, count, blocks>>

\* Variant: the count goes down whether or not the key is found.
DelCountsMisses(k) ==
    /\ ~(k.t = "int" /\ k.v = 0)
    /\ kvs' = [kvs EXCEPT ![Hash(k)] = Without(k)]
    /\ count' = count - 1
    /\ blocks' = IF Has(k) THEN blocks - 3 ELSE blocks
    /\ UNCHANGED ret

\* del_by_str, del_by_int: the integer key 0 is never deleted.
Del(k) ==
    /\ ~(k.t = "int" /\ k.v = 0)
    /\ kvs' = [kvs EXCEPT ![Hash(k)] = Without(k)]
    /\ count' = IF Has(k) THEN count - 1 ELSE count
    /\ blocks' = IF Has(k) THEN blocks - 3 ELSE blocks
    /\ UNCHANGED ret

\* dict_clear: every pair is removed.
Clear ==
    /\ kvs' = [b \in Bucket |-> <<>>]
    /\ count' = count - Cardinality(Present)
    /\ blocks' = blocks - 3 * Cardinality(Present)
    /\ UNCHANGED ret

Next ==
    \/ \E k \in Key, v \in Value : Set(k, v)
    \/ \E k \in Key : SetFails(k) \/ Get(k) \/ Del(k)
    \/ GetFails
    \/ Clear

Spec == Init /\ [][Next]_vars

-----------------------------------------------------------------------------

\* Whatever the order of the calls and wherever memory runs out: every pair is
\* in the bucket of its key, no key is there twice, and count and the blocks
\* in use are those of the pairs that are there (dict.c:26-33, 89-142).
InOwnBucket ==
    \A b \in Bucket : \A i \in DOMAIN kvs[b] : Hash(kvs[b][i].key) = b
KeysUnique ==
    \A b \in Bucket : \A i, j \in DOMAIN kvs[b] :
        kvs[b][i].key = kvs[b][j].key => i = j
TableExact ==
    /\ InOwnBucket
    /\ KeysUnique
    /\ count = Cardinality(Present)
    /\ blocks = 3 * count

\* A dict_t is a finite map: a get returns what the last successful set of the
\* key stored, and a set that fails keeps the old value (dict.c:89-160).
M == INSTANCE Map WITH
        map <- [k \in Present |-> kvs[Hash(k)][Position(k)].value]
ImplementsMap == M!Spec

=============================================================================
