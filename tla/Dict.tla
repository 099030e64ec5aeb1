-------------------------------- MODULE Dict --------------------------------
(***************************************************************************)
(* What oilcore's hash table promises: a dictionary.  It does not exist    *)
(* before hash_table_new and after hash_table_destroy, when every lookup   *)
(* answers NULL.                                                            *)
(***************************************************************************)
CONSTANTS
    Keys,   \* contents of keys
    Vals,   \* values
    NULL    \* the null pointer, what a missing key looks up to

VARIABLE
    dict    \* key -> value, or NULL

Init == dict = [k \in Keys |-> NULL]

Insert(k, v) == dict' = [dict EXCEPT ![k] = v]

Remove(k) == /\ dict[k] # NULL
             /\ dict' = [dict EXCEPT ![k] = NULL]

RemoveAll == dict' = [k \in Keys |-> NULL]

Next == \/ \E k \in Keys, v \in Vals : Insert(k, v)
        \/ \E k \in Keys : Remove(k)
        \/ RemoveAll

Spec == Init /\ [][Next]_dict
=============================================================================
