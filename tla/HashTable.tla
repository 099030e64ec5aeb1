----------------------------- MODULE HashTable -----------------------------
(***************************************************************************)
(* The hash table of oilcore (oilcore/hashtable.c): open addressing in     *)
(* 2^shift buckets, a first bucket taken modulo a prime, probing by growing *)
(* steps, tombstones for removed nodes, and a resize at the end of an      *)
(* insertion or a removal that leaves the table too full or too empty.     *)
(***************************************************************************)
EXTENDS Integers, FiniteSets

CONSTANTS
    HASH_TABLE_MIN_SHIFT,   \* the smallest table has 2^this buckets (3 in the code)
    Keys,                   \* contents of keys, as key_equal_func tells them apart
    Vals,                   \* values
    Hash,                   \* hash_func: key -> unsigned
    MaxNodes,               \* bound: data nodes in the table at a time
    NULL                    \* the null pointer

\* Up to 2^29 - 1 nodes the sizes, and the numbers of nodes times 4, fit an int
ASSUME HashTableAssumption ==
    /\ HASH_TABLE_MIN_SHIFT \in 1..30
    /\ Hash \in [Keys -> Nat]
    /\ MaxNodes \in Nat /\ MaxNodes < 2 ^ 29
    /\ NULL \notin Keys /\ NULL \notin Vals

\* The primes below the table sizes, from 1 << 0 to 1 << 31
prime_mod ==
    << 1, 2, 3, 7, 13, 31, 61, 127, 251, 509, 1021, 2039, 4093, 8191, 16381, 32749, 65521,
       131071, 262139, 524287, 1048573, 2097143, 4194301, 8388593, 16777213, 33554393,
       67108859, 134217689, 268435399, 536870909, 1073741789, 2147483647 >>

\* key_hash of a node that is not in use, and of a tombstone
Empty == 0
Tombstone == 1

HashNode == [key : Keys \cup {NULL}, value : Vals \cup {NULL}, key_hash : Nat]

EmptyNode == [key |-> NULL, value |-> NULL, key_hash |-> Empty]

VARIABLES
    live,        \* the table exists: made and not destroyed
    shift,       \* size is 2^shift, mod the prime below it, mask is size - 1
    nodes,       \* the buckets, [0, size) -> HashNode
    nnodes,      \* nodes holding data
    noccupied,   \* nnodes and tombstones
    key_alloc,   \* key objects handed to the table and not destroyed
    val_alloc    \* values handed to the table and not destroyed

vars == <<live, shift, nodes, nnodes, noccupied, key_alloc, val_alloc>>

-----------------------------------------------------------------------------
\* The hash a node stores: never the mark of an empty node or of a tombstone
HashValue(k) == IF Hash[k] <= 1 THEN 2 ELSE Hash[k]

\* Where the probe for a stored hash is after step increments in 2^s buckets
Probe(h, step, s) == ((h % prime_mod[s + 1]) + (step * (step + 1)) \div 2) % (2 ^ s)

Matches(node, k) == node.key_hash = HashValue(k) /\ node.key = k

\* The steps at which the probe for k stops: the first empty or matching
\* bucket.  A set: empty when the loop would never end.
StopStep(k) ==
    LET stops == {t \in 0..(2 ^ shift - 1) :
                    LET node == nodes[Probe(HashValue(k), t, shift)] IN
                    node.key_hash = Empty \/ Matches(node, k)}
    IN {t \in stops : \A u \in stops : t <= u}

\* _hash_table_lookup_node
LookupNode(k) == {Probe(HashValue(k), t, shift) : t \in StopStep(k)}

\* _hash_table_lookup_node_for_insertion: the matching node, else the first
\* tombstone met, else the empty node where the probe stops
LookupNodeForInsertion(k) ==
    LET stone(u) == nodes[Probe(HashValue(k), u, shift)].key_hash = Tombstone
        stop(t)  == Probe(HashValue(k), t, shift)
        chosen(t) ==
            IF Matches(nodes[stop(t)], k) \/ \A u \in 0..(t - 1) : ~ stone(u)
            THEN stop(t)
            ELSE stop(CHOOSE u \in 0..(t - 1) : stone(u) /\ \A w \in 0..(u - 1) : ~ stone(w))
    IN {chosen(t) : t \in StopStep(k)}

\* The buckets of a table that hold data
Live(table) == {i \in DOMAIN table : table[i].key_hash > Tombstone}

\* _hash_table_find_closest_shift: how many bits n has
ClosestShift(n) == CHOOSE b \in 0..n : n < 2 ^ b /\ (b = 0 \/ 2 ^ (b - 1) <= n)

\* A mistake: the table may become smaller than the smallest one
ShiftWithoutMinimum(n) == ClosestShift(n)

\* _hash_table_set_shift_from_size
ShiftFromSize(n) ==
    IF ClosestShift(n) < HASH_TABLE_MIN_SHIFT THEN HASH_TABLE_MIN_SHIFT ELSE ClosestShift(n)

\* In a new table of 2^s buckets, the first bucket on the probe of hash h that
\* is not among the taken ones
FirstFree(h, taken, s) ==
    Probe(h, CHOOSE t \in 0..(2 ^ s - 1) :
                 /\ Probe(h, t, s) \notin taken
                 /\ \A u \in 0..(t - 1) : Probe(h, u, s) \in taken, s)

\* A mistake: nodes that collide in the new table are written over each other
PlacementWithoutProbing(old, s) == [i \in Live(old) |-> FirstFree(old[i].key_hash, {}, s)]

\* The loop of _hash_table_resize: the buckets of the old table are visited in
\* order and each one that holds data is given the first free bucket of the
\* new table.  A function from old buckets to new ones.
Placement(old, s) ==
    LET p[i \in Live(old)] ==
            FirstFree(old[i].key_hash, {p[j] : j \in {k \in Live(old) : k < i}}, s)
    IN  p

\* The new table
Rehashed(old, s) ==
    LET p == Placement(old, s) IN
    [b \in 0..(2 ^ s - 1) |->
        IF \E i \in Live(old) : p[i] = b
        THEN old[CHOOSE i \in Live(old) : p[i] = b]
        ELSE EmptyNode]

\* A mistake: tombstones do not count when the table fills up
UnfitWithoutTombstones(n, o) ==
    LET size == 2 ^ shift IN
    \/ size > n * 4 /\ size > 2 ^ HASH_TABLE_MIN_SHIFT
    \/ size <= n + (n \div 16)

\* The test of _hash_table_maybe_resize: n nodes and o occupied buckets are too
\* few or too many
Unfit(n, o) ==
    LET size == 2 ^ shift IN
    \/ size > n * 4 /\ size > 2 ^ HASH_TABLE_MIN_SHIFT
    \/ size <= o + (o \div 16)

\* The end of an operation that leaves this table with n nodes and o occupied
\* buckets: _hash_table_maybe_resize and _hash_table_resize
MaybeResize(table, n, o) ==
    /\ nnodes' = n
    /\ IF Unfit(n, o)
       THEN /\ shift' = ShiftFromSize(n * 2)
            /\ nodes' = Rehashed(table, ShiftFromSize(n * 2))
            /\ noccupied' = n
       ELSE /\ nodes' = table
            /\ noccupied' = o
            /\ UNCHANGED shift

\* The table of hash_table_new
Fresh ==
    /\ live' = TRUE
    /\ shift' = HASH_TABLE_MIN_SHIFT
    /\ nodes' = [i \in 0..(2 ^ HASH_TABLE_MIN_SHIFT - 1) |-> EmptyNode]
    /\ nnodes' = 0
    /\ noccupied' = 0

-----------------------------------------------------------------------------
Init ==
    /\ live = TRUE
    /\ shift = HASH_TABLE_MIN_SHIFT
    /\ nodes = [i \in 0..(2 ^ HASH_TABLE_MIN_SHIFT - 1) |-> EmptyNode]
    /\ nnodes = 0
    /\ noccupied = 0
    /\ key_alloc = 0
    /\ val_alloc = 0

hash_table_new ==
    /\ live = FALSE
    /\ Fresh
    /\ UNCHANGED <<key_alloc, val_alloc>>

\* hash_table_insert, the key exists: the provided key and the old value are
\* destroyed, the node keeps its key
ReplaceValue(k, v) ==
    \E i \in LookupNodeForInsertion(k) :
        /\ nodes[i].key_hash > Tombstone
        /\ nodes' = [nodes EXCEPT ![i].value = v]
        /\ UNCHANGED <<live, shift, nnodes, noccupied, key_alloc, val_alloc>>

\* hash_table_insert, the key is new: a node is written over a tombstone, or
\* over an empty bucket, and only then the size is reconsidered
NewNode(k, v) ==
    \E i \in LookupNodeForInsertion(k) :
        LET table == [nodes EXCEPT ![i] = [key |-> k, value |-> v, key_hash |-> HashValue(k)]]
        IN
        /\ nodes[i].key_hash <= Tombstone
        /\ nnodes < MaxNodes
        /\ IF nodes[i].key_hash = Empty
           THEN MaybeResize(table, nnodes + 1, noccupied + 1)
           ELSE /\ nodes' = table
                /\ nnodes' = nnodes + 1
                /\ UNCHANGED <<shift, noccupied>>
        /\ key_alloc' = key_alloc + 1
        /\ val_alloc' = val_alloc + 1
        /\ UNCHANGED live

hash_table_insert(k, v) == live = TRUE /\ (ReplaceValue(k, v) \/ NewNode(k, v))

\* A mistake: the bucket of a removed node becomes empty
RemoveWithoutTombstone(k) ==
    /\ live = TRUE
    /\ \E i \in LookupNode(k) :
        /\ nodes[i].key_hash # Empty
        /\ MaybeResize([nodes EXCEPT ![i] = EmptyNode], nnodes - 1, noccupied - 1)
    /\ key_alloc' = key_alloc - 1
    /\ val_alloc' = val_alloc - 1
    /\ UNCHANGED live

\* hash_table_remove of a key that exists (else it returns 0): its key and
\* value are destroyed, a tombstone is erected, the size is reconsidered
hash_table_remove(k) ==
    /\ live = TRUE
    /\ \E i \in LookupNode(k) :
        /\ nodes[i].key_hash # Empty
        /\ MaybeResize([nodes EXCEPT ![i] = [EmptyNode EXCEPT !.key_hash = Tombstone]],
                       nnodes - 1, noccupied)
    /\ key_alloc' = key_alloc - 1
    /\ val_alloc' = val_alloc - 1
    /\ UNCHANGED live

\* A mistake: only the buckets of the smallest table are visited
DestroySome ==
    LET visited == {i \in Live(nodes) : i < 2 ^ HASH_TABLE_MIN_SHIFT} IN
    /\ key_alloc' = key_alloc - Cardinality(visited)
    /\ val_alloc' = val_alloc - Cardinality(visited)

\* _hash_table_remove_all_nodes destroys the key and the value of every bucket
\* that holds data
DestroyContents ==
    /\ key_alloc' = key_alloc - Cardinality(Live(nodes))
    /\ val_alloc' = val_alloc - Cardinality(Live(nodes))

hash_table_remove_all ==
    /\ live = TRUE
    /\ DestroyContents
    /\ MaybeResize([i \in DOMAIN nodes |-> EmptyNode], 0, 0)
    /\ UNCHANGED live

\* The memory is given back; what is left stands for no table at all
hash_table_destroy ==
    /\ live = TRUE
    /\ DestroyContents
    /\ live' = FALSE
    /\ nodes' = [i \in DOMAIN nodes |-> EmptyNode]
    /\ nnodes' = 0
    /\ noccupied' = 0
    /\ UNCHANGED shift

Next ==
    \/ hash_table_new
    \/ \E k \in Keys, v \in Vals : hash_table_insert(k, v)
    \/ \E k \in Keys : hash_table_remove(k)
    \/ hash_table_remove_all
    \/ hash_table_destroy

Spec == Init /\ [][Next]_vars

-----------------------------------------------------------------------------
\* What a lookup answers
hash_table_lookup(k) ==
    IF live = TRUE /\ \E i \in LookupNode(k) : nodes[i].key_hash # Empty
    THEN nodes[CHOOSE i \in LookupNode(k) : TRUE].value
    ELSE NULL

\* What the buckets hold
Contents ==
    [k \in Keys |->
        IF \E i \in Live(nodes) : nodes[i].key = k
        THEN nodes[CHOOSE i \in Live(nodes) : nodes[i].key = k].value
        ELSE NULL]

Abstract == INSTANCE Dict WITH dict <- Contents

-----------------------------------------------------------------------------
(* Properties *)

\* The fields have the types of struct HashTable.
TypeOK ==
    /\ live \in BOOLEAN
    /\ shift \in HASH_TABLE_MIN_SHIFT..30
    /\ nodes \in [0..(2 ^ shift - 1) -> HashNode]
    /\ nnodes \in Nat /\ noccupied \in Nat
    /\ key_alloc \in Int /\ val_alloc \in Int

\* A lookup answers what the table holds, and answers: a stored node is where the
\* probe for its key stops, a key that is not stored is not answered, and its
\* probe meets an empty bucket, however many tombstones, reuses of tombstones
\* and resizes came before.
StoredIsFound ==
    /\ \A i \in Live(nodes) :
          nodes[i].key_hash = HashValue(nodes[i].key) /\ LookupNode(nodes[i].key) = {i}
    /\ \A k \in Keys : StopStep(k) # {} /\ hash_table_lookup(k) = Contents[k]

\* nnodes and noccupied, from which a resize is decided, count what the buckets
\* hold: tombstones reused by an insertion are not counted twice, those dropped
\* by a resize are forgotten.  So between two operations the table is neither
\* too sparse nor full: the resize at the end of an operation went far enough.
CountsAgree ==
    /\ nnodes = Cardinality(Live(nodes))
    /\ noccupied = Cardinality({i \in DOMAIN nodes : nodes[i].key_hash # Empty})
    /\ 2 ^ shift <= nnodes * 4 \/ 2 ^ shift = 2 ^ HASH_TABLE_MIN_SHIFT \/ live = FALSE
    /\ noccupied + noccupied \div 16 < 2 ^ shift

\* Every key and value handed to the table is owned by one node or was
\* destroyed (what oilcore/tests/hashtable_test.c counts along one sequence of
\* calls).
Ownership == key_alloc = Cardinality(Live(nodes)) /\ val_alloc = Cardinality(Live(nodes))

\* The table is a dictionary: no sequence of collisions, tombstones, growth and
\* shrinking loses a key, revives one or answers another key's value.
ImplementsDict == Abstract!Spec
=============================================================================
