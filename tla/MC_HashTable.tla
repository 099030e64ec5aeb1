---------------------------- MODULE MC_HashTable ----------------------------
(* Small instances of HashTable for TLC. *)
EXTENDS HashTable

\* Keys whose stored hashes collide: 0 and 1 are stored as 2 like "c"; 2 and 5
\* share the first of 4 buckets.
CollidingKeys == {"a", "b", "c", "d", "e"}
CollidingHash ==
    [k \in CollidingKeys |->
        CASE k = "a" -> 0 [] k = "b" -> 1 [] k = "c" -> 2 [] k = "d" -> 5 [] k = "e" -> 3]
=============================================================================
