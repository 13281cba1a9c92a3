------------------------------- MODULE MCHash -------------------------------
(* Small instances of Hash for TLC. *)
EXTENDS Hash

CONSTANTS k1, k2, k3, k4

MCKeys == {k1, k2, k3, k4}

\* k1, k2 and k3 meet in the first slot of the first table, k1 and k4 in that of
\* the second one; k1 and k3 have the same chain in the first table.
MCHashOf == [k \in MCKeys |-> CASE k = k1 -> 0 [] k = k2 -> 5
                           [] k = k3 -> 15 [] k = k4 -> 7]

\* hash.c
MCHashSets == << [entries |-> 2, size |-> 5, rehash |-> 3],
                 [entries |-> 4, size |-> 7, rehash |-> 5],
                 [entries |-> 8, size |-> 13, rehash |-> 11] >>

=============================================================================
