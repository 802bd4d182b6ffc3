---------------------------- MODULE MCHashTable ----------------------------
(* Model-checking instance of HashTable: three keys share a chain. *)
EXTENDS HashTable

CONSTANTS k1, k2, k3, k4

MCHash == (k1 :> 2) @@ (k2 :> 2) @@ (k3 :> 2) @@ (k4 :> 1)

Symmetry == Permutations(Addrs) \cup Permutations(Pointers) \cup Permutations({k1, k2, k3})
=============================================================================
