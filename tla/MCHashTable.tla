---------------------------- MODULE MCHashTable ----------------------------
(* Instances of HashTable for TLC.                                         *)
EXTENDS HashTable, Bitwise, TLC

CONSTANTS k1, k2, k3, k4, v1, v2

FourKeys == {k1, k2, k3, k4}
TwoValues == {v1, v2}

(* Hashes that collide, in part only after the table has grown.  The mask  *)
(* of a capacity that is no power of two skips some slots.                 *)
Hash == k1 :> 4 @@ k2 :> 6 @@ k3 :> 1 @@ k4 :> 6
Masked(k, capacity) == Hash[k] & (capacity - 1)

(* Zero, a value that makes the table grow too early, and one that wraps.  *)
SomeGarbage == {0, 1, 4, 31}
ZeroOnly == {0}
=============================================================================
