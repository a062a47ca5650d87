----------------------------- MODULE Dictionary -----------------------------
(***************************************************************************)
(* What a hash table of ht.c promises: a partial function from keys to     *)
(* values that a set changes at one key and a get reads.                   *)
(***************************************************************************)
CONSTANTS Key, Value, None

VARIABLES
  contents,  (* the value kept for each key, None for a key never set      *)
  answer     (* the value the last get found, or the pair set last         *)

vars == <<contents, answer>>

Init == contents = [k \in Key |-> None] /\ answer = None

Set(k, v) == contents' = [contents EXCEPT ![k] = v] /\ answer' = [key |-> k, value |-> v]
Get(k) == answer' = contents[k] /\ UNCHANGED contents

Next == \E k \in Key : Get(k) \/ \E v \in Value : Set(k, v)

Spec == Init /\ [][Next]_vars
=============================================================================
