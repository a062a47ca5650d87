----------------------------- MODULE MCHistory -----------------------------
(* Instances of History for TLC.                                           *)
EXTENDS History, TLC

CONSTANTS a1, a2, a3, a4, a5, x, y

(* One address more than the list should ever need.                        *)
FiveAddr == {a1, a2, a3, a4, a5}

(* An empty line, two commands, and one of them with an argument.          *)
SomeLines == {<<>>, <<x>>, <<y>>, <<x, Space, y>>}

(* The addresses are only compared with each other.                        *)
AddrSymmetry == Permutations(Addr)
=============================================================================
