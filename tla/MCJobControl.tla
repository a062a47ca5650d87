---------------------------- MODULE MCJobControl ----------------------------
(* Instances of JobControl for TLC.                                        *)
EXTENDS JobControl

CONSTANTS p1, p2, p3
ThreePids == {p1, p2, p3}
TwoPids   == {p1, p2}

(* Pids are only compared with each other: any permutation of them maps    *)
(* behaviours to behaviours.                                               *)
PidSymmetry == Permutations(Pids)
=============================================================================
