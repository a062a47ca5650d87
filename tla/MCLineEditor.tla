---------------------------- MODULE MCLineEditor ----------------------------
(* An instance of LineEditor for TLC.                                      *)
EXTENDS LineEditor

(* One letter: a short name and one that is longer than the first buffer.  *)
SomeNames == {<<1, 1>>, <<1, 1, 1, 1>>}

(* A line that just fits into the first buffer, and one that just does not *)
(* fit, as an earlier call with a larger buffer leaves it.                 *)
SomeLogs == {<<<<Other, 1>>, <<1, 1, 1>>>>}
=============================================================================
