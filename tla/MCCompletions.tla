--------------------------- MODULE MCCompletions ---------------------------
(* An instance of Completions for TLC.                                     *)
EXTENDS Completions

(* Commands with a common prefix, and one that is the prefix of a file.    *)
SomeCommands == {<<1, 2>>, <<1, 3, 1>>, <<2>>}

(* A command, continuations and a prefix of one, and a name with a capital *)
(* letter.                                                                 *)
SomeFiles == {<<2>>, <<1>>, <<1, 2, 2>>, <<1, 3, 1>>, <<1, 2, 1>>, <<3>>, <<0, 1>>, <<1, 2>>}
=============================================================================
