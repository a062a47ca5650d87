--------------------------- MODULE MCCommandLine ---------------------------
(* An instance of CommandLine for TLC.                                     *)
EXTENDS CommandLine

UpTo(n, S) == UNION {[1 .. m -> S] : m \in 0 .. n}

SomeWords == {"p", "a", "<", ">", ">>", "&", "=", "~", "*", "alias", "jobs", "splash", "/bin/p", "/home"}

(* A word, an alias name, redirects and "&" in any order; longer lines     *)
(* with fewer of them.                                                     *)
ShortLines == UpTo(3, {"p", "a", "<", ">", ">>", "&"})
LongLines == UNION {[1 .. 4 -> {"p", "<", ">", ">>", "&"}], [1 .. 5 -> {"p", "<", ">"}]}

(* Definitions, one that is refused, and one that redefines "alias".       *)
AliasLines ==
  {<<"alias", "a", "=">> \o words : words \in UpTo(2, {"p", "&", "a"})}
    \cup {<<"alias", "a", "p", "p">>, <<"alias", "alias", "=", "p">>}

OtherLines ==
  {<<"~">>, <<"p", "~">>, <<"~", "p", "p", "~">>, <<"*">>, <<"p", "*">>, <<"p", "a", "*", "a">>,
   <<"p", "p", "p", "~">>, <<"jobs", ">", "p">>, <<"splash">>, <<"/bin/p", "/bin/p">>, <<"p", "a", "a", "p">>,
   <<"p", "a", "a", "~">>, <<"p", "p", "p", "p", "a", "p", "p", "p", "p", "p">>}

SomeLines == ShortLines \cup LongLines \cup AliasLines \cup OtherLines

SomeBase == [t \in {"/bin/p"} |-> "p"]
=============================================================================
