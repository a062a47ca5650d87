------------------------------- MODULE Tokens -------------------------------
(***************************************************************************)
(* A line of input as the shell sees it: a sequence of characters, of      *)
(* which only the delimiters of wsh_tokenize (src/prompt.c) matter.        *)
(***************************************************************************)
EXTENDS Integers, Sequences, FiniteSetsExt

CONSTANT Space   (* any character of TOK_DELIM *)

(* strtok overwrites the delimiter that ends a token by the terminating    *)
(* NUL.  What is left of the line, read as a string, ends with its first   *)
(* token; a line without a delimiter behind a token is left as it is.      *)
FirstTokenEnds(line) ==
  {i \in DOMAIN line : line[i] = Space /\ \E k \in 1 .. i - 1 : line[k] # Space}

Tokenized(line) ==
  IF FirstTokenEnds(line) = {} THEN line
  ELSE SubSeq(line, 1, Min(FirstTokenEnds(line)) - 1)
=============================================================================
