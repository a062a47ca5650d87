---------------------------- MODULE HistoryList ----------------------------
(***************************************************************************)
(* What the command history promises its user: the lines entered so far,   *)
(* newest first, each without a repeat of the one before, and the arrow    *)
(* keys walking up and down that list.                                     *)
(*                                                                         *)
(* A line is kept as wsh_tokenize leaves it, see Tokens.  The promise ends *)
(* when the list has grown to HistMax lines (see History).                 *)
(***************************************************************************)
EXTENDS Tokens

CONSTANTS Lines, HistMax

VARIABLES
  log,     (* the lines kept, newest first                                 *)
  cursor,  (* the line recalled last, 0 when none is                       *)
  text,    (* the line being edited                                        *)
  full     (* the list has grown to HistMax lines                          *)

vars == <<log, cursor, text, full>>

Init == log = <<>> /\ cursor = 0 /\ text = <<>> /\ full = FALSE

Edit == text' \in Lines /\ UNCHANGED <<log, cursor, full>>

Recall(k) ==
  /\ cursor' = k
  /\ text' = IF k = 0 THEN <<>> ELSE log[k]
  /\ UNCHANGED <<log, full>>

Older == cursor < Len(log) /\ Recall(cursor + 1)
Newer == cursor > 0 /\ Recall(cursor - 1)

Enter ==
  /\ log' = IF text = <<>> \/ (log # <<>> /\ text = Head(log)) THEN log
            ELSE <<Tokenized(text)>> \o log
  /\ UNCHANGED full
  /\ cursor' = 0
  /\ text' = <<>>

Next == Edit \/ Older \/ Newer \/ Enter

(* The line that fills the list ends the promise. *)
Overflow == full' /\ (full \/ Len(log) + 1 >= HistMax)

Spec == Init /\ [][Next \/ Overflow]_vars
=============================================================================
