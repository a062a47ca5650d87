----------------------------- MODULE EditedLine -----------------------------
(***************************************************************************)
(* What the line editor promises its user: a line and a cursor in it.      *)
(* Characters overwrite what is at the cursor, Tab puts spaces behind a    *)
(* blank and continues the last word otherwise, the arrow keys move in the *)
(* line and in the history, and Enter returns what is before the cursor.   *)
(*                                                                         *)
(* The promise ends when the editor met dirty memory, stored a NUL as a    *)
(* character or lost its place in the buffer (see LineEditor).             *)
(***************************************************************************)
EXTENDS Integers, SequencesExt

CONSTANTS
  Typed,     (* the characters a key may stand for                         *)
  Space,
  Indent,    (* how many spaces a tab stands for                           *)
  Names,     (* the names a word may be completed to                       *)
  Logs       (* what the history may hold: lines, the newest first         *)

VARIABLES
  log,       (* the history, fixed                                         *)
  text,
  cursor,    (* how many characters of text are before it                  *)
  recalled,  (* the line recalled last, 0 when none is                     *)
  returned,
  ended      (* the promise has ended                                      *)

vars == <<log, text, cursor, recalled, returned, ended>>

Init ==
  /\ log \in Logs
  /\ text = <<>> /\ cursor = 0
  /\ recalled = 0
  /\ returned = FALSE /\ ended \in BOOLEAN

LineIs(s, c) ==
  /\ text' = s /\ cursor' = c
  /\ UNCHANGED <<log, recalled, returned, ended>>

Overwrite(s) ==
  LineIs(SubSeq(text, 1, cursor) \o s \o SubSeq(text, cursor + Len(s) + 1, Len(text)),
         cursor + Len(s))

Type == \E c \in Typed : Overwrite(<<c>>)

AfterBlank == text = <<>> \/ (cursor > 0 /\ text[cursor] = Space)

TabSpaces ==
  /\ AfterBlank \/ cursor = 0
  /\ Overwrite([k \in 1 .. Indent |-> Space])

TabCompletes ==
  /\ ~AfterBlank
  /\ \E n \in 0 .. Len(text), word \in Names \cup {<<>>} :
       LET last == SubSeq(text, n + 1, Len(text)) IN
       /\ n = 0 \/ text[n] = Space
       /\ \A k \in DOMAIN last : last[k] # Space
       /\ LET s == IF IsPrefix(last, word) THEN SubSeq(text, 1, n) \o word ELSE text
          IN LineIs(s, Len(s))

Backspace ==
  /\ cursor > 0 /\ cursor = Len(text)
  /\ LineIs(Front(text), cursor - 1)

Left == cursor > 0 /\ LineIs(text, cursor - 1)
Right == cursor < Len(text) /\ LineIs(text, cursor + 1)

Recall(k) ==
  /\ k \in 0 .. Len(log)
  /\ recalled' = k
  /\ text' = IF k = 0 THEN <<>> ELSE log[k]
  /\ cursor' = Len(text')
  /\ UNCHANGED <<log, returned, ended>>

Up == Recall(recalled + 1)
Down == recalled > 0 /\ Recall(recalled - 1)

Enter ==
  /\ text' = SubSeq(text, 1, cursor)
  /\ returned' = TRUE
  /\ UNCHANGED <<log, cursor, recalled, ended>>

Next ==
  /\ ~returned
  /\ Type \/ TabSpaces \/ TabCompletes \/ Backspace \/ Left \/ Right \/ Up \/ Down \/ Enter

Spec == Init /\ [][Next \/ ended']_vars
=============================================================================
