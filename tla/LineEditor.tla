----------------------------- MODULE LineEditor -----------------------------
(***************************************************************************)
(* One call of get_line (src/prompt.c): the bytes of its buffer, the       *)
(* position in it, and the keys that change them.                          *)
(*                                                                         *)
(* malloc and realloc do not clear what they return, and characters are    *)
(* stored without a terminating NUL: how far strlen reads depends on what  *)
(* the memory held before.  A byte is a letter (1 for 'a' and so on),      *)
(* Space, Other for any other character, Nul, or Junk: left over from      *)
(* before, and none of these.                                              *)
(*                                                                         *)
(* Where the code does something undefined with no bounded outcome the     *)
(* model ends, with a status that says what it was.                        *)
(***************************************************************************)
EXTENDS Integers, SequencesExt

CONSTANTS
  Alphabet,  (* the number of letters, ALPHABET_S                          *)
  Names,     (* the names in the trie of completions                       *)
  Logs,      (* what the history may hold: lines, the newest first         *)
  RlBfs,     (* RL_BFS                                                     *)
  Indent,    (* how many spaces a tab stands for                           *)
  MaxSize    (* bound: the buffer does not grow beyond it                  *)

Letters == 1 .. Alphabet
Space == 0
Nul == -1
Other == Alphabet + 1
Junk == Alphabet + 2

Typed == Letters \cup {Space, Other}
Byte == Typed \cup {Nul, Junk}

ASSUME LineEditorAssumption ==
  /\ Alphabet \in Nat /\ Names \subseteq Seq(Letters)
  /\ RlBfs \in Nat \ {0} /\ Indent \in Nat /\ MaxSize \in Nat
  /\ \A lines \in Logs : lines \in Seq(Seq(Typed))

VARIABLES
  size,      (* bufsize                                                    *)
  buf,       (* the bytes of buffer, 0 .. size - 1                         *)
  pos,
  log,       (* the history, fixed during the call                         *)
  recalled,  (* which line of it is hist->curr, 0 when hist_iter is 0      *)
  status,    (* "reading", "returned"; "overrun": a write outside the      *)
             (* buffer, "runaway": a string without an end was read,       *)
             (* "index": a character that is no letter was looked up       *)
  past       (* what has happened during this call, see the ghosts below   *)

vars == <<size, buf, pos, log, recalled, status, past>>

(* Ghosts: memory held junk; the cursor or a completion went through junk; *)
(* the spaces of a tab filled the buffer; Backspace hid text behind it; a  *)
(* NUL was typed.                                                          *)
Ghosts == {"junk", "crossed", "full", "tail", "nul"}
Sign(ghost, condition) == IF condition THEN {ghost} ELSE {}
Happened(ghost, condition) == past' = past \cup Sign(ghost, condition)

-----------------------------------------------------------------------------
(* Strings in the buffer.                                                  *)

Ends == {k \in 0 .. size - 1 : buf[k] = Nul}
strlen == Min(Ends)
Text == [k \in 1 .. strlen |-> buf[k - 1]]

(* The buffer with s stored at position p, and s alone in it. *)
Put(s, p) == [k \in 0 .. size - 1 |-> IF k \in p .. p + Len(s) - 1 THEN s[k - p + 1] ELSE buf[k]]
Alone(s) == [k \in 0 .. size - 1 |-> IF k < Len(s) THEN s[k + 1] ELSE Nul]

Spaces(s) == {k \in DOMAIN s : s[k] = Space}

LastWord_WithSpace(s) ==
  IF Spaces(s) = {} THEN s ELSE SubSeq(s, Max(Spaces(s)), Len(s))

(* strrchr(buffer, ' ') and behind it. *)
LastWord(s) ==
  IF Spaces(s) = {} THEN s ELSE SubSeq(s, Max(Spaces(s)) + 1, Len(s))

(* The strings that lead to a node of the trie. *)
Paths == UNION {Prefixes(name) : name \in Names} \cup {<<>>}

(* What completionOf finds, see CompletesFirst of Completions: the first   *)
(* name, in dictionary order, that continues the word.                     *)
Trie == INSTANCE Completions WITH
  Commands <- Names, Files <- {}, pc <- "command",
  nodes <- Paths, leaf <- Names, listed <- TRUE, listing <- {}, stayed <- {}

completionOf(word) ==
  LET names == {name \in Names : IsPrefix(word, name)} IN
  IF names = {} THEN {word}
  ELSE {name \in names : \A other \in names : Trie!Precedes(name, other)}

(* completionOf comes to a character that is no letter. *)
Wanders(word) ==
  \E k \in DOMAIN word : word[k] \notin Letters /\ SubSeq(word, 1, k - 1) \in Paths

-----------------------------------------------------------------------------
(* The keys.                                                               *)

Reading == status = "reading"
Fits(n, p) == p + n <= size

Fails(why) == status' = why /\ UNCHANGED <<size, buf, pos, log, recalled, past>>

(* A write outside an array that may do harm or not. *)
MayOverrun == status' \in {"reading", "overrun"}

(* What malloc and realloc return. *)
Fresh(slots) == [slots -> {Nul, Junk}]
Dirty(memory) == \E k \in DOMAIN memory : memory[k] = Junk

(* Variants with a plausible mistake; they are no part of Next and serve   *)
(* to see that the properties notice the mistake.                          *)
StoreCharacter_GrowsLate(c) ==
  /\ pos' = pos + 1
  /\ \/ /\ pos' <= size
        /\ buf' = Put(<<c>>, pos)
        /\ Happened("nul", c = Nul)
        /\ UNCHANGED size
     \/ /\ pos' > size
        /\ size' = size + RlBfs /\ size' <= MaxSize
        /\ \E more \in Fresh(size .. size' - 1) :
             /\ buf' = [k \in 0 .. size' - 1 |-> IF k < size THEN Put(<<c>>, pos)[k] ELSE more[k]]
             /\ past' = past \cup Sign("nul", c = Nul) \cup Sign("junk", Dirty(more))

(* buffer[pos++] = c, and the end of the loop: realloc when the buffer is full. *)
StoreCharacter(c) ==
  /\ pos' = pos + 1
  /\ \/ /\ pos' < size
        /\ buf' = Put(<<c>>, pos)
        /\ Happened("nul", c = Nul)
        /\ UNCHANGED size
     \/ /\ pos' >= size
        /\ size' = size + RlBfs /\ size' <= MaxSize
        /\ \E more \in Fresh(size .. size' - 1) :
             /\ buf' = [k \in 0 .. size' - 1 |-> IF k < size THEN Put(<<c>>, pos)[k] ELSE more[k]]
             /\ past' = past \cup Sign("nul", c = Nul) \cup Sign("junk", Dirty(more))

(* Any character, a NUL among them (Ctrl-@ or Ctrl-Space); also an escape  *)
(* that begins no arrow key.                                               *)
Type ==
  /\ Reading
  /\ \/ /\ Fits(1, pos)
        /\ \E c \in Typed \cup {Nul} : StoreCharacter(c)
        /\ UNCHANGED <<log, recalled, status>>
     \/ ~Fits(1, pos) /\ Fails("overrun")

Enter_NoEnd ==
  /\ Reading
  /\ status' = "returned"
  /\ UNCHANGED <<size, buf, pos, log, recalled, past>>

(* Enter or end of file: the line ends at the cursor. *)
Enter ==
  /\ Reading
  /\ \/ /\ Fits(1, pos)
        /\ buf' = Put(<<Nul>>, pos)
        /\ status' = "returned"
        /\ UNCHANGED <<size, pos, log, recalled, past>>
     \/ ~Fits(1, pos) /\ Fails("overrun")

(* A NUL takes the place of the character before the cursor.  It hides     *)
(* what is behind it until another character takes the place of the NUL.   *)
Backspace ==
  /\ Reading /\ pos > 0
  /\ \/ /\ Ends # {}
        /\ pos' = pos - 1
        /\ buf' = Put(<<Nul>>, pos')
        /\ Happened("tail", pos < strlen)
        /\ UNCHANGED <<size, log, recalled, status>>
     \/ Ends = {} /\ Fails("runaway")

Left_Unchecked ==
  /\ Reading
  /\ pos' = pos - 1
  /\ UNCHANGED <<size, buf, log, recalled, status, past>>

Left ==
  /\ Reading /\ pos > 0
  /\ pos' = pos - 1
  /\ UNCHANGED <<size, buf, log, recalled, status, past>>

Right ==
  /\ Reading
  /\ \/ /\ Ends # {} /\ pos < strlen
        /\ pos' = pos + 1
        /\ Happened("crossed", "junk" \in past)
        /\ UNCHANGED <<size, buf, log, recalled, status>>
     \/ Ends = {} /\ Fails("runaway")
-----------------------------------------------------------------------------
(* The k-th line of the history replaces the one being edited, whatever    *)
(* its length.                                                             *)
Recall(k) ==
  \/ /\ Ends # {} /\ Fits(Len(log[k]) + 1, 0)
     /\ buf' = Alone(log[k])
     /\ pos' = Len(log[k])
     /\ recalled' = k
     /\ UNCHANGED <<size, log, status, past>>
  \/ Ends # {} /\ ~Fits(Len(log[k]) + 1, 0) /\ Fails("overrun")
  \/ Ends = {} /\ Fails("runaway")

Up ==
  /\ Reading /\ recalled < Len(log)
  /\ Recall(recalled + 1)

DownToEmpty_KeepsPos ==
  /\ Ends # {} /\ strlen > 0
  /\ buf' = Alone(<<>>)
  /\ recalled' = 0
  /\ MayOverrun
  /\ UNCHANGED <<size, pos, log, past>>

(* The memset clears bufsize * sizeof(char * ) bytes. *)
DownToEmpty ==
  \/ /\ Ends # {} /\ strlen > 0
     /\ buf' = Alone(<<>>)
     /\ pos' = 0 /\ recalled' = 0
     /\ MayOverrun
     /\ UNCHANGED <<size, log, past>>
  \/ Ends = {} /\ Fails("runaway")

Down ==
  /\ Reading
  /\ \/ recalled > 1 /\ Recall(recalled - 1)
     \/ recalled = 1 /\ DownToEmpty

(* What a tab finds in buffer[pos - 1], which may be outside the buffer. *)
Before == IF pos = 0 THEN {Space, Other} ELSE {buf[pos - 1]}

TabSpaces_OneShort ==
  /\ Reading
  /\ Space \in Before \/ (Ends # {} /\ strlen = 0)
  /\ Fits(Indent, pos)
  /\ pos' = pos + Indent
  /\ buf' = Put([k \in 1 .. Indent - 1 |-> Space], pos)
  /\ Happened("full", pos' = size)
  /\ UNCHANGED <<size, log, recalled, status>>

(* Behind a blank, or in an empty line: spaces, stored without the check   *)
(* that grows the buffer.                                                  *)
TabSpaces ==
  /\ Reading
  /\ Space \in Before \/ (Ends # {} /\ strlen = 0)
  /\ \/ /\ Fits(Indent, pos)
        /\ pos' = pos + Indent
        /\ buf' = Put([k \in 1 .. Indent |-> Space], pos)
        /\ Happened("full", pos' = size)
        /\ UNCHANGED <<size, log, recalled, status>>
     \/ ~Fits(Indent, pos) /\ Fails("overrun")

(* s, which ends with what the trie has for the last word, replaces the    *)
(* text.  The array for the prefix is one byte shorter than the word with  *)
(* its NUL, and the continuation goes into it as well.                     *)
Complete(s) ==
  \/ /\ Fits(Len(s) + 1, 0)
     /\ buf' = Put(Append(s, Nul), 0)
     /\ pos' = Len(s)
     /\ MayOverrun
     /\ Happened("crossed", "junk" \in past)
     /\ UNCHANGED <<size, log, recalled>>
  \/ ~Fits(Len(s) + 1, 0) /\ Fails("overrun")

TabCompletes ==
  /\ Reading
  /\ \E c \in Before : c # Space
  /\ \/ /\ Ends # {} /\ strlen > 0
        /\ LET word == LastWord(Text)
               rest == SubSeq(Text, 1, strlen - Len(word))
           IN \/ ~Wanders(word) /\ \E s \in completionOf(word) : Complete(rest \o s)
              \/ Wanders(word) /\ Fails("index")
     \/ Ends = {} /\ Fails("runaway")

Init ==
  /\ size = RlBfs
  /\ buf \in Fresh(0 .. size - 1)
  /\ pos = 0
  /\ log \in Logs
  /\ recalled = 0
  /\ status = "reading"
  /\ past = IF Dirty(buf) THEN {"junk"} ELSE {}

Done == ~Reading /\ UNCHANGED vars

Next ==
  \/ Type \/ Enter \/ Backspace \/ Left \/ Right
  \/ Up \/ Down \/ TabSpaces \/ TabCompletes
  \/ Done

Spec == Init /\ [][Next]_vars
-----------------------------------------------------------------------------
(* Properties.                                                             *)

TypeOK ==
  /\ size \in Nat /\ buf \in [0 .. size - 1 -> Byte]
  /\ pos \in 0 .. size
  /\ log \in Logs /\ recalled \in 0 .. Len(log)
  /\ status \in {"reading", "returned", "overrun", "runaway", "index"}
  /\ past \subseteq Ghosts

(* However the keys are mixed and whatever the memory held, the cursor     *)
(* does not pass the end of the string, so that Enter returns all that is  *)
(* before it.  The only key that takes it there is a NUL, which get_line   *)
(* stores like any other character.                                        *)
Inside == \A k \in 0 .. pos - 1 : buf[k] # Nul

CursorInLine == [][Inside => Inside' \/ (Type /\ buf'[pos] = Nul)]_vars

(* A character, Enter, Backspace, Left and Right never write outside the   *)
(* buffer and always leave room for the next character, and a completion   *)
(* that fits does so too; only the spaces of a tab may use the room up.    *)
OnlyTabUsesRoom ==
  [][/\ status' = "overrun" => pos >= size \/ Up \/ Down \/ TabSpaces \/ TabCompletes
     /\ pos' >= size' => pos >= size \/ TabSpaces]_vars

(* In memory that was clear no string function runs off the buffer, unless *)
(* the spaces of a tab have filled it to the last byte.                    *)
StringsEnd == status = "runaway" => past \cap {"junk", "full"} # {}

(* A line that is returned holds what was typed, recalled or completed and *)
(* nothing that the memory held before, unless Right or Tab went through   *)
(* it.                                                                     *)
NoJunkReturned == status = "returned" /\ "crossed" \notin past => \A k \in 0 .. pos - 1 : buf[k] # Junk

(* The trie is asked for a character that is no letter only when there is  *)
(* one in the line other than the spaces between its words.                *)
IndexOnlyByOther == status = "index" => \E k \in 0 .. strlen - 1 : buf[k] \in {Other, Junk}

(* In clear memory, as long as no NUL was typed, no tab has filled the     *)
(* buffer and Backspace was used at the end of the line only, the bytes do *)
(* what EditedLine promises.                                               *)
Kept == past = {} /\ status \in {"reading", "returned"}

Promise == INSTANCE EditedLine WITH
  text     <- IF Kept THEN Text ELSE <<>>,
  cursor   <- IF Kept THEN pos ELSE 0,
  returned <- status = "returned",
  ended    <- ~Kept

KeepsPromise == Promise!Spec
=============================================================================
