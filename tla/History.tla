------------------------------ MODULE History ------------------------------
(***************************************************************************)
(* The command history of the shell: the doubly linked list of             *)
(* src/history.c in the heap, and the keys of get_line (src/prompt.c) that *)
(* read and extend it.                                                     *)
(*                                                                         *)
(* A node keeps a pointer to the very buffer that get_line returns, and    *)
(* wsh_tokenize then writes into that buffer.  pop_back frees the last     *)
(* node and leaves the pointer to it in place.                             *)
(***************************************************************************)
EXTENDS Tokens

CONSTANTS
  Addr,      (* addresses at which malloc may place a node                 *)
  Null,
  Lines,     (* what a user may have typed when pressing a key             *)
  HistMax,   (* HIST_MAX                                                   *)
  MaxCount   (* bound: nothing is pushed once count reaches it             *)

ASSUME HistoryAssumption ==
  /\ IsFiniteSet(Addr) /\ Null \notin Addr
  /\ <<>> \in Lines /\ \A line \in Lines : Tokenized(line) \in Lines
  /\ HistMax \in Nat \ {0}
  /\ MaxCount \in Nat

VARIABLES
  status,    (* "reading" in get_line; "hung" or "crashed" over the list;  *)
             (* "overrun": a key left the buffer of get_line               *)
  node,      (* the heap: command, next and prev at each address           *)
  live,      (* the addresses malloc returned and free did not take back   *)
  first,     (* h->first                                                   *)
  curr,      (* h->curr                                                    *)
  count,     (* h->count                                                   *)
  text,      (* buffer of get_line                                         *)
  recalling, (* hist_iter                                                  *)
  entered    (* the line pushed last, as it was entered                    *)

list == <<node, live, first, count, entered>>
vars == <<status, list, curr, text, recalling>>

(* The nodes that following next from the head passes, Null once it ended. *)
walk[k \in 0 .. Cardinality(Addr)] ==
  IF k = 0 THEN first
  ELSE IF walk[k - 1] = Null THEN Null ELSE node[walk[k - 1]].next

Passed == {walk[k] : k \in 0 .. Cardinality(Addr)} \ {Null}
Endless == walk[Cardinality(Addr)] # Null

-----------------------------------------------------------------------------
(* pop_back: freed is what it leaves allocated.  A list without an end has *)
(* no outcome here, the loop does not return (Hang).  Nodes that were      *)
(* freed before are read as free left them.                                *)
PopBack(freed) ==
  /\ ~Endless
  /\ \E last \in Passed : node[last].next = Null /\ freed = live \ {last}

(* Variants of the steps below with a plausible mistake.  They are no part *)
(* of Next: they serve to see that the properties notice the mistake.      *)
Link_NoBack(new, command) ==
  /\ node' = [node EXCEPT ![new] = [command |-> command, next |-> first, prev |-> Null]]
  /\ first' = new

(* The new node of h_push becomes the head of the list. *)
Link(new, command) ==
  /\ node' = [a \in Addr |->
       IF a = new THEN [command |-> command, next |-> first, prev |-> Null]
       ELSE IF a = first THEN [node[a] EXCEPT !.prev = new]
       ELSE node[a]]
  /\ first' = new

(* strcmp(buffer, hist->first->command) on a history that is not empty. *)
IsNew == text # <<>> /\ (count > 0 => text # node[first].command)

(* get_line is called again: a fresh buffer, and nothing recalled. *)
NextLine == text' = <<>> /\ recalling' = FALSE /\ curr' = Null

EnterNew_CountsTwice ==
  /\ status = "reading" /\ IsNew /\ count < MaxCount
  /\ count' = count + 2
  /\ \E freed \in SUBSET live, new \in Addr :
       /\ IF count' >= HistMax THEN PopBack(freed) ELSE freed = live
       /\ new \notin freed
       /\ live' = freed \cup {new}
       /\ Link(new, Tokenized(text))
  /\ entered' = text
  /\ NextLine
  /\ UNCHANGED status

EnterNew_PopsEarly ==
  /\ status = "reading" /\ IsNew /\ count < MaxCount
  /\ count' = count + 1
  /\ \E freed \in SUBSET live, new \in Addr :
       /\ IF count' + 1 >= HistMax THEN PopBack(freed) ELSE freed = live
       /\ new \notin freed
       /\ live' = freed \cup {new}
       /\ Link(new, Tokenized(text))
  /\ entered' = text
  /\ NextLine
  /\ UNCHANGED status

(* h_push, then wsh_tokenize on the same buffer. *)
EnterNew ==
  /\ status = "reading" /\ IsNew /\ count < MaxCount
  /\ count' = count + 1
  /\ \E freed \in SUBSET live, new \in Addr :
       /\ IF count' >= HistMax THEN PopBack(freed) ELSE freed = live
       /\ new \notin freed
       /\ live' = freed \cup {new}
       /\ Link(new, Tokenized(text))
  /\ entered' = text
  /\ NextLine
  /\ UNCHANGED status

(* An empty line, or a repeat. *)
EnterOld ==
  /\ status = "reading" /\ ~IsNew
  /\ NextLine
  /\ UNCHANGED <<status, list>>

(* The loop of pop_back runs in a circle. *)
Hang ==
  /\ status = "reading" /\ IsNew /\ count < MaxCount
  /\ count + 1 >= HistMax /\ Endless
  /\ status' = "hung"
  /\ UNCHANGED <<list, curr, text, recalling>>

(* A node that was freed is freed again or read: the C library may abort,  *)
(* or the memory holds something else by now.                              *)
Crash ==
  /\ status = "reading"
  /\ \/ IsNew /\ count < MaxCount /\ count + 1 >= HistMax /\ ~(Passed \subseteq live)
     \/ recalling /\ node[curr].next \in Addr \ live
  /\ status' = "crashed"
  /\ UNCHANGED <<list, curr, text, recalling>>

(* Down clears eight times the size of the buffer, a recalled line may be  *)
(* longer than it, and a tab may find it full: when a key writes outside,  *)
(* or looks for the end of a string there, is what LineEditor is about.    *)
(* Here any key may, and what the heap is then nobody can say.             *)
Overrun ==
  /\ status = "reading"
  /\ status' = "overrun"
  /\ UNCHANGED <<list, curr, text, recalling>>

(* Characters, backspace, tab, left and right leave some line. *)
Edit ==
  /\ status = "reading"
  /\ text' \in Lines
  /\ UNCHANGED <<status, list, curr, recalling>>

Recall_Previous(a) ==
  /\ curr' = a
  /\ text' = IF recalling THEN node[curr].command ELSE node[a].command
  /\ recalling' = TRUE
  /\ UNCHANGED <<status, list>>

(* The line of node a replaces the one being edited. *)
Recall(a) ==
  /\ curr' = a
  /\ text' = node[a].command
  /\ recalling' = TRUE
  /\ UNCHANGED <<status, list>>

Up ==
  /\ status = "reading" /\ first # Null
  /\ \/ ~recalling /\ Recall(first)
     \/ recalling /\ node[curr].next # Null /\ Recall(node[curr].next)

Down ==
  /\ status = "reading" /\ first # Null /\ recalling
  /\ \/ node[curr].prev # Null /\ Recall(node[curr].prev)
     \/ /\ node[curr].prev = Null /\ text # <<>>
        /\ text' = <<>>
        /\ recalling' = FALSE
        /\ UNCHANGED <<status, list, curr>>

Init ==
  /\ status = "reading"
  /\ node = [a \in Addr |-> [command |-> <<>>, next |-> Null, prev |-> Null]]
  /\ live = {}
  /\ first = Null
  /\ curr = Null
  /\ count = 0
  /\ text = <<>>
  /\ recalling = FALSE
  /\ entered = <<>>

Stuck == status # "reading" /\ UNCHANGED vars

Next ==
  \/ EnterNew \/ EnterOld \/ Hang \/ Crash \/ Overrun
  \/ Edit \/ Up \/ Down
  \/ Stuck

Spec == Init /\ [][Next]_vars
-----------------------------------------------------------------------------
(* Properties.                                                             *)

TypeOK ==
  /\ status \in {"reading", "hung", "crashed", "overrun"}
  /\ node \in [Addr -> [command : Lines, next : Addr \cup {Null}, prev : Addr \cup {Null}]]
  /\ live \subseteq Addr
  /\ first \in Addr \cup {Null} /\ curr \in Addr \cup {Null}
  /\ count \in 0 .. MaxCount
  /\ text \in Lines /\ entered \in Lines
  /\ recalling \in BOOLEAN

(* Until HistMax lines were pushed the list is a proper doubly linked one: *)
(* it ends, holds count nodes that are all allocated, and prev undoes      *)
(* next; whatever is recalled is one of them.                              *)
DoublyLinked ==
  count < HistMax =>
    /\ ~Endless
    /\ Passed = live /\ Cardinality(Passed) = count
    /\ \A a \in Passed : node[a].next # Null => node[node[a].next].prev = a
    /\ first # Null => node[first].prev = Null
    /\ recalling => curr \in Passed

(* As long as every key stays in the buffer of get_line, the list fails    *)
(* only after HistMax lines: before that pop_back neither runs in a circle *)
(* nor frees a node twice, and Up never reads a node that was freed.       *)
FailsOnlyWhenFull == status \in {"hung", "crashed"} => count >= HistMax

(* Until then the history and its keys do what HistoryList promises: the   *)
(* k-th press of Up brings back the k-th newest line, as tokenizing left   *)
(* it, and Down goes back the same way.                                    *)
Position == IF recalling THEN CHOOSE k \in 1 .. count : walk[k - 1] = curr ELSE 0

Promise == INSTANCE HistoryList WITH
  log    <- IF count < HistMax THEN [k \in 1 .. count |-> node[walk[k - 1]].command] ELSE <<>>,
  cursor <- IF count < HistMax THEN Position ELSE 0,
  full   <- count >= HistMax

KeepsPromise == Promise!Spec

(* get_line: "we also don't want to add repeats (ie, if the current buffer *)
(* matches the most recent command don't add it)".                         *)
NoRepeats == [][count' > count => text # entered]_vars

(* history.h: "store 30 most recent commands": however many were pushed, a *)
(* walk from the head ends and meets allocated nodes only, at most HistMax.*)
StoresMostRecent ==
  ~Endless /\ Passed \subseteq live /\ Cardinality(Passed) <= HistMax
=============================================================================
