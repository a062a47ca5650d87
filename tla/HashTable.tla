----------------------------- MODULE HashTable -----------------------------
(***************************************************************************)
(* The open-addressing table of src/ht.c.  The file holds it three times,  *)
(* for void pointers (ht_), builtins (bt_) and aliases (at_), in the same  *)
(* words; what is said here of the alias table holds for each of them.     *)
(*                                                                         *)
(* A grown table is allocated for new_cap pointers, room for half of      *)
(* its slots.  The other half lies beyond the allocation: reading or       *)
(* writing it is undefined, and the model follows the program no further   *)
(* ("overrun").  The field count is not initialised by at_new_at.          *)
(***************************************************************************)
EXTENDS Integers, FiniteSetsExt

CONSTANTS
  Key, Value,
  None,         (* NULL: an empty slot, the answer "not found"             *)
  Home(_, _),   (* ht_hash(key) & (capacity - 1)                           *)
  InitialSize,  (* the parameter of at_new_at                              *)
  CountRange,   (* the number of values of a size_t                        *)
  Garbage,      (* what malloc may have left in count                      *)
  MaxSize       (* bound: the table grows no further                       *)

ASSUME TableAssumption ==
  /\ InitialSize \in Nat \ {0} /\ MaxSize \in Nat /\ InitialSize <= MaxSize
  /\ MaxSize < CountRange /\ CountRange \in Nat
  /\ Garbage \subseteq 0 .. CountRange - 1
  /\ None \notin Value /\ None \notin [key : Key, value : Value]
  /\ \A k \in Key, c \in 1 .. MaxSize : Home(k, c) \in 0 .. c - 1

VARIABLES
  pc,       (* "idle", "moving" in at_blowup, "hung" or "overrun"          *)
  entries,  (* at->entries: the slots that are allocated                   *)
  size,     (* at->size                                                    *)
  count,    (* at->count                                                   *)
  old,      (* the entries before at_blowup                                *)
  oldSize,  (* and their number                                            *)
  moved,    (* i of at_blowup                                              *)
  pending,  (* arguments of the at_set that called at_blowup               *)
  answer    (* what at_get returned last, or the pair at_set stored last   *)

growing == <<old, oldSize, moved, pending>>
vars == <<pc, entries, size, count, growing, answer>>

Entry == [key : Key, value : Value]

-----------------------------------------------------------------------------
(* The slot a probe for k looks at after d others, in a table of c slots,  *)
(* and the distances at which such a probe ends.                           *)
Slot(k, d) == (Home(k, size) + d) % size

Ends(k) == {d \in 0 .. size - 1 :
  \/ Slot(k, d) \notin DOMAIN entries
  \/ entries[Slot(k, d)] = None
  \/ entries[Slot(k, d)].key = k}

(* A probe of a full table for a key it does not hold goes round forever.  *)
Endless(k) == Ends(k) = {}
Target(k) == Slot(k, Min(Ends(k)))
Beyond(k) == ~Endless(k) /\ Target(k) \notin DOMAIN entries
Within(k) == ~Endless(k) /\ Target(k) \in DOMAIN entries

Fails(k) ==
  /\ \/ Endless(k) /\ pc' = "hung"
     \/ Beyond(k) /\ pc' = "overrun"
  /\ UNCHANGED <<entries, size, count, growing, answer>>

(* Variants of the steps below with a plausible mistake.  They are no part *)
(* of Next: they serve to see that the properties notice the mistake.      *)
Insert_KeepsOld(k, v) ==
  /\ entries' = [entries EXCEPT ![Target(k)] =
                   IF @ = None THEN [key |-> k, value |-> v] ELSE @]
  /\ count' = IF entries[Target(k)] = None THEN (count + 1) % CountRange ELSE count
  /\ answer' = [key |-> k, value |-> v]

Insert_NoCount(k, v) ==
  /\ entries' = [entries EXCEPT ![Target(k)] = [key |-> k, value |-> v]]
  /\ answer' = [key |-> k, value |-> v]
  /\ UNCHANGED count

Insert_KeyOnly(k, v) ==
  /\ entries' = [entries EXCEPT ![Target(k)] =
                   [key |-> k, value |-> IF @ = None THEN None ELSE @.value]]
  /\ count' = IF entries[Target(k)] = None THEN (count + 1) % CountRange ELSE count
  /\ answer' = [key |-> k, value |-> v]

(* at_set_internal with plength: a new key is counted, a known one gets    *)
(* the new value.                                                          *)
Insert(k, v) ==
  /\ entries' = [entries EXCEPT ![Target(k)] = [key |-> k, value |-> v]]
  /\ count' = IF entries[Target(k)] = None THEN (count + 1) % CountRange ELSE count
  /\ answer' = [key |-> k, value |-> v]

(* at_set up to at_blowup, which allocates the larger table and moves on   *)
(* to fill it; or all of at_set when there is no need to grow.             *)
SetInPlace(k, v) ==
  /\ pc = "idle" /\ count < size
  /\ \/ Within(k) /\ Insert(k, v) /\ UNCHANGED <<pc, size, growing>>
     \/ Fails(k)

SetGrows(k, v) ==
  /\ pc = "idle" /\ count >= size
  /\ (3 * size) \div 2 <= MaxSize
  /\ pc' = "moving"
  /\ size' = (3 * size) \div 2
  /\ entries' = [i \in 0 .. size' \div 2 - 1 |-> None]
  /\ old' = entries /\ oldSize' = size /\ moved' = 0
  /\ pending' = [key |-> k, value |-> v]
  /\ UNCHANGED <<count, answer>>

Move_SameSlot ==
  /\ pc = "moving" /\ moved < oldSize
  /\ moved \in DOMAIN old \cap DOMAIN entries
  /\ entries' = [entries EXCEPT ![moved] = old[moved]]
  /\ moved' = moved + 1
  /\ UNCHANGED <<pc, size, count, old, oldSize, pending, answer>>

(* One turn of the loop of at_blowup; at_set_internal without plength. *)
Move ==
  /\ pc = "moving" /\ moved < oldSize
  /\ \/ /\ moved \notin DOMAIN old
        /\ pc' = "overrun"
        /\ UNCHANGED <<entries, size, count, growing, answer>>
     \/ /\ moved \in DOMAIN old /\ old[moved] = None
        /\ moved' = moved + 1
        /\ UNCHANGED <<pc, entries, size, count, old, oldSize, pending, answer>>
     \/ /\ moved \in DOMAIN old /\ old[moved] # None
        /\ \/ /\ Within(old[moved].key)
              /\ entries' = [entries EXCEPT ![Target(old[moved].key)] = old[moved]]
              /\ moved' = moved + 1
              /\ UNCHANGED <<pc, size, count, old, oldSize, pending, answer>>
           \/ Fails(old[moved].key)

(* Back in at_set. *)
SetAfterGrowth ==
  /\ pc = "moving" /\ moved = oldSize
  /\ \/ /\ Within(pending.key)
        /\ Insert(pending.key, pending.value)
        /\ pc' = "idle"
        /\ UNCHANGED <<size, growing>>
     \/ Fails(pending.key)

Get(k) ==
  /\ pc = "idle"
  /\ \/ /\ Within(k)
        /\ answer' = IF entries[Target(k)] = None THEN None ELSE entries[Target(k)].value
        /\ UNCHANGED <<pc, entries, size, count, growing>>
     \/ Fails(k)

(* at_new_at *)
Init ==
  /\ pc = "idle"
  /\ size = InitialSize
  /\ entries = [i \in 0 .. InitialSize - 1 |-> None]
  /\ count \in Garbage
  /\ old = <<>> /\ oldSize = 0 /\ moved = 0
  /\ pending = None
  /\ answer = None

Stuck == pc \in {"hung", "overrun"} /\ UNCHANGED vars

Next ==
  \/ \E k \in Key, v \in Value : SetInPlace(k, v) \/ SetGrows(k, v)
  \/ Move
  \/ SetAfterGrowth
  \/ \E k \in Key : Get(k)
  \/ Stuck

Spec == Init /\ [][Next]_vars
-----------------------------------------------------------------------------
(* Properties.                                                             *)

TypeOK ==
  /\ pc \in {"idle", "moving", "hung", "overrun"}
  /\ size \in 1 .. MaxSize
  /\ \E n \in 0 .. size : entries \in [0 .. n - 1 -> Entry \cup {None}]
  /\ count \in 0 .. CountRange - 1
  /\ oldSize \in 0 .. MaxSize /\ moved \in 0 .. oldSize
  /\ pending \in Entry \cup {None}
  /\ answer \in Value \cup Entry \cup {None}

(* Every stored key is where a probe for it ends, also while the table is  *)
(* being moved; so no key is stored twice and none is cut off from its     *)
(* home slot by an empty one.                                              *)
EachKeyFound ==
  \A i \in DOMAIN entries :
    entries[i] # None => Within(entries[i].key) /\ Target(entries[i].key) = i

(* The table is a dictionary: a get returns the value set last for its     *)
(* key, whatever collided and whatever was moved, and nothing is lost by   *)
(* growing, up to the moment the program hangs or leaves its allocation.   *)
ToBeMoved == {i \in DOMAIN old : i >= moved}

Stored ==
  ({entries[i] : i \in DOMAIN entries} \cup {old[i] : i \in ToBeMoved}) \ {None}

Contents == [k \in Key |->
  IF \E e \in Stored : e.key = k
  THEN (CHOOSE e \in Stored : e.key = k).value ELSE None]

Promise == INSTANCE Dictionary WITH contents <- Contents

IsDictionary == Promise!Spec

(* ht.c says of at_get "Returns value on success and NULL when not found"; *)
(* for a key that is not in a full table it does not return at all.        *)
(* Nothing else hangs: a probe never ends only in a table that never grew  *)
(* and whose slots are all taken, and only for a get, since at_set would   *)
(* have grown the table: count is never below the number of taken slots,   *)
(* even if it started as garbage.                                          *)
HangsOnlyWhenFull ==
  pc = "hung" =>
    /\ DOMAIN entries = 0 .. InitialSize - 1 /\ size = InitialSize
    /\ \A i \in DOMAIN entries : entries[i] # None
    /\ count >= size

(* ht.h on at_new_at: "this is automatically realloc'd in the case that    *)
(* too many elements are passed".                                          *)
GrowsSafely == pc # "overrun"
=============================================================================
