-------------------------- MODULE HashTableProofs --------------------------
(***************************************************************************)
(* Proofs about HashTable: for any keys, values and hash function, any     *)
(* size, and whatever malloc left in count.                                *)
(*                                                                         *)
(* The lemmas speak of a table tab of n slots, so that they can be used of *)
(* the table before a step and of the one after it.                        *)
(***************************************************************************)
EXTENDS HashTable, Extremes, FiniteSetTheorems

SlotIn(n, k, d) == (Home(k, n) + d) % n

EndsAt(tab, n, k, d) ==
  \/ SlotIn(n, k, d) \notin DOMAIN tab
  \/ tab[SlotIn(n, k, d)] = None
  \/ tab[SlotIn(n, k, d)].key = k

(* A probe for k ends at slot i.                                           *)
Finds(tab, n, k, i) ==
  \E d \in 0 .. n - 1 :
    /\ SlotIn(n, k, d) = i
    /\ EndsAt(tab, n, k, d)
    /\ \A e \in 0 .. d - 1 : ~EndsAt(tab, n, k, e)

AllFound(tab, n) ==
  \A i \in DOMAIN tab : tab[i] # None => Finds(tab, n, tab[i].key, i)

-----------------------------------------------------------------------------
(* Arithmetic of slots.                                                    *)

LEMMA ModProperties ==
  ASSUME NEW n \in Nat \ {0}, NEW i \in 0 .. n - 1
  PROVE  i % n = i /\ (i + n) % n = i
  OBVIOUS

(* Every probe stays in the table and reaches each of its slots.           *)
LEMMA SlotProperties ==
  ASSUME NEW n \in 1 .. MaxSize, NEW k \in Key
  PROVE  /\ \A d \in 0 .. n - 1 : SlotIn(n, k, d) \in 0 .. n - 1
         /\ \A i \in 0 .. n - 1 : \E d \in 0 .. n - 1 : SlotIn(n, k, d) = i
<1>1. Home(k, n) \in 0 .. n - 1 /\ n \in Nat \ {0}
  BY TableAssumption
<1>2. ASSUME NEW d \in 0 .. n - 1 PROVE SlotIn(n, k, d) \in 0 .. n - 1
  BY <1>1 DEF SlotIn
<1>3. ASSUME NEW i \in 0 .. n - 1 PROVE \E d \in 0 .. n - 1 : SlotIn(n, k, d) = i
  <2>1. CASE i >= Home(k, n)
    <3>1. i - Home(k, n) \in 0 .. n - 1 /\ Home(k, n) + (i - Home(k, n)) = i
      BY <1>1, <2>1
    <3>2. SlotIn(n, k, i - Home(k, n)) = i
      BY <1>1, <3>1, ModProperties DEF SlotIn
    <3> QED
      BY <3>1, <3>2
  <2>2. CASE i < Home(k, n)
    <3>1. /\ i + n - Home(k, n) \in 0 .. n - 1
          /\ Home(k, n) + (i + n - Home(k, n)) = i + n
      BY <1>1, <2>2
    <3>2. SlotIn(n, k, i + n - Home(k, n)) = i
      BY <1>1, <3>1, ModProperties DEF SlotIn
    <3> QED
      BY <3>1, <3>2
  <2> QED
    BY <1>1, <2>1, <2>2
<1> QED
  BY <1>2, <1>3

(* A probe ends at one slot at most, the one HashTable calls Target, and   *)
(* at none exactly if it is Endless.                                       *)
LEMMA ProbeEnds ==
  ASSUME size \in 1 .. MaxSize, NEW k
  PROVE  /\ \A i : Finds(entries, size, k, i) <=> ~Endless(k) /\ Target(k) = i
         /\ Endless(k) <=> \A d \in 0 .. size - 1 : ~EndsAt(entries, size, k, d)
<1>1. Ends(k) = {d \in 0 .. size - 1 : EndsAt(entries, size, k, d)}
  BY DEF Ends, EndsAt, Slot, SlotIn
<1>2. Ends(k) \in SUBSET Nat /\ size \in Nat
  BY <1>1, TableAssumption
<1>3. CASE Ends(k) = {}
  BY <1>1, <1>3 DEF Endless, Finds
<1>4. CASE Ends(k) # {}
  <2> DEFINE m == Min(Ends(k))
  <2>1. m \in Ends(k) /\ \A d \in Ends(k) : m <= d
    BY <1>2, <1>4, MinProperties
  <2>2. Target(k) = SlotIn(size, k, m)
    BY DEF Target, Slot, SlotIn
  <2> HIDE DEF m
  <2>3. \A e \in 0 .. m - 1 : ~EndsAt(entries, size, k, e)
    BY <1>1, <1>2, <2>1
  <2>4. \A d \in 0 .. size - 1 :
          EndsAt(entries, size, k, d) /\ (\A e \in 0 .. d - 1 : ~EndsAt(entries, size, k, e))
            => d = m
    BY <1>1, <1>2, <2>1
  <2>5. Finds(entries, size, k, SlotIn(size, k, m))
    BY <1>1, <2>1, <2>3 DEF Finds
  <2>6. \A i : Finds(entries, size, k, i) => i = SlotIn(size, k, m)
    BY <2>4 DEF Finds
  <2>7. ~Endless(k)
    BY <1>4 DEF Endless
  <2> QED
    BY <1>1, <2>1, <2>2, <2>5, <2>6, <2>7
<1> QED
  BY <1>3, <1>4

(* Two probes for one key end at one slot: no key is stored twice.         *)
LEMMA FoundOnce ==
  ASSUME NEW tab, NEW n \in Nat, NEW k, NEW i, NEW j, Finds(tab, n, k, i), Finds(tab, n, k, j)
  PROVE  i = j
<1>1. PICK d \in 0 .. n - 1 :
        /\ SlotIn(n, k, d) = i /\ EndsAt(tab, n, k, d)
        /\ \A e \in 0 .. d - 1 : ~EndsAt(tab, n, k, e)
  BY DEF Finds
<1>2. PICK f \in 0 .. n - 1 :
        /\ SlotIn(n, k, f) = j /\ EndsAt(tab, n, k, f)
        /\ \A e \in 0 .. f - 1 : ~EndsAt(tab, n, k, e)
  BY DEF Finds
<1>3. d = f
  BY <1>1, <1>2
<1> QED
  BY <1>1, <1>2, <1>3

(* What is found is an empty slot or holds the key.                        *)
LEMMA FoundIsFree ==
  ASSUME NEW tab, NEW n, NEW k, NEW i \in DOMAIN tab, Finds(tab, n, k, i)
  PROVE  tab[i] = None \/ tab[i].key = k
  BY DEF Finds, EndsAt

(* Storing an entry where the probe for its key ends cuts no other key off *)
(* from its home: the slots a probe passes stay taken by other keys.       *)
LEMMA PutKeepsFound ==
  ASSUME NEW tab, NEW n, AllFound(tab, n), NEW t \in DOMAIN tab,
         NEW e, e # None, Finds(tab, n, e.key, t)
  PROVE  AllFound([tab EXCEPT ![t] = e], n)
<1> DEFINE new == [tab EXCEPT ![t] = e]
<1>1. DOMAIN new = DOMAIN tab /\ new[t] = e /\ \A i \in DOMAIN tab : i # t => new[i] = tab[i]
  OBVIOUS
<1>2. tab[t] = None \/ tab[t].key = e.key
  BY FoundIsFree
<1> HIDE DEF new
<1>3. \A k, d : ~EndsAt(tab, n, k, d) => ~EndsAt(new, n, k, d) \/ k = e.key
  BY <1>1, <1>2 DEF EndsAt
<1>4. \A d : ~EndsAt(tab, n, e.key, d) => ~EndsAt(new, n, e.key, d)
  BY <1>1, <1>2 DEF EndsAt
<1>5. ASSUME NEW i \in DOMAIN new, new[i] # None PROVE Finds(new, n, new[i].key, i)
  <2>1. CASE i = t
    <3>1. PICK d \in 0 .. n - 1 :
            /\ SlotIn(n, e.key, d) = t
            /\ \A f \in 0 .. d - 1 : ~EndsAt(tab, n, e.key, f)
      BY DEF Finds
    <3>2. EndsAt(new, n, e.key, d)
      BY <1>1, <3>1 DEF EndsAt
    <3> QED
      BY <1>1, <1>4, <2>1, <3>1, <3>2 DEF Finds
  <2>2. CASE i # t
    <3>1. new[i] = tab[i]
      BY <1>1, <2>2
    <3>2. Finds(tab, n, new[i].key, i)
      BY <1>1, <1>5, <3>1 DEF AllFound
    <3>3. PICK d \in 0 .. n - 1 :
            /\ SlotIn(n, new[i].key, d) = i
            /\ \A f \in 0 .. d - 1 : ~EndsAt(tab, n, new[i].key, f)
      BY <3>2 DEF Finds
    <3>4. EndsAt(new, n, new[i].key, d)
      BY <3>3 DEF EndsAt
    <3>5. \A f \in 0 .. d - 1 : ~EndsAt(new, n, new[i].key, f)
      BY <1>3, <1>4, <3>3
    <3> QED
      BY <3>3, <3>4, <3>5 DEF Finds
  <2> QED
    BY <2>1, <2>2
<1>6. AllFound(new, n)
  BY <1>5 DEF AllFound
<1> QED
  BY <1>6 DEF new

-----------------------------------------------------------------------------
(* Types.                                                                  *)

Cell == Entry \cup {None}

(* The allocated slots of a table of n are the first ones.                 *)
Table(tab, n) == \E m \in 0 .. n : tab \in [0 .. m - 1 -> Cell]

TypeInv ==
  /\ TypeOK
  /\ Table(old, oldSize)
  /\ pc = "moving" => pending \in Entry

LEMMA TableOf == TypeOK => Table(entries, size) /\ \A i \in DOMAIN entries : entries[i] \in Cell
  BY DEF TypeOK, Table, Cell

LEMMA TablePut ==
  ASSUME NEW tab, NEW n, Table(tab, n), NEW t, NEW e \in Entry
  PROVE  Table([tab EXCEPT ![t] = e], n)
  BY DEF Table, Cell

LEMMA InitType == Init => TypeInv
<1> SUFFICES ASSUME Init PROVE TypeInv
  OBVIOUS
<1> USE TableAssumption
<1>1. size \in 1 .. MaxSize /\ size = InitialSize
  BY DEF Init
<1>2. entries \in [0 .. InitialSize - 1 -> Entry \cup {None}]
  BY DEF Init
<1>3. \E n \in 0 .. size : entries \in [0 .. n - 1 -> Entry \cup {None}]
  BY <1>1, <1>2
<1>4. <<>> \in [0 .. 0 - 1 -> Cell]
  OBVIOUS
<1>5. Table(old, oldSize)
  BY <1>4 DEF Init, Table
<1> QED
  BY <1>1, <1>3, <1>5 DEF Init, TypeInv, TypeOK

LEMMA TypePreserved == TypeInv /\ [Next]_vars => TypeInv'
<1> SUFFICES ASSUME TypeInv, [Next]_vars PROVE TypeInv'
  OBVIOUS
<1> USE TableAssumption
<1>0. /\ TypeOK /\ Table(entries, size) /\ Table(old, oldSize)
      /\ size \in 1 .. MaxSize /\ oldSize \in 0 .. MaxSize /\ moved \in 0 .. oldSize
  BY TableOf DEF TypeInv, TypeOK
<1>1. TypeOK <=>
        /\ pc \in {"idle", "moving", "hung", "overrun"}
        /\ size \in 1 .. MaxSize
        /\ Table(entries, size)
        /\ count \in 0 .. CountRange - 1
        /\ oldSize \in 0 .. MaxSize /\ moved \in 0 .. oldSize
        /\ pending \in Entry \cup {None}
        /\ answer \in Value \cup Entry \cup {None}
  BY DEF TypeOK, Table, Cell
<1>2. (/\ pc \in {"idle", "moving", "hung", "overrun"}
       /\ size \in 1 .. MaxSize
       /\ Table(entries, size)
       /\ count \in 0 .. CountRange - 1
       /\ oldSize \in 0 .. MaxSize /\ moved \in 0 .. oldSize
       /\ pending \in Entry \cup {None}
       /\ answer \in Value \cup Entry \cup {None})' => TypeOK'
  BY DEF TypeOK, Table, Cell
<1>3. ASSUME NEW k, Fails(k) PROVE TypeInv'
  BY <1>0, <1>1, <1>2, <1>3 DEF TypeInv, Fails, growing
<1>4. ASSUME NEW k \in Key, NEW v \in Value, Insert(k, v)
      PROVE  /\ Table(entries', size)
             /\ count' \in 0 .. CountRange - 1
             /\ answer' \in Entry
  <2>1. [key |-> k, value |-> v] \in Entry
    BY DEF Entry
  <2>2. count' \in 0 .. CountRange - 1
    BY <1>0, <1>1, <1>4 DEF Insert
  <2> QED
    BY <1>0, <1>4, <2>1, <2>2, TablePut DEF Insert
<1>10. ASSUME NEW k \in Key, NEW v \in Value, SetInPlace(k, v) PROVE TypeInv'
  <2>1. CASE /\ pc = "idle" /\ Insert(k, v) /\ UNCHANGED <<pc, size, growing>>
    BY <1>0, <1>1, <1>2, <1>4, <2>1 DEF TypeInv, growing
  <2> QED
    BY <1>3, <1>10, <2>1 DEF SetInPlace
<1>11. ASSUME NEW k \in Key, NEW v \in Value, SetGrows(k, v) PROVE TypeInv'
  <2> USE <1>11 DEF SetGrows
  <2>1. size' \in 1 .. MaxSize /\ size' \div 2 \in 0 .. size'
    BY <1>0
  <2>2. entries' \in [0 .. size' \div 2 - 1 -> Cell]
    BY DEF Cell
  <2>3. Table(entries', size')
    BY <2>1, <2>2 DEF Table
  <2>4. pending' \in Entry
    BY DEF Entry
  <2>5. oldSize' \in 0 .. MaxSize /\ moved' \in 0 .. oldSize' /\ Table(old', oldSize')
    BY <1>0
  <2> QED
    BY <1>0, <1>1, <1>2, <2>1, <2>3, <2>4, <2>5 DEF TypeInv
<1>12. CASE Move
  <2> USE <1>12 DEF Move
  <2>1. CASE moved \in DOMAIN old /\ old[moved] # None /\ Within(old[moved].key)
    <3>1. old[moved] \in Entry
      BY <1>0, <2>1 DEF Table, Cell
    <3>2. /\ entries' = [entries EXCEPT ![Target(old[moved].key)] = old[moved]]
          /\ moved' = moved + 1 /\ moved < oldSize
          /\ UNCHANGED <<pc, size, count, old, oldSize, pending, answer>>
      BY <2>1 DEF Within, Fails, Beyond
    <3>3. Table(entries', size)
      BY <1>0, <3>1, <3>2, TablePut
    <3> QED
      BY <1>0, <1>1, <1>2, <3>2, <3>3 DEF TypeInv
  <2>2. CASE moved \in DOMAIN old /\ old[moved] # None /\ Fails(old[moved].key)
    BY <1>3, <2>2
  <2>3. CASE moved \in DOMAIN old /\ old[moved] = None
    BY <1>0, <1>1, <1>2, <2>3 DEF TypeInv
  <2>4. CASE moved \notin DOMAIN old
    BY <1>0, <1>1, <1>2, <2>4 DEF TypeInv, growing
  <2> QED
    BY <2>1, <2>2, <2>3, <2>4
<1>13. CASE SetAfterGrowth
  <2>1. pending \in Entry /\ pending.key \in Key /\ pending.value \in Value
    BY <1>13 DEF SetAfterGrowth, TypeInv, Entry
  <2>2. CASE Insert(pending.key, pending.value) /\ pc' = "idle" /\ UNCHANGED <<size, growing>>
    BY <1>0, <1>1, <1>2, <1>4, <2>1, <2>2 DEF TypeInv, growing
  <2> QED
    BY <1>3, <1>13, <2>2 DEF SetAfterGrowth
<1>14. ASSUME NEW k \in Key, Get(k) PROVE TypeInv'
  <2>1. CASE /\ Within(k) /\ pc = "idle"
             /\ answer' = IF entries[Target(k)] = None THEN None ELSE entries[Target(k)].value
             /\ UNCHANGED <<pc, entries, size, count, growing>>
    <3>1. entries[Target(k)] \in Cell
      BY <1>0, <2>1, TableOf DEF Within
    <3>2. answer' \in Value \cup {None}
      BY <2>1, <3>1 DEF Cell, Entry
    <3> QED
      BY <1>0, <1>1, <1>2, <2>1, <3>2 DEF TypeInv, growing
  <2> QED
    BY <1>3, <1>14, <2>1 DEF Get
<1>15. CASE UNCHANGED vars
  BY <1>0, <1>1, <1>2, <1>15 DEF TypeInv, vars, growing
<1> QED
  BY <1>10, <1>11, <1>12, <1>13, <1>14, <1>15 DEF Next, Stuck

(* Every field of the table keeps a value of its kind.                     *)
THEOREM TypeCorrect == Spec => []TypeOK
<1>1. TypeInv => TypeOK
  BY DEF TypeInv
<1> QED
  BY <1>1, InitType, TypePreserved, PTL DEF Spec

-----------------------------------------------------------------------------
(* Every stored key is where a probe for it ends.                          *)

FoundInv == TypeInv /\ AllFound(entries, size)

LEMMA FoundIsEachKeyFound == TypeOK => (AllFound(entries, size) <=> EachKeyFound)
<1> SUFFICES ASSUME TypeOK PROVE AllFound(entries, size) <=> EachKeyFound
  OBVIOUS
<1>1. size \in 1 .. MaxSize
  BY DEF TypeOK
<1>2. \A k, i : Finds(entries, size, k, i) <=> ~Endless(k) /\ Target(k) = i
  BY <1>1, ProbeEnds
<1> QED
  BY <1>2 DEF AllFound, EachKeyFound, Within

(* Where a set within the table stores its entry.                          *)
LEMMA WithinFinds ==
  ASSUME TypeOK, NEW k, Within(k)
  PROVE  Target(k) \in DOMAIN entries /\ Finds(entries, size, k, Target(k))
  BY ProbeEnds DEF TypeOK, Within

(* Entries are not None.                                                   *)
LEMMA EntryIsSome == \A k \in Key, v \in Value : [key |-> k, value |-> v] # None
<1> SUFFICES ASSUME NEW k \in Key, NEW v \in Value PROVE [key |-> k, value |-> v] # None
  OBVIOUS
<1>1. [key |-> k, value |-> v] \in [key : Key, value : Value]
  OBVIOUS
<1> QED
  BY <1>1, TableAssumption

LEMMA FoundAfterInsert ==
  ASSUME FoundInv, NEW k \in Key, NEW v \in Value, Within(k), Insert(k, v)
  PROVE  AllFound(entries', size)
<1> DEFINE e == [key |-> k, value |-> v]
<1>1. e # None /\ e.key = k
  BY EntryIsSome
<1>2. Target(k) \in DOMAIN entries /\ Finds(entries, size, k, Target(k))
  BY WithinFinds DEF FoundInv, TypeInv
<1>3. entries' = [entries EXCEPT ![Target(k)] = e]
  BY DEF Insert
<1> HIDE DEF e
<1> QED
  BY <1>1, <1>2, <1>3, PutKeepsFound DEF FoundInv

LEMMA FoundPreserved == FoundInv /\ [Next]_vars => FoundInv'
<1> SUFFICES ASSUME FoundInv, [Next]_vars PROVE AllFound(entries', size')
  BY TypePreserved DEF FoundInv
<1>0. TypeInv /\ TypeOK /\ AllFound(entries, size)
  BY DEF FoundInv, TypeInv
<1>1. ASSUME UNCHANGED <<entries, size>> PROVE AllFound(entries', size')
  BY <1>0, <1>1
<1>2. ASSUME NEW k, Fails(k) PROVE AllFound(entries', size')
  BY <1>1, <1>2 DEF Fails
<1>10. ASSUME NEW k \in Key, NEW v \in Value, SetInPlace(k, v) PROVE AllFound(entries', size')
  BY <1>2, <1>10, FoundAfterInsert DEF SetInPlace
<1>11. ASSUME NEW k \in Key, NEW v \in Value, SetGrows(k, v) PROVE AllFound(entries', size')
  <2>1. \A i \in DOMAIN entries' : entries'[i] = None
    BY <1>11 DEF SetGrows
  <2> QED
    BY <2>1 DEF AllFound
<1>12. CASE Move
  <2>1. CASE moved \in DOMAIN old /\ old[moved] # None /\ Within(old[moved].key)
    <3>1. entries' = [entries EXCEPT ![Target(old[moved].key)] = old[moved]] /\ size' = size
      BY <1>12, <2>1 DEF Move, Within, Fails, Beyond
    <3>2. /\ Target(old[moved].key) \in DOMAIN entries
          /\ Finds(entries, size, old[moved].key, Target(old[moved].key))
      BY <1>0, <2>1, WithinFinds
    <3> QED
      BY <1>0, <2>1, <3>1, <3>2, PutKeepsFound
  <2>2. CASE moved \in DOMAIN old /\ old[moved] # None /\ Fails(old[moved].key)
    BY <1>2, <2>2
  <2>3. CASE moved \notin DOMAIN old \/ old[moved] = None
    BY <1>1, <1>12, <2>3 DEF Move
  <2> QED
    BY <1>12, <2>1, <2>2, <2>3 DEF Move
<1>13. CASE SetAfterGrowth
  <2>1. pending.key \in Key /\ pending.value \in Value
    BY <1>0, <1>13 DEF SetAfterGrowth, TypeInv, Entry
  <2> QED
    BY <1>2, <1>13, <2>1, FoundAfterInsert DEF SetAfterGrowth
<1>14. ASSUME NEW k \in Key, Get(k) PROVE AllFound(entries', size')
  BY <1>1, <1>2, <1>14 DEF Get
<1>15. CASE UNCHANGED vars
  BY <1>1, <1>15 DEF vars
<1> QED
  BY <1>10, <1>11, <1>12, <1>13, <1>14, <1>15 DEF Next, Stuck

LEMMA InitFound == Init => FoundInv
<1> SUFFICES ASSUME Init PROVE AllFound(entries, size)
  BY InitType DEF FoundInv
<1>1. \A i \in DOMAIN entries : entries[i] = None
  BY DEF Init
<1> QED
  BY <1>1 DEF AllFound

(* Every stored key is where a probe for it ends, also while the table is  *)
(* being moved: no key is stored twice, and none is cut off from its home. *)
THEOREM StoredKeysAreFound == Spec => []EachKeyFound
<1>1. FoundInv => EachKeyFound
  BY FoundIsEachKeyFound DEF FoundInv, TypeInv
<1> QED
  BY <1>1, InitFound, FoundPreserved, PTL DEF Spec

-----------------------------------------------------------------------------
(* A probe that never ends.  A table that has grown is not allocated to    *)
(* its end, so that every probe of it ends; one that never grew counts its *)
(* taken slots, as count cannot wrap below its size.                       *)

Whole == DOMAIN entries = 0 .. size - 1
Taken == {i \in DOMAIN entries : entries[i] # None}

HangInv ==
  /\ FoundInv
  /\ Whole => size = InitialSize /\ Cardinality(Taken) <= count
  /\ pc = "moving" => ~Whole
  /\ HangsOnlyWhenFull

LEMMA TakenIsFinite ==
  ASSUME TypeOK
  PROVE  IsFiniteSet(Taken) /\ Cardinality(Taken) \in Nat
<1>1. PICK n \in 0 .. size : entries \in [0 .. n - 1 -> Entry \cup {None}]
  BY DEF TypeOK
<1>2. IsFiniteSet(0 .. n - 1)
  BY <1>1, FS_Interval DEF TypeOK
<1>3. Taken \subseteq 0 .. n - 1
  BY <1>1 DEF Taken
<1> QED
  BY <1>2, <1>3, FS_Subset, FS_CardinalityType

(* Only a table that is full, and whole, makes a probe endless.            *)
LEMMA EndlessIsFull ==
  ASSUME TypeOK, NEW k \in Key, Endless(k)
  PROVE  Whole /\ (\A i \in DOMAIN entries : entries[i] # None) /\ Cardinality(Taken) = size
<1>1. size \in 1 .. MaxSize /\ size \in Nat
  BY TableAssumption DEF TypeOK
<1> PICK n \in 0 .. size : entries \in [0 .. n - 1 -> Entry \cup {None}]
  BY DEF TypeOK
<1>2. \A d \in 0 .. size - 1 : ~EndsAt(entries, size, k, d)
  BY <1>1, ProbeEnds
<1>3. ASSUME NEW i \in 0 .. size - 1 PROVE i \in DOMAIN entries /\ entries[i] # None
  <2>1. PICK d \in 0 .. size - 1 : SlotIn(size, k, d) = i
    BY <1>1, SlotProperties
  <2> QED
    BY <1>2, <2>1 DEF EndsAt
<1>4. Whole
  BY <1>1, <1>3 DEF Whole
<1>5. Taken = 0 .. size - 1
  BY <1>3, <1>4 DEF Taken, Whole
<1>6. Cardinality(0 .. size - 1) = size
  BY <1>1, FS_Interval
<1> QED
  BY <1>3, <1>4, <1>5, <1>6 DEF Whole

LEMMA HangPreserved == HangInv /\ [Next]_vars => HangInv'
<1> DEFINE Counted == Whole => size = InitialSize /\ Cardinality(Taken) <= count
           Grown == pc = "moving" => ~Whole
<1> SUFFICES ASSUME HangInv, [Next]_vars PROVE (Counted /\ Grown /\ HangsOnlyWhenFull)'
  BY FoundPreserved DEF HangInv
<1> USE TableAssumption
<1>0. /\ TypeInv /\ TypeOK /\ Counted /\ Grown /\ HangsOnlyWhenFull
      /\ size \in 1 .. MaxSize /\ count \in 0 .. CountRange - 1
  BY DEF HangInv, FoundInv, TypeInv, TypeOK
<1>1. ASSUME NEW k \in Key, Fails(k), pc \in {"idle", "moving"}
      PROVE  (Counted /\ Grown /\ HangsOnlyWhenFull)'
  <2>1. UNCHANGED <<entries, size, count>> /\ pc' \in {"hung", "overrun"}
    BY <1>1 DEF Fails
  <2>2. Counted' /\ Grown'
    BY <1>0, <2>1 DEF Whole, Taken
  <2>3. CASE pc' = "hung"
    <3>1. Endless(k)
      BY <1>1, <2>3 DEF Fails
    <3>2. Whole /\ (\A i \in DOMAIN entries : entries[i] # None) /\ Cardinality(Taken) = size
      BY <1>0, <3>1, EndlessIsFull
    <3>3. size <= count /\ size = InitialSize
      BY <1>0, <3>2
    <3> QED
      BY <1>0, <2>1, <2>2, <3>2, <3>3 DEF HangsOnlyWhenFull, Whole
  <2> QED
    BY <2>1, <2>2, <2>3 DEF HangsOnlyWhenFull
<1>2. ASSUME NEW k \in Key, NEW v \in Value, Within(k), Insert(k, v)
      PROVE  /\ DOMAIN entries' = DOMAIN entries
             /\ Taken' = Taken \cup {Target(k)}
             /\ Target(k) \in Taken => count' = count
             /\ Target(k) \notin Taken => count' = (count + 1) % CountRange
  <2>1. [key |-> k, value |-> v] # None
    BY EntryIsSome
  <2>2. Target(k) \in DOMAIN entries
    BY <1>2 DEF Within
  <2> QED
    BY <1>2, <2>1, <2>2 DEF Insert, Taken
<1>10. ASSUME NEW k \in Key, NEW v \in Value, SetInPlace(k, v)
       PROVE  (Counted /\ Grown /\ HangsOnlyWhenFull)'
  <2>1. CASE Within(k) /\ Insert(k, v) /\ UNCHANGED <<pc, size, growing>>
    <3>1. pc' = "idle" /\ count < size /\ size' = size
      BY <1>10, <2>1 DEF SetInPlace
    <3>2. (count + 1) % CountRange = count + 1
      BY <1>0, <3>1
    <3>3. IsFiniteSet(Taken) /\ Cardinality(Taken) \in Nat
      BY <1>0, TakenIsFinite
    <3>4. Cardinality(Taken \cup {Target(k)}) =
            IF Target(k) \in Taken THEN Cardinality(Taken) ELSE Cardinality(Taken) + 1
      BY <3>3, FS_AddElement
    <3>5. Whole' => Whole
      BY <1>2, <2>1, <3>1 DEF Whole
    <3>6. /\ Taken' = Taken \cup {Target(k)}
          /\ count' = IF Target(k) \in Taken THEN count ELSE count + 1
      BY <1>2, <2>1, <3>2
    <3>7. Cardinality(Taken) <= count => Cardinality(Taken') <= count'
      BY <1>0, <3>3, <3>4, <3>6
    <3>8. Counted'
      BY <1>0, <3>1, <3>5, <3>7
    <3> QED
      BY <3>1, <3>8 DEF HangsOnlyWhenFull
  <2> QED
    BY <1>1, <1>10, <2>1 DEF SetInPlace
<1>11. ASSUME NEW k \in Key, NEW v \in Value, SetGrows(k, v)
       PROVE  (Counted /\ Grown /\ HangsOnlyWhenFull)'
  <2>1. DOMAIN entries' = 0 .. size' \div 2 - 1 /\ size' \in Nat \ {0} /\ pc' = "moving"
    BY <1>0, <1>11 DEF SetGrows
  <2>2. ~Whole'
    <3>1. size' - 1 \in 0 .. size' - 1 /\ size' - 1 \notin 0 .. size' \div 2 - 1
      BY <2>1
    <3> QED
      BY <2>1, <3>1 DEF Whole
  <2> QED
    BY <2>1, <2>2 DEF HangsOnlyWhenFull
<1>12. CASE Move
  <2>1. CASE moved \in DOMAIN old /\ old[moved] # None /\ Within(old[moved].key)
    <3>1. DOMAIN entries' = DOMAIN entries /\ UNCHANGED <<pc, size>>
      BY <1>12, <2>1 DEF Move, Within, Fails, Beyond
    <3>2. pc = "moving"
      BY <1>12 DEF Move
    <3> QED
      BY <1>0, <3>1, <3>2 DEF HangsOnlyWhenFull, Whole
  <2>2. CASE moved \in DOMAIN old /\ old[moved] # None /\ Fails(old[moved].key)
    <3>1. old[moved].key \in Key
      BY <1>0, <2>2 DEF TypeInv, Table, Cell, Entry
    <3> QED
      BY <1>1, <1>12, <2>2, <3>1 DEF Move
  <2>3. CASE moved \notin DOMAIN old \/ old[moved] = None
    BY <1>0, <1>12, <2>3 DEF Move, HangsOnlyWhenFull, Whole, Taken
  <2> QED
    BY <1>12, <2>1, <2>2, <2>3 DEF Move
<1>13. CASE SetAfterGrowth
  <2>1. pending.key \in Key /\ pending.value \in Value /\ pc = "moving"
    BY <1>0, <1>13 DEF SetAfterGrowth, TypeInv, Entry
  <2>2. CASE /\ Within(pending.key) /\ Insert(pending.key, pending.value)
             /\ pc' = "idle" /\ UNCHANGED <<size, growing>>
    <3>1. ~Whole'
      BY <1>0, <1>2, <2>1, <2>2 DEF Whole
    <3> QED
      BY <2>2, <3>1 DEF HangsOnlyWhenFull
  <2> QED
    BY <1>1, <1>13, <2>1, <2>2 DEF SetAfterGrowth
<1>14. ASSUME NEW k \in Key, Get(k) PROVE (Counted /\ Grown /\ HangsOnlyWhenFull)'
  <2>1. CASE UNCHANGED <<pc, entries, size, count, growing>>
    BY <1>0, <2>1 DEF HangsOnlyWhenFull, Whole, Taken
  <2> QED
    BY <1>1, <1>14, <2>1 DEF Get
<1>15. CASE UNCHANGED vars
  BY <1>0, <1>15 DEF vars, HangsOnlyWhenFull, Whole, Taken
<1> QED
  BY <1>10, <1>11, <1>12, <1>13, <1>14, <1>15 DEF Next, Stuck

LEMMA InitHang == Init => HangInv
<1> SUFFICES ASSUME Init PROVE HangInv
  OBVIOUS
<1>1. Taken = {} /\ pc = "idle" /\ size = InitialSize
  BY DEF Init, Taken
<1>2. Cardinality(Taken) = 0
  BY <1>1, FS_EmptySet
<1>3. count >= 0
  BY TableAssumption DEF Init
<1> QED
  BY <1>1, <1>2, <1>3, InitFound DEF HangInv, HangsOnlyWhenFull

(* A probe never ends only in a table that never grew and whose slots are  *)
(* all taken, and only for a get: at_set would have grown the table.       *)
THEOREM OnlyFullHangs == Spec => []HangsOnlyWhenFull
<1>1. HangInv => HangsOnlyWhenFull
  BY DEF HangInv
<1> QED
  BY <1>1, InitHang, HangPreserved, PTL DEF Spec

-----------------------------------------------------------------------------
(* The table implements Dictionary.  While it grows, an entry is either    *)
(* still to be moved or in the new table, never in both.                   *)

OldDistinct ==
  \A i, j \in ToBeMoved :
    old[i] # None /\ old[j] # None /\ old[i].key = old[j].key => i = j

OldDisjoint ==
  \A i \in DOMAIN entries, j \in ToBeMoved :
    entries[i] # None /\ old[j] # None => entries[i].key # old[j].key

DictInv ==
  /\ FoundInv
  /\ pc = "idle" => ToBeMoved = {}
  /\ OldDistinct
  /\ OldDisjoint

(* No slot of old is left once the loop of at_blowup has ended.            *)
LEMMA AllMoved == TypeInv /\ moved = oldSize => ToBeMoved = {}
<1> SUFFICES ASSUME TypeInv, moved = oldSize PROVE ToBeMoved = {}
  OBVIOUS
<1>1. oldSize \in Nat /\ \E m \in 0 .. oldSize : old \in [0 .. m - 1 -> Cell]
  BY TableAssumption DEF TypeInv, TypeOK, Table
<1> QED
  BY <1>1 DEF ToBeMoved

LEMMA MovedOne ==
  ASSUME TypeInv, moved \in DOMAIN old, moved' = moved + 1, old' = old
  PROVE  moved \in ToBeMoved /\ ToBeMoved' = ToBeMoved \ {moved}
<1>1. moved \in Nat /\ \E m \in 0 .. oldSize : old \in [0 .. m - 1 -> Cell]
  BY TableAssumption DEF TypeInv, TypeOK, Table
<1>2. DOMAIN old \subseteq Nat
  BY <1>1, TableAssumption DEF TypeInv, TypeOK
<1> QED
  BY <1>1, <1>2 DEF ToBeMoved

(* Two slots that hold one key are one slot.                               *)
LEMMA StoredAtOnePlace ==
  ASSUME FoundInv, NEW i \in DOMAIN entries, NEW j \in DOMAIN entries,
         entries[i] # None, entries[j] # None, entries[i].key = entries[j].key
  PROVE  i = j
<1>1. Finds(entries, size, entries[i].key, i) /\ Finds(entries, size, entries[i].key, j)
  BY DEF FoundInv, AllFound
<1>2. size \in Nat
  BY TableAssumption DEF FoundInv, TypeInv, TypeOK
<1> QED
  BY <1>1, <1>2, FoundOnce

LEMMA DictPreserved == DictInv /\ [Next]_vars => DictInv'
<1> DEFINE Inv == (pc = "idle" => ToBeMoved = {}) /\ OldDistinct /\ OldDisjoint
<1> SUFFICES ASSUME DictInv, [Next]_vars PROVE Inv'
  BY FoundPreserved DEF DictInv
<1>0. TypeInv /\ TypeOK /\ FoundInv /\ Inv
  BY DEF DictInv, FoundInv, TypeInv
<1>1. ASSUME UNCHANGED <<entries, growing>>, pc' = "idle" => pc = "idle" PROVE Inv'
  BY <1>0, <1>1 DEF OldDistinct, OldDisjoint, ToBeMoved, growing
<1>2. ASSUME NEW k, Fails(k) PROVE Inv'
  BY <1>1, <1>2 DEF Fails
<1>3. ASSUME ToBeMoved = {}, UNCHANGED growing PROVE Inv'
  <2>1. ToBeMoved' = {}
    BY <1>3 DEF ToBeMoved, growing
  <2> QED
    BY <2>1 DEF OldDistinct, OldDisjoint
<1>10. ASSUME NEW k \in Key, NEW v \in Value, SetInPlace(k, v) PROVE Inv'
  BY <1>0, <1>2, <1>3, <1>10 DEF SetInPlace
<1>11. ASSUME NEW k \in Key, NEW v \in Value, SetGrows(k, v) PROVE Inv'
  <2>1. old' = entries /\ pc' = "moving" /\ \A i \in DOMAIN entries' : entries'[i] = None
    BY <1>11 DEF SetGrows
  <2>2. ToBeMoved' \subseteq DOMAIN entries
    BY <2>1 DEF ToBeMoved
  <2>3. OldDistinct'
    BY <1>0, <2>1, <2>2, StoredAtOnePlace DEF OldDistinct
  <2> QED
    BY <2>1, <2>3 DEF OldDisjoint
<1>12. CASE Move
  <2>1. CASE moved \in DOMAIN old /\ old[moved] # None /\ Within(old[moved].key)
    <3> DEFINE t == Target(old[moved].key)
    <3>1. /\ pc' = "moving" /\ old' = old /\ moved' = moved + 1
          /\ entries' = [entries EXCEPT ![t] = old[moved]] /\ t \in DOMAIN entries
      BY <1>12, <2>1 DEF Move, Within, Fails, Beyond
    <3> HIDE DEF t
    <3>2. moved \in ToBeMoved /\ ToBeMoved' = ToBeMoved \ {moved}
      BY <1>0, <2>1, <3>1, MovedOne
    <3>3. OldDistinct'
      BY <1>0, <3>1, <3>2 DEF OldDistinct
    <3>4. OldDisjoint'
      BY <1>0, <2>1, <3>1, <3>2 DEF OldDisjoint, OldDistinct
    <3> QED
      BY <3>1, <3>3, <3>4
  <2>2. CASE moved \in DOMAIN old /\ old[moved] # None /\ Fails(old[moved].key)
    BY <1>2, <2>2
  <2>3. CASE moved \in DOMAIN old /\ old[moved] = None
    <3>1. pc' = "moving" /\ UNCHANGED <<entries, old>> /\ moved' = moved + 1
      BY <1>12, <2>3 DEF Move
    <3>2. ToBeMoved' \subseteq ToBeMoved
      BY <1>0, <2>3, <3>1, MovedOne
    <3> QED
      BY <1>0, <3>1, <3>2 DEF OldDistinct, OldDisjoint
  <2>4. CASE moved \notin DOMAIN old
    BY <1>1, <1>12, <2>4 DEF Move
  <2> QED
    BY <1>12, <2>1, <2>2, <2>3, <2>4 DEF Move
<1>13. CASE SetAfterGrowth
  <2>1. ToBeMoved = {}
    BY <1>0, <1>13, AllMoved DEF SetAfterGrowth
  <2> QED
    BY <1>2, <1>3, <1>13, <2>1 DEF SetAfterGrowth
<1>14. ASSUME NEW k \in Key, Get(k) PROVE Inv'
  BY <1>1, <1>2, <1>14 DEF Get
<1>15. CASE UNCHANGED vars
  BY <1>1, <1>15 DEF vars
<1> QED
  BY <1>10, <1>11, <1>12, <1>13, <1>14, <1>15 DEF Next, Stuck

LEMMA InitDict == Init => DictInv
<1> SUFFICES ASSUME Init PROVE DictInv
  OBVIOUS
<1>1. ToBeMoved = {}
  BY InitType, AllMoved DEF Init
<1> QED
  BY <1>1, InitFound DEF DictInv, OldDistinct, OldDisjoint

-----------------------------------------------------------------------------
(* What a set of entries says of each key.                                 *)
ContentsOf(S) == [k \in Key |->
  IF \E e \in S : e.key = k THEN (CHOOSE e \in S : e.key = k).value ELSE None]

OncePerKey(S) == \A e, f \in S : e.key = f.key => e = f

LEMMA ContentsAt ==
  ASSUME NEW S, OncePerKey(S), NEW k \in Key
  PROVE  /\ \A e \in S : e.key = k => ContentsOf(S)[k] = e.value
         /\ (\A e \in S : e.key # k) => ContentsOf(S)[k] = None
<1>1. ASSUME NEW e \in S, e.key = k PROVE ContentsOf(S)[k] = e.value
  <2>1. (CHOOSE f \in S : f.key = k) \in S /\ (CHOOSE f \in S : f.key = k).key = k
    BY <1>1
  <2>2. (CHOOSE f \in S : f.key = k) = e
    BY <1>1, <2>1 DEF OncePerKey
  <2> QED
    BY <1>1, <2>2 DEF ContentsOf
<1>2. (\A e \in S : e.key # k) => ContentsOf(S)[k] = None
  BY DEF ContentsOf
<1> QED
  BY <1>1, <1>2

LEMMA ContentsPut ==
  ASSUME NEW S, OncePerKey(S), NEW k \in Key, NEW v \in Value
  PROVE  LET T == {e \in S : e.key # k} \cup {[key |-> k, value |-> v]} IN
         ContentsOf(T) = [ContentsOf(S) EXCEPT ![k] = v]
<1> DEFINE new == [key |-> k, value |-> v]
           T == {e \in S : e.key # k} \cup {new}
<1>1. new.key = k /\ new.value = v
  OBVIOUS
<1> HIDE DEF new
<1>2. OncePerKey(T)
  BY <1>1 DEF OncePerKey
<1>3. ASSUME NEW j \in Key PROVE ContentsOf(T)[j] = [ContentsOf(S) EXCEPT ![k] = v][j]
  <2>0. [ContentsOf(S) EXCEPT ![k] = v][j] = IF j = k THEN v ELSE ContentsOf(S)[j]
    BY DEF ContentsOf
  <2>1. CASE j = k
    BY <1>1, <1>2, <2>0, <2>1, ContentsAt
  <2>2. CASE j # k /\ \E e \in S : e.key = j
    <3>1. PICK e \in S : e.key = j
      BY <2>2
    <3>2. e \in T /\ ContentsOf(S)[j] = e.value
      BY <2>2, <3>1, ContentsAt
    <3> HIDE DEF T
    <3>3. ContentsOf(T)[j] = e.value
      BY <1>2, <3>1, <3>2, ContentsAt
    <3> QED
      BY <2>0, <2>2, <3>2, <3>3
  <2>3. CASE j # k /\ \A e \in S : e.key # j
    <3>1. \A e \in T : e.key # j
      BY <1>1, <2>3
    <3> HIDE DEF T
    <3>2. ContentsOf(T)[j] = None /\ ContentsOf(S)[j] = None
      BY <1>2, <2>3, <3>1, ContentsAt
    <3> QED
      BY <2>0, <2>3, <3>2
  <2> QED
    BY <2>1, <2>2, <2>3
<1> HIDE DEF T
<1>4. ContentsOf(T) = [ContentsOf(S) EXCEPT ![k] = v]
  BY <1>3 DEF ContentsOf
<1> QED
  BY <1>4 DEF T, new

LEMMA StoredOnce == DictInv => OncePerKey(Stored)
<1> SUFFICES ASSUME DictInv, NEW e \in Stored, NEW f \in Stored, e.key = f.key
             PROVE  e = f
  BY DEF OncePerKey
<1>1. FoundInv /\ OldDistinct /\ OldDisjoint
  BY DEF DictInv
<1>2. e # None /\ f # None
  BY DEF Stored
<1>3. CASE /\ \E i \in DOMAIN entries : e = entries[i]
           /\ \E j \in DOMAIN entries : f = entries[j]
  BY <1>1, <1>2, <1>3, StoredAtOnePlace
<1>4. CASE /\ \E i \in ToBeMoved : e = old[i]
           /\ \E j \in ToBeMoved : f = old[j]
  BY <1>1, <1>2, <1>4 DEF OldDistinct
<1>5. CASE \/ /\ \E i \in DOMAIN entries : e = entries[i]
              /\ \E j \in ToBeMoved : f = old[j]
           \/ /\ \E i \in ToBeMoved : e = old[i]
              /\ \E j \in DOMAIN entries : f = entries[j]
  BY <1>1, <1>2, <1>5 DEF OldDisjoint
<1> QED
  BY <1>3, <1>4, <1>5 DEF Stored

(* What is stored once nothing is left to be moved.                        *)
LEMMA StoredInEntries ==
  ToBeMoved = {} => Stored = {entries[i] : i \in DOMAIN entries} \ {None}
  BY DEF Stored

(* A set: the entry of its key, if there was one, gives way to the new.    *)
LEMMA InsertIsSet ==
  ASSUME DictInv, ToBeMoved = {}, NEW k \in Key, NEW v \in Value, Within(k), Insert(k, v),
         UNCHANGED growing
  PROVE  Promise!Set(k, v)
<1> DEFINE new == [key |-> k, value |-> v]
           t == Target(k)
<1>1. new # None /\ new.key = k
  BY EntryIsSome
<1>2. t \in DOMAIN entries /\ Finds(entries, size, k, t)
  BY WithinFinds DEF DictInv, FoundInv, TypeInv
<1>3. entries' = [entries EXCEPT ![t] = new] /\ answer' = new
  BY DEF Insert
<1> HIDE DEF new, t
<1>4. \A i \in DOMAIN entries : entries[i] # None /\ entries[i].key = k => i = t
  <2>1. size \in Nat /\ AllFound(entries, size)
    BY TableAssumption DEF DictInv, FoundInv, TypeInv, TypeOK
  <2> QED
    BY <1>2, <2>1, FoundOnce DEF AllFound
<1>5. entries[t] = None \/ entries[t].key = k
  BY <1>2, FoundIsFree
<1>6. Stored = {entries[i] : i \in DOMAIN entries} \ {None}
  BY StoredInEntries
<1>7. Stored' = {entries'[i] : i \in DOMAIN entries'} \ {None}
  BY DEF Stored, ToBeMoved, growing
<1>8. Stored' = {e \in Stored : e.key # k} \cup {new}
  <2>1. \A e \in Stored' : e = new \/ (e \in Stored /\ e.key # k)
    BY <1>2, <1>3, <1>4, <1>6, <1>7
  <2>2. \A e \in Stored : e.key # k => e \in Stored'
    BY <1>2, <1>3, <1>5, <1>6, <1>7
  <2>3. new \in Stored'
    BY <1>1, <1>2, <1>3, <1>7
  <2> QED
    BY <2>1, <2>2, <2>3
<1>9. Contents' = [Contents EXCEPT ![k] = v]
  <2>1. OncePerKey(Stored)
    BY StoredOnce
  <2>2. ContentsOf(Stored') = [ContentsOf(Stored) EXCEPT ![k] = v]
    BY <1>8, <2>1, ContentsPut DEF new
  <2>3. Contents = ContentsOf(Stored) /\ Contents' = ContentsOf(Stored')
    BY DEF Contents, ContentsOf
  <2> QED
    BY <2>2, <2>3
<1> QED
  BY <1>3, <1>9 DEF Promise!Set, new

(* A get reads the value of its key.                                       *)
LEMMA LookupIsGet ==
  ASSUME DictInv, ToBeMoved = {}, NEW k \in Key, Within(k),
         answer' = IF entries[Target(k)] = None THEN None ELSE entries[Target(k)].value,
         UNCHANGED <<entries, growing>>
  PROVE  Promise!Get(k)
<1> DEFINE t == Target(k)
<1>1. t \in DOMAIN entries /\ Finds(entries, size, k, t)
  BY WithinFinds DEF DictInv, FoundInv, TypeInv
<1>2. answer' = IF entries[t] = None THEN None ELSE entries[t].value
  OBVIOUS
<1> HIDE DEF t
<1>3. Stored = {entries[i] : i \in DOMAIN entries} \ {None} /\ OncePerKey(Stored)
  BY StoredInEntries, StoredOnce
<1>4. Contents = ContentsOf(Stored)
  BY DEF Contents, ContentsOf
<1>5. Contents' = Contents
  BY DEF Contents, Stored, ToBeMoved, growing
<1>6. CASE entries[t] # None
  <2>1. entries[t].key = k /\ entries[t] \in Stored
    BY <1>1, <1>3, <1>6, FoundIsFree
  <2>2. ContentsOf(Stored)[k] = entries[t].value
    BY <1>3, <2>1, ContentsAt
  <2> QED
    BY <1>2, <1>4, <1>5, <1>6, <2>2 DEF Promise!Get
<1>7. CASE entries[t] = None
  <2>1. size \in Nat /\ AllFound(entries, size)
    BY TableAssumption DEF DictInv, FoundInv, TypeInv, TypeOK
  <2>2. \A e \in Stored : e.key # k
    BY <1>1, <1>3, <1>7, <2>1, FoundOnce DEF AllFound
  <2>3. ContentsOf(Stored)[k] = None
    BY <1>3, <2>2, ContentsAt
  <2> QED
    BY <1>2, <1>4, <1>5, <1>7, <2>3 DEF Promise!Get
<1> QED
  BY <1>6, <1>7

LEMMA DictStep == DictInv /\ [Next]_vars => [Promise!Next]_Promise!vars
<1> DEFINE Stutter == UNCHANGED Promise!vars
<1> SUFFICES ASSUME DictInv, [Next]_vars PROVE Promise!Next \/ Stutter
  OBVIOUS
<1>0. TypeInv /\ OldDistinct /\ OldDisjoint /\ (pc = "idle" => ToBeMoved = {})
  BY DEF DictInv, FoundInv
<1>1. ASSUME Stored' = Stored, answer' = answer PROVE Stutter
  BY <1>1 DEF Promise!vars, Contents
<1>2. ASSUME UNCHANGED <<entries, growing, answer>> PROVE Stutter
  BY <1>1, <1>2 DEF Stored, ToBeMoved, growing
<1>3. ASSUME NEW k, Fails(k) PROVE Stutter
  BY <1>2, <1>3 DEF Fails
<1> HIDE DEF Stutter
<1>10. ASSUME NEW k \in Key, NEW v \in Value, SetInPlace(k, v) PROVE Promise!Next \/ Stutter
  BY <1>0, <1>3, <1>10, InsertIsSet DEF SetInPlace, Promise!Next
<1>11. ASSUME NEW k \in Key, NEW v \in Value, SetGrows(k, v) PROVE Stutter
  <2>1. /\ old' = entries /\ moved' = 0 /\ answer' = answer
        /\ \A i \in DOMAIN entries' : entries'[i] = None
        /\ ToBeMoved = {}
    BY <1>0, <1>11 DEF SetGrows
  <2>2. DOMAIN entries \subseteq Nat
    BY <1>0, TableAssumption DEF TypeInv, TypeOK
  <2>3. ToBeMoved' = DOMAIN entries
    BY <2>1, <2>2 DEF ToBeMoved
  <2>4. Stored' = Stored
    BY <2>1, <2>3 DEF Stored
  <2> QED
    BY <1>1, <2>1, <2>4
<1>12. CASE Move
  <2>1. CASE moved \in DOMAIN old /\ old[moved] # None /\ Within(old[moved].key)
    <3> DEFINE t == Target(old[moved].key)
    <3>1. /\ old' = old /\ moved' = moved + 1 /\ answer' = answer
          /\ entries' = [entries EXCEPT ![t] = old[moved]]
      BY <1>12, <2>1 DEF Move, Within, Fails, Beyond
    <3>2. moved \in ToBeMoved /\ ToBeMoved' = ToBeMoved \ {moved}
      BY <1>0, <2>1, <3>1, MovedOne
    <3>3. t \in DOMAIN entries /\ Finds(entries, size, old[moved].key, t)
      BY <1>0, <2>1, WithinFinds DEF TypeInv
    <3> HIDE DEF t
    <3>4. entries[t] = None
      BY <1>0, <2>1, <3>2, <3>3, FoundIsFree DEF OldDisjoint
    <3>5. Stored' = Stored
      <4>1. \A e \in Stored' : e \in Stored
        BY <3>1, <3>2, <3>3 DEF Stored
      <4>2. ASSUME NEW e \in Stored PROVE e \in Stored'
        <5>1. CASE \E i \in DOMAIN entries : e = entries[i]
          BY <3>1, <3>3, <3>4, <5>1 DEF Stored
        <5>2. CASE \E i \in ToBeMoved : e = old[i]
          BY <2>1, <3>1, <3>2, <3>3, <5>2 DEF Stored
        <5> QED
          BY <5>1, <5>2 DEF Stored
      <4> QED
        BY <4>1, <4>2
    <3> QED
      BY <1>1, <3>1, <3>5
  <2>2. CASE moved \in DOMAIN old /\ old[moved] # None /\ Fails(old[moved].key)
    BY <1>3, <2>2
  <2>3. CASE moved \in DOMAIN old /\ old[moved] = None
    <3>1. UNCHANGED <<entries, old, answer>> /\ moved' = moved + 1
      BY <1>12, <2>3 DEF Move
    <3>2. ToBeMoved' = ToBeMoved \ {moved}
      BY <1>0, <2>3, <3>1, MovedOne
    <3>3. Stored' = Stored
      BY <2>3, <3>1, <3>2 DEF Stored
    <3> QED
      BY <1>1, <3>1, <3>3
  <2>4. CASE moved \notin DOMAIN old
    BY <1>2, <1>12, <2>4 DEF Move
  <2> QED
    BY <1>12, <2>1, <2>2, <2>3, <2>4 DEF Move
<1>13. CASE SetAfterGrowth
  <2>1. pending.key \in Key /\ pending.value \in Value /\ ToBeMoved = {}
    BY <1>0, <1>13, AllMoved DEF SetAfterGrowth, TypeInv, Entry
  <2> QED
    BY <1>3, <1>13, <2>1, InsertIsSet DEF SetAfterGrowth, Promise!Next
<1>14. ASSUME NEW k \in Key, Get(k) PROVE Promise!Next \/ Stutter
  BY <1>0, <1>3, <1>14, LookupIsGet DEF Get, Promise!Next
<1>15. CASE UNCHANGED vars
  BY <1>2, <1>15 DEF vars
<1> QED
  BY <1>10, <1>11, <1>12, <1>13, <1>14, <1>15 DEF Next, Stuck

LEMMA DictInit == Init => Promise!Init
<1> SUFFICES ASSUME Init PROVE Promise!Init
  OBVIOUS
<1>1. ToBeMoved = {} /\ \A i \in DOMAIN entries : entries[i] = None
  BY InitType, AllMoved DEF Init
<1>2. Stored = {}
  BY <1>1 DEF Stored
<1> QED
  BY <1>2 DEF Init, Promise!Init, Contents

(* The table is a dictionary: a get returns the value set last for its     *)
(* key, whatever collided and whatever was moved, and nothing is lost by   *)
(* growing, up to the moment the program hangs or leaves its allocation.   *)
THEOREM ImplementsDictionary == Spec => IsDictionary
  BY InitDict, DictPreserved, DictInit, DictStep, PTL DEF Spec, IsDictionary, Promise!Spec
=============================================================================
