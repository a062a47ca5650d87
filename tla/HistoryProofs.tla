--------------------------- MODULE HistoryProofs ---------------------------
(***************************************************************************)
(* Theorems about History, for any lines, any HistMax and any number of    *)
(* addresses.                                                              *)
(***************************************************************************)
EXTENDS History, Extremes, SequenceTheorems, FiniteSetTheorems

Size == Cardinality(Addr)
Pointer == Addr \cup {Null}
HeapNode == [command : Lines, next : Pointer, prev : Pointer]

LEMMA SizeIsNatural == Size \in Nat
BY HistoryAssumption, FS_CardinalityType DEF Size

-----------------------------------------------------------------------------
(* The type invariant.                                                     *)

(* A line that is recalled is that of a node, never of Null. *)
Typed == TypeOK /\ (recalling => curr \in Addr)

LEMMA LinkIsTyped ==
  ASSUME Typed, NEW new \in Addr, NEW command \in Lines, Link(new, command)
  PROVE  node' \in [Addr -> HeapNode] /\ first' \in Pointer
<1>1. \A a \in Addr : node[a] \in HeapNode
  BY DEF Typed, TypeOK, HeapNode, Pointer
<1>2. \A a \in Addr : [node[a] EXCEPT !.prev = new] \in HeapNode
  BY <1>1 DEF HeapNode, Pointer
<1>3. [command |-> command, next |-> first, prev |-> Null] \in HeapNode
  BY DEF Typed, TypeOK, HeapNode, Pointer
<1> QED
  BY <1>1, <1>2, <1>3 DEF Link, Pointer

LEMMA RecallIsTyped ==
  ASSUME Typed, NEW a \in Addr, Recall(a)
  PROVE  Typed'
<1>1. node[a].command \in Lines
  BY DEF Typed, TypeOK
<1> QED
  BY <1>1 DEF Recall, list, Typed, TypeOK

LEMMA TypedStays == Typed /\ [Next]_vars => Typed'
<1> SUFFICES ASSUME Typed, [Next]_vars PROVE Typed'
  OBVIOUS
<1> USE HistoryAssumption
<1>1. CASE EnterNew
  <2>1. PICK freed \in SUBSET live, new \in Addr :
          live' = freed \cup {new} /\ Link(new, Tokenized(text))
    BY <1>1 DEF EnterNew
  <2>2. Tokenized(text) \in Lines
    BY DEF Typed, TypeOK
  <2>3. node' \in [Addr -> HeapNode] /\ first' \in Pointer
    BY <2>1, <2>2, LinkIsTyped
  <2>4. live' \subseteq Addr
    BY <2>1 DEF Typed, TypeOK
  <2>5. count' \in 0 .. MaxCount
    BY <1>1 DEF EnterNew, Typed, TypeOK
  <2> QED
    BY <1>1, <2>3, <2>4, <2>5 DEF EnterNew, NextLine, Typed, TypeOK, HeapNode, Pointer
<1>2. CASE EnterOld
  BY <1>2 DEF EnterOld, NextLine, list, Typed, TypeOK
<1>3. CASE Hang
  BY <1>3 DEF Hang, list, Typed, TypeOK
<1>4. CASE Crash \/ Overrun
  BY <1>4 DEF Crash, Overrun, list, Typed, TypeOK
<1>5. CASE Edit
  BY <1>5 DEF Edit, list, Typed, TypeOK
<1>6. CASE Up
  <2>1. first \in Pointer /\ (recalling => node[curr].next \in Pointer)
    BY DEF Typed, TypeOK, Pointer
  <2>2. \E a \in Addr : Recall(a)
    BY <1>6, <2>1 DEF Up, Pointer
  <2> QED
    BY <2>2, RecallIsTyped
<1>7. CASE Down
  <2>1. recalling /\ node[curr].prev \in Pointer
    BY <1>7 DEF Down, Typed, TypeOK, Pointer
  <2>2. CASE node[curr].prev # Null /\ Recall(node[curr].prev)
    BY <2>1, <2>2, RecallIsTyped DEF Pointer
  <2>3. CASE /\ text' = <<>> /\ recalling' = FALSE
             /\ UNCHANGED <<status, list, curr>>
    BY <2>3 DEF list, Typed, TypeOK
  <2> QED
    BY <1>7, <2>2, <2>3 DEF Down
<1>8. CASE Stuck \/ UNCHANGED vars
  BY <1>8 DEF Stuck, vars, list, Typed, TypeOK
<1> QED
  BY <1>1, <1>2, <1>3, <1>4, <1>5, <1>6, <1>7, <1>8 DEF Next

LEMMA AlwaysTyped == Spec => []Typed
<1>1. Init => Typed
  <2> SUFFICES ASSUME Init PROVE Typed
    OBVIOUS
  <2>1. [command |-> <<>>, next |-> Null, prev |-> Null] \in HeapNode
    BY HistoryAssumption DEF HeapNode, Pointer
  <2>2. node \in [Addr -> HeapNode]
    BY <2>1 DEF Init
  <2>3. recalling = FALSE /\ count \in 0 .. MaxCount
    BY HistoryAssumption DEF Init
  <2> QED
    BY <2>2, <2>3, HistoryAssumption DEF Init, Typed, TypeOK, HeapNode, Pointer
<1> QED
  BY <1>1, TypedStays, PTL DEF Spec

(* The type invariant: every pointer of the list is that of a node or      *)
(* Null, and every line kept is one a user may have typed, even where      *)
(* nodes that were freed are still linked.                                 *)
THEOREM TypeCorrect == Spec => []TypeOK
<1>1. Typed => TypeOK
  BY DEF Typed
<1> QED
  BY <1>1, AlwaysTyped, PTL

-----------------------------------------------------------------------------
(* Walking along next.                                                     *)

Steps(w, nd, head) ==
  w = [k \in 0 .. Size |->
         IF k = 0 THEN head ELSE IF w[k - 1] = Null THEN Null ELSE nd[w[k - 1]].next]

(* The recursive equation of walk has a solution in any heap. *)
LEMMA WalkExists ==
  ASSUME NEW nd, NEW head
  PROVE  \E w : Steps(w, nd, head)
<1> DEFINE After(a) == IF a = Null THEN Null ELSE nd[a].next
           Walks(w, n) == w = [k \in 0 .. n |-> IF k = 0 THEN head ELSE After(w[k - 1])]
           Walked == {n \in Nat : \E w : Walks(w, n)}
<1>1. 0 \in Walked
  <2> DEFINE w == [k \in 0 .. 0 |-> head]
  <2>1. \A k \in 0 .. 0 : k = 0
    OBVIOUS
  <2>2. Walks(w, 0)
    BY <2>1
  <2> QED
    BY <2>2
<1>2. \A n \in 0 .. Size - 1 : n \in Walked => n + 1 \in Walked
  <2> SUFFICES ASSUME NEW n \in 0 .. Size - 1, n \in Walked PROVE n + 1 \in Walked
    OBVIOUS
  <2>1. PICK w : Walks(w, n)
    OBVIOUS
  <2>2. n \in Nat
    BY SizeIsNatural
  <2> DEFINE v == [k \in 0 .. n + 1 |-> IF k = 0 THEN head ELSE After(w[k - 1])]
  <2> HIDE DEF After
  <2>3. \A k \in 0 .. n : v[k] = w[k]
    <3> TAKE k \in 0 .. n
    <3>1. w[k] = IF k = 0 THEN head ELSE After(w[k - 1])
      BY <2>1
    <3>2. k \in 0 .. n + 1
      BY <2>2
    <3>3. v[k] = IF k = 0 THEN head ELSE After(w[k - 1])
      BY <3>2
    <3> QED
      BY <3>1, <3>3
  <2> HIDE DEF v
  <2>4. \A k \in 0 .. n + 1 : (IF k = 0 THEN head ELSE After(w[k - 1]))
                              = IF k = 0 THEN head ELSE After(v[k - 1])
    <3> SUFFICES ASSUME NEW k \in 0 .. n + 1, k # 0 PROVE w[k - 1] = v[k - 1]
      BY Zenon
    <3>1. k - 1 \in 0 .. n
      BY <2>2
    <3> QED
      BY <2>3, <3>1
  <2>5. Walks(v, n + 1)
    BY <2>4, Zenon DEF v
  <2> HIDE DEF Walks
  <2> QED
    BY <2>2, <2>5
<1>3. Size \in Walked
  <2> HIDE DEF Walked
  <2>1. \A n \in 0 .. Size : n \in Walked
    BY <1>1, <1>2, SizeIsNatural, InductionUpTo
  <2> QED
    BY <2>1, SizeIsNatural
<1>4. PICK w : Walks(w, Size)
  BY <1>3
<1>5. Steps(w, nd, head)
  BY <1>4 DEF Steps
<1> QED
  BY <1>5

LEMMA WalkSteps == Steps(walk, node, first)
<1>1. PICK w : Steps(w, node, first)
  BY WalkExists
<1> QED
  BY <1>1 DEF walk, Steps, Size

LEMMA NextWalkSteps == Steps(walk', node', first')
<1>1. PICK w : Steps(w, node', first')
  BY WalkExists
<1> QED
  BY <1>1 DEF walk, Steps, Size

LEMMA StepsPointwise ==
  ASSUME NEW w, NEW nd, NEW head, Steps(w, nd, head)
  PROVE  /\ w[0] = head
         /\ \A k \in 0 .. Size - 1 :
              w[k + 1] = IF w[k] = Null THEN Null ELSE nd[w[k]].next
<1>1. \A k \in 0 .. Size :
        w[k] = IF k = 0 THEN head ELSE IF w[k - 1] = Null THEN Null ELSE nd[w[k - 1]].next
  BY DEF Steps
<1>2. 0 \in 0 .. Size
  BY SizeIsNatural
<1>3. ASSUME NEW k \in 0 .. Size - 1
      PROVE  w[k + 1] = IF w[k] = Null THEN Null ELSE nd[w[k]].next
  <2>1. k + 1 \in 0 .. Size /\ k + 1 # 0 /\ (k + 1) - 1 = k
    BY SizeIsNatural
  <2> QED
    BY <1>1, <2>1
<1> QED
  BY <1>1, <1>2, <1>3

(* Once it has come to the end a walk stays there. *)
LEMMA EndStays ==
  ASSUME NEW w, NEW nd, NEW head, Steps(w, nd, head),
         NEW n \in 0 .. Size, w[n] = Null
  PROVE  \A k \in n .. Size : w[k] = Null
<1> DEFINE S == {k \in Nat : w[n + k] = Null}
<1>1. n \in Nat /\ Size \in Nat /\ Size - n \in Nat
  BY SizeIsNatural
<1>2. 0 \in S
  BY <1>1
<1>3. ASSUME NEW k \in 0 .. (Size - n) - 1, k \in S PROVE k + 1 \in S
  <2>1. n + k \in 0 .. Size - 1 /\ n + (k + 1) = (n + k) + 1
    BY <1>1
  <2>2. w[n + k] = Null
    BY <1>3
  <2>3. w[(n + k) + 1] = Null
    BY <2>1, <2>2, StepsPointwise
  <2> QED
    BY <1>1, <2>1, <2>3
<1>4. \A k \in 0 .. Size - n : k \in S
  <2> HIDE DEF S
  <2> QED
    BY <1>1, <1>2, <1>3, InductionUpTo
<1>5. ASSUME NEW k \in n .. Size PROVE w[k] = Null
  <2>1. k - n \in 0 .. Size - n /\ n + (k - n) = k
    BY <1>1
  <2>2. w[n + (k - n)] = Null
    BY <1>4, <2>1
  <2> QED
    BY <2>1, <2>2
<1> QED
  BY <1>5

-----------------------------------------------------------------------------
(* The doubly linked list, until it is full.                               *)

(* The walk w passes n nodes, the allocated ones, each once, and prev      *)
(* leads back.                                                             *)
WellLinked(w, nd, lv, n) ==
  /\ n \in 0 .. Size
  /\ \A k \in 0 .. n - 1 : w[k] \in lv
  /\ \A a \in lv : \E k \in 0 .. n - 1 : w[k] = a
  /\ \A j, k \in 0 .. n - 1 : w[j] = w[k] => j = k
  /\ \A k \in n .. Size : w[k] = Null
  /\ \A k \in 0 .. n - 1 : nd[w[k]].prev = IF k = 0 THEN Null ELSE w[k - 1]

LEMMA WellLinkedLength ==
  ASSUME NEW w, NEW nd, NEW lv \in SUBSET Addr, NEW n, WellLinked(w, nd, lv, n)
  PROVE  Cardinality(lv) = n
<1> DEFINE f == [k \in 1 .. n |-> w[k - 1]]
<1>1. n \in Nat
  BY SizeIsNatural DEF WellLinked
<1>2. \A k \in 1 .. n : k - 1 \in 0 .. n - 1
  BY <1>1
<1>3. f \in [1 .. n -> lv]
  BY <1>2 DEF WellLinked
<1>4. ASSUME NEW j \in 1 .. n, NEW k \in 1 .. n, f[j] = f[k] PROVE j = k
  <2>1. w[j - 1] = w[k - 1] /\ j - 1 \in 0 .. n - 1 /\ k - 1 \in 0 .. n - 1
    BY <1>2, <1>4
  <2>2. j - 1 = k - 1
    BY <2>1 DEF WellLinked
  <2> QED
    BY <1>1, <2>2
<1>5. ASSUME NEW a \in lv PROVE \E k \in 1 .. n : f[k] = a
  <2>1. PICK k \in 0 .. n - 1 : w[k] = a
    BY DEF WellLinked
  <2>2. k + 1 \in 1 .. n /\ (k + 1) - 1 = k
    BY <1>1
  <2>3. f[k + 1] = a
    BY <2>1, <2>2
  <2> QED
    BY <2>2, <2>3
<1> HIDE DEF f
<1>6. f \in Bijection(1 .. n, lv)
  BY <1>3, <1>4, <1>5 DEF Bijection, Injection, IsInjective, Surjection
<1> QED
  BY <1>1, <1>6, FS_CountingElements DEF ExistsBijection

LEMMA EmptyIsWellLinked ==
  ASSUME NEW w, NEW nd, Steps(w, nd, Null)
  PROVE  WellLinked(w, nd, {}, 0)
<1>1. 0 \in 0 .. Size /\ w[0] = Null
  BY SizeIsNatural, StepsPointwise
<1>2. \A k \in 0 .. Size : w[k] = Null
  BY <1>1, EndStays
<1> QED
  BY <1>1, <1>2 DEF WellLinked

(* A new head, linked as h_push does. *)
Pushed(nd2, nd, head, new, command) ==
  nd2 = [a \in Addr |->
           IF a = new THEN [command |-> command, next |-> head, prev |-> Null]
           ELSE IF a = head THEN [nd[a] EXCEPT !.prev = new]
           ELSE nd[a]]

PushStep(w, nd, head, lv, n, w2, nd2, new, command) ==
  /\ nd \in [Addr -> HeapNode] /\ head \in Pointer /\ lv \in SUBSET Addr
  /\ Steps(w, nd, head) /\ WellLinked(w, nd, lv, n)
  /\ new \in Addr /\ new \notin lv
  /\ Steps(w2, nd2, new) /\ Pushed(nd2, nd, head, new, command)

Shifted(w2, w, n, new) == w2[0] = new /\ \A k \in 0 .. n : w2[k + 1] = w[k]

LEMMA PushIsWellLinked ==
  ASSUME NEW w, NEW nd, NEW head, NEW lv, NEW n, NEW w2, NEW nd2, NEW new, NEW command,
         PushStep(w, nd, head, lv, n, w2, nd2, new, command)
  PROVE  WellLinked(w2, nd2, lv \cup {new}, n + 1) /\ Shifted(w2, w, n, new)
<1> USE DEF PushStep, WellLinked, Pushed
<1>1. n \in Nat /\ Size \in Nat
  BY SizeIsNatural
<1>2. n < Size
  <2>1. IsFiniteSet(lv) /\ IsFiniteSet(Addr)
    BY HistoryAssumption, FS_Subset
  <2>2. Cardinality(lv \cup {new}) = n + 1
    <3>1. Cardinality(lv) = n
      <4> HIDE DEF WellLinked
      <4> QED
        BY WellLinkedLength
    <3> QED
      BY <2>1, <3>1, FS_AddElement
  <2>3. Cardinality(lv \cup {new}) <= Size
    BY <2>1, FS_Subset DEF Size
  <2> QED
    BY <1>1, <2>2, <2>3
<1>3. w2[0] = new /\ w[0] = head
  BY StepsPointwise
<1>4. new # Null /\ \A a \in lv : a # Null /\ a # new
  BY HistoryAssumption
<1>5. /\ nd2[new].next = head /\ nd2[new].prev = Null
      /\ \A a \in lv : nd2[a].next = nd[a].next
      /\ \A a \in lv : nd2[a].prev = IF a = head THEN new ELSE nd[a].prev
  <2>1. \A a \in Addr : nd[a] \in HeapNode
    OBVIOUS
  <2>2. nd2[new] = [command |-> command, next |-> head, prev |-> Null]
    OBVIOUS
  <2>3. ASSUME NEW a \in lv
        PROVE  nd2[a] = IF a = head THEN [nd[a] EXCEPT !.prev = new] ELSE nd[a]
    BY <1>4
  <2> QED
    BY <2>1, <2>2, <2>3 DEF HeapNode
<1>6. \A k \in 0 .. n : w2[k + 1] = w[k]
  <2> DEFINE S == {k \in Nat : w2[k + 1] = w[k]}
  <2>1. 0 \in S
    <3>1. 0 \in 0 .. Size - 1
      BY <1>1, <1>2
    <3>2. w2[0 + 1] = nd2[new].next
      BY <1>3, <1>4, <3>1, StepsPointwise
    <3> QED
      BY <1>3, <1>5, <3>2
  <2>2. ASSUME NEW k \in 0 .. n - 1, k \in S PROVE k + 1 \in S
    <3>1. w[k] \in lv /\ w2[k + 1] = w[k]
      BY <2>2
    <3>2. k \in 0 .. Size - 1 /\ k + 1 \in 0 .. Size - 1
      BY <1>1, <1>2
    <3>3. w[k + 1] = nd[w[k]].next
      BY <1>4, <3>1, <3>2, StepsPointwise
    <3>4. w2[(k + 1) + 1] = nd2[w[k]].next
      <4>1. \A j \in 0 .. Size - 1 : w2[j + 1] = IF w2[j] = Null THEN Null ELSE nd2[w2[j]].next
        <5> HIDE DEF WellLinked
        <5> QED
          BY StepsPointwise
      <4>2. w2[k + 1] # Null
        BY <1>4, <3>1
      <4> QED
        BY <3>1, <3>2, <4>1, <4>2
    <3>5. w2[(k + 1) + 1] = w[k + 1]
      BY <1>5, <3>1, <3>3, <3>4
    <3> QED
      BY <1>1, <3>5
  <2>3. \A k \in 0 .. n : k \in S
    <3> HIDE DEF S
    <3> QED
      BY <1>1, <2>1, <2>2, InductionUpTo
  <2> QED
    BY <2>3
<1> DEFINE lv2 == lv \cup {new}
           m == n + 1
<1>7. \A k \in 0 .. m - 1 : w2[k] \in lv2 /\ (k = 0 \/ (k - 1 \in 0 .. n - 1 /\ w2[k] = w[k - 1]))
  <2> SUFFICES ASSUME NEW k \in 0 .. m - 1, k # 0
               PROVE  w2[k] \in lv /\ k - 1 \in 0 .. n - 1 /\ w2[k] = w[k - 1]
    BY <1>3
  <2>1. k - 1 \in 0 .. n - 1 /\ k - 1 \in 0 .. n /\ (k - 1) + 1 = k
    BY <1>1
  <2>2. w2[(k - 1) + 1] = w[k - 1]
    BY <1>6, <2>1
  <2> QED
    BY <2>1, <2>2
<1>8. ASSUME NEW a \in lv2 PROVE \E k \in 0 .. m - 1 : w2[k] = a
  <2>1. CASE a = new
    <3>1. 0 \in 0 .. m - 1
      BY <1>1
    <3> QED
      BY <1>3, <2>1, <3>1
  <2>2. CASE a \in lv
    <3>1. PICK k \in 0 .. n - 1 : w[k] = a
      BY <2>2
    <3>2. k + 1 \in 0 .. m - 1 /\ w2[k + 1] = a
      BY <1>1, <1>6, <3>1
    <3> QED
      BY <3>2
  <2> QED
    BY <2>1, <2>2
<1>9. ASSUME NEW j \in 0 .. m - 1, NEW k \in 0 .. m - 1, w2[j] = w2[k] PROVE j = k
  <2>1. \A i \in 0 .. m - 1 : i # 0 => w2[i] \in lv
    <3> SUFFICES ASSUME NEW i \in 0 .. m - 1, i # 0 PROVE w2[i] \in lv
      OBVIOUS
    <3>1. i - 1 \in 0 .. n - 1 /\ w2[i] = w[i - 1]
      BY <1>7
    <3> QED
      BY <3>1
  <2>2. CASE j = 0 \/ k = 0
    BY <1>3, <1>4, <1>9, <2>1, <2>2
  <2>3. CASE j # 0 /\ k # 0
    <3>1. j - 1 \in 0 .. n - 1 /\ k - 1 \in 0 .. n - 1 /\ w[j - 1] = w[k - 1]
      BY <1>7, <1>9, <2>3
    <3>2. j - 1 = k - 1
      BY <3>1
    <3> QED
      BY <1>1, <3>2
  <2> QED
    BY <2>2, <2>3
<1>10. \A k \in m .. Size : w2[k] = Null
  <2>1. m \in 0 .. Size /\ w2[m] = w[n] /\ w[n] = Null
    BY <1>1, <1>2, <1>6
  <2> HIDE DEF m
  <2> QED
    BY <2>1, EndStays
<1>11. ASSUME NEW k \in 0 .. m - 1
       PROVE  nd2[w2[k]].prev = IF k = 0 THEN Null ELSE w2[k - 1]
  <2>1. CASE k = 0
    BY <1>3, <1>5, <2>1
  <2>2. CASE k # 0
    <3>1. k - 1 \in 0 .. n - 1 /\ w2[k] = w[k - 1] /\ w[k - 1] \in lv
      BY <1>7, <2>2
    <3>2. 0 \in 0 .. n - 1
      BY <1>1, <3>1
    <3>3. CASE k = 1
      BY <1>3, <1>5, <3>1, <3>3
    <3>4. CASE k # 1
      <4>1. w[k - 1] # head
        <5>1. w[k - 1] # w[0]
          BY <1>1, <3>1, <3>2, <3>4
        <5> QED
          BY <1>3, <5>1
      <4>2. nd2[w2[k]].prev = nd[w[k - 1]].prev
        BY <1>5, <3>1, <4>1
      <4>3. nd[w[k - 1]].prev = w[(k - 1) - 1]
        BY <1>1, <3>1, <3>4
      <4>4. k - 1 \in 0 .. m - 1 /\ k - 1 # 0
        BY <1>1, <3>1, <3>4
      <4>5. w2[k - 1] = w[(k - 1) - 1]
        BY <1>7, <4>4
      <4> QED
        BY <2>2, <4>2, <4>3, <4>5
    <3> QED
      BY <3>3, <3>4
  <2> QED
    BY <2>1, <2>2
<1>12. m \in 0 .. Size
  BY <1>1, <1>2
<1>13. WellLinked(w2, nd2, lv2, m)
  <2>1. \A k \in 0 .. m - 1 : w2[k] \in lv2
    BY <1>7
  <2> HIDE DEF lv2, m
  <2> QED
    BY <2>1, <1>8, <1>9, <1>10, <1>11, <1>12
<1> QED
  BY <1>3, <1>6, <1>13 DEF Shifted

(* The invariant of the list that is not full yet: the walk from the head  *)
(* passes exactly the allocated nodes, and the list has not failed.        *)
ListInv ==
  count < HistMax =>
    /\ status \in {"reading", "overrun"}
    /\ WellLinked(walk, node, live, count)
    /\ recalling => curr \in live

(* The neighbours of a node of the list. *)
LEMMA Neighbours ==
  ASSUME Typed, WellLinked(walk, node, live, count), NEW k \in 0 .. count - 1
  PROVE  /\ k + 1 \in 0 .. count
         /\ node[walk[k]].next = walk[k + 1]
         /\ node[walk[k]].next = Null <=> k + 1 = count
         /\ node[walk[k]].prev = IF k = 0 THEN Null ELSE walk[k - 1]
         /\ node[walk[k]].prev = Null <=> k = 0
<1>1. count \in Nat /\ count <= Size /\ Size \in Nat
  BY SizeIsNatural DEF WellLinked
<1>2. \A j \in 0 .. count - 1 : walk[j] \in live /\ walk[j] # Null
  BY HistoryAssumption DEF WellLinked, Typed, TypeOK
<1>3. k + 1 \in 0 .. count /\ k \in 0 .. Size - 1
  BY <1>1
<1>4. node[walk[k]].next = walk[k + 1]
  BY <1>2, <1>3, WalkSteps, StepsPointwise
<1>5. walk[k + 1] = Null <=> k + 1 = count
  <2>1. CASE k + 1 = count
    <3>1. count \in count .. Size
      BY <1>1
    <3> QED
      BY <2>1, <3>1 DEF WellLinked
  <2>2. CASE k + 1 # count
    <3>1. k + 1 \in 0 .. count - 1
      BY <1>1, <1>3, <2>2
    <3> QED
      BY <1>2, <2>2, <3>1
  <2> QED
    BY <2>1, <2>2
<1>6. node[walk[k]].prev = IF k = 0 THEN Null ELSE walk[k - 1]
  BY DEF WellLinked
<1>7. k # 0 => walk[k - 1] # Null
  <2> SUFFICES ASSUME k # 0 PROVE walk[k - 1] # Null
    OBVIOUS
  <2>1. k - 1 \in 0 .. count - 1
    BY <1>1
  <2> QED
    BY <1>2, <2>1
<1> QED
  BY <1>3, <1>4, <1>5, <1>6, <1>7

LEMMA HeadOfList ==
  ASSUME Typed, WellLinked(walk, node, live, count)
  PROVE  /\ first = walk[0]
         /\ first = Null <=> count = 0
<1>1. count \in 0 .. Size /\ Size \in Nat
  BY SizeIsNatural DEF WellLinked
<1>2. first = walk[0]
  BY WalkSteps, StepsPointwise
<1>3. CASE count = 0
  <2>1. 0 \in count .. Size
    BY <1>1, <1>3
  <2> QED
    BY <1>2, <1>3, <2>1 DEF WellLinked
<1>4. CASE count # 0
  <2>1. 0 \in 0 .. count - 1
    BY <1>1, <1>4
  <2>2. walk[0] \in live
    BY <2>1 DEF WellLinked
  <2> QED
    BY <1>2, <1>4, <2>2, HistoryAssumption DEF Typed, TypeOK
<1> QED
  BY <1>2, <1>3, <1>4

LEMMA PassedAreLive ==
  ASSUME Typed, WellLinked(walk, node, live, count)
  PROVE  /\ ~Endless
         /\ Passed = live
         /\ Cardinality(live) = count
         /\ \A a \in live : node[a].next \in live \cup {Null}
<1>1. count \in 0 .. Size /\ Size \in Nat
  BY SizeIsNatural DEF WellLinked
<1>2. live \subseteq Addr /\ Null \notin live
  BY HistoryAssumption DEF Typed, TypeOK
<1>3. ~Endless
  <2>1. Size \in count .. Size
    BY <1>1
  <2>2. walk[Size] = Null
    BY <2>1 DEF WellLinked
  <2> QED
    BY <2>2 DEF Endless, Size
<1>4. ASSUME NEW a \in Passed PROVE a \in live
  <2>1. PICK k \in 0 .. Size : a = walk[k] /\ a # Null
    BY DEF Passed, Size
  <2>2. k \notin count .. Size
    BY <2>1 DEF WellLinked
  <2>3. k \in 0 .. count - 1
    BY <1>1, <2>2
  <2> QED
    BY <2>1, <2>3 DEF WellLinked
<1>5. ASSUME NEW a \in live PROVE a \in Passed /\ node[a].next \in live \cup {Null}
  <2>1. PICK k \in 0 .. count - 1 : walk[k] = a
    BY DEF WellLinked
  <2>2. k \in 0 .. Size
    BY <1>1
  <2>3. a \in Passed
    BY <1>2, <2>1, <2>2 DEF Passed, Size
  <2>4. node[a].next = walk[k + 1] /\ (node[a].next = Null <=> k + 1 = count)
    BY <2>1, Neighbours
  <2>5. k + 1 # count => k + 1 \in 0 .. count - 1
    BY <1>1
  <2> QED
    BY <2>3, <2>4, <2>5 DEF WellLinked
<1>6. Cardinality(live) = count
  BY <1>2, WellLinkedLength
<1> QED
  BY <1>3, <1>4, <1>5, <1>6

LEMMA EnterKeepsList ==
  ASSUME Typed, ListInv, EnterNew, count' < HistMax
  PROVE  /\ count < HistMax
         /\ WellLinked(walk', node', live', count')
         /\ first' \in Addr
         /\ walk'[0] = first' /\ \A k \in 0 .. count : walk'[k + 1] = walk[k]
         /\ node'[first'].command = Tokenized(text)
         /\ \A k \in 0 .. count - 1 : node'[walk[k]].command = node[walk[k]].command
<1>1. count \in Nat /\ count' = count + 1 /\ count < HistMax /\ ~(count' >= HistMax)
  BY HistoryAssumption DEF EnterNew, Typed, TypeOK
<1>2. PICK new \in Addr : /\ new \notin live /\ live' = live \cup {new}
                          /\ Link(new, Tokenized(text))
  BY <1>1 DEF EnterNew
<1>3. WellLinked(walk, node, live, count)
  BY <1>1 DEF ListInv
<1>4. node \in [Addr -> HeapNode] /\ first \in Pointer /\ live \in SUBSET Addr
  BY DEF Typed, TypeOK, HeapNode, Pointer
<1>5. first' = new /\ Pushed(node', node, first, new, Tokenized(text))
  BY <1>2 DEF Link, Pushed
<1>6. Steps(walk, node, first) /\ Steps(walk', node', new)
  BY <1>5, WalkSteps, NextWalkSteps
<1>7. WellLinked(walk', node', live \cup {new}, count + 1) /\ Shifted(walk', walk, count, new)
  <2>1. PushStep(walk, node, first, live, count, walk', node', new, Tokenized(text))
    BY <1>2, <1>3, <1>4, <1>5, <1>6 DEF PushStep
  <2> QED
    BY <2>1, PushIsWellLinked
<1>8. node'[new].command = Tokenized(text)
  BY <1>5 DEF Pushed
<1>9. ASSUME NEW k \in 0 .. count - 1 PROVE node'[walk[k]].command = node[walk[k]].command
  <2>1. walk[k] \in live
    BY <1>3 DEF WellLinked
  <2>2. walk[k] \in Addr /\ walk[k] # new /\ node[walk[k]] \in HeapNode
    BY <1>2, <1>4, <2>1
  <2> QED
    BY <1>5, <2>2 DEF HeapNode, Pushed
<1> QED
  BY <1>1, <1>2, <1>5, <1>7, <1>8, <1>9 DEF Shifted

LEMMA RecallKeepsList ==
  ASSUME ListInv, NEW a, count < HistMax => a \in live, Recall(a)
  PROVE  ListInv'
<1>1. walk' = walk
  BY DEF Recall, list, walk
<1> QED
  BY <1>1 DEF Recall, list, ListInv, WellLinked

LEMMA ListInvStays == Typed /\ ListInv /\ [Next]_vars => ListInv'
<1> SUFFICES ASSUME Typed, ListInv, [Next]_vars PROVE ListInv'
  OBVIOUS
<1>1. count \in Nat /\ HistMax \in Nat
  BY HistoryAssumption DEF Typed, TypeOK
<1>2. ASSUME UNCHANGED list PROVE walk' = walk
  BY <1>2 DEF list, walk
<1>3. CASE EnterNew
  <2>1. count' < HistMax => WellLinked(walk', node', live', count')
    BY <1>3, EnterKeepsList
  <2> QED
    BY <1>3, <2>1 DEF EnterNew, NextLine, ListInv
<1>4. CASE EnterOld
  BY <1>2, <1>4 DEF EnterOld, NextLine, list, ListInv, WellLinked
<1>5. CASE Hang
  <2>1. count < HistMax => ~Endless
    BY PassedAreLive DEF ListInv
  <2> QED
    BY <1>1, <1>5, <2>1 DEF Hang, list, ListInv
<1>6. CASE Crash
  <2>1. SUFFICES ASSUME count < HistMax PROVE FALSE
    BY <1>6 DEF Crash, list, ListInv
  <2>2. WellLinked(walk, node, live, count) /\ (recalling => curr \in live)
    BY <2>1 DEF ListInv
  <2>3. Passed = live /\ (recalling => node[curr].next \in live \cup {Null})
    BY <2>2, PassedAreLive
  <2> QED
    BY <1>6, <2>3, HistoryAssumption DEF Crash
<1>7. CASE Edit
  BY <1>2, <1>7 DEF Edit, list, ListInv, WellLinked
<1>8. CASE Up
  <2>1. ASSUME count < HistMax
        PROVE  /\ first # Null => first \in live
               /\ recalling /\ node[curr].next # Null => node[curr].next \in live
    <3>1. WellLinked(walk, node, live, count) /\ (recalling => curr \in live)
      BY <2>1 DEF ListInv
    <3>2. first # Null => 0 \in 0 .. count - 1 /\ first = walk[0]
      BY <1>1, <3>1, HeadOfList
    <3>3. first # Null => first \in live
      BY <3>1, <3>2 DEF WellLinked
    <3> QED
      BY <3>1, <3>3, PassedAreLive
  <2>2. CASE ~recalling /\ first # Null /\ Recall(first)
    BY <2>1, <2>2, RecallKeepsList
  <2>3. CASE recalling /\ node[curr].next # Null /\ Recall(node[curr].next)
    BY <2>1, <2>3, RecallKeepsList
  <2> QED
    BY <1>8, <2>2, <2>3 DEF Up
<1>9. CASE Down
  <2>1. CASE node[curr].prev # Null /\ Recall(node[curr].prev)
    <3>1. ASSUME count < HistMax PROVE node[curr].prev \in live
      <4>1. WellLinked(walk, node, live, count) /\ curr \in live
        BY <1>9, <3>1 DEF ListInv, Down
      <4>2. PICK k \in 0 .. count - 1 : walk[k] = curr
        BY <4>1 DEF WellLinked
      <4>3. k # 0 /\ node[curr].prev = walk[k - 1]
        BY <2>1, <4>1, <4>2, Neighbours
      <4>4. k - 1 \in 0 .. count - 1
        BY <1>1, <4>3
      <4> QED
        BY <4>1, <4>3, <4>4 DEF WellLinked
    <3> QED
      BY <2>1, <3>1, RecallKeepsList
  <2>2. CASE recalling' = FALSE /\ UNCHANGED <<status, list, curr>>
    BY <1>2, <2>2 DEF list, ListInv, WellLinked
  <2> QED
    BY <1>9, <2>1, <2>2 DEF Down
<1>10. CASE Stuck \/ UNCHANGED vars
  BY <1>2, <1>10 DEF Stuck, vars, list, ListInv, WellLinked
<1>11. CASE Overrun
  BY <1>2, <1>11 DEF Overrun, list, ListInv, WellLinked
<1> QED
  BY <1>3, <1>4, <1>5, <1>6, <1>7, <1>8, <1>9, <1>10, <1>11 DEF Next

LEMMA AlwaysListInv == Spec => []ListInv
<1>1. Init => ListInv
  <2> SUFFICES ASSUME Init PROVE ListInv
    OBVIOUS
  <2>1. WellLinked(walk, node, {}, 0)
    BY WalkSteps, EmptyIsWellLinked DEF Init
  <2> QED
    BY <2>1 DEF Init, ListInv
<1> QED
  BY <1>1, ListInvStays, AlwaysTyped, PTL DEF Spec

(* Until HistMax lines were pushed the list is a proper doubly linked one: *)
(* it ends, holds count nodes that are all allocated, prev undoes next,    *)
(* and what is recalled is one of them.                                    *)
THEOREM ListIsDoublyLinked == Spec => []DoublyLinked
<1>1. Typed /\ ListInv => DoublyLinked
  <2> SUFFICES ASSUME Typed, ListInv, count < HistMax
               PROVE  /\ ~Endless
                      /\ Passed = live /\ Cardinality(Passed) = count
                      /\ \A a \in Passed :
                           node[a].next # Null => node[node[a].next].prev = a
                      /\ first # Null => node[first].prev = Null
                      /\ recalling => curr \in Passed
    BY DEF DoublyLinked
  <2>1. WellLinked(walk, node, live, count) /\ (recalling => curr \in live)
    BY DEF ListInv
  <2>2. ~Endless /\ Passed = live /\ Cardinality(live) = count
    BY <2>1, PassedAreLive
  <2>3. count \in Nat
    BY DEF Typed, TypeOK
  <2>4. ASSUME NEW a \in live, node[a].next # Null PROVE node[node[a].next].prev = a
    <3>1. PICK k \in 0 .. count - 1 : walk[k] = a
      BY <2>1 DEF WellLinked
    <3>2. node[a].next = walk[k + 1] /\ k + 1 # count
      BY <2>1, <2>4, <3>1, Neighbours
    <3>3. k + 1 \in 0 .. count - 1 /\ (k + 1) - 1 = k /\ k + 1 # 0
      BY <2>3, <3>2
    <3>4. node[walk[k + 1]].prev = walk[(k + 1) - 1]
      BY <2>1, <3>3, Neighbours
    <3> QED
      BY <3>1, <3>2, <3>3, <3>4
  <2>5. first # Null => node[first].prev = Null
    <3>1. first # Null => 0 \in 0 .. count - 1 /\ first = walk[0]
      BY <2>1, <2>3, HeadOfList
    <3> QED
      BY <2>1, <3>1, Neighbours
  <2> QED
    BY <2>1, <2>2, <2>4, <2>5
<1> QED
  BY <1>1, AlwaysTyped, AlwaysListInv, PTL

(* As long as the keys stay in the buffer of get_line, pop_back neither    *)
(* hangs nor frees a node twice before HistMax lines were pushed, and Up   *)
(* reads no node that was freed.                                           *)
THEOREM NoFailureBeforeFull == Spec => []FailsOnlyWhenFull
<1>1. Typed /\ ListInv => FailsOnlyWhenFull
  BY HistoryAssumption DEF Typed, TypeOK, ListInv, FailsOnlyWhenFull
<1> QED
  BY <1>1, AlwaysTyped, AlwaysListInv, PTL

-----------------------------------------------------------------------------
(* The list implements HistoryList.                                        *)

LogOf(w, nd, n) == [k \in 1 .. n |-> nd[w[k - 1]].command]
PositionOf(w, n, a) == CHOOSE k \in 1 .. n : w[k - 1] = a

Full == count >= HistMax
Log == IF count < HistMax THEN LogOf(walk, node, count) ELSE <<>>
Cursor == IF count < HistMax THEN Position ELSE 0

LEMMA LogOfIsSequence ==
  ASSUME NEW w, NEW nd \in [Addr -> HeapNode], NEW lv \in SUBSET Addr, NEW n,
         WellLinked(w, nd, lv, n)
  PROVE  /\ LogOf(w, nd, n) \in Seq(Lines)
         /\ Len(LogOf(w, nd, n)) = n
         /\ \A k \in 1 .. n : LogOf(w, nd, n)[k] = nd[w[k - 1]].command
<1>1. n \in Nat
  BY SizeIsNatural DEF WellLinked
<1>2. ASSUME NEW k \in 1 .. n PROVE nd[w[k - 1]].command \in Lines
  <2>1. k - 1 \in 0 .. n - 1
    BY <1>1
  <2>2. w[k - 1] \in lv
    BY <2>1 DEF WellLinked
  <2>3. nd[w[k - 1]] \in HeapNode
    BY <2>2
  <2> QED
    BY <2>3 DEF HeapNode
<1>3. LogOf(w, nd, n) \in [1 .. n -> Lines]
  BY <1>2 DEF LogOf
<1>4. LogOf(w, nd, n) \in Seq(Lines)
  BY <1>1, <1>3, SeqDef
<1>5. DOMAIN LogOf(w, nd, n) = 1 .. n
  BY DEF LogOf
<1>6. Len(LogOf(w, nd, n)) = n
  BY <1>1, <1>4, <1>5, LenProperties
<1> QED
  BY <1>4, <1>6 DEF LogOf

LEMMA PositionIsUnique ==
  ASSUME NEW w, NEW nd, NEW lv, NEW n, WellLinked(w, nd, lv, n), NEW j \in 0 .. n - 1
  PROVE  PositionOf(w, n, w[j]) = j + 1
<1>1. n \in Nat
  BY SizeIsNatural DEF WellLinked
<1>2. j + 1 \in 1 .. n /\ (j + 1) - 1 = j
  BY <1>1
<1>3. ASSUME NEW k \in 1 .. n, w[k - 1] = w[j] PROVE k = j + 1
  <2>1. k - 1 \in 0 .. n - 1
    BY <1>1
  <2>2. k - 1 = j
    BY <1>3, <2>1 DEF WellLinked
  <2> QED
    BY <1>1, <2>2
<1> QED
  BY <1>2, <1>3 DEF PositionOf

(* The log and the cursor while the list is not full. *)
LEMMA LogAndCursor ==
  ASSUME Typed, ListInv, count < HistMax
  PROVE  /\ WellLinked(walk, node, live, count)
         /\ Log \in Seq(Lines) /\ Len(Log) = count
         /\ \A k \in 1 .. count : Log[k] = node[walk[k - 1]].command
         /\ ~recalling => Cursor = 0
         /\ \A j \in 0 .. count - 1 : recalling /\ curr = walk[j] => Cursor = j + 1
<1>1. WellLinked(walk, node, live, count)
  BY DEF ListInv
<1>2. node \in [Addr -> HeapNode] /\ live \in SUBSET Addr
  BY DEF Typed, TypeOK, HeapNode, Pointer
<1>3. Log = LogOf(walk, node, count)
  BY DEF Log
<1>4. Cursor = IF recalling THEN PositionOf(walk, count, curr) ELSE 0
  BY DEF Cursor, Position, PositionOf
<1>5. /\ Log \in Seq(Lines) /\ Len(Log) = count
      /\ \A k \in 1 .. count : Log[k] = node[walk[k - 1]].command
  <2>1. /\ LogOf(walk, node, count) \in Seq(Lines)
        /\ Len(LogOf(walk, node, count)) = count
    BY <1>1, <1>2, LogOfIsSequence
  <2>2. \A k \in 1 .. count : LogOf(walk, node, count)[k] = node[walk[k - 1]].command
    BY DEF LogOf
  <2> QED
    BY <1>3, <2>1, <2>2
<1>6. \A j \in 0 .. count - 1 : recalling /\ curr = walk[j] => Cursor = j + 1
  BY <1>1, <1>4, PositionIsUnique
<1> QED
  BY <1>1, <1>4, <1>5, <1>6

LEMMA SameList ==
  ASSUME UNCHANGED list
  PROVE  walk' = walk /\ Log' = Log /\ (UNCHANGED <<curr, recalling>> => Cursor' = Cursor)
<1>1. walk' = walk
  BY DEF list, walk
<1>2. Log' = Log
  BY <1>1 DEF list, Log
<1>3. ASSUME UNCHANGED <<curr, recalling>> PROVE Cursor' = Cursor
  <2>1. Position' = IF recalling THEN PositionOf(walk', count', curr) ELSE 0
    BY <1>3 DEF Position, PositionOf
  <2>2. Position = IF recalling THEN PositionOf(walk, count, curr) ELSE 0
    BY DEF Position, PositionOf
  <2> QED
    BY <1>1, <2>1, <2>2 DEF list, Cursor
<1> QED
  BY <1>1, <1>2, <1>3

(* Pressing a key that recalls the k-th newest line. *)
LEMMA RecallsLine ==
  ASSUME Typed, ListInv, count < HistMax, NEW j \in 0 .. count - 1, Recall(walk[j])
  PROVE  /\ Cursor' = j + 1 /\ text' = Log[j + 1]
         /\ Log' = Log /\ Full' = Full
<1>1. UNCHANGED list /\ walk' = walk /\ Log' = Log
  BY SameList DEF Recall
<1>2. count' = count /\ curr' = walk[j] /\ recalling' = TRUE /\ count \in Nat
  BY <1>1 DEF Recall, list, Typed, TypeOK
<1>3. WellLinked(walk, node, live, count)
  BY DEF ListInv
<1>4. Cursor' = PositionOf(walk, count, walk[j])
  BY <1>1, <1>2 DEF Cursor, Position, PositionOf
<1>5. Cursor' = j + 1
  BY <1>3, <1>4, PositionIsUnique
<1>6. text' = Log[j + 1]
  <2>1. j + 1 \in 1 .. count /\ (j + 1) - 1 = j
    BY <1>2
  <2>2. Log[j + 1] = node[walk[(j + 1) - 1]].command
    BY <2>1, LogAndCursor
  <2> QED
    BY <2>1, <2>2 DEF Recall
<1> QED
  BY <1>1, <1>2, <1>5, <1>6 DEF Full

(* The steps of HistoryList, over the log and the cursor of the list.      *)

LEMMA PromisedEdit ==
  ASSUME text' \in Lines, Log' = Log, Cursor' = Cursor, Full' = Full
  PROVE  Promise!Edit
BY DEF Promise!Edit, Log, LogOf, Cursor, Full

LEMMA PromisedOlder ==
  ASSUME Cursor \in Nat, Cursor < Len(Log),
         Cursor' = Cursor + 1, text' = Log[Cursor + 1], Log' = Log, Full' = Full
  PROVE  Promise!Older
<1>1. Cursor + 1 # 0
  OBVIOUS
<1>2. Promise!Recall(Cursor + 1)
  <2>1. /\ Cursor' = Cursor + 1 /\ text' = IF Cursor + 1 = 0 THEN <<>> ELSE Log[Cursor + 1]
        /\ Log' = Log /\ Full' = Full
    BY <1>1
  <2> QED
    BY <2>1, Zenon DEF Promise!Recall, Log, LogOf, Cursor, Full
<1> QED
  BY <1>2 DEF Promise!Older, Log, LogOf, Cursor

LEMMA PromisedNewer ==
  ASSUME Cursor > 0, Cursor' = Cursor - 1,
         text' = (IF Cursor - 1 = 0 THEN <<>> ELSE Log[Cursor - 1]),
         Log' = Log, Full' = Full
  PROVE  Promise!Newer
BY DEF Promise!Newer, Promise!Recall, Log, LogOf, Cursor, Full

LEMMA SameTokenized == \A line : Promise!Tokenized(line) = Tokenized(line)
<1>1. \A S : Promise!Min(S) = Min(S)
  BY DEF Promise!Min, Min
<1>2. \A line : Promise!FirstTokenEnds(line) = FirstTokenEnds(line)
  BY DEF Promise!FirstTokenEnds, FirstTokenEnds
<1> QED
  BY <1>1, <1>2, Zenon DEF Promise!Tokenized, Tokenized

LEMMA PromisedEnter ==
  ASSUME Log' = IF text = <<>> \/ (Log # <<>> /\ text = Head(Log)) THEN Log
                ELSE <<Tokenized(text)>> \o Log,
         Full' = Full, Cursor' = 0, text' = <<>>
  PROVE  Promise!Enter
BY SameTokenized DEF Promise!Enter, Log, LogOf, Cursor, Full

LEMMA PromisedOverflow ==
  ASSUME Full', Full \/ Len(Log) + 1 >= HistMax
  PROVE  Promise!Overflow
BY DEF Promise!Overflow, Log, LogOf, Full

LEMMA ImplementsInit == Init => Promise!Init
<1> SUFFICES ASSUME Init PROVE Promise!Init
  OBVIOUS
<1>1. 0 < HistMax
  BY HistoryAssumption
<1>2. Log = <<>>
  <2>1. Log = LogOf(walk, node, 0)
    BY <1>1 DEF Init, Log
  <2>2. LogOf(walk, node, 0) \in Seq(Lines) /\ Len(LogOf(walk, node, 0)) = 0
    <3>1. WellLinked(walk, node, {}, 0)
      BY WalkSteps, EmptyIsWellLinked DEF Init
    <3>2. node \in [Addr -> HeapNode]
      <4>1. [command |-> <<>>, next |-> Null, prev |-> Null] \in HeapNode
        BY HistoryAssumption DEF HeapNode, Pointer
      <4> QED
        BY <4>1 DEF Init
    <3> QED
      BY <3>1, <3>2, LogOfIsSequence
  <2> QED
    BY <2>1, <2>2, EmptySeq
<1>3. Cursor = 0 /\ text = <<>>
  BY <1>1 DEF Init, Cursor, Position
<1>4. (count >= HistMax) = FALSE
  BY HistoryAssumption DEF Init
<1> QED
  BY <1>2, <1>3, <1>4, Zenon DEF Promise!Init, Log, LogOf, Cursor

(* The line entered last is the head of the log. *)
LEMMA NewIsNotHead ==
  ASSUME Typed, ListInv, count < HistMax
  PROVE  IsNew <=> ~(text = <<>> \/ (Log # <<>> /\ text = Head(Log)))
<1>1. /\ WellLinked(walk, node, live, count) /\ Log \in Seq(Lines) /\ Len(Log) = count
      /\ \A k \in 1 .. count : Log[k] = node[walk[k - 1]].command
  BY LogAndCursor
<1>2. count \in Nat /\ first = walk[0]
  BY <1>1, HeadOfList DEF Typed, TypeOK
<1>3. Log # <<>> <=> count > 0
  BY <1>1, <1>2, EmptySeq
<1>4. ASSUME count > 0 PROVE Head(Log) = node[first].command
  <2>1. 1 \in 1 .. count /\ 1 - 1 = 0
    BY <1>2, <1>4
  <2>2. Log[1] = node[walk[1 - 1]].command
    BY <1>1, <2>1
  <2>3. Head(Log) = Log[1]
    BY <1>1, <1>3, <1>4
  <2> QED
    BY <1>2, <2>1, <2>2, <2>3
<1> QED
  BY <1>2, <1>3, <1>4 DEF IsNew

LEMMA EnterImplements ==
  ASSUME Typed, ListInv, ListInv', Typed', EnterNew, count' < HistMax
  PROVE  Promise!Enter
<1>1. /\ count \in Nat /\ count < HistMax /\ count' = count + 1
      /\ IsNew /\ text \in Lines /\ text' = <<>> /\ recalling' = FALSE
  BY HistoryAssumption DEF EnterNew, NextLine, Typed, TypeOK
<1>2. /\ WellLinked(walk, node, live, count) /\ Log \in Seq(Lines) /\ Len(Log) = count
      /\ \A k \in 1 .. count : Log[k] = node[walk[k - 1]].command
  BY <1>1, LogAndCursor
<1>3. /\ WellLinked(walk', node', live', count')
      /\ walk'[0] = first' /\ (\A k \in 0 .. count : walk'[k + 1] = walk[k])
      /\ node'[first'].command = Tokenized(text)
      /\ (\A k \in 0 .. count - 1 : node'[walk[k]].command = node[walk[k]].command)
  BY EnterKeepsList
<1>4. Log' = LogOf(walk', node', count')
  BY DEF Log
<1>5. LogOf(walk', node', count') \in Seq(Lines) /\ Len(LogOf(walk', node', count')) = count'
  <2>1. node' \in [Addr -> HeapNode] /\ live' \in SUBSET Addr
    BY DEF Typed, TypeOK, HeapNode, Pointer
  <2> QED
    BY <1>3, <2>1, LogOfIsSequence
<1>6. \A k \in 1 .. count' : Log'[k] = node'[walk'[k - 1]].command
  BY <1>4 DEF LogOf
<1> DEFINE new == <<Tokenized(text)>>
           longer == new \o Log
<1>7. /\ longer \in Seq(Lines) /\ Len(longer) = count + 1
      /\ \A k \in 1 .. count + 1 : longer[k] = IF k = 1 THEN Tokenized(text) ELSE Log[k - 1]
  <2>1. new \in Seq(Lines) /\ Len(new) = 1 /\ new[1] = Tokenized(text)
    <3>1. Tokenized(text) \in Lines
      BY <1>1, HistoryAssumption
    <3> QED
      BY <3>1
  <2> HIDE DEF new
  <2>2. /\ longer \in Seq(Lines) /\ Len(longer) = Len(new) + Len(Log)
        /\ \A k \in 1 .. Len(new) + Len(Log) :
             longer[k] = IF k <= Len(new) THEN new[k] ELSE Log[k - Len(new)]
    BY <1>2, <2>1, ConcatProperties
  <2> HIDE DEF longer
  <2> QED
    BY <1>1, <1>2, <2>1, <2>2
<1> HIDE DEF longer
<1>8. \A k \in 1 .. count + 1 : Log'[k] = longer[k]
  <2> TAKE k \in 1 .. count + 1
  <2>1. Log'[k] = node'[walk'[k - 1]].command
    BY <1>1, <1>6
  <2>2. CASE k = 1
    <3>1. k - 1 = 0
      BY <2>2
    <3>2. longer[k] = Tokenized(text)
      BY <1>7, <2>2
    <3> QED
      BY <1>3, <2>1, <3>1, <3>2
  <2>3. CASE k # 1
    <3>1. k - 2 \in 0 .. count - 1 /\ k - 2 \in 0 .. count /\ (k - 2) + 1 = k - 1
          /\ k - 1 \in 1 .. count /\ (k - 1) - 1 = k - 2
      BY <1>1, <2>3
    <3>2. walk'[k - 1] = walk[k - 2]
      <4>1. walk'[(k - 2) + 1] = walk[k - 2]
        BY <1>3, <3>1
      <4> QED
        BY <3>1, <4>1
    <3>3. Log'[k] = node[walk[k - 2]].command
      BY <1>3, <2>1, <3>1, <3>2
    <3>4. Log[k - 1] = node[walk[k - 2]].command
      <4>1. Log[k - 1] = node[walk[(k - 1) - 1]].command
        BY <1>2, <3>1
      <4> QED
        BY <3>1, <4>1
    <3> QED
      BY <1>7, <2>3, <3>3, <3>4
  <2> QED
    BY <2>2, <2>3
<1>9. Log' = longer
  BY <1>1, <1>4, <1>5, <1>7, <1>8, SeqEqual
<1>10. Cursor' = 0 /\ Full' = Full
  <2>1. Cursor' = 0
    BY <1>1 DEF Cursor, Position
  <2>2. (count' >= HistMax) = FALSE /\ (count >= HistMax) = FALSE
    BY <1>1, HistoryAssumption
  <2> QED
    BY <2>1, <2>2, Zenon DEF Full
<1>11. ~(text = <<>> \/ (Log # <<>> /\ text = Head(Log)))
  BY <1>1, NewIsNotHead
<1> QED
  BY <1>1, <1>9, <1>10, <1>11, PromisedEnter DEF longer

(* Up while the list is not full. *)
LEMMA UpImplements ==
  ASSUME Typed, ListInv, Up, count < HistMax
  PROVE  Promise!Older
<1>1. /\ WellLinked(walk, node, live, count) /\ Len(Log) = count
      /\ ~recalling => Cursor = 0
      /\ \A j \in 0 .. count - 1 : recalling /\ curr = walk[j] => Cursor = j + 1
  BY LogAndCursor
<1>2. count \in Nat /\ (recalling => curr \in live)
  BY DEF ListInv, Typed, TypeOK
<1>3. CASE ~recalling /\ first # Null /\ Recall(first)
  <2>1. 0 \in 0 .. count - 1 /\ first = walk[0]
    BY <1>1, <1>2, <1>3, HeadOfList
  <2>2. Cursor' = 0 + 1 /\ text' = Log[0 + 1] /\ Log' = Log /\ Full' = Full
    BY <1>3, <2>1, RecallsLine
  <2>3. Cursor = 0 /\ 0 < count
    BY <1>1, <1>2, <1>3, <2>1
  <2> QED
    BY <1>1, <2>2, <2>3, PromisedOlder
<1>4. CASE recalling /\ node[curr].next # Null /\ Recall(node[curr].next)
  <2>1. PICK j \in 0 .. count - 1 : walk[j] = curr
    BY <1>1, <1>2, <1>4 DEF WellLinked
  <2>2. node[curr].next = walk[j + 1] /\ j + 1 # count
    BY <1>1, <1>4, <2>1, Neighbours
  <2>3. j + 1 \in 0 .. count - 1
    BY <1>2, <2>2
  <2>4. /\ Cursor' = (j + 1) + 1 /\ text' = Log[(j + 1) + 1]
        /\ Log' = Log /\ Full' = Full
    BY <1>4, <2>2, <2>3, RecallsLine
  <2>5. Cursor = j + 1 /\ j + 1 \in Nat /\ j + 1 < count
    BY <1>1, <1>2, <1>4, <2>1, <2>3
  <2> QED
    BY <1>1, <2>4, <2>5, PromisedOlder
<1> QED
  BY <1>3, <1>4 DEF Up

(* Down while the list is not full. *)
LEMMA DownImplements ==
  ASSUME Typed, ListInv, Down, count < HistMax
  PROVE  Promise!Newer
<1>1. /\ WellLinked(walk, node, live, count)
      /\ \A j \in 0 .. count - 1 : recalling /\ curr = walk[j] => Cursor = j + 1
  BY LogAndCursor
<1>2. count \in Nat /\ recalling /\ curr \in live
  BY DEF ListInv, Down, Typed, TypeOK
<1>3. PICK j \in 0 .. count - 1 : walk[j] = curr
  BY <1>1, <1>2 DEF WellLinked
<1>4. Cursor = j + 1 /\ (j + 1) - 1 = j /\ j + 1 > 0
  BY <1>1, <1>2, <1>3
<1>5. CASE node[curr].prev # Null /\ Recall(node[curr].prev)
  <2>1. j # 0 /\ node[curr].prev = walk[j - 1]
    BY <1>1, <1>3, <1>5, Neighbours
  <2>2. j - 1 \in 0 .. count - 1 /\ (j - 1) + 1 = j
    BY <1>2, <2>1
  <2>3. /\ Cursor' = (j - 1) + 1 /\ text' = Log[(j - 1) + 1]
        /\ Log' = Log /\ Full' = Full
    BY <1>5, <2>1, <2>2, RecallsLine
  <2>4. Cursor' = j /\ text' = Log[j]
    BY <2>2, <2>3
  <2> QED
    BY <1>4, <2>1, <2>3, <2>4, PromisedNewer
<1>6. CASE /\ node[curr].prev = Null
           /\ text' = <<>> /\ recalling' = FALSE /\ UNCHANGED <<status, list, curr>>
  <2>1. j = 0
    BY <1>1, <1>3, <1>6, Neighbours
  <2>2. count' = count /\ Log' = Log
    BY <1>6, SameList DEF list
  <2>3. Cursor' = 0 /\ Full' = Full
    BY <1>6, <2>2 DEF Cursor, Position, Full
  <2> QED
    BY <1>4, <1>6, <2>1, <2>2, <2>3, PromisedNewer
<1> QED
  BY <1>5, <1>6 DEF Down

LEMMA ImplementsStep ==
  Typed /\ ListInv /\ Typed' /\ ListInv' /\ [Next]_vars
    => [Promise!Next \/ Promise!Overflow]_(Promise!vars)
<1> SUFFICES ASSUME Typed, ListInv, Typed', ListInv', [Next]_vars
             PROVE  \/ Promise!Next \/ Promise!Overflow
                    \/ Log' = Log /\ Cursor' = Cursor /\ text' = text /\ Full' = Full
  BY DEF Promise!vars, Log, LogOf, Cursor, Full
<1>1. count \in Nat /\ count' \in Nat /\ HistMax \in Nat
  BY HistoryAssumption DEF Typed, TypeOK
<1>2. CASE ~(count' < HistMax)
  <2>1. Full'
    BY <1>1, <1>2 DEF Full
  <2>2. Full \/ Len(Log) + 1 >= HistMax
    <3>1. CASE count < HistMax
      <4>1. Len(Log) = count
        BY <3>1, LogAndCursor
      <4>2. count' \in {count, count + 1}
        BY DEF Next, EnterNew, EnterOld, Hang, Crash, Overrun, Edit, Up, Down, Recall, Stuck, vars, list
      <4> QED
        BY <1>1, <1>2, <4>1, <4>2
    <3>2. CASE ~(count < HistMax)
      BY <1>1, <3>2 DEF Full
    <3> QED
      BY <3>1, <3>2
  <2> QED
    BY <2>1, <2>2, PromisedOverflow
<1>3. CASE count' < HistMax
  <2>1. status' \in {"reading", "overrun"}
    BY <1>3 DEF ListInv
  <2>2. CASE EnterNew
    BY <1>3, <2>2, EnterImplements DEF Promise!Next
  <2>3. ASSUME UNCHANGED list PROVE count < HistMax /\ Log' = Log /\ Full' = Full
    BY <1>3, <2>3, SameList DEF list, Full
  <2>4. CASE EnterOld
    <3>1. UNCHANGED list /\ text' = <<>> /\ recalling' = FALSE /\ ~IsNew
      BY <2>4 DEF EnterOld, NextLine
    <3>2. Cursor' = 0
      BY <1>3, <3>1 DEF Cursor, Position
    <3>3. text = <<>> \/ (Log # <<>> /\ text = Head(Log))
      BY <2>3, <3>1, NewIsNotHead
    <3> QED
      BY <2>3, <3>1, <3>2, <3>3, PromisedEnter DEF Promise!Next
  <2>5. CASE Hang \/ Crash
    BY <2>1, <2>5 DEF Hang, Crash
  <2>6. CASE Edit
    <3>1. text' \in Lines /\ UNCHANGED <<list, curr, recalling>>
      BY <2>6 DEF Edit
    <3> QED
      BY <2>3, <3>1, SameList, PromisedEdit DEF Promise!Next
  <2>7. CASE Up
    <3>1. UNCHANGED list
      BY <2>7 DEF Up, Recall
    <3> QED
      BY <2>3, <2>7, <3>1, UpImplements DEF Promise!Next
  <2>8. CASE Down
    <3>1. UNCHANGED list
      BY <2>8 DEF Down, Recall
    <3> QED
      BY <2>3, <2>8, <3>1, DownImplements DEF Promise!Next
  <2>9. CASE Overrun \/ Stuck \/ UNCHANGED vars
    <3>1. UNCHANGED <<list, curr, recalling, text>>
      BY <2>9 DEF Overrun, Stuck, vars
    <3> QED
      BY <2>3, <3>1, SameList
  <2> QED
    BY <2>2, <2>4, <2>5, <2>6, <2>7, <2>8, <2>9 DEF Next
<1> QED
  BY <1>2, <1>3

(* Until the list is full the history and its keys do what HistoryList     *)
(* promises: Up and Down walk along the lines kept, newest first, and a    *)
(* new line joins them at the head unless it repeats the newest.           *)
THEOREM ImplementsHistoryList == Spec => KeepsPromise
  BY ImplementsInit, ImplementsStep, AlwaysTyped, AlwaysListInv, PTL
     DEF Spec, KeepsPromise, Promise!Spec
=============================================================================
