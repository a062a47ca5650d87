------------------------- MODULE CompletionsProofs -------------------------
(***************************************************************************)
(* Theorems about Completions, for any alphabet, any commands and any      *)
(* names that a directory may hold.                                        *)
(***************************************************************************)
EXTENDS Completions, Extremes, SequenceTheorems, FiniteSetTheorems

-----------------------------------------------------------------------------
(* Prefixes.                                                               *)

LEMMA PrefixPointwise ==
  ASSUME NEW S, NEW s \in Seq(S), NEW t \in Seq(S)
  PROVE  IsPrefix(s, t) <=> Len(s) <= Len(t) /\ \A i \in 1 .. Len(s) : s[i] = t[i]
<1>1. SubSeq(s, 1, Len(s)) = s
  BY SubSeqFull
<1>2. Len(s) \in Nat /\ Len(t) \in Nat
  BY LenProperties
<1>3. SUFFICES ASSUME Len(s) <= Len(t)
               PROVE  s = SubSeq(t, 1, Len(s)) <=> \A i \in 1 .. Len(s) : s[i] = t[i]
  BY <1>1 DEF IsPrefix
<1> DEFINE u == SubSeq(t, 1, Len(s))
<1>4. u \in Seq(S) /\ Len(u) = Len(s) /\ \A i \in 1 .. Len(s) : u[i] = t[i]
  <2>1. \A i \in 1 .. Len(s) : t[i] \in S
    BY <1>2, <1>3, ElementOfSeq
  <2> QED
    BY <1>2, <2>1, SubSeqProperties
<1> HIDE DEF u
<1>5. s = u <=> \A i \in 1 .. Len(s) : s[i] = u[i]
  BY <1>4, SeqEqual
<1> QED
  BY <1>4, <1>5 DEF u

LEMMA PathPointwise ==
  ASSUME NEW S, NEW key \in Seq(S)
  PROVE  /\ Path(key) \subseteq Seq(S)
         /\ \A p \in Seq(S) : p \in Path(key) <=> IsPrefix(p, key)
         /\ key \in Path(key)
         /\ <<>> \in Path(key)
<1>1. Len(key) \in Nat /\ \A i \in 1 .. Len(key) : key[i] \in S
  BY LenProperties, ElementOfSeq
<1>2. \A n \in 0 .. Len(key) :
        SubSeq(key, 1, n) \in Seq(S) /\ Len(SubSeq(key, 1, n)) = n
  <2> TAKE n \in 0 .. Len(key)
  <2>1. \A i \in 1 .. n : key[i] \in S
    BY <1>1
  <2> QED
    BY <1>1, <2>1, SubSeqProperties
<1>3. Path(key) \subseteq Seq(S)
  BY <1>2 DEF Path
<1>4. ASSUME NEW p \in Seq(S)
      PROVE  p \in Path(key) <=> IsPrefix(p, key)
  <2>1. SubSeq(p, 1, Len(p)) = p /\ Len(p) \in Nat
    BY SubSeqFull, LenProperties
  <2>2. ASSUME p \in Path(key) PROVE IsPrefix(p, key)
    <3>1. PICK n \in 0 .. Len(key) : p = SubSeq(key, 1, n)
      BY <2>2 DEF Path
    <3>2. Len(p) = n /\ n <= Len(key)
      BY <1>1, <1>2, <3>1
    <3> QED
      BY <2>1, <3>1, <3>2 DEF IsPrefix
  <2>3. ASSUME IsPrefix(p, key) PROVE p \in Path(key)
    <3>1. Len(p) \in 0 .. Len(key) /\ p = SubSeq(key, 1, Len(p))
      BY <1>1, <2>1, <2>3 DEF IsPrefix
    <3> QED
      BY <3>1 DEF Path
  <2> QED
    BY <2>2, <2>3
<1>5. key \in Path(key)
  <2>1. SubSeq(key, 1, Len(key)) = key /\ Len(key) \in 0 .. Len(key)
    BY <1>1, SubSeqFull
  <2> QED
    BY <2>1 DEF Path
<1>6. <<>> \in Path(key)
  <2>1. SubSeq(key, 1, 0) = <<>> /\ 0 \in 0 .. Len(key)
    BY <1>1, SubSeqEmpty
  <2> QED
    BY <2>1 DEF Path
<1> QED
  BY <1>3, <1>4, <1>5, <1>6

LEMMA PrefixOrder ==
  ASSUME NEW S
  PROVE  /\ \A s \in Seq(S) : IsPrefix(s, s)
         /\ \A s, t, u \in Seq(S) : IsPrefix(s, t) /\ IsPrefix(t, u) => IsPrefix(s, u)
<1>1. ASSUME NEW s \in Seq(S) PROVE IsPrefix(s, s)
  BY PrefixPointwise, LenProperties
<1>2. ASSUME NEW s \in Seq(S), NEW t \in Seq(S), NEW u \in Seq(S),
             IsPrefix(s, t), IsPrefix(t, u)
      PROVE  IsPrefix(s, u)
  <2>1. Len(s) \in Nat /\ Len(t) \in Nat /\ Len(u) \in Nat
    BY LenProperties
  <2>2. Len(s) <= Len(t) /\ \A i \in 1 .. Len(s) : s[i] = t[i]
    BY <1>2, PrefixPointwise
  <2>3. Len(t) <= Len(u) /\ \A i \in 1 .. Len(t) : t[i] = u[i]
    BY <1>2, PrefixPointwise
  <2>4. Len(s) <= Len(u) /\ \A i \in 1 .. Len(s) : s[i] = u[i]
    BY <2>1, <2>2, <2>3
  <2> QED
    BY <2>4, PrefixPointwise
<1> QED
  BY <1>1, <1>2

(* One more character of the longer string makes a longer prefix. *)
LEMMA PrefixGrows ==
  ASSUME NEW S, NEW p \in Seq(S), NEW name \in Seq(S), IsPrefix(p, name), p # name
  PROVE  /\ Len(p) + 1 \in 1 .. Len(name)
         /\ name[Len(p) + 1] \in S
         /\ Append(p, name[Len(p) + 1]) \in Seq(S)
         /\ IsPrefix(Append(p, name[Len(p) + 1]), name)
         /\ Append(p, name[Len(p) + 1]) \in Path(name)
<1> DEFINE n == Len(p) + 1
           q == Append(p, name[n])
<1>1. Len(p) \in Nat /\ Len(name) \in Nat
  BY LenProperties
<1>2. Len(p) <= Len(name) /\ \A k \in 1 .. Len(p) : p[k] = name[k]
  BY PrefixPointwise
<1>3. Len(p) # Len(name)
  BY <1>2, SeqEqual
<1>4. n \in 1 .. Len(name)
  BY <1>1, <1>2, <1>3
<1>5. name[n] \in S
  BY <1>4, ElementOfSeq
<1>6. /\ q \in Seq(S) /\ Len(q) = n
      /\ \A k \in 1 .. Len(p) : q[k] = p[k]
      /\ q[n] = name[n]
  BY <1>5, AppendProperties
<1> HIDE DEF q
<1>7. \A k \in 1 .. n : q[k] = name[k]
  BY <1>1, <1>2, <1>6
<1>8. Len(q) <= Len(name) /\ \A k \in 1 .. Len(q) : q[k] = name[k]
  <2> HIDE DEF n
  <2> QED
    BY <1>4, <1>6, <1>7
<1>9. IsPrefix(q, name)
  BY <1>6, <1>8, PrefixPointwise
<1>10. q \in Path(name)
  BY <1>6, <1>9, PathPointwise
<1> QED
  BY <1>4, <1>5, <1>6, <1>9, <1>10 DEF q

LEMMA PlainNames ==
  ASSUME NEW name \in Seq(Nat), Plain(name)
  PROVE  name \in Seq(Letters)
<1>1. Len(name) \in Nat /\ name = [k \in 1 .. Len(name) |-> name[k]]
  BY LenProperties
<1>2. \A k \in 1 .. Len(name) : name[k] \in Letters
  BY LenProperties DEF Plain
<1>3. name \in [1 .. Len(name) -> Letters]
  BY <1>1, <1>2
<1> QED
  BY <1>1, <1>3, IsASeq

-----------------------------------------------------------------------------
(* The trie of a set of names.                                             *)

PathsOf(names) == UNION {Path(name) : name \in names}

LEMMA CommandsAndFiles ==
  /\ Commands \subseteq Seq(Letters)
  /\ \A name \in Files : Plain(name) => name \in Seq(Letters)
BY CompletionsAssumption, PlainNames

LEMMA PathsAreStrings ==
  ASSUME NEW names \in SUBSET Seq(Letters)
  PROVE  /\ PathsOf(names) \subseteq Seq(Letters)
         /\ names \subseteq PathsOf(names)
         /\ names # {} => <<>> \in PathsOf(names)
<1>1. \A name \in names :
        Path(name) \subseteq Seq(Letters) /\ name \in Path(name) /\ <<>> \in Path(name)
  BY PathPointwise
<1> QED
  BY <1>1 DEF PathsOf

(* What the removal frees is on the path of the removed name, and no other *)
(* name of the trie is among it.                                           *)
LEMMA FreedHasNoOtherName ==
  ASSUME nodes \subseteq Seq(Letters), leaf \subseteq nodes, NEW key
  PROVE  /\ (leaf \ {key}) \cap Freed(key) = {}
         /\ leaf \ {key} \subseteq nodes \ Freed(key)
<1>1. ASSUME NEW q \in leaf \ {key}, q \in Freed(key) PROVE FALSE
  <2>1. q \in nodes /\ IsPrefix(q, q)
    BY PrefixOrder
  <2> QED
    BY <1>1, <2>1 DEF Freed
<1> QED
  BY <1>1

-----------------------------------------------------------------------------
(* The type invariant: the strings of the trie consist of letters, a name  *)
(* is never marked where no node is.                                       *)
THEOREM TypeCorrect == Spec => []TypeOK
<1>1. Init => TypeOK
  <2> SUFFICES ASSUME Init PROVE TypeOK
    OBVIOUS
  <2>1. nodes = {<<>>} \cup PathsOf(Commands)
    BY DEF Init, PathsOf
  <2>2. PathsOf(Commands) \subseteq Seq(Letters) /\ Commands \subseteq PathsOf(Commands)
    BY CommandsAndFiles, PathsAreStrings
  <2>3. <<>> \in Seq(Letters)
    BY EmptySeq
  <2> QED
    BY <2>1, <2>2, <2>3 DEF Init, TypeOK
<1>2. TypeOK /\ [Next]_vars => TypeOK'
  <2> SUFFICES ASSUME TypeOK, [Next]_vars PROVE TypeOK'
    OBVIOUS
  <2>1. CASE Scan
    <3>1. PICK found \in SUBSET Files : listing' = {name \in found : Plain(name)}
                                        /\ tn_insert(listing')
      BY <2>1 DEF Scan
    <3>2. listing' \subseteq Seq(Letters) /\ listing' \subseteq Files
      BY <3>1, CommandsAndFiles
    <3>3. nodes' = nodes \cup PathsOf(listing') /\ leaf' = leaf \cup listing'
      BY <3>1 DEF tn_insert, PathsOf
    <3>4. PathsOf(listing') \subseteq Seq(Letters) /\ listing' \subseteq PathsOf(listing')
      BY <3>2, PathsAreStrings
    <3> QED
      BY <2>1, <3>2, <3>3, <3>4 DEF Scan, TypeOK
  <2>2. CASE Command
    BY <2>2 DEF Command, TypeOK
  <2>3. CASE SplashFails
    BY <2>3 DEF SplashFails, TypeOK
  <2>4. CASE RemoveName
    <3>1. PICK name \in listing : tn_remove(name) /\ listing' = listing \ {name}
                                  /\ stayed' = stayed \ {name}
      BY <2>4 DEF RemoveName
    <3>2. leaf \ {name} \subseteq nodes \ Freed(name)
      BY FreedHasNoOtherName DEF TypeOK
    <3> QED
      BY <2>4, <3>1, <3>2 DEF RemoveName, tn_remove, TypeOK
  <2>5. CASE Removed
    BY <2>5 DEF Removed, TypeOK
  <2>6. CASE Dangling \/ Crashed
    BY <2>6 DEF Dangling, Crashed, vars, TypeOK
  <2>7. CASE UNCHANGED vars
    BY <2>7 DEF vars, TypeOK
  <2> QED
    BY <2>1, <2>2, <2>3, <2>4, <2>5, <2>6, <2>7 DEF Next
<1> QED
  BY <1>1, <1>2, PTL DEF Spec

-----------------------------------------------------------------------------
(* What stays in the trie.                                                 *)

(* No name but those of the listing is ever taken out of the trie, by no   *)
(* step of the loop.                                                       *)
THEOREM RemovalTakesNoOther == Spec => OnlyListedVanish
<1>1. TypeOK /\ [Next]_vars => [leaf \ leaf' \subseteq listing]_vars
  <2> SUFFICES ASSUME TypeOK, Next PROVE leaf \ leaf' \subseteq listing
    BY DEF vars
  <2>1. CASE Scan
    BY <2>1 DEF Scan, tn_insert
  <2>2. CASE RemoveName
    <3>1. PICK name \in listing : tn_remove(name)
      BY <2>2 DEF RemoveName
    <3>2. (leaf \ {name}) \cap Freed(name) = {}
      BY FreedHasNoOtherName DEF TypeOK
    <3> QED
      BY <3>1, <3>2 DEF tn_remove
  <2>3. CASE Command \/ SplashFails \/ Removed \/ Dangling \/ Crashed
    BY <2>3 DEF Command, SplashFails, Removed, Dangling, Crashed, vars
  <2> QED
    BY <2>1, <2>2, <2>3 DEF Next
<1> QED
  BY <1>1, TypeCorrect, PTL DEF Spec, OnlyListedVanish

(* The invariant of the loop: every name in the trie is a command, was     *)
(* left by a failed splash or is still to be removed, and a scan starts    *)
(* with nothing to be removed.                                             *)
Accounted ==
  /\ leaf \subseteq Commands \cup stayed \cup listing
  /\ pc = "scan" => listing = {}

LEMMA AccountedStays == TypeOK /\ Accounted /\ [Next]_vars => Accounted'
<1> SUFFICES ASSUME TypeOK, Accounted, [Next]_vars PROVE Accounted'
  OBVIOUS
<1>1. CASE Scan
  BY <1>1 DEF Scan, tn_insert, Accounted
<1>2. CASE Command
  BY <1>2 DEF Command, Accounted
<1>3. CASE SplashFails
  BY <1>3 DEF SplashFails, Accounted
<1>4. CASE RemoveName
  BY <1>4 DEF RemoveName, tn_remove, Accounted
<1>5. CASE Removed
  BY <1>5 DEF Removed, Accounted
<1>6. CASE Dangling \/ Crashed \/ UNCHANGED vars
  BY <1>6 DEF Dangling, Crashed, vars, Accounted
<1> QED
  BY <1>1, <1>2, <1>3, <1>4, <1>5, <1>6 DEF Next

(* Between two commands no name of a directory is in the trie, but what a  *)
(* failed splash left there.                                               *)
THEOREM NothingOfTheListingStays == Spec => []NothingStays
<1>1. Init => Accounted
  BY DEF Init, Accounted
<1>2. Accounted => NothingStays
  BY DEF Accounted, NothingStays
<1> QED
  BY <1>1, <1>2, AccountedStays, TypeCorrect, PTL DEF Spec

-----------------------------------------------------------------------------
(* The trie holds the paths of its names and nothing else.                 *)

LEMMA InsertedIsCanonical ==
  ASSUME TypeOK, Canonical, NEW keys \in SUBSET Seq(Letters), tn_insert(keys)
  PROVE  Canonical'
<1>1. nodes' = nodes \cup PathsOf(keys) /\ leaf' = leaf \cup keys
  BY DEF tn_insert, PathsOf
<1>2. CASE leaf = {} /\ keys = {}
  BY <1>1, <1>2 DEF Canonical, PathsOf
<1>3. CASE leaf = {} /\ keys # {}
  <2>1. <<>> \in PathsOf(keys) /\ nodes \subseteq {<<>>}
    BY <1>3, PathsAreStrings DEF Canonical
  <2>2. nodes' = PathsOf(leaf') /\ leaf' # {}
    BY <1>1, <1>3, <2>1
  <2> QED
    BY <2>2 DEF Canonical, PathsOf
<1>4. CASE leaf # {}
  <2>1. nodes = PathsOf(leaf)
    BY <1>4 DEF Canonical, PathsOf
  <2>2. PathsOf(leaf \cup keys) = PathsOf(leaf) \cup PathsOf(keys)
    BY DEF PathsOf
  <2>3. nodes' = PathsOf(leaf') /\ leaf' # {}
    BY <1>1, <1>4, <2>1, <2>2
  <2> QED
    BY <2>3 DEF Canonical, PathsOf
<1> QED
  BY <1>2, <1>3, <1>4

LEMMA RemovedIsCanonical ==
  ASSUME TypeOK, Canonical, NEW key \in Seq(Nat), tn_remove(key)
  PROVE  Canonical'
<1> DEFINE rest == leaf \ {key}
<1>1. nodes' = nodes \ Freed(key) /\ leaf' = rest
  BY FreedHasNoOtherName DEF TypeOK, tn_remove
<1>2. nodes \subseteq Seq(Letters) /\ leaf \subseteq nodes
  BY DEF TypeOK
<1>3. CASE leaf = {}
  BY <1>1, <1>3 DEF Canonical
<1>4. CASE leaf # {} /\ rest = {}
  <2>1. nodes = Path(key)
    BY <1>4 DEF Canonical
  <2>2. nodes \subseteq Freed(key)
    BY <1>4, <2>1 DEF Freed
  <2> QED
    BY <1>1, <1>4, <2>2 DEF Canonical
<1>5. CASE rest # {}
  <2>1. nodes = PathsOf(leaf)
    BY <1>5 DEF Canonical, PathsOf
  <2>2. ASSUME NEW p \in PathsOf(rest) PROVE p \in nodes \ Freed(key)
    <3>1. PICK name \in rest : p \in Path(name)
      BY <2>2 DEF PathsOf
    <3>2. p \in nodes
      BY <2>1, <3>1 DEF PathsOf
    <3>3. IsPrefix(p, name) /\ name \in nodes
      BY <1>2, <3>1, <3>2, PathPointwise
    <3> QED
      BY <3>1, <3>2, <3>3 DEF Freed
  <2>3. ASSUME NEW p \in nodes \ Freed(key) PROVE p \in PathsOf(rest)
    <3>1. PICK name \in leaf : p \in Path(name)
      BY <2>1, <2>3 DEF PathsOf
    <3>2. CASE name # key
      BY <3>1, <3>2 DEF PathsOf
    <3>3. CASE name = key
      <4>1. p \in nodes \cap Path(key)
        BY <2>3, <3>1, <3>3
      <4>2. PICK q \in nodes : IsPrefix(p, q) /\ (q \notin Path(key) \/ q \in rest)
        BY <2>3, <4>1 DEF Freed
      <4>3. PICK other \in leaf : q \in Path(other)
        BY <2>1 DEF PathsOf
      <4>4. CASE q \in rest
        <5>1. p \in Path(q)
          BY <1>2, <4>1, <4>2, PathPointwise
        <5> QED
          BY <4>4, <5>1 DEF PathsOf
      <4>5. CASE q \notin Path(key)
        <5>1. other \in rest /\ other \in Seq(Letters)
          BY <1>2, <4>3, <4>5
        <5>2. IsPrefix(q, other)
          BY <1>2, <4>3, <5>1, PathPointwise
        <5>3. IsPrefix(p, other)
          BY <1>2, <4>1, <4>2, <5>1, <5>2, PrefixOrder
        <5>4. p \in Path(other)
          BY <1>2, <4>1, <5>1, <5>3, PathPointwise
        <5> QED
          BY <5>1, <5>4 DEF PathsOf
      <4> QED
        BY <4>2, <4>4, <4>5
    <3> QED
      BY <3>2, <3>3
  <2>4. nodes' = PathsOf(leaf') /\ leaf' # {}
    BY <1>1, <1>5, <2>2, <2>3
  <2> QED
    BY <2>4 DEF Canonical, PathsOf
<1> QED
  BY <1>3, <1>4, <1>5

(* However names that are prefixes of each other come and go, no node is   *)
(* cut off from the root, none is left behind, and the root is freed only  *)
(* with the last name.                                                     *)
THEOREM TrieIsCanonical == Spec => []Canonical
<1>1. Init => Canonical
  <2> SUFFICES ASSUME Init PROVE Canonical
    OBVIOUS
  <2>1. nodes = {<<>>} \cup PathsOf(Commands) /\ leaf = Commands
    BY DEF Init, PathsOf
  <2>2. CASE Commands = {}
    BY <2>1, <2>2 DEF Canonical, PathsOf
  <2>3. CASE Commands # {}
    <3>1. <<>> \in PathsOf(Commands)
      BY <2>3, CommandsAndFiles, PathsAreStrings
    <3>2. nodes = PathsOf(leaf)
      BY <2>1, <3>1
    <3> QED
      BY <2>1, <2>3, <3>2 DEF Canonical, PathsOf
  <2> QED
    BY <2>2, <2>3
<1>2. TypeOK /\ Canonical /\ [Next]_vars => Canonical'
  <2> SUFFICES ASSUME TypeOK, Canonical, [Next]_vars PROVE Canonical'
    OBVIOUS
  <2>1. CASE Scan
    <3>1. PICK found \in SUBSET Files : listing' = {name \in found : Plain(name)}
                                        /\ tn_insert(listing')
      BY <2>1 DEF Scan
    <3>2. listing' \in SUBSET Seq(Letters)
      BY <3>1, CommandsAndFiles
    <3> QED
      BY <3>1, <3>2, InsertedIsCanonical
  <2>2. CASE RemoveName
    <3>1. PICK name \in listing : tn_remove(name)
      BY <2>2 DEF RemoveName
    <3>2. name \in Seq(Nat)
      BY CompletionsAssumption DEF TypeOK
    <3> QED
      BY <3>1, <3>2, RemovedIsCanonical
  <2>3. CASE Command \/ SplashFails \/ Removed \/ Dangling \/ Crashed \/ UNCHANGED vars
    <3>1. UNCHANGED <<nodes, leaf>>
      BY <2>3 DEF Command, SplashFails, Removed, Dangling, Crashed, vars
    <3> QED
      BY <3>1 DEF Canonical
  <2> QED
    BY <2>1, <2>2, <2>3 DEF Next
<1> QED
  BY <1>1, <1>2, TypeCorrect, PTL DEF Spec

-----------------------------------------------------------------------------
(* The descent of suggestionsRec ends.                                     *)

(* Finitely many numbers have a bound.                                     *)
LEMMA FiniteIsBounded ==
  ASSUME NEW S \in SUBSET Nat, IsFiniteSet(S)
  PROVE  \E b \in Nat : \A k \in S : k <= b
<1> DEFINE Bad == {n \in Nat : \E f \in [1 .. n -> Nat] :
                      \A b \in Nat : \E k \in 1 .. n : f[k] > b}
<1>1. Bad = {}
  <2> SUFFICES ASSUME Bad # {} PROVE FALSE
    OBVIOUS
  <2>1. PICK n \in Bad : \A k \in Bad : n <= k
    BY MinProperties
  <2>2. n \in Nat
    OBVIOUS
  <2>3. PICK f \in [1 .. n -> Nat] : \A b \in Nat : \E k \in 1 .. n : f[k] > b
    OBVIOUS
  <2>4. n # 0
    BY <2>3
  <2>5. PICK g \in [1 .. n - 1 -> Nat] : \A k \in 1 .. n - 1 : g[k] = f[k]
    <3> DEFINE h == [k \in 1 .. n - 1 |-> f[k]]
    <3>1. h \in [1 .. n - 1 -> Nat]
      <4> \A k \in 1 .. n - 1 : k \in 1 .. n
        BY <2>2
      <4> QED
        OBVIOUS
    <3> QED
      BY <3>1
  <2>6. n - 1 \in Nat /\ n - 1 \notin Bad
    <3>1. n - 1 \in Nat /\ ~(n <= n - 1)
      BY <2>2, <2>4
    <3> HIDE DEF Bad
    <3> QED
      BY <2>1, <3>1
  <2>7. PICK b \in Nat : \A k \in 1 .. n - 1 : ~(g[k] > b)
    BY <2>6
  <2> HIDE DEF Bad
  <2>8. f[n] \in Nat /\ b + f[n] \in Nat
    BY <2>2, <2>4
  <2>9. \A k \in 1 .. n : f[k] <= b + f[n]
    <3> SUFFICES ASSUME NEW k \in 1 .. n, k # n PROVE f[k] <= b + f[n]
      BY <2>8
    <3>1. k \in 1 .. n - 1
      BY <2>2
    <3>2. g[k] = f[k] /\ f[k] \in Nat
      BY <2>5, <3>1
    <3>3. ~(f[k] > b)
      BY <2>7, <3>1, <3>2
    <3> QED
      BY <2>8, <3>2, <3>3
  <2>10. PICK k \in 1 .. n : f[k] > b + f[n]
    BY <2>3, <2>8
  <2>11. f[k] \in Nat /\ f[k] <= b + f[n]
    BY <2>9
  <2> QED
    BY <2>8, <2>10, <2>11
<1>2. PICK n \in Nat : ExistsSurjection(1 .. n, S)
  BY FS_NatSurjection
<1>3. PICK f \in [1 .. n -> S] : \A k \in S : \E j \in 1 .. n : f[j] = k
  BY <1>2 DEF ExistsSurjection, Surjection
<1>4. f \in [1 .. n -> Nat]
  BY <1>3
<1>5. PICK b \in Nat : \A j \in 1 .. n : ~(f[j] > b)
  BY <1>1, <1>4
<1>6. \A j \in 1 .. n : f[j] <= b
  BY <1>4, <1>5
<1> QED
  BY <1>3, <1>6

(* The names of the trie, and so its nodes, have a bounded length.         *)
Bounded(b) == \A p \in nodes : Len(p) <= b

LEMMA TrieIsBounded ==
  ASSUME TypeOK, Canonical, leaf \subseteq Commands \cup Files
  PROVE  \E b \in Nat : Bounded(b)
<1> DEFINE Lengths == {Len(name) : name \in leaf}
           lengthOf == [name \in leaf |-> Len(name)]
<1>1. nodes \subseteq Seq(Letters) /\ leaf \subseteq nodes
  BY DEF TypeOK
<1>2. IsFiniteSet(leaf)
  BY CompletionsAssumption, FS_Union, FS_Subset
<1>3. Lengths \in SUBSET Nat
  BY <1>1, LenProperties
<1>4. lengthOf \in Surjection(leaf, Lengths)
  BY DEF Surjection
<1>5. IsFiniteSet(Lengths)
  BY <1>2, <1>4, FS_Surjection
<1>6. PICK b \in Nat : \A k \in Lengths : k <= b
  <2> HIDE DEF Lengths
  <2> QED
    BY <1>3, <1>5, FiniteIsBounded
<1>7. ASSUME NEW p \in nodes PROVE Len(p) <= b
  <2>1. CASE leaf = {}
    <3>1. p = <<>>
      BY <2>1 DEF Canonical
    <3> QED
      BY <3>1, EmptySeq
  <2>2. CASE leaf # {}
    <3>1. PICK name \in leaf : p \in Path(name)
      BY <2>2 DEF Canonical
    <3>2. IsPrefix(p, name)
      BY <1>1, <3>1, PathPointwise
    <3>3. Len(p) <= Len(name) /\ Len(name) <= b
      BY <1>6, <3>2 DEF IsPrefix
    <3>4. Len(p) \in Nat /\ Len(name) \in Nat
      BY <1>1, LenProperties
    <3> QED
      BY <3>3, <3>4
  <2> QED
    BY <2>1, <2>2
<1> QED
  BY <1>7 DEF Bounded

-----------------------------------------------------------------------------
(* The function that suggestionsRec defines.                               *)

(* A node where the descent goes no further, and the next one.             *)
Stops(p) == p \in leaf \/ IsLast(p)
Below(p) == Append(p, Min(Children(p)))

LEMMA BelowIsChild ==
  ASSUME TypeOK, NEW p \in nodes, ~Stops(p)
  PROVE  /\ Min(Children(p)) \in Children(p)
         /\ \A c \in Children(p) : Min(Children(p)) <= c
         /\ Below(p) \in nodes
         /\ Len(Below(p)) = Len(p) + 1
<1>1. p \in Seq(Letters)
  BY DEF TypeOK
<1>2. Children(p) \in SUBSET Nat /\ Children(p) # {}
  BY CompletionsAssumption DEF Stops, IsLast, Children, Letters
<1>3. Min(Children(p)) \in Children(p) /\ \A c \in Children(p) : Min(Children(p)) <= c
  BY <1>2, MinProperties
<1>4. Below(p) \in nodes /\ Min(Children(p)) \in Letters
  BY <1>3 DEF Children, Below
<1>5. Len(Below(p)) = Len(p) + 1
  BY <1>1, <1>4, AppendProperties DEF Below
<1> QED
  BY <1>3, <1>4, <1>5

(* The recursive equation has a solution, built from the deepest nodes up. *)
Descends(f) == f = [p \in nodes |-> IF Stops(p) THEN p ELSE f[Below(p)]]

LEMMA DescentExists ==
  ASSUME TypeOK, NEW b \in Nat, Bounded(b)
  PROVE  \E f : Descends(f)
<1> DEFINE Deep(k) == {p \in nodes : Len(p) >= k}
           Solves(f, k) == f = [p \in Deep(k) |-> IF Stops(p) THEN p ELSE f[Below(p)]]
           Solved == {k \in Nat : \E f : Solves(f, k)}
<1>1. \A p \in nodes : Len(p) \in Nat
  BY LenProperties DEF TypeOK
<1>2. b + 1 \in Solved
  <2>1. Deep(b + 1) = {}
    BY <1>1 DEF Bounded
  <2> DEFINE f == [p \in {} |-> p]
  <2>2. f = [p \in {} |-> IF Stops(p) THEN p ELSE f[Below(p)]]
    OBVIOUS
  <2> HIDE DEF Deep, f
  <2>3. Solves(f, b + 1)
    BY <2>1, <2>2
  <2> QED
    BY <2>3
<1>3. PICK k \in Solved : \A j \in Solved : k <= j
  <2> HIDE DEF Solved
  <2>1. Solved \in SUBSET Nat
    BY DEF Solved
  <2> QED
    BY <1>2, <2>1, MinProperties
<1>4. k \in Nat
  OBVIOUS
<1>5. k = 0
  <2> SUFFICES ASSUME k # 0 PROVE FALSE
    OBVIOUS
  <2>1. PICK f : Solves(f, k)
    OBVIOUS
  <2> DEFINE g == [p \in Deep(k - 1) |->
                     IF Stops(p) THEN p ELSE f[Below(p)]]
  <2>2. \A p \in Deep(k - 1) : ~Stops(p) => Below(p) \in Deep(k)
    BY <1>1, <1>4, BelowIsChild
  <2>3. \A p \in Deep(k) : g[p] = f[p]
    <3> TAKE p \in Deep(k)
    <3>1. p \in Deep(k - 1)
      BY <1>1, <1>4
    <3>2. f[p] = IF Stops(p) THEN p ELSE f[Below(p)]
      <4> HIDE DEF Deep
      <4> QED
        BY <2>1
    <3>3. g[p] = IF Stops(p) THEN p ELSE f[Below(p)]
      <4> HIDE DEF Deep
      <4> QED
        BY <3>1
    <3> QED
      BY <3>2, <3>3
  <2>4. \A p \in Deep(k - 1) : ~Stops(p) => f[Below(p)] = g[Below(p)]
    <3> HIDE DEF Deep, g
    <3> QED
      BY <2>2, <2>3
  <2>5. g = [p \in Deep(k - 1) |-> IF Stops(p) THEN p ELSE g[Below(p)]]
    <3> HIDE DEF Deep
    <3>1. \A p \in Deep(k - 1) :
            (IF Stops(p) THEN p ELSE f[Below(p)]) = (IF Stops(p) THEN p ELSE g[Below(p)])
      BY <2>4
    <3> QED
      BY <3>1, Zenon
  <2>6. Solves(g, k - 1)
    BY <2>5
  <2>7. k - 1 \in Solved
    <3>1. k - 1 \in Nat
      BY <1>4
    <3> HIDE DEF Solves
    <3> QED
      BY <2>6, <3>1
  <2> HIDE DEF Solved
  <2> QED
    BY <1>3, <1>4, <2>7
<1>6. PICK f : Solves(f, 0)
  BY <1>5
<1>7. Deep(0) = nodes
  BY <1>1
<1>8. Descends(f)
  <2> HIDE DEF Deep
  <2> QED
    BY <1>6, <1>7 DEF Descends
<1> QED
  BY <1>8

LEMMA SuggestionsDescend ==
  ASSUME TypeOK, NEW b \in Nat, Bounded(b)
  PROVE  \A p \in nodes :
           suggestionsRec[p] = IF Stops(p) THEN p ELSE suggestionsRec[Below(p)]
<1>1. PICK f : Descends(f)
  BY DescentExists
<1>2. Descends(suggestionsRec)
  BY <1>1 DEF suggestionsRec, Descends, Stops, Below
<1> HIDE DEF suggestionsRec
<1> QED
  BY <1>2 DEF Descends

-----------------------------------------------------------------------------
(* What a completion is.                                                   *)

(* The first name below p, in dictionary order.                            *)
FirstBelow(p, word) ==
  /\ word \in leaf /\ IsPrefix(p, word)
  /\ \A name \in leaf : IsPrefix(p, name) => Precedes(word, name)

(* A node with nothing below it is a name. *)
LEMMA LastIsName ==
  ASSUME TypeOK, Canonical, leaf # {}, NEW p \in nodes
  PROVE  /\ \E name \in leaf : IsPrefix(p, name)
         /\ Stops(p) => p \in leaf
<1>1. nodes \subseteq Seq(Letters) /\ leaf \subseteq nodes
  BY DEF TypeOK
<1>2. PICK name \in leaf : p \in Path(name)
  BY DEF Canonical
<1>3. IsPrefix(p, name) /\ p \in Seq(Letters) /\ name \in Seq(Letters)
  BY <1>1, <1>2, PathPointwise
<1>4. ASSUME IsLast(p), p # name PROVE FALSE
  <2>1. name[Len(p) + 1] \in Letters /\ Append(p, name[Len(p) + 1]) \in Path(name)
    BY <1>3, <1>4, PrefixGrows
  <2>2. Append(p, name[Len(p) + 1]) \in nodes
    BY <2>1 DEF Canonical
  <2> QED
    BY <1>4, <2>1, <2>2 DEF IsLast, Children
<1> QED
  BY <1>2, <1>3, <1>4 DEF Stops

(* The first name below the first child is the first below the node.       *)
LEMMA FirstBelowChild ==
  ASSUME TypeOK, Canonical, leaf # {}, NEW p \in nodes, ~Stops(p),
         NEW word, FirstBelow(Below(p), word)
  PROVE  FirstBelow(p, word)
<1> DEFINE m == Min(Children(p))
           i == Len(p) + 1
<1>1. nodes \subseteq Seq(Letters) /\ leaf \subseteq nodes
  BY DEF TypeOK
<1>2. /\ m \in Children(p) /\ \A c \in Children(p) : m <= c
      /\ Below(p) \in nodes /\ Len(Below(p)) = i
  BY BelowIsChild
<1>3. p \in Seq(Letters) /\ word \in Seq(Letters) /\ word \in leaf
      /\ Below(p) \in Seq(Letters) /\ m \in Letters
  BY <1>1, <1>2 DEF FirstBelow, Children
<1>4. Len(p) \in Nat /\ Len(word) \in Nat
  BY <1>3, LenProperties
<1>5. /\ \A k \in 1 .. Len(p) : Below(p)[k] = p[k]
      /\ Below(p)[i] = m
  BY <1>3, AppendProperties DEF Below
<1> HIDE DEF m
<1>6. i <= Len(word) /\ \A k \in 1 .. i : word[k] = Below(p)[k]
  <2>1. IsPrefix(Below(p), word)
    BY DEF FirstBelow
  <2> QED
    BY <1>2, <1>3, <2>1, PrefixPointwise
<1>7. IsPrefix(p, word)
  BY <1>3, <1>4, <1>5, <1>6, PrefixPointwise
<1>8. ASSUME NEW name \in leaf, IsPrefix(p, name) PROVE Precedes(word, name)
  <2>1. name \in Seq(Letters) /\ p # name
    BY <1>1 DEF Stops
  <2>2. Len(name) \in Nat /\ DOMAIN name = 1 .. Len(name)
    BY <2>1, LenProperties
  <2> DEFINE c == name[i]
  <2>3. /\ i \in 1 .. Len(name) /\ c \in Letters
        /\ IsPrefix(Append(p, c), name) /\ Append(p, c) \in Path(name)
    BY <1>3, <1>8, <2>1, PrefixGrows
  <2> HIDE DEF c
  <2>4. c \in Children(p)
    BY <2>3 DEF Canonical, Children
  <2>5. CASE c = m
    <3>1. Below(p) = Append(p, c)
      BY <2>5 DEF Below, m
    <3> QED
      BY <2>3, <3>1 DEF FirstBelow
  <2>6. CASE c # m
    <3>1. m < c
      BY <1>2, <1>3, <2>3, <2>4, <2>6, CompletionsAssumption DEF Letters
    <3>2. word[i] = m /\ name[i] = c
      BY <1>4, <1>5, <1>6 DEF c
    <3>3. i \in DOMAIN word \cap DOMAIN name
      <4>1. DOMAIN word = 1 .. Len(word)
        BY <1>3, LenProperties
      <4> QED
        BY <1>4, <1>6, <2>2, <2>3, <4>1
    <3>4. SubSeq(word, 1, i - 1) = p /\ SubSeq(name, 1, i - 1) = p
      <4>1. i - 1 = Len(p) /\ SubSeq(p, 1, Len(p)) = p
        BY <1>3, <1>4, SubSeqFull
      <4> QED
        BY <1>7, <1>8, <4>1 DEF IsPrefix
    <3> QED
      BY <3>1, <3>2, <3>3, <3>4 DEF Precedes
  <2> QED
    BY <2>5, <2>6
<1> QED
  BY <1>3, <1>7, <1>8 DEF FirstBelow

LEMMA SuggestionIsFirst ==
  ASSUME TypeOK, Canonical, leaf # {}, NEW b \in Nat, Bounded(b)
  PROVE  \A p \in nodes : FirstBelow(p, suggestionsRec[p])
<1> DEFINE Wrong == {p \in nodes : ~FirstBelow(p, suggestionsRec[p])}
           Depths == {Len(p) : p \in Wrong}
<1>1. nodes \subseteq Seq(Letters) /\ leaf \subseteq nodes
  BY DEF TypeOK
<1>2. SUFFICES ASSUME Wrong # {} PROVE FALSE
  OBVIOUS
<1>3. Depths \in SUBSET (0 .. b) /\ Depths # {}
  BY <1>1, <1>2, LenProperties DEF Bounded
<1>4. PICK p \in Wrong : \A q \in Wrong : Len(p) >= Len(q)
  <2>1. Max(Depths) \in Depths /\ \A k \in Depths : Max(Depths) >= k
    <3> HIDE DEF Depths
    <3> QED
      BY <1>3, MaxProperties
  <2> HIDE DEF Wrong
  <2> QED
    BY <2>1
<1>5. p \in nodes /\ Len(p) \in Nat
  BY <1>1, LenProperties
<1>6. CASE Stops(p)
  <2>1. suggestionsRec[p] = p
    BY <1>5, <1>6, SuggestionsDescend
  <2>2. p \in leaf
    BY <1>5, <1>6, LastIsName
  <2>3. FirstBelow(p, p)
    BY <1>1, <1>5, <2>2, PrefixOrder DEF FirstBelow, Precedes
  <2> QED
    BY <2>1, <2>3
<1>7. CASE ~Stops(p)
  <2>1. suggestionsRec[p] = suggestionsRec[Below(p)]
    BY <1>5, <1>7, SuggestionsDescend
  <2>2. Below(p) \in nodes /\ Len(Below(p)) = Len(p) + 1
    BY <1>5, <1>7, BelowIsChild
  <2>3. Below(p) \notin Wrong
    <3> HIDE DEF Wrong
    <3> QED
      BY <1>4, <1>5, <2>2
  <2>4. FirstBelow(Below(p), suggestionsRec[p])
    BY <2>1, <2>2, <2>3
  <2> QED
    BY <1>5, <1>7, <2>4, FirstBelowChild
<1> QED
  BY <1>6, <1>7

(* A completion is the first name, in dictionary order, that continues     *)
(* what was typed, or what was typed when no name does; whatever the       *)
(* removals of earlier rounds left of the trie.                            *)
THEOREM CompletionIsFirst == Spec => []CompletesFirst
<1>1. TypeOK /\ Canonical /\ Accounted => CompletesFirst
  <2> SUFFICES ASSUME TypeOK, Canonical, Accounted,
                      NEW prefix \in UNION {Path(name) : name \in Commands \cup Files},
                      Plain(prefix)
               PROVE  LET names == {name \in leaf : IsPrefix(prefix, name)} IN
                      IF names = {} THEN completionOf(prefix) = prefix
                      ELSE /\ completionOf(prefix) \in names
                           /\ \A name \in names : Precedes(completionOf(prefix), name)
    BY DEF CompletesFirst
  <2> DEFINE names == {name \in leaf : IsPrefix(prefix, name)}
  <2>1. nodes \subseteq Seq(Letters) /\ leaf \subseteq nodes
    BY DEF TypeOK
  <2>2. PICK b \in Nat : Bounded(b)
    BY TrieIsBounded DEF Accounted, TypeOK
  <2>3. prefix \in Seq(Letters)
    <3>1. PICK name \in Commands \cup Files : prefix \in Path(name)
      OBVIOUS
    <3>2. name \in Seq(Nat)
      <4>1. Letters \subseteq Nat
        BY CompletionsAssumption DEF Letters
      <4> QED
        BY <4>1, CompletionsAssumption, SeqMonotonic
    <3>3. prefix \in Seq(Nat)
      BY <3>1, <3>2, PathPointwise
    <3> QED
      BY <3>3, PlainNames
  <2>4. CASE names = {}
    <3>1. prefix \notin nodes \/ IsLast(prefix)
      <4>1. CASE leaf = {}
        <5>1. nodes \subseteq {<<>>}
          BY <4>1 DEF Canonical
        <5>2. \A c \in Letters : Append(prefix, c) # <<>>
          BY <2>3, AppendProperties
        <5> QED
          BY <5>1, <5>2 DEF IsLast, Children
      <4>2. CASE leaf # {}
        BY <2>4, <4>2, LastIsName
      <4> QED
        BY <4>1, <4>2
    <3>2. completionOf(prefix) = prefix
      BY <3>1 DEF completionOf
    <3> QED
      BY <2>4, <3>2
  <2>5. CASE names # {}
    <3>1. leaf # {} /\ prefix \in nodes
      <4>1. PICK name \in leaf : IsPrefix(prefix, name)
        BY <2>5
      <4>2. prefix \in Path(name)
        BY <2>1, <2>3, <4>1, PathPointwise
      <4> QED
        BY <4>1, <4>2 DEF Canonical
    <3>2. FirstBelow(prefix, completionOf(prefix))
      <4>1. CASE IsLast(prefix)
        <5>1. completionOf(prefix) = prefix
          BY <4>1 DEF completionOf
        <5>2. prefix \in leaf
          BY <3>1, <4>1, LastIsName DEF Stops
        <5> QED
          BY <2>3, <5>1, <5>2, PrefixOrder DEF FirstBelow, Precedes
      <4>2. CASE ~IsLast(prefix)
        <5>1. completionOf(prefix) = suggestionsRec[prefix]
          BY <3>1, <4>2 DEF completionOf
        <5> QED
          BY <2>2, <3>1, <5>1, SuggestionIsFirst
      <4> QED
        BY <4>1, <4>2
    <3> QED
      BY <2>5, <3>2 DEF FirstBelow
  <2> QED
    BY <2>4, <2>5
<1>2. Spec => []Accounted
  <2>1. Init => Accounted
    BY DEF Init, Accounted
  <2> QED
    BY <2>1, AccountedStays, TypeCorrect, PTL DEF Spec
<1> QED
  BY <1>1, <1>2, TypeCorrect, TrieIsCanonical, PTL
=============================================================================
