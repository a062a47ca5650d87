------------------------- MODULE CommandLineProofs -------------------------
(***************************************************************************)
(* Theorems about CommandLine, for lines of any length, any words and any  *)
(* size of the arrays.                                                     *)
(***************************************************************************)
EXTENDS CommandLine, Extremes, SequenceTheorems, TLAPS

Token == Words \cup {Wild}

-----------------------------------------------------------------------------
(* What the steps that many actions share do.                              *)

LEMMA WordsAreTokens ==
  ASSUME NEW s \in Seq(Words)
  PROVE  s \in Seq(Token)
BY SeqMonotonic DEF Token

LEMMA Emitted ==
  ASSUME TypeOK, NEW words \in Seq(Token), Emit(words), i <= Len(tokens)
  PROVE  /\ f_tokens' \in Seq(Token)
         /\ i' \in 1 .. Len(tokens) + Len(f_tokens') + 1
         /\ stage' \in {"resolving", "overrun"}
<1>1. f_tokens \in Seq(Token) /\ i \in Nat /\ i >= 1 /\ Len(tokens) \in Nat
  BY DEF TypeOK, Token
<1>2. f_tokens' \in Seq(Token) /\ Len(f_tokens') \in Nat
  BY <1>1, ConcatProperties, LenProperties DEF Emit
<1> QED
  BY <1>1, <1>2 DEF Emit

LEMMA GrownIsNatural ==
  ASSUME TypeOK, NEW n
  PROVE  Grown(n) \in Nat
BY CommandLineAssumption DEF TypeOK, Grown

(* What prep leaves in a slot.                                             *)
LEMMA SlotType ==
  ASSUME TypeOK, NEW k \in 1 .. Len(f_tokens) + 1, NEW x \in Slot(k)
  PROVE  x \in Words \cup {Wild, Null}
<1>1. CASE k > Len(f_tokens)
  BY <1>1 DEF Slot
<1>2. CASE k <= Len(f_tokens)
  <2>1. f_tokens[k] \in Words \cup {Wild}
    BY <1>2, ElementOfSeq DEF TypeOK
  <2>2. BaseName(f_tokens[k]) \in Words \cup {Wild}
    BY <2>1, CommandLineAssumption DEF BaseName
  <2> QED
    BY <1>2, <2>1, <2>2 DEF Slot
<1> QED
  BY <1>1, <1>2 DEF TypeOK

LEMMA ArgvType ==
  ASSUME TypeOK, Prep, stage' # "overrun"
  PROVE  /\ argv' \in Seq(Words \cup {Wild, Null})
         /\ \A k \in 1 .. Len(f_tokens) + 1 : argv'[k] \in Slot(k)
<1>1. Len(f_tokens) \in Nat
  BY DEF TypeOK
<1>2. /\ argv' \in [1 .. Len(f_tokens) + 1 -> UNION {Slot(k) : k \in 1 .. Len(f_tokens) + 1}]
      /\ \A k \in DOMAIN argv' : argv'[k] \in Slot(k)
  BY DEF Prep
<1>3. \A k \in 1 .. Len(f_tokens) + 1 : argv'[k] \in Slot(k)
  BY <1>2
<1>4. argv' \in [1 .. Len(f_tokens) + 1 -> Words \cup {Wild, Null}]
  <2>1. \A k \in 1 .. Len(f_tokens) + 1 : argv'[k] \in Words \cup {Wild, Null}
    BY <1>3, SlotType
  <2> QED
    BY <1>2, <2>1
<1> QED
  BY <1>1, <1>3, <1>4, SeqDef

LEMMA WildsType ==
  ASSUME NEW n \in Nat
  PROVE  /\ [k \in 1 .. n |-> Wild] \in Seq(Token) /\ Len([k \in 1 .. n |-> Wild]) = n
         /\ \A j \in 1 .. n : [k \in 1 .. n |-> Wild][j] = Wild
BY IsASeq DEF Token

(* The names of a directory: none when it could not be read.               *)
LEMMA NamesType ==
  ASSUME NEW num_files \in {-1} \cup 2 .. MaxFiles + 2
  PROVE  /\ [k \in 1 .. num_files - 2 |-> Wild] \in Seq(Token)
         /\ Len([k \in 1 .. num_files - 2 |-> Wild]) \in 0 .. MaxFiles
         /\ \A j \in 1 .. Len([k \in 1 .. num_files - 2 |-> Wild]) :
              [k \in 1 .. num_files - 2 |-> Wild][j] = Wild
<1> DEFINE n == IF num_files = -1 THEN 0 ELSE num_files - 2
<1>1. MaxFiles \in Nat
  BY CommandLineAssumption
<1>2. n \in 0 .. MaxFiles /\ 1 .. num_files - 2 = 1 .. n
  <2>1. CASE num_files = -1
    BY <1>1, <2>1
  <2>2. CASE num_files # -1
    BY <1>1, <2>2
  <2> QED
    BY <2>1, <2>2
<1> HIDE DEF n
<1>3. /\ [k \in 1 .. n |-> Wild] \in Seq(Token) /\ Len([k \in 1 .. n |-> Wild]) = n
      /\ \A j \in 1 .. n : [k \in 1 .. n |-> Wild][j] = Wild
  BY <1>1, <1>2, WildsType
<1> QED
  BY <1>2, <1>3, Zenon

LEMMA DefinitionType ==
  ASSUME TypeOK, Len(tokens) >= 4, NEW n \in Nat
  PROVE  /\ SubSeq(tokens, 4, Len(tokens)) \in Seq(Words)
         /\ SubSeq(tokens, 4, Len(tokens)) \o [k \in 1 .. n |-> Wild] \in Seq(Token)
<1>1. SubSeq(tokens, 4, Len(tokens)) \in Seq(Words)
  BY SubSeqProperties DEF TypeOK
<1> QED
  BY <1>1, WildsType, WordsAreTokens, ConcatProperties
-----------------------------------------------------------------------------
(* Type correctness.  A line is read with i at its beginning.              *)
AtStart == stage = "prompt" => i = 1

TypeInv == TypeOK /\ AtStart

LEMMA InitTypeInv == Init => TypeInv
BY CommandLineAssumption DEF Init, TypeInv, TypeOK, AtStart, NoFiles

LEMMA StutterTypeInv == TypeInv /\ UNCHANGED vars => TypeInv'
BY DEF TypeInv, TypeOK, AtStart, vars, table, resolved

LEMMA ReadLineTypeInv == TypeInv /\ (ReadLine \/ NextCommand \/ FreeListing) => TypeInv'
<1> SUFFICES ASSUME TypeInv, ReadLine \/ NextCommand \/ FreeListing PROVE TypeInv'
  OBVIOUS
<1>1. CASE ReadLine
  <2>1. tokens' \in Seq(Words) /\ Len(tokens') \in Nat /\ Len(f_tokens) \in Nat
    BY <1>1, CommandLineAssumption DEF ReadLine, TypeInv, TypeOK
  <2>2. i' \in 1 .. Len(tokens') + Len(f_tokens') + 1
    BY <1>1, <2>1 DEF ReadLine, TypeInv, AtStart
  <2> QED
    BY <1>1, <2>1, <2>2 DEF ReadLine, TypeInv, TypeOK, AtStart, table
<1>2. CASE NextCommand
  <2>1. i' \in 1 .. Len(tokens') + Len(f_tokens') + 1
    BY <1>2 DEF NextCommand
  <2> QED
    BY <1>2, <2>1, CommandLineAssumption DEF NextCommand, TypeInv, TypeOK, AtStart, table, NoFiles
<1>3. CASE FreeListing
  BY <1>3 DEF FreeListing, TypeInv, TypeOK, AtStart, table, resolved
<1> QED
  BY <1>1, <1>2, <1>3

LEMMA ResolveTypeInv == TypeInv /\ Resolve => TypeInv'
<1> SUFFICES ASSUME TypeInv, Resolve PROVE TypeInv'
  OBVIOUS
<1> USE DEF TypeInv
<1>1. ASSUME NEW words \in Seq(Token), Emit(words), i <= Len(tokens), Same,
             bufsize' \in Nat, room' \in Nat
      PROVE  TypeInv'
  <2>1. /\ f_tokens' \in Seq(Words \cup {Wild})
        /\ i' \in 1 .. Len(tokens') + Len(f_tokens') + 1
        /\ stage' \in {"resolving", "overrun"}
    BY <1>1, Emitted DEF Same, Token
  <2> QED
    BY <1>1, <2>1 DEF TypeOK, AtStart, Same, table
<1>2. CASE ResolveHome
  <2>1. bufsize' \in Nat /\ room' \in Nat /\ Same
    BY <1>2, GrownIsNatural DEF ResolveHome, TypeOK
  <2>2. CASE Emit(<<Home>>)
    <3>1. <<Home>> \in Seq(Token)
      BY CommandLineAssumption DEF Token
    <3> QED
      BY <1>1, <1>2, <2>1, <2>2, <3>1 DEF ResolveHome, At
  <2>3. CASE stage' = "crashed" /\ UNCHANGED <<i, f_tokens>>
    BY <2>1, <2>3 DEF TypeOK, AtStart, Same, table
  <2> QED
    BY <1>2, <2>2, <2>3 DEF ResolveHome
<1>3. CASE ResolveStar
  <2>1. PICK num_files \in {-1} \cup 2 .. MaxFiles + 2 :
          /\ bufsize' = Grown(num_files)
          /\ room' = IF bufsize' > bufsize THEN bufsize' ELSE room
          /\ \/ Emit([k \in 1 .. num_files - 2 |-> Wild])
             \/ stage' = "crashed" /\ UNCHANGED <<i, f_tokens>>
    BY <1>3 DEF ResolveStar
  <2>2. bufsize' \in Nat /\ room' \in Nat /\ Same
    BY <1>3, <2>1, GrownIsNatural DEF ResolveStar, TypeOK
  <2>3. CASE Emit([k \in 1 .. num_files - 2 |-> Wild])
    <3>1. [k \in 1 .. num_files - 2 |-> Wild] \in Seq(Token)
      BY NamesType
    <3>2. i <= Len(tokens)
      BY <1>3 DEF ResolveStar, At
    <3> QED
      BY <1>1, <2>2, <2>3, <3>1, <3>2
  <2>4. CASE stage' = "crashed" /\ UNCHANGED <<i, f_tokens>>
    BY <2>2, <2>4 DEF TypeOK, AtStart, Same, table
  <2> QED
    BY <2>1, <2>3, <2>4
<1>4. ASSUME NEW t, ResolveAlias(t) PROVE TypeInv'
  <2>1. aliases[t] \in Seq(Token) /\ Len(aliases[t]) \in Nat
    BY <1>4 DEF ResolveAlias, TypeOK, Token
  <2>2. bufsize' \in Nat /\ room' \in Nat /\ Same /\ i <= Len(tokens)
    BY <1>4, <2>1, GrownIsNatural DEF ResolveAlias, TypeOK, At
  <2>3. CASE Emit(aliases[t])
    BY <1>1, <2>1, <2>2, <2>3
  <2>4. CASE stage' = "overrun" /\ UNCHANGED <<i, f_tokens>>
    BY <2>2, <2>4 DEF TypeOK, AtStart, Same, table
  <2> QED
    BY <1>4, <2>3, <2>4 DEF ResolveAlias
<1>5. ASSUME NEW t \in ToSet(tokens), ResolveWord(t) PROVE TypeInv'
  <2>1. t \in Words
    BY ElementOfSeq DEF TypeOK, ToSet
  <2>2. <<t>> \in Seq(Token)
    BY <2>1 DEF Token
  <2> QED
    BY <1>1, <1>5, <2>2 DEF ResolveWord, At, TypeOK
<1>6. CASE ResolveEnd
  BY <1>6 DEF ResolveEnd, TypeOK, AtStart, Same, table
<1> QED
  BY <1>2, <1>3, <1>4, <1>5, <1>6 DEF Resolve

LEMMA PrepTypeInv == TypeInv /\ Prep => TypeInv'
<1> SUFFICES ASSUME TypeInv, Prep PROVE TypeInv'
  OBVIOUS
<1>1. argv' \in Seq(Words \cup {Wild, Null})
  <2>1. CASE stage' = "overrun"
    BY <2>1 DEF Prep, MayCrash, TypeInv, TypeOK
  <2>2. CASE stage' # "overrun"
    BY <2>2, ArgvType DEF TypeInv
  <2> QED
    BY <2>1, <2>2
<1>2. stage' \in {"dispatching", "crashed", "overrun"}
  BY DEF Prep, MayCrash
<1> QED
  BY <1>1, <1>2 DEF Prep, TypeInv, TypeOK, AtStart, table, resolved

LEMMA DispatchTypeInv == TypeInv /\ Dispatch => TypeInv'
<1> SUFFICES ASSUME TypeInv, Dispatch PROVE TypeInv'
  OBVIOUS
<1> USE DEF TypeInv
<1>1. ASSUME NEW wild \in BOOLEAN, Handled(wild), UNCHANGED table PROVE TypeInv'
  BY <1>1 DEF Handled, MayCrash, TypeOK, AtStart, table, resolved
<1>2. CASE CrashOnFirst
  BY <1>2 DEF CrashOnFirst, TypeOK, AtStart, table, resolved
<1>3. CASE process_alias
  <2> DEFINE definition == SubSeq(tokens, 4, Len(tokens))
  <2>1. PICK n \in 0 .. MaxGarbage :
          /\ aliases' = With(aliases, tokens[2], definition \o [k \in 1 .. n |-> Wild])
          /\ meaning' = With(meaning, tokens[2], definition)
          /\ Handled(n > 0)
    BY <1>3 DEF process_alias
  <2> DEFINE stored == definition \o [k \in 1 .. n |-> Wild]
  <2>2. definition \in Seq(Words) /\ stored \in Seq(Words \cup {Wild})
    <3>1. n \in Nat
      BY CommandLineAssumption
    <3> QED
      BY <1>3, <3>1, DefinitionType DEF process_alias, Token
  <2>3. DOMAIN aliases' = DOMAIN meaning'
    BY <2>1 DEF With, TypeOK
  <2>4. \A name \in DOMAIN meaning' :
          meaning'[name] \in Seq(Words) /\ aliases'[name] \in Seq(Words \cup {Wild})
    <3>1. aliases' = With(aliases, tokens[2], stored) /\ meaning' = With(meaning, tokens[2], definition)
      BY <2>1
    <3> HIDE DEF definition, stored
    <3> QED
      BY <2>2, <3>1 DEF With, TypeOK
  <2>5. stage' \in {"handled", "crashed"} /\ UNCHANGED <<resolved, i, bufsize, room, argv, files>>
    BY <2>1 DEF Handled, MayCrash
  <2> QED
    BY <2>3, <2>4, <2>5 DEF TypeOK, AtStart, resolved
<1>4. CASE Execute
  <2>1. i' \in 1 .. Len(tokens') + Len(f_tokens') + 1
    BY <1>4 DEF Execute, TypeOK, resolved
  <2> QED
    BY <1>4, <2>1 DEF Execute, TypeOK, AtStart, table, resolved
<1> QED
  BY <1>1, <1>2, <1>3, <1>4
     DEF Dispatch, HandleEmpty, HandleBuiltin, HandleSplash, RefuseAlias

LEMMA ParseTypeInv == TypeInv /\ Parse => TypeInv'
<1> SUFFICES ASSUME TypeInv, Parse PROVE TypeInv'
  OBVIOUS
<1> USE DEF TypeInv
<1>1. Len(tokens) \in Nat /\ Len(f_tokens) \in Nat /\ i \in Nat
  BY DEF TypeOK
<1>2. CASE ParseWord
  BY <1>1, <1>2 DEF ParseWord, Unparsed, Untouched, TypeOK, AtStart, table, resolved
<1>3. CASE ParseRedirect
  <2>1. f_tokens[i + 1] \in Words \cup {Wild}
    BY <1>1, <1>3, ElementOfSeq DEF ParseRedirect, Unparsed, TypeOK
  <2>2. files' \in [Redirects -> Words \cup {Wild, NoFile}]
    BY <1>3, <2>1 DEF ParseRedirect, TypeOK
  <2> QED
    BY <1>1, <1>3, <2>2 DEF ParseRedirect, Unparsed, Untouched, TypeOK, AtStart, table, resolved
<1>4. CASE RejectRedirect
  BY <1>4 DEF RejectRedirect, Untouched, TypeOK, AtStart, table, resolved
<1>5. CASE ParseEnd
  BY <1>5 DEF ParseEnd, Untouched, TypeOK, AtStart, table, resolved
<1> QED
  BY <1>2, <1>3, <1>4, <1>5 DEF Parse

LEMMA NextTypeInv == TypeInv /\ [Next]_vars => TypeInv'
BY StutterTypeInv, ReadLineTypeInv, ResolveTypeInv, PrepTypeInv, DispatchTypeInv, ParseTypeInv
   DEF Next

(* Every state of a line is well typed: tokens are words or wild pointers, *)
(* and no index leaves its sequence.                                       *)
THEOREM TypeCorrect == Spec => []TypeOK
<1>1. TypeInv => TypeOK
  BY DEF TypeInv
<1> QED
  BY InitTypeInv, NextTypeInv, <1>1, PTL DEF Spec
-----------------------------------------------------------------------------
(* The redirects.  Of the first n - 1 tokens, each redirect was met once,  *)
(* and its file is the token behind it; one that was not met has no file.  *)
Before(n, r) == {k \in 1 .. n - 1 : f_tokens[k] = r}

ParsedTo(n) ==
  \A r \in Redirects :
    /\ \A k \in Before(n, r) :
         /\ k < Len(f_tokens) /\ files[r] = f_tokens[k + 1]
         /\ \A j \in Before(n, r) : j = k
    /\ Before(n, r) = {} => files[r] = NoFile

RedirectInv ==
  /\ stage \in {"prompt", "resolving", "preparing", "dispatching"} => files = NoFiles
  /\ stage = "parsing" => i <= Len(f_tokens) + 1 /\ ParsedTo(i)
  /\ stage = "launched" => ParsedTo(Len(f_tokens) + 1) /\ ~TwoOutputs
  /\ stage = "rejected" => ~(Unambiguous /\ WordBehindEach)

(* A token is a file name of its own: the empty string is none.            *)
LEMMA TokenIsFile ==
  ASSUME TypeOK, NEW k \in 1 .. Len(f_tokens)
  PROVE  f_tokens[k] # NoFile
BY ElementOfSeq, CommandLineAssumption DEF TypeOK

LEMMA BeforeNext ==
  ASSUME NEW n \in Nat, n >= 1, NEW r
  PROVE  Before(n + 1, r) = IF f_tokens[n] = r THEN Before(n, r) \cup {n} ELSE Before(n, r)
BY DEF Before

LEMMA InitRedirectInv == Init => RedirectInv
BY DEF Init, RedirectInv

(* Steps that neither parse nor touch what was parsed. *)
LEMMA OtherRedirectInv ==
  ASSUME RedirectInv, UNCHANGED files,
         stage \in {"prompt", "resolving", "preparing", "dispatching"},
         stage' \in {"resolving", "preparing", "dispatching", "handled", "overrun", "crashed"}
  PROVE  RedirectInv'
BY DEF RedirectInv

LEMMA StutterRedirectInv == RedirectInv /\ UNCHANGED vars => RedirectInv'
BY DEF RedirectInv, ParsedTo, Before, TwoOutputs, Unambiguous, WordBehindEach, Places,
       vars, table, resolved

LEMMA ExecuteRedirectInv == TypeInv /\ RedirectInv /\ Execute => RedirectInv'
<1> SUFFICES ASSUME TypeInv, RedirectInv, Execute PROVE RedirectInv'
  OBVIOUS
<1>1. files = NoFiles /\ UNCHANGED <<files, f_tokens>> /\ i' = 1 /\ stage' = "parsing"
  BY DEF Execute, Dispatching, RedirectInv, resolved
<1>2. i' <= Len(f_tokens') + 1
  BY <1>1 DEF TypeInv, TypeOK
<1>3. \A r : Before(1, r)' = {}
  BY DEF Before
<1>4. ParsedTo(1)'
  BY <1>1, <1>3 DEF ParsedTo, NoFiles
<1> QED
  BY <1>1, <1>2, <1>4 DEF RedirectInv

LEMMA ParseRedirectInv == TypeInv /\ RedirectInv /\ Parse => RedirectInv'
<1> SUFFICES ASSUME TypeInv, RedirectInv, Parse PROVE RedirectInv'
  OBVIOUS
<1>1. /\ stage = "parsing" /\ ParsedTo(i) /\ i \in Nat /\ i >= 1
      /\ Len(f_tokens) \in Nat /\ i <= Len(f_tokens) + 1
      /\ files \in [Redirects -> Words \cup {Wild, NoFile}]
      /\ f_tokens' = f_tokens
  BY DEF Parse, ParseWord, ParseRedirect, RejectRedirect, ParseEnd, Unparsed, Untouched, resolved,
         RedirectInv, TypeInv, TypeOK
<1>2. CASE ParseWord
  <2>1. i' = i + 1 /\ i <= Len(f_tokens) /\ UNCHANGED <<stage, files>>
    BY <1>2 DEF ParseWord, Unparsed
  <2>2. \A r \in Redirects : Before(i + 1, r) = Before(i, r)
    BY <1>1, <1>2, BeforeNext DEF ParseWord, is_not_redirect
  <2>3. ParsedTo(i + 1)
    BY <1>1, <2>2 DEF ParsedTo
  <2>4. ParsedTo(i)'
    BY <1>1, <2>1, <2>3 DEF ParsedTo, Before
  <2> QED
    BY <1>1, <2>1, <2>4 DEF RedirectInv
<1>3. CASE ParseRedirect
  <2> DEFINE q == f_tokens[i]
  <2>1. /\ q \in Redirects /\ files[q] = NoFile /\ i < Len(f_tokens)
        /\ files' = [files EXCEPT ![q] = f_tokens[i + 1]]
        /\ i' = i + 1 /\ UNCHANGED stage
    BY <1>3 DEF ParseRedirect, is_not_redirect
  <2>2. Before(i, q) = {}
    <3>1. ASSUME NEW k \in Before(i, q) PROVE FALSE
      <4>1. k \in 1 .. Len(f_tokens) /\ k + 1 \in 1 .. Len(f_tokens) /\ files[q] = f_tokens[k + 1]
        BY <1>1, <2>1, <3>1 DEF ParsedTo, Before
      <4> QED
        BY <2>1, <4>1, TokenIsFile DEF TypeInv
    <3> QED
      BY <3>1
  <2>3. Before(i + 1, q) = {i} /\ \A r \in Redirects \ {q} : Before(i + 1, r) = Before(i, r)
    BY <1>1, <2>2, BeforeNext
  <2>4. /\ files'[q] = f_tokens[i + 1]
        /\ \A r \in Redirects \ {q} : files'[r] = files[r]
    BY <1>1, <2>1
  <2>5. \A r : Before(i, r)' = Before(i + 1, r)
    BY <1>1, <2>1 DEF Before
  <2>6. ParsedTo(i)'
    <3> SUFFICES ASSUME NEW r \in Redirects
                 PROVE  /\ \A k \in Before(i + 1, r) :
                             /\ k < Len(f_tokens) /\ files'[r] = f_tokens[k + 1]
                             /\ \A j \in Before(i + 1, r) : j = k
                        /\ Before(i + 1, r) = {} => files'[r] = NoFile
      BY <1>1, <2>5 DEF ParsedTo
    <3>1. CASE r = q
      BY <2>1, <2>3, <2>4, <3>1
    <3>2. CASE r # q
      BY <1>1, <2>3, <2>4, <3>2 DEF ParsedTo
    <3> QED
      BY <3>1, <3>2
  <2> QED
    BY <1>1, <2>1, <2>6 DEF RedirectInv
<1>4. CASE RejectRedirect
  <2> DEFINE q == f_tokens[i]
  <2>1. /\ q \in Redirects /\ i <= Len(f_tokens) /\ i \in Places(q)
        /\ files[q] # NoFile \/ i = Len(f_tokens)
        /\ stage' = "rejected" /\ UNCHANGED files
    BY <1>1, <1>4 DEF RejectRedirect, Unparsed, is_not_redirect, Places
  <2>2. ASSUME files[q] # NoFile PROVE ~Unambiguous
    <3>1. PICK k \in Before(i, q) : TRUE
      BY <1>1, <2>1, <2>2 DEF ParsedTo
    <3>2. k \in Places(q) /\ k # i
      BY <1>1, <2>1, <3>1 DEF Before, Places
    <3> QED
      BY <2>1, <3>2 DEF Unambiguous, Redirects
  <2>3. ASSUME i = Len(f_tokens) PROVE ~WordBehindEach
    <3>1. ~(i < Len(f_tokens))
      BY <1>1, <2>3
    <3> QED
      BY <2>1, <3>1 DEF WordBehindEach
  <2>4. ~(Unambiguous /\ WordBehindEach)
    BY <2>1, <2>2, <2>3
  <2>5. ~(Unambiguous /\ WordBehindEach)'
    BY <1>1, <2>4 DEF Unambiguous, WordBehindEach, Places
  <2> QED
    BY <2>1, <2>5 DEF RedirectInv
<1>5. CASE ParseEnd
  <2>1. i = Len(f_tokens) + 1 /\ UNCHANGED <<files, f_tokens>>
    BY <1>1, <1>5 DEF ParseEnd, Untouched
  <2>2. \A r : Before(i, r) = Places(r)
    BY <1>1, <2>1 DEF Before, Places, TypeInv, TypeOK
  <2>3. CASE TwoOutputs
    <3>1. stage' = "rejected"
      BY <1>5, <2>3 DEF ParseEnd
    <3>2. Places(">") # {} /\ Places(">>") # {}
      BY <1>1, <2>2, <2>3 DEF TwoOutputs, ParsedTo, Redirects
    <3> PICK j \in Places(">"), k \in Places(">>") : TRUE
      BY <3>2
    <3>3. j # k
      BY DEF Places
    <3>4. ~Unambiguous
      BY <3>3 DEF Unambiguous
    <3> QED
      BY <1>1, <2>1, <3>1, <3>4 DEF RedirectInv, Unambiguous, WordBehindEach, Places
  <2>4. CASE ~TwoOutputs
    <3>1. stage' \in {"launched", "crashed"}
      BY <1>5, <2>4 DEF ParseEnd
    <3>2. ParsedTo(Len(f_tokens) + 1)'
      BY <1>1, <2>1 DEF ParsedTo, Before
    <3>3. ~TwoOutputs'
      BY <2>1, <2>4 DEF TwoOutputs
    <3> QED
      BY <3>1, <3>2, <3>3 DEF RedirectInv
  <2> QED
    BY <2>3, <2>4
<1> QED
  BY <1>2, <1>3, <1>4, <1>5 DEF Parse

LEMMA NextRedirectInv == TypeInv /\ RedirectInv /\ [Next]_vars => RedirectInv'
<1> SUFFICES ASSUME TypeInv, RedirectInv, [Next]_vars PROVE RedirectInv'
  OBVIOUS
<1>1. CASE ReadLine
  BY <1>1, OtherRedirectInv DEF ReadLine
<1>2. CASE Resolve
  <2>1. /\ stage = "resolving" /\ UNCHANGED files
        /\ stage' \in {"resolving", "preparing", "overrun", "crashed"}
    BY <1>2 DEF Resolve, ResolveHome, ResolveStar, ResolveEnd, ResolveAlias, ResolveWord, At, Same, Emit
  <2> QED
    BY <2>1, OtherRedirectInv
<1>3. CASE Prep
  <2>1. /\ stage = "preparing" /\ UNCHANGED files
        /\ stage' \in {"dispatching", "overrun", "crashed"}
    BY <1>3 DEF Prep, MayCrash
  <2> QED
    BY <2>1, OtherRedirectInv
<1>4. CASE Dispatch
  <2>1. CASE Execute
    BY <2>1, ExecuteRedirectInv
  <2>2. CASE ~Execute
    <3>1. /\ stage = "dispatching" /\ UNCHANGED files
          /\ stage' \in {"handled", "crashed"}
      BY <1>4, <2>2 DEF Dispatch, HandleEmpty, HandleBuiltin, CrashOnFirst, HandleSplash,
         RefuseAlias, process_alias, Handled, MayCrash, Dispatching, IsAlias
    <3> QED
      BY <3>1, OtherRedirectInv
  <2> QED
    BY <2>1, <2>2
<1>5. CASE Parse
  BY <1>5, ParseRedirectInv
<1>6. CASE NextCommand \/ FreeListing
  BY <1>6 DEF NextCommand, FreeListing, RedirectInv
<1>7. CASE UNCHANGED vars
  BY <1>7, StutterRedirectInv
<1> QED
  BY <1>1, <1>2, <1>3, <1>4, <1>5, <1>6, <1>7 DEF Next

LEMMA RedirectInvSuffices == TypeOK /\ RedirectInv => RedirectsAsWritten
<1> SUFFICES ASSUME TypeOK, RedirectInv PROVE RedirectsAsWritten
  OBVIOUS
<1>1. CASE stage = "launched"
  <2>1. ParsedTo(Len(f_tokens) + 1) /\ ~TwoOutputs
    BY <1>1 DEF RedirectInv
  <2>2. \A r : Before(Len(f_tokens) + 1, r) = Places(r)
    BY DEF Before, Places, TypeOK
  <2>3. \A r \in Redirects :
          /\ \A k \in Places(r) : /\ k < Len(f_tokens) /\ files[r] = f_tokens[k + 1]
                                  /\ \A j \in Places(r) : j = k
          /\ Places(r) = {} => files[r] = NoFile
    BY <2>1, <2>2 DEF ParsedTo
  <2>4. Places(">") = {} \/ Places(">>") = {}
    <3>1. \A r \in Redirects : \A k \in Places(r) : files[r] # NoFile
      <4> SUFFICES ASSUME NEW r \in Redirects, NEW k \in Places(r) PROVE files[r] # NoFile
        OBVIOUS
      <4>1. k + 1 \in 1 .. Len(f_tokens) /\ files[r] = f_tokens[k + 1]
        BY <2>3 DEF Places, TypeOK
      <4> QED
        BY <4>1, TokenIsFile
    <3> QED
      BY <2>1, <3>1 DEF TwoOutputs, Redirects
  <2>5. Unambiguous
    BY <2>3, <2>4 DEF Unambiguous, Redirects
  <2> QED
    BY <1>1, <2>3, <2>5 DEF RedirectsAsWritten
<1>2. CASE stage # "launched"
  BY <1>2 DEF RedirectsAsWritten, RedirectInv
<1> QED
  BY <1>1, <1>2

(* execute launches a program only for a line that redirects its input and *)
(* its output at most once, with the files written behind the redirects,   *)
(* and rejects no line that does so.                                       *)
THEOREM RedirectsAreAsWritten == Spec => []RedirectsAsWritten
<1>1. TypeInv /\ RedirectInv => RedirectsAsWritten
  BY RedirectInvSuffices DEF TypeInv
<1> QED
  BY InitTypeInv, NextTypeInv, InitRedirectInv, NextRedirectInv, <1>1, PTL DEF Spec
-----------------------------------------------------------------------------
(* What it takes to crash the shell.                                       *)
OddLine ==
  \/ ToSet(tokens) \cap {"~", "*"} # {}
  \/ Wild \in ToSet(f_tokens)
  \/ f_tokens # <<>> /\ ~Kept(Head(f_tokens))

CrashInv ==
  /\ stage \in {"dispatching", "parsing"} => argv # <<>> /\ argv[1] \in Slot(1)
  /\ stage = "parsing" => f_tokens # <<>>
  /\ stage = "crashed" => OddLine \/ DefinesGarbage

(* The first slot of argv holds no word only if the line begins with none. *)
LEMMA FirstSlot ==
  ASSUME TypeOK, NEW x \in Slot(1), x = Wild \/ (x = Null /\ f_tokens # <<>>)
  PROVE  OddLine
<1>1. f_tokens # <<>> /\ Len(f_tokens) >= 1
  <2>1. Len(f_tokens) \in Nat /\ (Len(f_tokens) = 0 => f_tokens = <<>>)
    BY EmptySeq DEF TypeOK
  <2>2. CASE Len(f_tokens) = 0
    BY <2>1, <2>2, CommandLineAssumption DEF Slot
  <2> QED
    BY <2>1, <2>2
<1>2. f_tokens[1] \in Words \cup {Wild} /\ 1 \in DOMAIN f_tokens /\ Head(f_tokens) = f_tokens[1]
  BY <1>1, ElementOfSeq DEF TypeOK
<1>3. CASE Kept(f_tokens[1])
  <2>1. x = BaseName(f_tokens[1])
    BY <1>1, <1>3 DEF Slot, TypeOK
  <2>2. f_tokens[1] = Wild
    BY <1>2, <2>1, CommandLineAssumption DEF BaseName
  <2> QED
    BY <1>2, <2>2 DEF OddLine, ToSet
<1>4. CASE ~Kept(f_tokens[1])
  BY <1>1, <1>2, <1>4 DEF OddLine
<1> QED
  BY <1>3, <1>4

(* first_nonredirect runs into the NULL only if the first token is a       *)
(* redirect.                                                               *)
LEMMA FirstNonRedirect ==
  ASSUME TypeOK, f_tokens # <<>>, first_nonredirect = Null
  PROVE  OddLine
<1>1. Len(f_tokens) \in Nat /\ Len(f_tokens) >= 1
  BY EmptySeq DEF TypeOK
<1>2. NonRedirects = {}
  <2>1. ASSUME NonRedirects # {} PROVE FALSE
    <3>1. NonRedirects \in SUBSET Nat /\ NonRedirects \subseteq 1 .. Len(f_tokens)
      BY DEF NonRedirects, TypeOK
    <3>2. Min(NonRedirects) \in 1 .. Len(f_tokens)
      BY <2>1, <3>1, MinProperties
    <3>3. f_tokens[Min(NonRedirects)] \in Words \cup {Wild}
      BY <3>2, ElementOfSeq DEF TypeOK
    <3> QED
      BY <2>1, <3>3, CommandLineAssumption DEF first_nonredirect
  <2> QED
    BY <2>1
<1>3. 1 \in DOMAIN f_tokens /\ Head(f_tokens) = f_tokens[1]
  BY <1>1 DEF TypeOK
<1>4. ~is_not_redirect(f_tokens[1])
  BY <1>2, <1>3 DEF NonRedirects
<1> QED
  BY <1>3, <1>4 DEF OddLine, Kept

LEMMA InitCrashInv == Init => CrashInv
BY DEF Init, CrashInv

LEMMA SameOddLine == UNCHANGED <<tokens, f_tokens>> /\ OddLine => OddLine'
BY DEF OddLine, Kept, is_not_redirect

LEMMA StutterCrashInv == CrashInv /\ UNCHANGED vars => CrashInv'
BY DEF CrashInv, OddLine, DefinesGarbage, Slot, BaseName, Kept, is_not_redirect, vars, table, resolved

LEMMA ResolveCrashInv == TypeInv /\ Resolve => CrashInv'
<1> SUFFICES ASSUME TypeInv, Resolve PROVE CrashInv'
  OBVIOUS
<1>1. ASSUME NEW t \in {"~", "*"}, At(t), Same, stage' \in {"resolving", "overrun", "crashed"}
      PROVE  CrashInv'
  <2>1. t \in ToSet(tokens) /\ tokens' = tokens
    BY <1>1 DEF At, ToSet, TypeInv, TypeOK, Same
  <2> QED
    BY <1>1, <2>1 DEF CrashInv, OddLine
<1>2. CASE ResolveHome
  BY <1>1, <1>2 DEF ResolveHome, Emit
<1>3. CASE ResolveStar
  BY <1>1, <1>3 DEF ResolveStar, Emit
<1>4. CASE ~ResolveHome /\ ~ResolveStar
  <2>1. stage' \in {"resolving", "preparing", "overrun"}
    BY <1>4 DEF Resolve, ResolveEnd, ResolveAlias, ResolveWord, Emit
  <2> QED
    BY <2>1 DEF CrashInv
<1> QED
  BY <1>2, <1>3, <1>4

LEMMA PrepCrashInv == TypeInv /\ Prep => CrashInv'
<1> SUFFICES ASSUME TypeInv, Prep PROVE CrashInv'
  OBVIOUS
<1>1. UNCHANGED <<tokens, f_tokens>> /\ stage' \in {"dispatching", "crashed", "overrun"}
  BY DEF Prep, MayCrash, resolved
<1>2. CASE stage' = "overrun"
  BY <1>2 DEF CrashInv
<1>3. CASE stage' # "overrun"
  <2>1. argv'[1] \in Slot(1) /\ argv' # <<>>
    <3>1. 1 \in 1 .. Len(f_tokens) + 1
      BY DEF TypeInv, TypeOK
    <3>2. DOMAIN argv' = 1 .. Len(f_tokens) + 1
      BY <1>3 DEF Prep
    <3> QED
      BY <1>3, <3>1, <3>2, ArgvType DEF TypeInv
  <2>2. argv'[1] \in Slot(1)'
    BY <1>1, <2>1 DEF Slot, BaseName, Kept, is_not_redirect
  <2>3. stage' = "crashed" => OddLine
    <3>1. stage' = "crashed" => Wild \in ToSet(f_tokens) \/ argv'[1] = Wild
      BY <1>3 DEF Prep, MayCrash
    <3> QED
      BY <2>1, <3>1, FirstSlot DEF OddLine, TypeInv
  <2>4. stage' = "crashed" => OddLine'
    BY <1>1, <2>3, SameOddLine
  <2> QED
    BY <1>1, <2>1, <2>2, <2>4, <1>3 DEF CrashInv
<1> QED
  BY <1>2, <1>3

LEMMA DispatchCrashInv == TypeInv /\ CrashInv /\ Dispatch => CrashInv'
<1> SUFFICES ASSUME TypeInv, CrashInv, Dispatch PROVE CrashInv'
  OBVIOUS
<1>1. CASE HandleEmpty \/ HandleBuiltin \/ HandleSplash \/ RefuseAlias
  BY <1>1 DEF HandleEmpty, HandleBuiltin, HandleSplash, RefuseAlias, Handled, MayCrash, CrashInv
<1>2. CASE CrashOnFirst
  <2>1. argv[1] \in Slot(1) /\ argv[1] \in {Null, Wild} /\ f_tokens # <<>>
    BY <1>2 DEF CrashOnFirst, Dispatching, CrashInv
  <2>2. OddLine
    BY <2>1, FirstSlot DEF TypeInv
  <2>3. OddLine'
    BY <1>2, <2>2, SameOddLine DEF CrashOnFirst, resolved
  <2> QED
    BY <1>2, <2>3 DEF CrashOnFirst, CrashInv
<1>3. CASE process_alias
  <2> DEFINE definition == SubSeq(tokens, 4, Len(tokens))
  <2>1. PICK n \in 0 .. MaxGarbage :
          /\ aliases' = With(aliases, tokens[2], definition \o [k \in 1 .. n |-> Wild])
          /\ stage' = "handled" \/ (stage' = "crashed" /\ n > 0)
    BY <1>3 DEF process_alias, Handled, MayCrash
  <2> DEFINE wilds == [k \in 1 .. n |-> Wild]
             stored == definition \o wilds
  <2>2. CASE stage' = "handled"
    BY <2>2 DEF CrashInv
  <2>3. CASE stage' = "crashed" /\ n > 0
    <3>1. n \in Nat /\ n >= 1
      BY <2>3, CommandLineAssumption
    <3>2. definition \in Seq(Token) /\ stored \in Seq(Token)
      BY <1>3, <3>1, DefinitionType, WordsAreTokens DEF process_alias, TypeInv
    <3>3. wilds \in Seq(Token) /\ Len(wilds) = n /\ wilds[1] = Wild
      BY <3>1, WildsType
    <3>4. aliases' = With(aliases, tokens[2], stored)
      BY <2>1
    <3> HIDE DEF definition, wilds
    <3>5. Wild \in ToSet(stored)
      <4>1. Len(definition) \in Nat /\ Len(stored) = Len(definition) + n
        BY <3>2, <3>3, ConcatProperties, LenProperties
      <4>2. stored[Len(definition) + 1] = Wild
        <5>1. /\ Len(definition) + 1 \in 1 .. Len(definition) + Len(wilds)
              /\ ~(Len(definition) + 1 <= Len(definition))
              /\ (Len(definition) + 1) - Len(definition) = 1
          BY <3>1, <3>3, <4>1
        <5> QED
          BY <3>2, <3>3, <5>1, ConcatProperties
      <4>3. Len(definition) + 1 \in 1 .. Len(stored)
        BY <3>1, <4>1
      <4> HIDE DEF stored
      <4>4. Len(definition) + 1 \in DOMAIN stored
        BY <3>2, <4>3, LenProperties
      <4> QED
        BY <4>2, <4>4 DEF ToSet
    <3> HIDE DEF stored
    <3>6. tokens[2] \in DOMAIN aliases' /\ aliases'[tokens[2]] = stored
      BY <3>4 DEF With
    <3>7. /\ UNCHANGED <<argv, tokens>> /\ argv # <<>> /\ argv[1] = "alias"
          /\ Len(tokens) >= 4 /\ tokens[3] = "="
      BY <1>3 DEF process_alias, IsAlias, Dispatching, CrashInv, Handled, resolved
    <3>8. Head(argv) = argv[1]
      BY <3>7
    <3>9. DefinesGarbage'
      BY <3>5, <3>6, <3>7, <3>8 DEF DefinesGarbage
    <3> QED
      BY <2>3, <3>9 DEF CrashInv
  <2> QED
    BY <2>1, <2>2, <2>3
<1>4. CASE Execute
  BY <1>4 DEF Execute, Dispatching, CrashInv, Slot, BaseName, Kept, is_not_redirect, resolved
<1> QED
  BY <1>1, <1>2, <1>3, <1>4 DEF Dispatch

LEMMA ParseCrashInv == TypeInv /\ CrashInv /\ Parse => CrashInv'
<1> SUFFICES ASSUME TypeInv, CrashInv, Parse PROVE CrashInv'
  OBVIOUS
<1>1. stage = "parsing" /\ UNCHANGED <<tokens, f_tokens, argv>>
  BY DEF Parse, ParseWord, ParseRedirect, RejectRedirect, ParseEnd, Unparsed, Untouched, resolved
<1>2. argv' # <<>> /\ argv'[1] \in Slot(1)' /\ f_tokens' # <<>>
  BY <1>1 DEF CrashInv, Slot, BaseName, Kept, is_not_redirect
<1>3. stage' = "crashed" => f_tokens # <<>> /\ first_nonredirect = Null
  BY <1>1 DEF Parse, ParseWord, ParseRedirect, RejectRedirect, ParseEnd, CrashInv
<1>4. stage' = "crashed" => OddLine
  BY <1>3, FirstNonRedirect DEF TypeInv
<1>5. stage' = "crashed" => OddLine'
  BY <1>1, <1>4, SameOddLine
<1> QED
  BY <1>2, <1>5 DEF CrashInv

(* The shell crashes over a line only if that has "~", "*" or a pointer    *)
(* that was never assigned or whose target was freed, begins with a        *)
(* redirect or "&", or defines an alias with garbage behind it.            *)
THEOREM CrashesAreOdd == Spec => []OnlyOddLinesCrash
<1>1. TypeInv /\ CrashInv /\ [Next]_vars => CrashInv'
  <2>1. ReadLine \/ NextCommand \/ FreeListing => CrashInv'
    BY DEF ReadLine, NextCommand, FreeListing, CrashInv
  <2> QED
    BY <2>1, StutterCrashInv, ResolveCrashInv, PrepCrashInv, DispatchCrashInv, ParseCrashInv
       DEF Next
<1>2. CrashInv => OnlyOddLinesCrash
  BY DEF CrashInv, OddLine, OnlyOddLinesCrash
<1> QED
  BY InitTypeInv, NextTypeInv, InitCrashInv, <1>1, <1>2, PTL DEF Spec

-----------------------------------------------------------------------------
(* What reaches the program.                                               *)

(* prep has filled the slots of argv, and nothing changes them later.      *)
Prepared == DOMAIN argv = 1 .. Len(f_tokens) + 1 /\ \A k \in DOMAIN argv : argv[k] \in Slot(k)

ArgvInv == stage \in {"dispatching", "parsing", "launched"} => Prepared

LEMMA SamePrepared == UNCHANGED <<argv, f_tokens>> /\ Prepared => Prepared'
BY DEF Prepared, Slot, BaseName, Kept, is_not_redirect

LEMMA PrepArgvInv == TypeInv /\ Prep => ArgvInv'
<1> SUFFICES ASSUME TypeInv, Prep, stage' \in {"dispatching", "parsing", "launched"} PROVE Prepared'
  BY DEF ArgvInv
<1>1. stage' # "overrun" /\ UNCHANGED f_tokens
  BY DEF Prep, resolved
<1>2. /\ DOMAIN argv' = 1 .. Len(f_tokens) + 1
      /\ \A k \in 1 .. Len(f_tokens) + 1 : argv'[k] \in Slot(k)
  <2>1. \A k \in 1 .. Len(f_tokens) + 1 : argv'[k] \in Slot(k)
    BY <1>1, ArgvType DEF TypeInv
  <2>2. DOMAIN argv' = 1 .. Len(f_tokens) + 1
    BY <1>1 DEF Prep
  <2> QED
    BY <2>1, <2>2
<1> QED
  BY <1>1, <1>2 DEF Prepared, Slot, BaseName, Kept, is_not_redirect

LEMMA NextArgvInv == TypeInv /\ ArgvInv /\ [Next]_vars => ArgvInv'
<1> SUFFICES ASSUME TypeInv, ArgvInv, [Next]_vars PROVE ArgvInv'
  OBVIOUS
<1>1. CASE ReadLine \/ NextCommand \/ FreeListing
  BY <1>1 DEF ReadLine, NextCommand, FreeListing, ArgvInv
<1>2. CASE Resolve
  BY <1>2 DEF Resolve, ResolveHome, ResolveStar, ResolveEnd, ResolveAlias, ResolveWord, Emit, ArgvInv
<1>3. CASE Prep
  BY <1>3, PrepArgvInv
<1>4. CASE Dispatch
  <2>1. stage' \in {"handled", "crashed"} \/ (stage = "dispatching" /\ UNCHANGED <<argv, f_tokens>>)
    BY <1>4 DEF Dispatch, HandleEmpty, HandleBuiltin, CrashOnFirst, HandleSplash, RefuseAlias,
       process_alias, Execute, Handled, MayCrash, Dispatching, resolved
  <2> QED
    BY <2>1, SamePrepared DEF ArgvInv
<1>5. CASE Parse
  <2>1. stage = "parsing" /\ UNCHANGED <<argv, f_tokens>>
    BY <1>5 DEF Parse, ParseWord, ParseRedirect, RejectRedirect, ParseEnd, Unparsed, Untouched, resolved
  <2> QED
    BY <2>1, SamePrepared DEF ArgvInv
<1>6. CASE UNCHANGED vars
  BY <1>6, SamePrepared DEF ArgvInv, vars, resolved
<1> QED
  BY <1>1, <1>2, <1>3, <1>4, <1>5, <1>6 DEF Next

Stops == {k \in DOMAIN f_tokens : ~Kept(f_tokens[k])}

(* Written ends before the first redirect or "&".                          *)
LEMMA WrittenProperties ==
  ASSUME TypeOK
  PROVE  /\ Written \in Seq(Token) /\ Len(Written) \in 0 .. Len(f_tokens)
         /\ \A k \in 1 .. Len(Written) : Written[k] = f_tokens[k] /\ Kept(f_tokens[k])
         /\ Len(Written) < Len(f_tokens) => ~Kept(f_tokens[Len(Written) + 1])
<1>1. f_tokens \in Seq(Token) /\ Len(f_tokens) \in Nat /\ DOMAIN f_tokens = 1 .. Len(f_tokens)
  BY DEF TypeOK, Token
<1>2. CASE Stops = {}
  <2>1. Written = f_tokens
    BY <1>2 DEF Written, Stops
  <2> QED
    BY <1>1, <1>2, <2>1 DEF Stops
<1>3. CASE Stops # {}
  <2> DEFINE m == Min(Stops)
  <2>1. Stops \in SUBSET Nat /\ Stops \subseteq 1 .. Len(f_tokens)
    BY <1>1 DEF Stops
  <2>2. m \in Stops /\ m \in 1 .. Len(f_tokens) /\ \A k \in Stops : m <= k
    BY <1>3, <2>1, MinProperties
  <2>3. Written = SubSeq(f_tokens, 1, m - 1)
    BY <1>3 DEF Written, Stops
  <2> HIDE DEF m
  <2>4. \A k \in 1 .. m - 1 : f_tokens[k] \in Token
    BY <1>1, <2>2, ElementOfSeq
  <2>5. /\ Written \in Seq(Token) /\ Len(Written) = m - 1
        /\ \A k \in 1 .. m - 1 : Written[k] = f_tokens[k]
    <3>1. m - 1 \in Int /\ 1 \in Int
      BY <2>2
    <3>2. /\ Written \in Seq(Token) /\ Len(Written) = IF 1 <= m - 1 THEN (m - 1) - 1 + 1 ELSE 0
          /\ \A k \in 1 .. (m - 1) - 1 + 1 : Written[k] = f_tokens[1 + k - 1]
      BY <2>3, <2>4, <3>1, SubSeqProperties
    <3> QED
      BY <2>2, <3>2
  <2>6. \A k \in 1 .. m - 1 : Kept(f_tokens[k])
    <3> TAKE k \in 1 .. m - 1
    <3>1. k \in DOMAIN f_tokens /\ ~(m <= k)
      BY <1>1, <2>2
    <3> QED
      BY <2>2, <3>1 DEF Stops
  <2>7. ~Kept(f_tokens[m])
    BY <2>2 DEF Stops
  <2>8. Len(Written) + 1 = m /\ Len(Written) \in 0 .. Len(f_tokens)
    BY <1>1, <2>2, <2>5
  <2> QED
    BY <2>5, <2>6, <2>7, <2>8
<1> QED
  BY <1>2, <1>3

(* The slots before the first redirect or "&" hold what was written.       *)
Given == <<BaseName(Head(Written))>> \o Tail(Written)

LEMMA GivenProperties ==
  ASSUME TypeOK, Prepared, Written # <<>>
  PROVE  /\ Given \in Seq(Token) /\ Len(Given) = Len(Written) /\ Len(Written) >= 1
         /\ \A k \in 1 .. Len(Written) : Given[k] = argv[k]
<1> DEFINE n == Len(Written)
<1>1. /\ Written \in Seq(Token) /\ n \in 0 .. Len(f_tokens) /\ Len(f_tokens) \in Nat
      /\ \A k \in 1 .. n : Written[k] = f_tokens[k] /\ Kept(f_tokens[k])
  BY WrittenProperties DEF TypeOK
<1>2. n \in 1 .. Len(f_tokens)
  BY <1>1, EmptySeq
<1>3. Head(Written) = Written[1] /\ Head(Written) \in Token
  BY <1>1, HeadTailProperties
<1>4. BaseName(Head(Written)) \in Token
  BY <1>3, CommandLineAssumption DEF BaseName, Token
<1>5. /\ Tail(Written) \in Seq(Token) /\ Len(Tail(Written)) = n - 1
      /\ \A k \in 1 .. n - 1 : Tail(Written)[k] = Written[k + 1]
  BY <1>1, HeadTailProperties
<1> DEFINE b == <<BaseName(Head(Written))>>
<1>6. b \in Seq(Token) /\ Len(b) = 1 /\ b[1] = BaseName(Head(Written))
  BY <1>4
<1> HIDE DEF b, n
<1>7. /\ Given \in Seq(Token) /\ Len(Given) = n
      /\ \A k \in 1 .. n : Given[k] = IF k <= 1 THEN b[k] ELSE Tail(Written)[k - 1]
  <2> DEFINE t == Tail(Written)
  <2>1. Given = b \o t
    BY DEF Given, b
  <2>2. t \in Seq(Token) /\ Len(t) = n - 1
    BY <1>5
  <2> HIDE DEF t
  <2>3. /\ b \o t \in Seq(Token) /\ Len(b \o t) = Len(b) + Len(t)
        /\ \A k \in 1 .. Len(b) + Len(t) : (b \o t)[k] = IF k <= Len(b) THEN b[k] ELSE t[k - Len(b)]
    BY <1>6, <2>2, ConcatProperties
  <2>4. Len(b) + Len(t) = n
    BY <1>2, <1>6, <2>2
  <2> QED
    BY <1>6, <2>1, <2>3, <2>4 DEF t
<1>8. ASSUME NEW k \in 1 .. n PROVE Given[k] = argv[k]
  <2>1. k \in DOMAIN argv /\ ~(k > Len(f_tokens)) /\ Kept(f_tokens[k])
    BY <1>1, <1>2 DEF Prepared
  <2>2. argv[k] = IF k = 1 THEN BaseName(f_tokens[k]) ELSE f_tokens[k]
    BY <2>1 DEF Prepared, Slot
  <2>3. CASE k = 1
    BY <1>1, <1>3, <1>6, <1>7, <2>2, <2>3
  <2>4. CASE k # 1
    <3>1. k - 1 \in 1 .. n - 1 /\ (k - 1) + 1 = k /\ ~(k <= 1)
      BY <1>2, <2>4
    <3> QED
      BY <1>1, <1>5, <1>7, <2>2, <2>4, <3>1
  <2> QED
    BY <2>3, <2>4
<1> QED
  BY <1>2, <1>7, <1>8 DEF n

LEMMA ArgsProperties ==
  ASSUME TypeOK, Prepared
  PROVE  \E m \in 0 .. Len(f_tokens) :
           /\ Args \in Seq(Token) /\ Len(Args) = m
           /\ argv[m + 1] = Null
           /\ \A k \in 1 .. m : Args[k] = argv[k] /\ argv[k] # Null
<1> DEFINE Nulls == {k \in DOMAIN argv : argv[k] = Null}
<1>1. /\ Len(f_tokens) \in Nat /\ DOMAIN argv = 1 .. Len(f_tokens) + 1
      /\ argv \in Seq(Words \cup {Wild, Null})
  BY DEF TypeOK, Prepared
<1>2. Len(f_tokens) + 1 \in Nulls
  BY <1>1 DEF Prepared, Slot
<1>3. Nulls \in SUBSET Nat /\ Nulls \subseteq 1 .. Len(f_tokens) + 1
  BY <1>1
<1> DEFINE first == Min(Nulls)
<1>4. first \in Nulls /\ \A k \in Nulls : first <= k
  <2> HIDE DEF Nulls
  <2> QED
    BY <1>2, <1>3, MinProperties
<1>5. Args = SubSeq(argv, 1, first - 1)
  BY DEF Args
<1>6. first \in 1 .. Len(f_tokens) + 1 /\ argv[first] = Null
  BY <1>3, <1>4
<1> HIDE DEF first
<1>7. ASSUME NEW k \in 1 .. first - 1 PROVE argv[k] # Null /\ argv[k] \in Token
  <2>1. k \in DOMAIN argv /\ ~(first <= k)
    BY <1>1, <1>6
  <2>2. argv[k] # Null
    BY <1>4, <2>1
  <2>3. argv[k] \in Words \cup {Wild, Null}
    BY <1>1, <2>1, LenProperties, ElementOfSeq
  <2> QED
    BY <2>2, <2>3 DEF Token
<1>8. /\ Args \in Seq(Token) /\ Len(Args) = first - 1
      /\ \A k \in 1 .. first - 1 : Args[k] = argv[k]
  <2>1. first - 1 \in Int /\ 1 \in Int
    BY <1>6
  <2>2. /\ Args \in Seq(Token) /\ Len(Args) = IF 1 <= first - 1 THEN (first - 1) - 1 + 1 ELSE 0
        /\ \A k \in 1 .. (first - 1) - 1 + 1 : Args[k] = argv[1 + k - 1]
    BY <1>5, <1>7, <2>1, SubSeqProperties
  <2> QED
    BY <1>6, <2>2
<1>9. first - 1 \in 0 .. Len(f_tokens) /\ (first - 1) + 1 = first
  BY <1>1, <1>6
<1> QED
  BY <1>6, <1>7, <1>8, <1>9

LEMMA FirstIsWritten ==
  ASSUME TypeOK, Written # <<>>
  PROVE  first_nonredirect = Head(Written)
<1>1. /\ Written \in Seq(Token) /\ Len(Written) \in 0 .. Len(f_tokens) /\ Len(f_tokens) \in Nat
      /\ \A k \in 1 .. Len(Written) : Written[k] = f_tokens[k] /\ Kept(f_tokens[k])
  BY WrittenProperties DEF TypeOK
<1>2. Len(Written) \in 1 .. Len(f_tokens)
  BY <1>1, EmptySeq
<1>3. Head(Written) = f_tokens[1] /\ Kept(f_tokens[1])
  BY <1>1, <1>2, HeadTailProperties
<1>4. NonRedirects \in SUBSET Nat /\ 1 \in NonRedirects /\ \A k \in NonRedirects : 1 <= k
  BY <1>2, <1>3 DEF NonRedirects, Kept, TypeOK
<1>5. Min(NonRedirects) = 1
  <2> DEFINE m == Min(NonRedirects)
  <2>1. m \in NonRedirects /\ m <= 1
    BY <1>4, MinProperties
  <2> HIDE DEF m
  <2>2. m \in Nat /\ 1 <= m
    BY <1>4, <2>1
  <2>3. m = 1
    BY <2>1, <2>2
  <2> QED
    BY <2>3 DEF m
<1> QED
  BY <1>3, <1>4, <1>5 DEF first_nonredirect

LEMMA ArgvInvSuffices == TypeOK /\ ArgvInv => ArgumentsAreWords
<1> SUFFICES ASSUME TypeOK, Prepared, Written # <<>>
             PROVE  /\ first_nonredirect = Head(Written)
                    /\ IsPrefix(Given, Args)
                    /\ Args # Given => Args[Len(Given) + 1] = Wild /\ Given # f_tokens
  BY DEF ArgvInv, ArgumentsAreWords, Given
<1> DEFINE n == Len(Written)
<1>1. /\ Given \in Seq(Token) /\ Len(Given) = n /\ n >= 1
      /\ \A k \in 1 .. n : Given[k] = argv[k]
  BY GivenProperties
<1>2. /\ n \in 0 .. Len(f_tokens) /\ Len(f_tokens) \in Nat
      /\ n < Len(f_tokens) => ~Kept(f_tokens[n + 1])
  BY WrittenProperties DEF TypeOK
<1>3. PICK m \in 0 .. Len(f_tokens) :
        /\ Args \in Seq(Token) /\ Len(Args) = m
        /\ argv[m + 1] = Null
        /\ \A k \in 1 .. m : Args[k] = argv[k] /\ argv[k] # Null
  BY ArgsProperties
<1> HIDE DEF n
<1>4. n <= m
  <2> SUFFICES ASSUME m < n PROVE FALSE
    BY <1>2, <1>3
  <2>1. m + 1 \in 1 .. n
    BY <1>2, <1>3
  <2>2. Given[m + 1] = Null /\ Given[m + 1] \in Token
    BY <1>1, <1>3, <2>1, ElementOfSeq
  <2> QED
    BY <2>2, CommandLineAssumption DEF Token
<1>5. \A k \in 1 .. n : Given[k] = Args[k]
  BY <1>1, <1>2, <1>3, <1>4
<1>6. IsPrefix(Given, Args)
  <2>1. /\ SubSeq(Args, 1, n) \in Seq(Token) /\ Len(SubSeq(Args, 1, n)) = n
        /\ \A k \in 1 .. n : SubSeq(Args, 1, n)[k] = Args[k]
    <3>1. \A k \in 1 .. n : Args[k] \in Token
      BY <1>2, <1>3, <1>4, ElementOfSeq
    <3> QED
      BY <1>2, <3>1, SubSeqProperties
  <2>2. SubSeq(Args, 1, n) = Given
    BY <1>1, <1>5, <2>1, SeqEqual
  <2>3. SubSeq(Given, 1, Len(Given)) = Given
    BY <1>1, SubSeqFull
  <2> QED
    BY <1>1, <1>3, <1>4, <2>2, <2>3 DEF IsPrefix
<1>7. ASSUME Args # Given PROVE Args[n + 1] = Wild /\ Given # f_tokens
  <2>1. n < m
    <3>1. CASE n = m
      BY <1>1, <1>3, <1>5, <1>7, <3>1, SeqEqual
    <3> QED
      BY <1>2, <1>3, <1>4, <3>1
  <2>2. n + 1 \in 1 .. m /\ n + 1 \in 1 .. Len(f_tokens) + 1 /\ n < Len(f_tokens) /\ ~(n + 1 > Len(f_tokens))
    BY <1>2, <1>3, <2>1
  <2>3. argv[n + 1] \in Slot(n + 1) /\ argv[n + 1] # Null /\ Args[n + 1] = argv[n + 1]
    BY <1>3, <2>2 DEF Prepared
  <2>4. Args[n + 1] = Wild
    BY <1>2, <2>2, <2>3 DEF Slot
  <2>5. Given # f_tokens
    BY <1>1, <2>2
  <2> QED
    BY <2>4, <2>5
<1> QED
  BY <1>1, <1>6, <1>7, FirstIsWritten

(* The words before the first redirect or "&" reach the program, and only  *)
(* a pointer that was never assigned can lead on from there.               *)
THEOREM ArgumentsReachTheProgram == Spec => []ArgumentsAreWords
<1>1. Init => ArgvInv
  BY DEF Init, ArgvInv
<1>2. TypeInv /\ ArgvInv => ArgumentsAreWords
  BY ArgvInvSuffices DEF TypeInv
<1> QED
  BY InitTypeInv, NextTypeInv, NextArgvInv, <1>1, <1>2, PTL DEF Spec

-----------------------------------------------------------------------------
(* FlattenSeq, whose recursive definition has exactly one solution.        *)

Flattens(f, ss, n) ==
  /\ DOMAIN f = 1 .. n
  /\ \A k \in 1 .. n : f[k] = IF k = 1 THEN ss[k] ELSE f[k - 1] \o ss[k]

LEMMA FlattenedExists ==
  ASSUME NEW S, NEW ss \in Seq(Seq(S)), NEW n \in 0 .. Len(ss)
  PROVE  \E f : Flattens(f, ss, n) /\ \A k \in 1 .. n : f[k] \in Seq(S)
<1> DEFINE Solved == {m \in Nat : \E f : Flattens(f, ss, m) /\ \A k \in 1 .. m : f[k] \in Seq(S)}
<1>1. n \in Nat /\ Len(ss) \in Nat
  BY LenProperties
<1>2. 0 \in Solved
  <2>1. Flattens(<<>>, ss, 0)
    BY DEF Flattens
  <2> QED
    BY <2>1
<1>3. ASSUME NEW m \in 0 .. n - 1, m \in Solved PROVE m + 1 \in Solved
  <2>1. PICK f : Flattens(f, ss, m) /\ \A k \in 1 .. m : f[k] \in Seq(S)
    BY <1>3
  <2>2. m \in Nat /\ m + 1 \in 1 .. Len(ss)
    BY <1>1
  <2>3. ss[m + 1] \in Seq(S)
    BY <2>2, ElementOfSeq
  <2> DEFINE e == IF m + 1 = 1 THEN ss[m + 1] ELSE f[m] \o ss[m + 1]
             g == [k \in 1 .. m + 1 |-> IF k = m + 1 THEN e ELSE f[k]]
  <2>4. e \in Seq(S)
    <3>1. CASE m = 0
      BY <2>3, <3>1
    <3>2. CASE m # 0
      <4>1. f[m] \in Seq(S)
        BY <2>1, <2>2, <3>2
      <4> QED
        BY <2>2, <2>3, <3>2, <4>1, ConcatProperties
    <3> QED
      BY <3>1, <3>2
  <2>5. \A k \in 1 .. m : g[k] = f[k]
    BY <2>2
  <2>6. g[m + 1] = e /\ DOMAIN g = 1 .. m + 1
    BY <2>2
  <2>7. e = IF m + 1 = 1 THEN ss[m + 1] ELSE f[m] \o ss[m + 1]
    OBVIOUS
  <2> HIDE DEF g, e
  <2>8. Flattens(g, ss, m + 1)
    <3> SUFFICES ASSUME NEW k \in 1 .. m + 1
                 PROVE  g[k] = IF k = 1 THEN ss[k] ELSE g[k - 1] \o ss[k]
      BY <2>6 DEF Flattens
    <3>1. CASE k = m + 1
      <4>1. g[k] = e
        BY <2>6, <3>1
      <4>2. CASE m = 0
        BY <2>7, <3>1, <4>1, <4>2
      <4>3. CASE m # 0
        <5>1. k # 1 /\ m + 1 # 1 /\ k - 1 = m /\ m \in 1 .. m
          BY <2>2, <3>1, <4>3
        <5>2. g[k - 1] = f[m]
          BY <2>5, <5>1
        <5> QED
          BY <2>7, <3>1, <4>1, <5>1, <5>2, Zenon
      <4> QED
        BY <4>2, <4>3
    <3>2. CASE k # m + 1
      <4>1. k \in 1 .. m /\ (k # 1 => k - 1 \in 1 .. m)
        BY <2>2, <3>2
      <4>2. f[k] = IF k = 1 THEN ss[k] ELSE f[k - 1] \o ss[k]
        BY <2>1, <4>1 DEF Flattens
      <4> QED
        BY <2>5, <4>1, <4>2
    <3> QED
      BY <3>1, <3>2
  <2>9. \A k \in 1 .. m + 1 : g[k] \in Seq(S)
    <3> TAKE k \in 1 .. m + 1
    <3>1. CASE k = m + 1
      BY <2>4, <2>6, <3>1
    <3>2. CASE k # m + 1
      <4>1. k \in 1 .. m
        BY <2>2, <3>2
      <4> QED
        BY <2>1, <2>5, <4>1
    <3> QED
      BY <3>1, <3>2
  <2>10. \E h : Flattens(h, ss, m + 1) /\ \A k \in 1 .. m + 1 : h[k] \in Seq(S)
    BY <2>8, <2>9
  <2> QED
    BY <2>2, <2>10
<1>4. n \in Solved
  <2> HIDE DEF Solved
  <2>1. \A m \in 0 .. n - 1 : m \in Solved => m + 1 \in Solved
    BY <1>3
  <2>2. \A m \in 0 .. n : m \in Solved
    BY <1>1, <1>2, <2>1, InductionUpTo
  <2> QED
    BY <1>1, <2>2
<1> QED
  BY <1>4

LEMMA FlattenedIsUnique ==
  ASSUME NEW n \in Nat, NEW m \in 0 .. n, NEW ss, NEW tt, NEW f, NEW g,
         Flattens(f, ss, m), Flattens(g, tt, n), \A k \in 1 .. m : ss[k] = tt[k]
  PROVE  \A k \in 1 .. m : f[k] = g[k]
<1> DEFINE Agree == {k \in Nat : k = 0 \/ f[k] = g[k]}
<1>1. m \in Nat /\ 0 \in Agree
  OBVIOUS
<1>2. ASSUME NEW k \in 0 .. m - 1, k \in Agree PROVE k + 1 \in Agree
  <2>1. k \in Nat /\ k + 1 \in 1 .. m /\ k + 1 \in 1 .. n /\ (k + 1) - 1 = k
    OBVIOUS
  <2>2. f[k + 1] = IF k + 1 = 1 THEN ss[k + 1] ELSE f[k] \o ss[k + 1]
    BY <2>1 DEF Flattens
  <2>3. g[k + 1] = IF k + 1 = 1 THEN tt[k + 1] ELSE g[k] \o tt[k + 1]
    BY <2>1 DEF Flattens
  <2>4. k + 1 = 1 \/ f[k] = g[k]
    BY <1>2, <2>1
  <2>5. ss[k + 1] = tt[k + 1]
    BY <2>1
  <2> QED
    BY <2>1, <2>2, <2>3, <2>4, <2>5
<1>3. \A k \in 0 .. m : k \in Agree
  <2> HIDE DEF Agree
  <2> QED
    BY <1>1, <1>2, InductionUpTo
<1> QED
  BY <1>3

LEMMA FlattenSeqIs ==
  ASSUME NEW S, NEW ss \in Seq(Seq(S)), ss # <<>>
  PROVE  \E f : /\ Flattens(f, ss, Len(ss)) /\ FlattenSeq(ss) = f[Len(ss)]
                /\ FlattenSeq(ss) \in Seq(S)
<1>1. Len(ss) \in Nat /\ Len(ss) # 0
  BY EmptySeq
<1> DEFINE n == Len(ss)
           Def(f) == f = [m \in 1 .. n |-> IF m = 1 THEN ss[m] ELSE f[m - 1] \o ss[m]]
           flat == CHOOSE f : Def(f)
<1>2. PICK f : Flattens(f, ss, n) /\ \A k \in 1 .. n : f[k] \in Seq(S)
  BY <1>1, FlattenedExists
<1> DEFINE g == [m \in 1 .. n |-> f[m]]
<1>3. Def(g)
  <2>1. \A m \in 1 .. n : g[m] = f[m]
    OBVIOUS
  <2>2. \A m \in 1 .. n : f[m] = IF m = 1 THEN ss[m] ELSE g[m - 1] \o ss[m]
    <3> SUFFICES ASSUME NEW m \in 1 .. n PROVE f[m] = IF m = 1 THEN ss[m] ELSE g[m - 1] \o ss[m]
      OBVIOUS
    <3>1. m # 1 => m - 1 \in 1 .. n
      BY <1>1
    <3>2. f[m] = IF m = 1 THEN ss[m] ELSE f[m - 1] \o ss[m]
      BY <1>2 DEF Flattens
    <3> HIDE DEF g
    <3> QED
      BY <2>1, <3>1, <3>2
  <2> QED
    BY <2>2
<1>4. Def(flat)
  BY <1>3
<1>5. FlattenSeq(ss) = flat[n]
  BY <1>1 DEF FlattenSeq
<1> HIDE DEF flat
<1>6. Flattens(flat, ss, n)
  BY <1>4 DEF Flattens
<1>7. flat[n] = f[n]
  BY <1>1, <1>2, <1>6, FlattenedIsUnique
<1> QED
  BY <1>1, <1>2, <1>5, <1>6, <1>7

LEMMA FlattenEmpty == FlattenSeq(<<>>) = <<>>
BY DEF FlattenSeq

(* The sequences joined so far, and one more.                              *)
LEMMA FlattenAppend ==
  ASSUME NEW S, NEW ss \in Seq(Seq(S)), NEW e \in Seq(S)
  PROVE  /\ FlattenSeq(ss) \in Seq(S)
         /\ FlattenSeq(Append(ss, e)) = FlattenSeq(ss) \o e
<1> DEFINE tt == Append(ss, e)
           n == Len(ss)
<1>1. /\ n \in Nat /\ tt \in Seq(Seq(S)) /\ Len(tt) = n + 1
      /\ \A k \in 1 .. n : tt[k] = ss[k]
      /\ tt[n + 1] = e
  BY AppendProperties, LenProperties
<1> HIDE DEF tt
<1>2. tt # <<>>
  BY <1>1, EmptySeq
<1>3. PICK g : Flattens(g, tt, n + 1) /\ FlattenSeq(tt) = g[n + 1]
  BY <1>1, <1>2, FlattenSeqIs
<1>4. CASE ss = <<>>
  <2>1. n = 0 /\ FlattenSeq(ss) = <<>> /\ <<>> \in Seq(S)
    BY <1>4, FlattenEmpty, EmptySeq
  <2>2. FlattenSeq(tt) = e
    BY <1>1, <1>3, <2>1 DEF Flattens
  <2> QED
    BY <2>1, <2>2, ConcatEmptySeq DEF tt
<1>5. CASE ss # <<>>
  <2>1. PICK f : Flattens(f, ss, n) /\ FlattenSeq(ss) = f[n] /\ FlattenSeq(ss) \in Seq(S)
    BY <1>5, FlattenSeqIs
  <2>2. n \in 1 .. n /\ n + 1 \in 1 .. n + 1 /\ n + 1 # 1 /\ (n + 1) - 1 = n /\ n \in 0 .. n + 1 /\ n + 1 \in Nat
    <3>1. n # 0
      BY <1>5, EmptySeq
    <3> QED
      BY <1>1, <3>1
  <2> HIDE DEF n
  <2>3. f[n] = g[n]
    <3>1. \A k \in 1 .. n : ss[k] = tt[k]
      BY <1>1
    <3>2. \A k \in 1 .. n : f[k] = g[k]
      BY <1>3, <2>1, <2>2, <3>1, FlattenedIsUnique
    <3> QED
      BY <2>2, <3>2
  <2>4. g[n + 1] = g[n] \o tt[n + 1]
    BY <1>3, <2>2 DEF Flattens
  <2>5. FlattenSeq(tt) = FlattenSeq(ss) \o e
    BY <1>1, <1>3, <2>1, <2>3, <2>4, Zenon
  <2> QED
    BY <2>1, <2>5 DEF tt
<1> QED
  BY <1>4, <1>5

LEMMA FlattenMore ==
  ASSUME NEW S, NEW ss \in Seq(Seq(S)), NEW tt \in Seq(Seq(S)), Len(tt) = Len(ss) + 1,
         \A k \in 1 .. Len(ss) : tt[k] = ss[k]
  PROVE  /\ FlattenSeq(ss) \in Seq(S)
         /\ FlattenSeq(tt) = FlattenSeq(ss) \o tt[Len(tt)]
<1> DEFINE n == Len(ss)
           e == tt[n + 1]
<1>1. n \in Nat
  BY LenProperties
<1>2. e \in Seq(S)
  BY <1>1, ElementOfSeq
<1> DEFINE uu == Append(ss, e)
<1>3. /\ uu \in Seq(Seq(S)) /\ Len(uu) = n + 1
      /\ \A k \in 1 .. n : uu[k] = ss[k]
      /\ uu[n + 1] = e
  BY <1>1, <1>2, AppendProperties
<1> HIDE DEF uu
<1>4. uu = tt
  <2>1. Len(uu) = Len(tt) /\ tt \in Seq(Seq(S))
    BY <1>3
  <2>2. ASSUME NEW k \in 1 .. Len(uu) PROVE uu[k] = tt[k]
    <3>1. CASE k = n + 1
      BY <1>3, <3>1
    <3>2. CASE k # n + 1
      <4>1. k \in 1 .. n
        BY <1>1, <1>3, <3>2
      <4> QED
        BY <1>3, <4>1
    <3> QED
      BY <3>1, <3>2
  <2> HIDE DEF n
  <2> QED
    BY <1>3, <2>1, <2>2, SeqEqual
<1>5. FlattenSeq(Append(ss, e)) = FlattenSeq(ss) \o e /\ FlattenSeq(ss) \in Seq(S)
  BY <1>2, FlattenAppend
<1> QED
  BY <1>4, <1>5 DEF uu

(* The words of a line, without the pointers that nobody wrote.            *)
Unwild(s) == FlattenSeq([k \in DOMAIN s |-> Word(s[k])])

LEMMA WordType ==
  ASSUME NEW t \in Token
  PROVE  Word(t) \in Seq(Words)
<1>1. CASE t = Wild
  BY <1>1, EmptySeq DEF Word
<1>2. CASE t # Wild
  BY <1>2 DEF Word, Token
<1> QED
  BY <1>1, <1>2

LEMMA WordsOf ==
  ASSUME NEW s \in Seq(Token)
  PROVE  /\ [k \in DOMAIN s |-> Word(s[k])] \in Seq(Seq(Words))
         /\ Len([k \in DOMAIN s |-> Word(s[k])]) = Len(s)
<1>1. Len(s) \in Nat /\ DOMAIN s = 1 .. Len(s)
  BY LenProperties
<1>2. \A k \in 1 .. Len(s) : Word(s[k]) \in Seq(Words)
  BY ElementOfSeq, WordType
<1> DEFINE ss == [k \in 1 .. Len(s) |-> Word(s[k])]
<1>3. ss \in [1 .. Len(s) -> Seq(Words)]
  BY <1>2
<1> HIDE DEF ss
<1>4. ss \in Seq(Seq(Words)) /\ Len(ss) = Len(s)
  BY <1>1, <1>3, SeqDef, LenProperties
<1> QED
  BY <1>1, <1>4 DEF ss

LEMMA UnwildMore ==
  ASSUME NEW s \in Seq(Token), NEW t \in Token
  PROVE  Unwild(s) \in Seq(Words) /\ Unwild(s \o <<t>>) = Unwild(s) \o Word(t)
<1> DEFINE r == s \o <<t>>
           ss == [k \in DOMAIN s |-> Word(s[k])]
           rr == [k \in DOMAIN r |-> Word(r[k])]
<1>1. /\ r \in Seq(Token) /\ Len(r) = Len(s) + 1 /\ Len(s) \in Nat
      /\ \A k \in 1 .. Len(s) : r[k] = s[k]
      /\ r[Len(s) + 1] = t
  <2>1. <<t>> \in Seq(Token) /\ Len(<<t>>) = 1 /\ <<t>>[1] = t
    OBVIOUS
  <2>2. /\ r \in Seq(Token) /\ Len(r) = Len(s) + Len(<<t>>)
        /\ \A k \in 1 .. Len(s) + Len(<<t>>) : r[k] = IF k <= Len(s) THEN s[k] ELSE <<t>>[k - Len(s)]
    BY <2>1, ConcatProperties
  <2>3. Len(s) \in Nat
    BY LenProperties
  <2> HIDE DEF r
  <2> QED
    BY <2>1, <2>2, <2>3
<1> HIDE DEF r
<1>2. /\ DOMAIN s = 1 .. Len(s) /\ DOMAIN r = 1 .. Len(s) + 1
  BY <1>1, LenProperties
<1>3. ss \in Seq(Seq(Words)) /\ Len(ss) = Len(s) /\ rr \in Seq(Seq(Words)) /\ Len(rr) = Len(r)
  BY <1>1, WordsOf
<1>4. \A k \in 1 .. Len(s) : rr[k] = ss[k]
  BY <1>1, <1>2
<1>5. rr[Len(s) + 1] = Word(t)
  BY <1>1, <1>2
<1> HIDE DEF ss, rr
<1>6. FlattenSeq(ss) \in Seq(Words) /\ FlattenSeq(rr) = FlattenSeq(ss) \o rr[Len(rr)]
  BY <1>1, <1>3, <1>4, FlattenMore
<1>7. FlattenSeq(rr) = FlattenSeq(ss) \o Word(t)
  BY <1>1, <1>3, <1>5, <1>6
<1> QED
  BY <1>6, <1>7 DEF Unwild, ss, rr, r

LEMMA UnwildEmpty == Unwild(<<>>) = <<>>
<1>1. [k \in DOMAIN <<>> |-> Word(<<>>[k])] = <<>>
  OBVIOUS
<1> QED
  BY <1>1, FlattenEmpty DEF Unwild

(* A sequence is built from its prefixes, one element at a time.           *)
LEMMA PrefixMore ==
  ASSUME NEW S, NEW w \in Seq(S), NEW k \in 0 .. Len(w) - 1
  PROVE  /\ SubSeq(w, 1, k) \in Seq(S) /\ w[k + 1] \in S
         /\ SubSeq(w, 1, k + 1) = SubSeq(w, 1, k) \o <<w[k + 1]>>
<1>1. Len(w) \in Nat /\ k \in Nat /\ k + 1 \in 1 .. Len(w) /\ (k + 1) - 1 = k
  BY LenProperties
<1>2. \A j \in 1 .. k : w[j] \in S
  BY <1>1, ElementOfSeq
<1>3. SubSeq(w, 1, k) \in Seq(S) /\ w[k + 1] \in S
  BY <1>1, <1>2, SubSeqProperties, ElementOfSeq
<1>4. SubSeq(w, 1, k + 1) = SubSeq(w, 1, (k + 1) - 1) \o <<w[k + 1]>>
  <2>1. 1 \in 1 .. Len(w) /\ k + 1 \in 1 .. Len(w)
    BY <1>1
  <2> QED
    BY <2>1, SubSeqRecursiveSecond
<1> QED
  BY <1>1, <1>3, <1>4

LEMMA UnwildConcat ==
  ASSUME NEW s \in Seq(Token), NEW w \in Seq(Token)
  PROVE  Unwild(s \o w) = Unwild(s) \o Unwild(w)
<1> DEFINE v(k) == SubSeq(w, 1, k)
           Good == {k \in Nat : Unwild(s \o v(k)) = Unwild(s) \o Unwild(v(k))}
<1>1. Len(w) \in Nat
  BY LenProperties
<1>2. 0 \in Good
  <2>1. v(0) = <<>>
    BY SubSeqEmpty
  <2>2. Unwild(s) \in Seq(Words)
    <3>1. Wild \in Token
      BY DEF Token
    <3> QED
      BY <3>1, UnwildMore
  <2>3. s \o <<>> = s /\ Unwild(s) \o <<>> = Unwild(s)
    BY <2>2, ConcatEmptySeq
  <2> QED
    BY <2>1, <2>3, UnwildEmpty
<1>3. ASSUME NEW k \in 0 .. Len(w) - 1, k \in Good PROVE k + 1 \in Good
  <2> DEFINE t == w[k + 1]
             u == v(k)
  <2>1. u \in Seq(Token) /\ t \in Token /\ v(k + 1) = u \o <<t>>
    BY PrefixMore
  <2>2. Unwild(s \o u) = Unwild(s) \o Unwild(u)
    BY <1>3
  <2> HIDE DEF t, u
  <2>3. s \o (u \o <<t>>) = (s \o u) \o <<t>>
    <3>1. <<t>> \in Seq(Token)
      BY <2>1
    <3> QED
      BY <2>1, <3>1, ConcatAssociative
  <2>4. s \o u \in Seq(Token)
    BY <2>1, ConcatProperties
  <2>5. Unwild((s \o u) \o <<t>>) = Unwild(s \o u) \o Word(t)
    BY <2>1, <2>4, UnwildMore
  <2>6. /\ Unwild(u \o <<t>>) = Unwild(u) \o Word(t)
        /\ Unwild(u) \in Seq(Words) /\ Unwild(s) \in Seq(Words) /\ Word(t) \in Seq(Words)
    BY <2>1, UnwildMore, WordType
  <2>7. (Unwild(s) \o Unwild(u)) \o Word(t) = Unwild(s) \o (Unwild(u) \o Word(t))
    BY <2>6, ConcatAssociative
  <2>8. Unwild(s \o v(k + 1)) = Unwild(s) \o Unwild(v(k + 1))
    <3> HIDE DEF v
    <3> QED
      BY <2>1, <2>2, <2>3, <2>5, <2>6, <2>7
  <2>9. k + 1 \in Nat
    BY <1>1
  <2> QED
    BY <2>8, <2>9
<1>4. Len(w) \in Good
  <2> HIDE DEF Good
  <2>1. \A k \in 0 .. Len(w) - 1 : k \in Good => k + 1 \in Good
    BY <1>3
  <2>2. \A k \in 0 .. Len(w) : k \in Good
    BY <1>1, <1>2, <2>1, InductionUpTo
  <2> QED
    BY <1>1, <2>2
<1>5. v(Len(w)) = w
  BY SubSeqFull
<1> QED
  BY <1>4, <1>5

LEMMA UnwildWords ==
  ASSUME NEW w \in Seq(Words)
  PROVE  Unwild(w) = w
<1> DEFINE v(k) == SubSeq(w, 1, k)
           Good == {k \in Nat : Unwild(v(k)) = v(k)}
<1>1. Len(w) \in Nat /\ Words \subseteq Token
  BY LenProperties DEF Token
<1>2. 0 \in Good
  <2>1. v(0) = <<>>
    BY SubSeqEmpty
  <2> QED
    BY <2>1, UnwildEmpty
<1>3. ASSUME NEW k \in 0 .. Len(w) - 1, k \in Good PROVE k + 1 \in Good
  <2> DEFINE t == w[k + 1]
             u == v(k)
  <2>1. u \in Seq(Words) /\ t \in Words /\ v(k + 1) = u \o <<t>>
    BY PrefixMore
  <2>2. Unwild(u) = u
    BY <1>3
  <2> HIDE DEF t, u
  <2>3. u \in Seq(Token) /\ t \in Token /\ Word(t) = <<t>>
    BY <1>1, <2>1, SeqMonotonic, CommandLineAssumption DEF Word
  <2>4. Unwild(u \o <<t>>) = u \o <<t>>
    BY <2>2, <2>3, UnwildMore
  <2>5. Unwild(v(k + 1)) = v(k + 1)
    BY <2>1, <2>4
  <2>6. k + 1 \in Nat
    BY <1>1
  <2> QED
    BY <2>5, <2>6
<1>4. Len(w) \in Good
  <2> HIDE DEF Good
  <2>1. \A k \in 0 .. Len(w) - 1 : k \in Good => k + 1 \in Good
    BY <1>3
  <2>2. \A k \in 0 .. Len(w) : k \in Good
    BY <1>1, <1>2, <2>1, InductionUpTo
  <2> QED
    BY <1>1, <2>2
<1>5. v(Len(w)) = w
  BY SubSeqFull
<1> QED
  BY <1>4, <1>5

LEMMA UnwildWilds ==
  ASSUME NEW w \in Seq(Token), \A k \in 1 .. Len(w) : w[k] = Wild
  PROVE  Unwild(w) = <<>>
<1> DEFINE v(k) == SubSeq(w, 1, k)
           Good == {k \in Nat : Unwild(v(k)) = <<>>}
<1>1. Len(w) \in Nat
  BY LenProperties
<1>2. 0 \in Good
  <2>1. v(0) = <<>>
    BY SubSeqEmpty
  <2> QED
    BY <2>1, UnwildEmpty
<1>3. ASSUME NEW k \in 0 .. Len(w) - 1, k \in Good PROVE k + 1 \in Good
  <2> DEFINE t == w[k + 1]
             u == v(k)
  <2>1. u \in Seq(Token) /\ t \in Token /\ v(k + 1) = u \o <<t>>
    BY PrefixMore
  <2>2. Unwild(u) = <<>> /\ k + 1 \in 1 .. Len(w)
    BY <1>1, <1>3
  <2>3. t = Wild
    BY <2>2
  <2> HIDE DEF t, u
  <2>4. Unwild(u \o <<t>>) = <<>> \o Word(t) /\ Word(t) = <<>>
    BY <2>1, <2>2, <2>3, UnwildMore DEF Word
  <2>5. <<>> \o <<>> = <<>>
    OBVIOUS
  <2>6. Unwild(v(k + 1)) = <<>>
    BY <2>1, <2>4, <2>5
  <2>7. k + 1 \in Nat
    BY <1>1
  <2> QED
    BY <2>6, <2>7
<1>4. Len(w) \in Good
  <2> HIDE DEF Good
  <2>1. \A k \in 0 .. Len(w) - 1 : k \in Good => k + 1 \in Good
    BY <1>3
  <2>2. \A k \in 0 .. Len(w) : k \in Good
    BY <1>1, <1>2, <2>1, InductionUpTo
  <2> QED
    BY <1>1, <2>2
<1>5. v(Len(w)) = w
  BY SubSeqFull
<1> QED
  BY <1>4, <1>5

-----------------------------------------------------------------------------
(* What becomes of the first n tokens of a line, and the most that may.    *)
ReplacedTo(n) == FlattenSeq([k \in 1 .. n |-> Replacement(tokens[k])])
LongestTo(n) == FlattenSeq([k \in 1 .. n |-> Longest(tokens[k])])

LEMMA ReplacementType ==
  ASSUME TypeOK, NEW t \in Words
  PROVE  Replacement(t) \in Seq(Words) /\ Longest(t) \in Seq(Token)
<1>1. Replacement(t) \in Seq(Words)
  <2>1. <<>> \in Seq(Words) /\ <<Home>> \in Seq(Words) /\ <<t>> \in Seq(Words)
    BY CommandLineAssumption
  <2>2. t \in DOMAIN meaning => meaning[t] \in Seq(Words)
    BY DEF TypeOK
  <2> QED
    BY <2>1, <2>2 DEF Replacement
<1>2. Longest(t) \in Seq(Token)
  <2>1. <<t>> \in Seq(Token)
    BY DEF Token
  <2>2. t \in DOMAIN aliases => aliases[t] \in Seq(Token)
    BY DEF TypeOK, Token
  <2>3. [k \in 1 .. MaxFiles |-> Wild] \in Seq(Token)
    BY CommandLineAssumption, IsASeq DEF Token
  <2> QED
    BY <2>1, <2>2, <2>3 DEF Longest
<1> QED
  BY <1>1, <1>2

LEMMA ReplacedMore ==
  ASSUME TypeOK, NEW n \in 0 .. Len(tokens) - 1
  PROVE  /\ ReplacedTo(n) \in Seq(Words)
         /\ ReplacedTo(n + 1) = ReplacedTo(n) \o Replacement(tokens[n + 1])
<1> DEFINE ss == [k \in 1 .. n |-> Replacement(tokens[k])]
           tt == [k \in 1 .. n + 1 |-> Replacement(tokens[k])]
<1>1. Len(tokens) \in Nat /\ n \in Nat /\ n + 1 \in Nat
  BY DEF TypeOK
<1>2. \A k \in 1 .. n + 1 : Replacement(tokens[k]) \in Seq(Words)
  <2> TAKE k \in 1 .. n + 1
  <2>1. tokens[k] \in Words
    BY <1>1, ElementOfSeq DEF TypeOK
  <2> QED
    BY <2>1, ReplacementType
<1>3. ss \in [1 .. n -> Seq(Words)] /\ tt \in [1 .. n + 1 -> Seq(Words)]
  BY <1>1, <1>2
<1>4. \A k \in 1 .. n : tt[k] = ss[k]
  BY <1>1
<1>5. tt[n + 1] = Replacement(tokens[n + 1])
  BY <1>1
<1> HIDE DEF ss, tt
<1>6. /\ ss \in Seq(Seq(Words)) /\ Len(ss) = n
      /\ tt \in Seq(Seq(Words)) /\ Len(tt) = n + 1
  BY <1>1, <1>3, SeqDef, LenProperties
<1>7. FlattenSeq(ss) \in Seq(Words) /\ FlattenSeq(tt) = FlattenSeq(ss) \o tt[n + 1]
  BY <1>4, <1>6, FlattenMore
<1> QED
  BY <1>5, <1>7 DEF ReplacedTo, ss, tt

LEMMA LongestMore ==
  ASSUME TypeOK, NEW n \in 0 .. Len(tokens) - 1
  PROVE  /\ LongestTo(n) \in Seq(Token) /\ LongestTo(n + 1) \in Seq(Token)
         /\ Len(LongestTo(n + 1)) = Len(LongestTo(n)) + Len(Longest(tokens[n + 1]))
         /\ Len(LongestTo(n)) \in Nat /\ Len(Longest(tokens[n + 1])) \in Nat
<1> DEFINE ss == [k \in 1 .. n |-> Longest(tokens[k])]
           tt == [k \in 1 .. n + 1 |-> Longest(tokens[k])]
<1>1. Len(tokens) \in Nat /\ n \in Nat /\ n + 1 \in Nat
  BY DEF TypeOK
<1>2. \A k \in 1 .. n + 1 : Longest(tokens[k]) \in Seq(Token)
  <2> TAKE k \in 1 .. n + 1
  <2>1. tokens[k] \in Words
    BY <1>1, ElementOfSeq DEF TypeOK
  <2> QED
    BY <2>1, ReplacementType
<1>3. ss \in [1 .. n -> Seq(Token)] /\ tt \in [1 .. n + 1 -> Seq(Token)]
  BY <1>1, <1>2
<1>4. \A k \in 1 .. n : tt[k] = ss[k]
  BY <1>1
<1>5. tt[n + 1] = Longest(tokens[n + 1]) /\ tt[n + 1] \in Seq(Token)
  BY <1>1, <1>2
<1> HIDE DEF ss, tt
<1>6. /\ ss \in Seq(Seq(Token)) /\ Len(ss) = n
      /\ tt \in Seq(Seq(Token)) /\ Len(tt) = n + 1
  BY <1>1, <1>3, SeqDef, LenProperties
<1>7. FlattenSeq(ss) \in Seq(Token) /\ FlattenSeq(tt) = FlattenSeq(ss) \o tt[n + 1]
  BY <1>4, <1>6, FlattenMore
<1>8. /\ FlattenSeq(tt) \in Seq(Token)
      /\ Len(FlattenSeq(tt)) = Len(FlattenSeq(ss)) + Len(tt[n + 1])
  BY <1>5, <1>7, ConcatProperties
<1>9. LongestTo(n) = FlattenSeq(ss) /\ LongestTo(n + 1) = FlattenSeq(tt)
  BY DEF LongestTo, ss, tt
<1>10. Len(FlattenSeq(ss)) \in Nat /\ Len(tt[n + 1]) \in Nat
  BY <1>5, <1>7, LenProperties
<1> QED
  BY <1>5, <1>7, <1>8, <1>9, <1>10

LEMMA LongestGrows ==
  ASSUME TypeOK, NEW n \in 0 .. Len(tokens)
  PROVE  /\ Len(LongestTo(n)) \in Nat /\ Len(LongestTo(Len(tokens))) \in Nat
         /\ Len(LongestTo(n)) <= Len(LongestTo(Len(tokens)))
<1> DEFINE L(k) == Len(LongestTo(k))
           Good == {k \in Nat : L(k) \in Nat /\ (k < n \/ L(n) <= L(k))}
<1>1. Len(tokens) \in Nat /\ n \in Nat
  BY DEF TypeOK
<1>2. L(0) \in Nat
  <2>1. [k \in 1 .. 0 |-> Longest(tokens[k])] = <<>>
    OBVIOUS
  <2> QED
    BY <2>1, FlattenEmpty DEF LongestTo
<1>3. \A k \in 0 .. Len(tokens) - 1 : L(k) \in Nat /\ L(k + 1) \in Nat /\ L(k) <= L(k + 1)
  <2> TAKE k \in 0 .. Len(tokens) - 1
  <2>1. /\ L(k + 1) = L(k) + Len(Longest(tokens[k + 1]))
        /\ L(k) \in Nat /\ Len(Longest(tokens[k + 1])) \in Nat
    BY LongestMore
  <2> HIDE DEF L
  <2> QED
    BY <2>1
<1> HIDE DEF L
<1>4. \A k \in 0 .. Len(tokens) : L(k) \in Nat
  <2> TAKE k \in 0 .. Len(tokens)
  <2>1. CASE k = 0
    BY <1>2, <2>1
  <2>2. CASE k # 0
    <3>1. k - 1 \in 0 .. Len(tokens) - 1 /\ (k - 1) + 1 = k
      BY <1>1, <2>2
    <3> QED
      BY <1>3, <3>1
  <2> QED
    BY <2>1, <2>2
<1>5. 0 \in Good
  <2>1. 0 < n \/ n = 0
    BY <1>1
  <2> QED
    BY <1>2, <2>1
<1>6. ASSUME NEW k \in 0 .. Len(tokens) - 1, k \in Good PROVE k + 1 \in Good
  <2>1. L(k) \in Nat /\ L(k + 1) \in Nat /\ L(k) <= L(k + 1) /\ L(n) \in Nat
    BY <1>3, <1>4
  <2>2. k + 1 \in Nat /\ (k < n => k + 1 < n \/ k + 1 = n)
    BY <1>1
  <2>3. k + 1 < n \/ L(n) <= L(k + 1)
    BY <1>6, <2>1, <2>2
  <2> QED
    BY <2>1, <2>2, <2>3
<1>7. Len(tokens) \in Good
  <2> HIDE DEF Good
  <2>1. \A k \in 0 .. Len(tokens) - 1 : k \in Good => k + 1 \in Good
    BY <1>6
  <2>2. \A k \in 0 .. Len(tokens) : k \in Good
    BY <1>1, <1>5, <2>1, InductionUpTo
  <2> QED
    BY <1>1, <2>2
<1> QED
  BY <1>1, <1>4, <1>7 DEF L

(* The aliases mean what was entered.                                      *)
TableInv == \A n \in DOMAIN aliases : Unwild(aliases[n]) = meaning[n]

(* What a step of resolve_alias_shortcuts emits for a token is what the    *)
(* token stands for, and no longer than the longest that it may be.        *)
Emits(words) ==
  /\ words \in Seq(Token) /\ Emit(words) /\ Same
  /\ stage = "resolving" /\ i <= Len(tokens)
  /\ Unwild(words) = Replacement(tokens[i])
  /\ Len(words) <= Len(Longest(tokens[i]))

(* An alias that is too long for bufsize, in a line that is cut for it.    *)
Cut ==
  /\ stage = "resolving" /\ i <= Len(tokens) /\ stage' = "overrun" /\ Same
  /\ Len(f_tokens) + Len(Longest(tokens[i])) >= bufsize

LEMMA ResolveEmits ==
  ASSUME TypeInv, TableInv, Resolve, ~ResolveEnd, stage' # "crashed"
  PROVE  Cut \/ \E words : Emits(words)
<1> USE DEF TypeInv
<1>1. CASE ResolveHome
  <2>1. Emit(<<Home>>) /\ Same /\ At("~")
    BY <1>1 DEF ResolveHome
  <2>2. <<Home>> \in Seq(Words) /\ <<Home>> \in Seq(Token)
    BY CommandLineAssumption DEF Token
  <2>3. Unwild(<<Home>>) = <<Home>>
    BY <2>2, UnwildWords
  <2>4. Replacement("~") = <<Home>> /\ Longest("~") = <<"~">>
    BY DEF Replacement, Longest
  <2>5. Emits(<<Home>>)
    BY <2>1, <2>2, <2>3, <2>4 DEF Emits, At
  <2> QED
    BY <2>5
<1>2. CASE ResolveStar
  <2>1. PICK num_files \in {-1} \cup 2 .. MaxFiles + 2 : Emit([k \in 1 .. num_files - 2 |-> Wild])
    BY <1>2 DEF ResolveStar
  <2>2. Same /\ At("*")
    BY <1>2 DEF ResolveStar
  <2> DEFINE words == [k \in 1 .. num_files - 2 |-> Wild]
  <2>3. MaxFiles \in Nat
    BY CommandLineAssumption
  <2>4. /\ words \in Seq(Token) /\ Len(words) \in 0 .. MaxFiles
        /\ \A k \in 1 .. Len(words) : words[k] = Wild
    BY NamesType
  <2>5. Emit(words)
    BY <2>1
  <2> HIDE DEF words
  <2>6. Unwild(words) = <<>>
    BY <2>4, UnwildWilds
  <2>7. Replacement("*") = <<>> /\ Len(Longest("*")) = MaxFiles
    BY <2>3 DEF Replacement, Longest
  <2>8. Emits(words)
    BY <2>2, <2>3, <2>4, <2>5, <2>6, <2>7 DEF Emits, At
  <2> QED
    BY <2>8
<1>3. ASSUME NEW t, ResolveAlias(t) PROVE Cut \/ \E words : Emits(words)
  <2>1. /\ At(t) /\ t \notin {"~", "*"} /\ t \in DOMAIN aliases /\ Same
        /\ bufsize' = Grown(Len(aliases[t]))
    BY <1>3 DEF ResolveAlias
  <2>2. aliases[t] \in Seq(Token) /\ Len(aliases[t]) \in Nat /\ t \in DOMAIN meaning
    BY <2>1 DEF TypeOK, Token
  <2>3. Unwild(aliases[t]) = meaning[t]
    BY <2>1 DEF TableInv
  <2>4. Replacement(t) = meaning[t] /\ Longest(t) = aliases[t]
    BY <2>1, <2>2 DEF Replacement, Longest
  <2>5. CASE Emit(aliases[t])
    <3>1. Emits(aliases[t])
      BY <2>1, <2>2, <2>3, <2>4, <2>5 DEF Emits, At
    <3> QED
      BY <3>1
  <2>6. CASE stage' = "overrun" /\ bufsize' > bufsize
    <3>1. Len(f_tokens) + Len(aliases[t]) >= bufsize
      BY <2>1, <2>6 DEF Grown, TypeOK
    <3>2. Cut
      BY <2>1, <2>4, <2>6, <3>1 DEF Cut, At
    <3> QED
      BY <3>2
  <2> QED
    BY <1>3, <2>5, <2>6 DEF ResolveAlias
<1>4. ASSUME NEW t \in ToSet(tokens), ResolveWord(t) PROVE \E words : Emits(words)
  <2>1. /\ At(t) /\ t \notin {"~", "*"} /\ t \notin DOMAIN aliases
        /\ Emit(<<t>>) /\ Same
    BY <1>4 DEF ResolveWord
  <2>2. t \in Words
    BY ElementOfSeq DEF TypeOK, ToSet
  <2>3. <<t>> \in Seq(Words) /\ <<t>> \in Seq(Token) /\ t \notin DOMAIN meaning
    BY <2>1, <2>2 DEF Token, TypeOK
  <2>4. Unwild(<<t>>) = <<t>>
    BY <2>3, UnwildWords
  <2>5. Replacement(t) = <<t>> /\ Longest(t) = <<t>>
    BY <2>1, <2>3 DEF Replacement, Longest
  <2>6. Emits(<<t>>)
    BY <2>1, <2>3, <2>4, <2>5 DEF Emits, At
  <2> QED
    BY <2>6
<1> QED
  BY <1>1, <1>2, <1>3, <1>4 DEF Resolve

(* A definition and what happens to be behind it mean the definition.      *)
LEMMA NextTableInv == TypeInv /\ TableInv /\ [Next]_vars => TableInv'
<1> SUFFICES ASSUME TypeInv, TableInv, [Next]_vars PROVE TableInv'
  OBVIOUS
<1>1. CASE UNCHANGED table
  BY <1>1 DEF TableInv, table, Unwild, Word
<1>2. CASE process_alias
  <2> DEFINE definition == SubSeq(tokens, 4, Len(tokens))
  <2>1. PICK garbage \in 0 .. MaxGarbage :
          /\ aliases' = With(aliases, tokens[2], definition \o [k \in 1 .. garbage |-> Wild])
          /\ meaning' = With(meaning, tokens[2], definition)
    BY <1>2 DEF process_alias
  <2> DEFINE behind == [k \in 1 .. garbage |-> Wild]
  <2>2. definition \in Seq(Words) /\ Unwild(definition) = definition
    BY <1>2, DefinitionType, UnwildWords DEF process_alias, TypeInv
  <2>3. Unwild(definition \o behind) = definition
    <3>1. garbage \in Nat
      BY CommandLineAssumption
    <3>2. behind \in Seq(Token) /\ \A k \in 1 .. Len(behind) : behind[k] = Wild
      BY <3>1, WildsType
    <3> HIDE DEF definition, behind
    <3>3. definition \in Seq(Token) /\ Unwild(behind) = <<>>
      BY <2>2, <3>2, WordsAreTokens, UnwildWilds
    <3>4. Unwild(definition \o behind) = definition \o <<>>
      BY <2>2, <3>2, <3>3, UnwildConcat
    <3> QED
      BY <2>2, <3>4, ConcatEmptySeq
  <2> HIDE DEF definition, behind
  <2>4. ASSUME NEW n \in DOMAIN aliases' PROVE Unwild(aliases'[n]) = meaning'[n]
    <3>1. DOMAIN aliases = DOMAIN meaning
      BY DEF TypeInv, TypeOK
    <3>2. CASE n = tokens[2]
      <4>1. aliases'[n] = definition \o behind /\ meaning'[n] = definition
        BY <2>1, <3>2 DEF With, behind
      <4> QED
        BY <2>3, <4>1
    <3>3. CASE n # tokens[2]
      <4>1. n \in DOMAIN aliases /\ aliases'[n] = aliases[n] /\ meaning'[n] = meaning[n]
        BY <2>1, <3>1, <3>3 DEF With
      <4> QED
        BY <4>1 DEF TableInv
    <3> QED
      BY <3>2, <3>3
  <2> QED
    BY <2>4 DEF TableInv
<1>3. UNCHANGED table \/ process_alias
  BY DEF Next, ReadLine, Resolve, ResolveHome, ResolveStar, ResolveEnd, ResolveAlias, ResolveWord,
     Same, Prep, Dispatch, HandleEmpty, HandleBuiltin, CrashOnFirst, HandleSplash, RefuseAlias,
     Execute, Parse, ParseWord, ParseRedirect, RejectRedirect, ParseEnd, Untouched, NextCommand,
     FreeListing, vars, table
<1> QED
  BY <1>1, <1>2, <1>3

(* How far a line is resolved, and how long that can be.                   *)
ExpandInv ==
  /\ stage = "prompt" => f_tokens = <<>>
  /\ stage = "resolving" => i <= Len(tokens) + 1 /\ Unwild(f_tokens) = ReplacedTo(i - 1)
  /\ stage \in {"preparing", "dispatching"} => Unwild(f_tokens) = ReplacedTo(Len(tokens))

LengthInv ==
  /\ bufsize >= PsBfs /\ room >= PsBfs
  /\ stage = "resolving" => Len(f_tokens) <= Len(LongestTo(i - 1))
  /\ stage = "preparing" => Len(f_tokens) <= Len(LongestTo(Len(tokens)))
  /\ stage = "overrun" => Len(LongestTo(Len(tokens))) >= PsBfs

LEMMA SameLine ==
  ASSUME UNCHANGED table, UNCHANGED tokens
  PROVE  /\ \A n : FlattenSeq([k \in 1 .. n |-> Replacement(tokens[k])'])
                     = FlattenSeq([k \in 1 .. n |-> Replacement(tokens[k])])
         /\ \A n : FlattenSeq([k \in 1 .. n |-> Longest(tokens[k])'])
                     = FlattenSeq([k \in 1 .. n |-> Longest(tokens[k])])
<1>1. aliases' = aliases /\ meaning' = meaning /\ tokens' = tokens
  BY DEF table
<1>2. \A k : Replacement(tokens[k])' = Replacement(tokens[k])
  BY <1>1 DEF Replacement
<1>3. \A k : Longest(tokens[k])' = Longest(tokens[k])
  BY <1>1 DEF Longest
<1> QED
  BY <1>2, <1>3, Zenon

LEMMA EmitsExpandInv ==
  ASSUME TypeInv, ExpandInv, NEW words, Emits(words)
  PROVE  ExpandInv'
<1>1. /\ stage = "resolving" /\ i \in Nat /\ i >= 1 /\ i <= Len(tokens) /\ Len(tokens) \in Nat
      /\ f_tokens \in Seq(Token) /\ words \in Seq(Token)
      /\ f_tokens' = f_tokens \o words /\ i' = i + 1
      /\ stage' \in {"resolving", "overrun"} /\ UNCHANGED table /\ UNCHANGED tokens
  BY DEF Emits, Emit, Same, TypeInv, TypeOK, Token
<1>2. Unwild(f_tokens) = ReplacedTo(i - 1)
  BY <1>1 DEF ExpandInv
<1>3. i - 1 \in 0 .. Len(tokens) - 1 /\ (i - 1) + 1 = i
  BY <1>1
<1>4. ReplacedTo(i) = ReplacedTo(i - 1) \o Replacement(tokens[i])
  BY <1>3, ReplacedMore DEF TypeInv
<1>5. Unwild(f_tokens \o words) = Unwild(f_tokens) \o Replacement(tokens[i])
  BY <1>1, UnwildConcat DEF Emits
<1>6. Unwild(f_tokens') = ReplacedTo(i)
  BY <1>1, <1>2, <1>4, <1>5
<1>7. (ReplacedTo(i - 1))' = ReplacedTo(i)
  BY <1>1, SameLine DEF ReplacedTo
<1> QED
  BY <1>1, <1>6, <1>7 DEF ExpandInv

LEMMA NextExpandInv == TypeInv /\ TableInv /\ ExpandInv /\ [Next]_vars => ExpandInv'
<1> SUFFICES ASSUME TypeInv, TableInv, ExpandInv, [Next]_vars PROVE ExpandInv'
  OBVIOUS
<1> USE DEF TypeInv
<1>1. CASE stage' \notin {"prompt", "resolving", "preparing", "dispatching"}
  BY <1>1 DEF ExpandInv
<1>2. CASE ReadLine
  <2>1. /\ i' = 1 /\ f_tokens' = <<>> /\ stage' = "resolving"
        /\ Len(tokens') \in Nat
    BY <1>2, CommandLineAssumption DEF ReadLine, AtStart, ExpandInv
  <2>2. (ReplacedTo(i - 1))' = <<>>
    <3>1. [k \in 1 .. i' - 1 |-> Replacement(tokens[k])'] = <<>>
      BY <2>1
    <3> QED
      BY <3>1, FlattenEmpty DEF ReplacedTo
  <2> QED
    BY <2>1, <2>2, UnwildEmpty DEF ExpandInv
<1>3. CASE Resolve /\ ~ResolveEnd /\ stage' # "crashed"
  <2>1. CASE Cut
    BY <1>1, <2>1 DEF Cut
  <2> QED
    BY <1>3, <2>1, ResolveEmits, EmitsExpandInv
<1>4. CASE ResolveEnd
  <2>1. /\ stage = "resolving" /\ stage' \in {"overrun", "preparing"}
        /\ i - 1 = Len(tokens) /\ UNCHANGED f_tokens /\ UNCHANGED table /\ UNCHANGED tokens
    <3>1. stage = "resolving" /\ i > Len(tokens) /\ i <= Len(tokens) + 1 /\ i \in Nat /\ Len(tokens) \in Nat
      BY <1>4 DEF ResolveEnd, ExpandInv, TypeOK
    <3>2. i - 1 = Len(tokens)
      BY <3>1
    <3>3. stage' \in {"overrun", "preparing"} /\ UNCHANGED f_tokens /\ Same
      BY <1>4 DEF ResolveEnd
    <3> QED
      BY <3>1, <3>2, <3>3 DEF Same
  <2>2. Unwild(f_tokens) = ReplacedTo(Len(tokens))
    BY <2>1 DEF ExpandInv
  <2>3. (ReplacedTo(Len(tokens)))' = ReplacedTo(Len(tokens))
    BY <2>1, SameLine DEF ReplacedTo
  <2> QED
    BY <2>1, <2>2, <2>3 DEF ExpandInv
<1>5. CASE Prep \/ UNCHANGED vars
  <2>1. /\ UNCHANGED f_tokens /\ UNCHANGED table /\ UNCHANGED tokens
    BY <1>5 DEF Prep, vars, table, resolved
  <2>2. (ReplacedTo(Len(tokens)))' = ReplacedTo(Len(tokens))
    BY <2>1, SameLine DEF ReplacedTo
  <2>3. CASE Prep
    <3>1. stage = "preparing" /\ stage' \notin {"prompt", "resolving"}
      BY <2>3 DEF Prep, MayCrash
    <3> QED
      BY <2>1, <2>2, <3>1 DEF ExpandInv
  <2>4. CASE UNCHANGED vars
    <3>1. UNCHANGED <<stage, i>>
      BY <2>4 DEF vars
    <3>2. (ReplacedTo(i - 1))' = ReplacedTo(i - 1)
      BY <2>1, <3>1, SameLine DEF ReplacedTo
    <3> QED
      BY <2>1, <2>2, <3>1, <3>2 DEF ExpandInv
  <2> QED
    BY <1>5, <2>3, <2>4
<1>6. CASE NextCommand \/ FreeListing
  BY <1>6 DEF NextCommand, FreeListing, ExpandInv
<1>7. CASE (Dispatch \/ Parse) /\ stage' \in {"prompt", "resolving", "preparing", "dispatching"}
  BY <1>7 DEF Dispatch, HandleEmpty, HandleBuiltin, CrashOnFirst, HandleSplash, RefuseAlias,
     process_alias, Execute, Handled, MayCrash, Parse, ParseWord, ParseRedirect, RejectRedirect,
     ParseEnd, Unparsed
<1> QED
  BY <1>1, <1>2, <1>3, <1>4, <1>5, <1>6, <1>7 DEF Next

LEMMA ExpandInvSuffices == TypeOK /\ ExpandInv => AliasesExpand
<1> SUFFICES ASSUME TypeOK, ExpandInv, stage \in {"preparing", "dispatching"}
             PROVE  Unwild(f_tokens) = FlattenSeq([k \in DOMAIN tokens |-> Replacement(tokens[k])])
  BY DEF AliasesExpand, Unwild
<1>1. DOMAIN tokens = 1 .. Len(tokens)
  BY DEF TypeOK
<1>2. FlattenSeq([k \in DOMAIN tokens |-> Replacement(tokens[k])]) = ReplacedTo(Len(tokens))
  BY <1>1 DEF ReplacedTo
<1> QED
  BY <1>2 DEF ExpandInv

(* Every alias of a line is replaced by the definition that was entered    *)
(* for it last, and nothing else of what was written changes.              *)
THEOREM AliasesAreExpanded == Spec => []AliasesExpand
<1>1. Init => TableInv /\ ExpandInv
  BY DEF Init, TableInv, ExpandInv
<1>2. TypeInv /\ ExpandInv => AliasesExpand
  BY ExpandInvSuffices DEF TypeInv
<1> QED
  BY InitTypeInv, NextTypeInv, NextTableInv, NextExpandInv, <1>1, <1>2, PTL DEF Spec

-----------------------------------------------------------------------------
(* The ends of the arrays.                                                 *)

(* f_tokens and its bound only grow while a line is resolved. *)
LEMMA RoomStays ==
  ASSUME TypeInv, LengthInv, [Next]_vars
  PROVE  bufsize' >= PsBfs /\ room' >= PsBfs
<1>1. bufsize \in Nat /\ room \in Nat /\ PsBfs \in Nat /\ bufsize >= PsBfs /\ room >= PsBfs
  BY CommandLineAssumption DEF TypeInv, TypeOK, LengthInv
<1>2. CASE UNCHANGED <<bufsize, room>>
  BY <1>1, <1>2
<1>3. CASE bufsize' = PsBfs /\ room' = PsBfs
  BY <1>1, <1>3
<1>4. ASSUME NEW n, bufsize' = Grown(n),
             UNCHANGED room \/ room' = (IF bufsize' > bufsize THEN bufsize' ELSE room)
      PROVE  bufsize' >= PsBfs /\ room' >= PsBfs
  <2>1. bufsize' = bufsize \/ bufsize' = bufsize + PsBfs
    BY <1>4 DEF Grown
  <2> QED
    BY <1>1, <1>4, <2>1
<1>5. \/ UNCHANGED <<bufsize, room>>
      \/ bufsize' = PsBfs /\ room' = PsBfs
      \/ \E n : /\ bufsize' = Grown(n)
                /\ UNCHANGED room \/ room' = (IF bufsize' > bufsize THEN bufsize' ELSE room)
  <2>1. CASE Resolve
    BY <2>1 DEF Resolve, ResolveHome, ResolveStar, ResolveEnd, ResolveAlias, ResolveWord
  <2>2. CASE ~Resolve
    BY <2>2 DEF Next, ReadLine, Prep, Dispatch, HandleEmpty, HandleBuiltin, CrashOnFirst, HandleSplash,
       RefuseAlias, process_alias, Execute, Handled, Parse, ParseWord, ParseRedirect, RejectRedirect,
       ParseEnd, Untouched, NextCommand, FreeListing, vars
  <2> QED
    BY <2>1, <2>2
<1> QED
  BY <1>2, <1>3, <1>4, <1>5

LEMMA CutLengthInv ==
  ASSUME TypeInv, LengthInv, room' >= PsBfs, bufsize' >= PsBfs, Cut
  PROVE  LengthInv'
<1>1. /\ i - 1 \in 0 .. Len(tokens) - 1 /\ (i - 1) + 1 = i /\ i \in 0 .. Len(tokens)
      /\ Len(f_tokens) \in Nat /\ bufsize \in Nat /\ PsBfs \in Nat /\ bufsize >= PsBfs
  BY CommandLineAssumption DEF Cut, TypeInv, TypeOK, LengthInv
<1>2. /\ Len(LongestTo(i)) = Len(LongestTo(i - 1)) + Len(Longest(tokens[i]))
      /\ Len(LongestTo(i - 1)) \in Nat /\ Len(Longest(tokens[i])) \in Nat
  BY <1>1, LongestMore DEF TypeInv
<1>3. Len(f_tokens) <= Len(LongestTo(i - 1)) /\ Len(f_tokens) + Len(Longest(tokens[i])) >= bufsize
  BY DEF Cut, LengthInv
<1>4. /\ Len(LongestTo(i)) \in Nat /\ Len(LongestTo(Len(tokens))) \in Nat
      /\ Len(LongestTo(i)) <= Len(LongestTo(Len(tokens)))
  BY <1>1, LongestGrows DEF TypeInv
<1>5. Len(LongestTo(Len(tokens))) >= PsBfs
  BY <1>1, <1>2, <1>3, <1>4
<1>6. (LongestTo(Len(tokens)))' = LongestTo(Len(tokens))
  <2>1. UNCHANGED table /\ UNCHANGED tokens
    BY DEF Cut, Same
  <2> QED
    BY <2>1, SameLine DEF LongestTo
<1> QED
  BY <1>5, <1>6 DEF LengthInv, Cut

LEMMA EmitsLengthInv ==
  ASSUME TypeInv, LengthInv, room' >= PsBfs, bufsize' >= PsBfs, room' \in Nat,
         NEW words, Emits(words)
  PROVE  LengthInv'
<1>1. /\ stage = "resolving" /\ i \in Nat /\ i >= 1 /\ i <= Len(tokens) /\ Len(tokens) \in Nat
      /\ f_tokens \in Seq(Token) /\ words \in Seq(Token)
      /\ f_tokens' = f_tokens \o words /\ i' = i + 1
      /\ stage' = (IF Len(f_tokens') > room' THEN "overrun" ELSE "resolving")
      /\ UNCHANGED table /\ UNCHANGED tokens
      /\ Len(words) <= Len(Longest(tokens[i]))
  BY DEF Emits, Emit, Same, TypeInv, TypeOK, Token
<1>2. i - 1 \in 0 .. Len(tokens) - 1 /\ (i - 1) + 1 = i /\ i \in 0 .. Len(tokens)
  BY <1>1
<1>3. /\ Len(LongestTo(i)) = Len(LongestTo(i - 1)) + Len(Longest(tokens[i]))
      /\ Len(LongestTo(i - 1)) \in Nat /\ Len(Longest(tokens[i])) \in Nat
  BY <1>2, LongestMore DEF TypeInv
<1>4. Len(f_tokens') = Len(f_tokens) + Len(words) /\ Len(f_tokens) \in Nat /\ Len(words) \in Nat
  BY <1>1, ConcatProperties, LenProperties
<1>5. Len(f_tokens) <= Len(LongestTo(i - 1))
  BY <1>1 DEF LengthInv
<1>6. Len(f_tokens') <= Len(LongestTo(i))
  BY <1>1, <1>3, <1>4, <1>5
<1>7. /\ Len(LongestTo(i)) \in Nat /\ Len(LongestTo(Len(tokens))) \in Nat
      /\ Len(LongestTo(i)) <= Len(LongestTo(Len(tokens)))
  BY <1>2, LongestGrows DEF TypeInv
<1>8. (LongestTo(i - 1))' = LongestTo(i) /\ (LongestTo(Len(tokens)))' = LongestTo(Len(tokens))
  <2>1. (LongestTo(i - 1))' = LongestTo(i)
    <3>1. i' - 1 = i
      BY <1>1
    <3> QED
      BY <1>1, <3>1, SameLine DEF LongestTo
  <2>2. (LongestTo(Len(tokens)))' = LongestTo(Len(tokens))
    BY <1>1, SameLine DEF LongestTo
  <2> QED
    BY <2>1, <2>2
<1>9. Len(f_tokens') > room' => Len(LongestTo(Len(tokens))) >= PsBfs
  BY <1>4, <1>6, <1>7, CommandLineAssumption
<1> QED
  BY <1>1, <1>6, <1>8, <1>9 DEF LengthInv

LEMMA NextLengthInv == TypeInv /\ TableInv /\ ExpandInv /\ LengthInv /\ [Next]_vars => LengthInv'
<1> SUFFICES ASSUME TypeInv, TableInv, ExpandInv, LengthInv, [Next]_vars PROVE LengthInv'
  OBVIOUS
<1>1. bufsize' >= PsBfs /\ room' >= PsBfs /\ room' \in Nat
  BY RoomStays, NextTypeInv DEF TypeInv, TypeOK
<1>2. CASE stage' \notin {"resolving", "preparing", "overrun"}
  BY <1>1, <1>2 DEF LengthInv
<1>3. CASE ReadLine
  <2>1. i' = 1 /\ f_tokens' = <<>> /\ stage' = "resolving"
    BY <1>3 DEF ReadLine, TypeInv, AtStart, ExpandInv
  <2>2. (LongestTo(i - 1))' = <<>>
    <3>1. [k \in 1 .. i' - 1 |-> Longest(tokens[k])'] = <<>>
      BY <2>1
    <3> QED
      BY <3>1, FlattenEmpty DEF LongestTo
  <2> QED
    BY <1>1, <2>1, <2>2 DEF LengthInv
<1>4. CASE Resolve /\ ~ResolveEnd /\ stage' # "crashed"
  BY <1>1, <1>4, ResolveEmits, CutLengthInv, EmitsLengthInv
<1>5. ASSUME UNCHANGED table, UNCHANGED tokens, UNCHANGED f_tokens,
             Len(f_tokens) <= Len(LongestTo(Len(tokens))),
             stage' \in {"preparing", "overrun"},
             stage' = "overrun" => Len(f_tokens) >= PsBfs
      PROVE  LengthInv'
  <2>1. (LongestTo(Len(tokens)))' = LongestTo(Len(tokens))
    BY <1>5, SameLine DEF LongestTo
  <2>2. Len(f_tokens) \in Nat /\ PsBfs \in Nat
    BY CommandLineAssumption DEF TypeInv, TypeOK
  <2>3. Len(LongestTo(Len(tokens))) \in Nat
    <3>1. Len(tokens) \in 0 .. Len(tokens)
      BY DEF TypeInv, TypeOK
    <3> QED
      BY <3>1, LongestGrows DEF TypeInv
  <2>4. stage' = "overrun" => Len(LongestTo(Len(tokens))) >= PsBfs
    BY <1>5, <2>2, <2>3
  <2> QED
    BY <1>1, <1>5, <2>1, <2>4 DEF LengthInv
<1>6. CASE ResolveEnd
  <2>1. stage = "resolving" /\ i > Len(tokens) /\ i <= Len(tokens) + 1 /\ i \in Nat /\ Len(tokens) \in Nat
    BY <1>6 DEF ResolveEnd, ExpandInv, TypeInv, TypeOK
  <2>2. i - 1 = Len(tokens)
    BY <2>1
  <2>3. Len(f_tokens) <= Len(LongestTo(Len(tokens)))
    BY <2>1, <2>2 DEF LengthInv
  <2>4. /\ stage' = IF Len(f_tokens) + 1 > room THEN "overrun" ELSE "preparing"
        /\ UNCHANGED f_tokens /\ UNCHANGED table /\ UNCHANGED tokens
    BY <1>6 DEF ResolveEnd, Same
  <2>5. Len(f_tokens) + 1 > room => Len(f_tokens) >= PsBfs
    BY CommandLineAssumption DEF TypeInv, TypeOK, LengthInv
  <2> QED
    BY <1>5, <2>3, <2>4, <2>5
<1>7. CASE Prep /\ stage' = "overrun"
  <2>1. Len(f_tokens) >= PsBfs
    BY <1>7 DEF Prep, MayCrash
  <2>2. UNCHANGED table /\ UNCHANGED tokens /\ UNCHANGED f_tokens
    BY <1>7 DEF Prep, resolved
  <2>3. Len(f_tokens) <= Len(LongestTo(Len(tokens)))
    BY <1>7 DEF Prep, LengthInv
  <2> QED
    BY <1>5, <1>7, <2>1, <2>2, <2>3
<1>8. CASE UNCHANGED vars
  <2>1. UNCHANGED table /\ UNCHANGED tokens /\ UNCHANGED <<stage, i, f_tokens>>
    BY <1>8 DEF vars, table
  <2>2. (LongestTo(Len(tokens)))' = LongestTo(Len(tokens)) /\ (LongestTo(i - 1))' = LongestTo(i - 1)
    BY <2>1, SameLine DEF LongestTo
  <2> QED
    BY <1>1, <2>1, <2>2 DEF LengthInv
<1>9. CASE (Prep \/ Dispatch \/ Parse \/ NextCommand \/ FreeListing) /\ stage' # "overrun"
  <2>1. stage' \notin {"resolving", "preparing"}
    BY <1>9 DEF Prep, Dispatch, HandleEmpty, HandleBuiltin, CrashOnFirst, HandleSplash, RefuseAlias,
       process_alias, Execute, Handled, MayCrash, Parse, ParseWord, ParseRedirect, RejectRedirect,
       ParseEnd, Unparsed, NextCommand, FreeListing
  <2> QED
    BY <1>2, <1>9, <2>1
<1>10. CASE Dispatch \/ Parse \/ NextCommand \/ FreeListing
  <2>1. stage' # "overrun"
    BY <1>10 DEF Dispatch, HandleEmpty, HandleBuiltin, CrashOnFirst, HandleSplash, RefuseAlias,
       process_alias, Execute, Handled, MayCrash, Parse, ParseWord, ParseRedirect, RejectRedirect,
       ParseEnd, Unparsed, NextCommand, FreeListing
  <2> QED
    BY <1>9, <1>10, <2>1
<1> QED
  BY <1>2, <1>3, <1>4, <1>6, <1>7, <1>8, <1>9, <1>10 DEF Next

(* No array is used beyond its end for a line that is, with its aliases    *)
(* replaced and its directory listed, shorter than PS_BFS.                 *)
THEOREM OnlyLongLinesLeaveTheArrays == Spec => []OnlyLongLinesOverrun
<1>1. Init => TableInv /\ ExpandInv /\ LengthInv
  BY CommandLineAssumption DEF Init, TableInv, ExpandInv, LengthInv
<1>2. TypeInv /\ LengthInv => OnlyLongLinesOverrun
  <2> SUFFICES ASSUME TypeInv, LengthInv, stage = "overrun"
               PROVE  Len(FlattenSeq([k \in DOMAIN tokens |-> Longest(tokens[k])])) >= PsBfs
    BY DEF OnlyLongLinesOverrun
  <2>1. DOMAIN tokens = 1 .. Len(tokens)
    BY DEF TypeInv, TypeOK
  <2>2. FlattenSeq([k \in DOMAIN tokens |-> Longest(tokens[k])]) = LongestTo(Len(tokens))
    BY <2>1 DEF LongestTo
  <2> QED
    BY <2>2 DEF LengthInv
<1> QED
  BY InitTypeInv, NextTypeInv, NextTableInv, NextExpandInv, NextLengthInv, <1>1, <1>2, PTL DEF Spec
=============================================================================
