-------------------------- MODULE LineEditorProofs --------------------------
(***************************************************************************)
(* Theorems about LineEditor, for any size of the buffer, any growth, any  *)
(* names, any history and any content of the memory.                       *)
(***************************************************************************)
EXTENDS LineEditor, Extremes, SequenceTheorems, TLAPS

(* The bytes that do not end a string. *)
Full == Byte \ {Nul}

LEMMA ByteTypes ==
  /\ Typed \subseteq Full /\ Letters \subseteq Full /\ Full \subseteq Byte
  /\ Nul \in Byte /\ Junk \in Full /\ Space \in Full /\ Other \in Full
BY LineEditorAssumption DEF Full, Byte, Typed, Letters, Nul, Junk, Space, Other

-----------------------------------------------------------------------------
(* Strings in the buffer.                                                  *)

(* strlen is the place of the first NUL. *)
LEMMA StrlenProperties ==
  ASSUME TypeOK, Ends # {}
  PROVE  /\ strlen \in 0 .. size - 1
         /\ \A k \in 0 .. strlen - 1 : buf[k] \in Full
<1>1. Ends \subseteq 0 .. size - 1 /\ Ends \in SUBSET Nat
  BY DEF Ends, TypeOK
<1>2. strlen \in Ends /\ \A k \in Ends : strlen <= k
  BY <1>1, MinProperties DEF strlen
<1>3. strlen \in 0 .. size - 1 /\ size \in Nat
  BY <1>1, <1>2 DEF TypeOK
<1>4. ASSUME NEW k \in 0 .. strlen - 1 PROVE buf[k] \in Full
  <2>1. k \in 0 .. size - 1 /\ ~(strlen <= k)
    BY <1>3
  <2>2. k \notin Ends
    BY <1>2, <2>1
  <2> QED
    BY <2>1, <2>2 DEF Ends, Full, TypeOK
<1> QED
  BY <1>3, <1>4

LEMMA TextProperties ==
  ASSUME TypeOK, Ends # {}
  PROVE  Text \in Seq(Full) /\ Len(Text) = strlen
<1>1. strlen \in Nat /\ \A k \in 1 .. strlen : buf[k - 1] \in Full
  BY StrlenProperties DEF TypeOK
<1>2. Text \in [1 .. strlen -> Full]
  BY <1>1 DEF Text
<1> QED
  BY <1>1, <1>2, SeqDef

(* What is stored at a position takes its place, and nothing else moves.   *)
LEMMA PutProperties ==
  ASSUME TypeOK, NEW s \in Seq(Byte), NEW p \in Nat, Fits(Len(s), p)
  PROVE  /\ Put(s, p) \in [0 .. size - 1 -> Byte]
         /\ \A k \in 0 .. size - 1 :
              Put(s, p)[k] = IF k \in p .. p + Len(s) - 1 THEN s[k - p + 1] ELSE buf[k]
<1>1. Len(s) \in Nat /\ size \in Nat
  BY DEF TypeOK
<1>2. \A k \in 0 .. size - 1 :
        (IF k \in p .. p + Len(s) - 1 THEN s[k - p + 1] ELSE buf[k]) \in Byte
  <2> SUFFICES ASSUME NEW k \in 0 .. size - 1
               PROVE  (IF k \in p .. p + Len(s) - 1 THEN s[k - p + 1] ELSE buf[k]) \in Byte
    OBVIOUS
  <2>1. CASE k \in p .. p + Len(s) - 1
    <3>1. k - p + 1 \in 1 .. Len(s)
      BY <1>1, <2>1
    <3> QED
      BY <2>1, <3>1, ElementOfSeq
  <2>2. CASE k \notin p .. p + Len(s) - 1
    BY <2>2 DEF TypeOK
  <2> QED
    BY <2>1, <2>2
<1> QED
  BY <1>2 DEF Put

LEMMA AloneProperties ==
  ASSUME TypeOK, NEW s \in Seq(Typed)
  PROVE  /\ Alone(s) \in [0 .. size - 1 -> Byte]
         /\ \A k \in 0 .. size - 1 : k < Len(s) => Alone(s)[k] # Nul
<1>1. Len(s) \in Nat /\ size \in Nat
  BY DEF TypeOK
<1>2. \A k \in 0 .. size - 1 : k < Len(s) => s[k + 1] \in Full
  <2> SUFFICES ASSUME NEW k \in 0 .. size - 1, k < Len(s) PROVE s[k + 1] \in Full
    OBVIOUS
  <2>1. k + 1 \in 1 .. Len(s)
    BY <1>1
  <2> QED
    BY <2>1, ElementOfSeq, ByteTypes
<1> QED
  BY <1>2, ByteTypes DEF Alone, Full

(* The last word is the end of the line.                                   *)
LEMMA LastWordProperties ==
  ASSUME NEW S, NEW s \in Seq(S)
  PROVE  /\ LastWord(s) \in Seq(S) /\ Len(LastWord(s)) \in 0 .. Len(s)
         /\ \A k \in 1 .. Len(LastWord(s)) :
              LastWord(s)[k] # Space /\ \E j \in 1 .. Len(s) : LastWord(s)[k] = s[j]
<1>1. Len(s) \in Nat /\ DOMAIN s = 1 .. Len(s)
  BY LenProperties
<1>2. CASE Spaces(s) = {}
  BY <1>1, <1>2 DEF LastWord, Spaces
<1>3. CASE Spaces(s) # {}
  <2>1. Spaces(s) \in SUBSET (0 .. Len(s)) /\ Spaces(s) \subseteq 1 .. Len(s)
    BY <1>1 DEF Spaces
  <2> DEFINE m == Max(Spaces(s))
             word == SubSeq(s, m + 1, Len(s))
  <2>2. m \in 1 .. Len(s) /\ \A k \in Spaces(s) : m >= k
    BY <1>1, <1>3, <2>1, MaxProperties
  <2>3. LastWord(s) = word
    BY <1>3 DEF LastWord
  <2> HIDE DEF m
  <2>4. m + 1 \in Nat /\ \A k \in m + 1 .. Len(s) : s[k] \in S
    BY <1>1, <2>2, ElementOfSeq
  <2>5. /\ word \in Seq(S)
        /\ Len(word) = IF m + 1 <= Len(s) THEN Len(s) - (m + 1) + 1 ELSE 0
        /\ \A k \in 1 .. Len(s) - (m + 1) + 1 : word[k] = s[(m + 1) + k - 1]
    BY <1>1, <2>4, SubSeqProperties
  <2> HIDE DEF word
  <2>6. Len(word) = Len(s) - m /\ Len(word) \in 0 .. Len(s)
    <3>1. Len(s) \in Nat /\ m \in 1 .. Len(s)
      BY <1>1, <2>2
    <3>2. Len(word) = IF m + 1 <= Len(s) THEN Len(s) - (m + 1) + 1 ELSE 0
      BY <2>5
    <3> QED
      BY <3>1, <3>2
  <2>7. ASSUME NEW k \in 1 .. Len(word)
        PROVE  word[k] # Space /\ \E j \in 1 .. Len(s) : word[k] = s[j]
    <3>1. m + k \in 1 .. Len(s) /\ ~(m >= m + k)
      BY <1>1, <2>2, <2>6
    <3>2. word[k] = s[m + k]
      <4>1. k \in 1 .. Len(s) - (m + 1) + 1 /\ (m + 1) + k - 1 = m + k
        BY <1>1, <2>2, <2>6
      <4> QED
        BY <2>5, <4>1
    <3>3. m + k \notin Spaces(s)
      BY <2>2, <3>1
    <3> QED
      BY <1>1, <3>1, <3>2, <3>3 DEF Spaces
  <2> QED
    BY <2>3, <2>5, <2>6, <2>7
<1> QED
  BY <1>2, <1>3

LEMMA CompletionProperties ==
  ASSUME NEW S, Letters \subseteq S, NEW word \in Seq(S), NEW s \in completionOf(word)
  PROVE  s \in Seq(S)
<1>1. s \in Names \cup {word}
  BY DEF completionOf
<1>2. Names \subseteq Seq(S)
  BY LineEditorAssumption, SeqMonotonic
<1> QED
  BY <1>1, <1>2

(* The line that a completion makes.                                       *)
LEMMA CompletedProperties ==
  ASSUME TypeOK, Ends # {}, NEW S, Letters \subseteq S, Text \in Seq(S),
         NEW s \in completionOf(LastWord(Text))
  PROVE  SubSeq(Text, 1, strlen - Len(LastWord(Text))) \o s \in Seq(S)
<1> DEFINE n == strlen - Len(LastWord(Text))
<1>1. Text \in Seq(S) /\ Len(Text) = strlen /\ strlen \in Nat
  BY TextProperties, StrlenProperties DEF TypeOK
<1>2. LastWord(Text) \in Seq(S) /\ Len(LastWord(Text)) \in 0 .. strlen
  BY <1>1, LastWordProperties
<1>3. s \in Seq(S)
  BY <1>2, CompletionProperties
<1>4. n \in 0 .. Len(Text)
  BY <1>1, <1>2
<1> HIDE DEF n
<1>5. SubSeq(Text, 1, n) \in Seq(S)
  <2>1. \A k \in 1 .. n : Text[k] \in S
    BY <1>1, <1>4, ElementOfSeq
  <2> QED
    BY <1>1, <1>4, <2>1, SubSeqProperties
<1>6. SubSeq(Text, 1, n) \o s \in Seq(S)
  BY <1>3, <1>5, ConcatProperties
<1> QED
  BY <1>6 DEF n
-----------------------------------------------------------------------------
(* The invariant: well typed, and the cursor in the line unless a NUL was  *)
(* typed.  Every key but that keeps the cursor in the line.                *)
LineInv == TypeOK /\ ("nul" \notin past => Inside)

LineStep == TypeOK' /\ (Inside => Inside')

(* What has happened is not forgotten.                                     *)
LEMMA PastGrows == [Next]_vars => past \subseteq past' /\ (~Reading => UNCHANGED vars)
BY DEF Next, vars, Happened, Type, StoreCharacter, Enter, Backspace, Left, Right, Up, Down, Recall,
       DownToEmpty, TabSpaces, TabCompletes, Complete, Fails, Done

LEMMA InitLineInv == Init => LineInv
<1> SUFFICES ASSUME Init PROVE LineInv
  OBVIOUS
<1>1. size \in Nat /\ buf \in [0 .. size - 1 -> Byte]
  BY LineEditorAssumption, ByteTypes DEF Init, Fresh, Full
<1>2. log \in Seq(Seq(Typed))
  BY LineEditorAssumption DEF Init
<1>3. pos = 0 /\ recalled = 0 /\ log \in Logs /\ status = "reading" /\ past \subseteq {"junk"}
  BY DEF Init
<1>4. pos \in 0 .. size /\ recalled \in 0 .. Len(log)
  BY <1>1, <1>2, <1>3
<1> QED
  BY <1>1, <1>3, <1>4 DEF LineInv, TypeOK, Inside, Ghosts

LEMMA StutterLineStep == TypeOK /\ UNCHANGED vars => LineStep
BY DEF LineStep, TypeOK, Inside, vars

(* A step that ends the model changes nothing else.                        *)
LEMMA FailsLineStep ==
  ASSUME TypeOK, NEW why \in {"overrun", "runaway", "index"}, Fails(why)
  PROVE  LineStep
BY DEF LineStep, TypeOK, Inside, Fails

LEMMA HappenedType ==
  ASSUME TypeOK, NEW ghost \in Ghosts, NEW condition, Happened(ghost, condition)
  PROVE  past' \subseteq Ghosts
BY DEF TypeOK, Happened, Sign

(* A NUL that is typed is the one key that takes the cursor past the end.  *)
NulTyped == buf'[pos] = Nul /\ "nul" \in past'

LEMMA TypeLineStep == TypeOK /\ Type => TypeOK' /\ (Inside => Inside' \/ NulTyped)
<1> SUFFICES ASSUME TypeOK, Type PROVE TypeOK' /\ (Inside => Inside' \/ NulTyped)
  OBVIOUS
<1>1. CASE ~Fits(1, pos)
  <2>1. Fails("overrun")
    BY <1>1 DEF Type
  <2> QED
    BY <2>1, FailsLineStep DEF LineStep
<1>2. CASE Fits(1, pos)
  <2> PICK c \in Typed \cup {Nul} : StoreCharacter(c)
    BY <1>2 DEF Type
  <2>1. c \in Byte /\ <<c>> \in Seq(Byte) /\ Len(<<c>>) = 1
    BY ByteTypes
  <2>2. pos \in Nat /\ pos \in 0 .. size /\ size \in Nat /\ pos + 1 <= size
    BY <1>2 DEF TypeOK, Fits
  <2> DEFINE stored == Put(<<c>>, pos)
  <2>3. /\ stored \in [0 .. size - 1 -> Byte] /\ stored[pos] = c
        /\ \A k \in 0 .. pos - 1 : stored[k] = buf[k]
    <3>1. /\ stored \in [0 .. size - 1 -> Byte]
          /\ \A k \in 0 .. size - 1 :
               stored[k] = IF k \in pos .. pos + Len(<<c>>) - 1 THEN <<c>>[k - pos + 1] ELSE buf[k]
      BY <1>2, <2>1, <2>2, PutProperties
    <3>2. stored[pos] = c
      BY <2>1, <2>2, <3>1
    <3>3. ASSUME NEW k \in 0 .. pos - 1 PROVE stored[k] = buf[k]
      <4>1. k \in 0 .. size - 1 /\ k \notin pos .. pos + Len(<<c>>) - 1
        BY <2>1, <2>2
      <4> QED
        BY <3>1, <4>1
    <3> QED
      BY <3>1, <3>2, <3>3
  <2> HIDE DEF stored
  <2>4. pos' = pos + 1 /\ UNCHANGED <<log, recalled, status>>
    BY <1>2 DEF Type, StoreCharacter, Fits
  <2>5. /\ size' \in Nat /\ pos + 1 <= size' /\ buf' \in [0 .. size' - 1 -> Byte]
        /\ buf'[pos] = c /\ \A k \in 0 .. pos - 1 : buf'[k] = buf[k]
        /\ past' \subseteq Ghosts /\ (c = Nul => "nul" \in past')
    <3>1. CASE pos' < size
      <4>1. buf' = stored /\ size' = size /\ Happened("nul", c = Nul)
        BY <2>2, <3>1 DEF StoreCharacter, stored, TypeOK
      <4>2. past' \subseteq Ghosts /\ (c = Nul => "nul" \in past')
        BY <4>1 DEF Happened, Sign, Ghosts, TypeOK
      <4> QED
        BY <2>2, <2>3, <4>1, <4>2
    <3>2. CASE pos' >= size
      <4>1. PICK more \in Fresh(size .. size' - 1) :
              /\ buf' = [k \in 0 .. size' - 1 |-> IF k < size THEN stored[k] ELSE more[k]]
              /\ past' = past \cup Sign("nul", c = Nul) \cup Sign("junk", Dirty(more))
        BY <2>2, <2>4, <3>2 DEF StoreCharacter, stored
      <4>2. size' = size + RlBfs /\ size' \in Nat /\ size' > size
        BY <2>2, <2>4, <3>2, LineEditorAssumption DEF StoreCharacter
      <4>3. \A k \in 0 .. size' - 1 : (IF k < size THEN stored[k] ELSE more[k]) \in Byte
        BY <2>2, <2>3, <4>2, ByteTypes DEF Fresh, Full
      <4>4. buf' \in [0 .. size' - 1 -> Byte]
        BY <4>1, <4>3
      <4>5. buf'[pos] = c /\ \A k \in 0 .. pos - 1 : buf'[k] = buf[k]
        BY <2>2, <2>3, <4>1, <4>2
      <4>6. past' \subseteq Ghosts /\ (c = Nul => "nul" \in past')
        BY <4>1 DEF Sign, Ghosts, TypeOK
      <4> QED
        BY <2>2, <4>2, <4>4, <4>5, <4>6
    <3> QED
      BY <2>2, <2>4, <3>1, <3>2
  <2>6. TypeOK'
    <3>1. pos' \in 0 .. size'
      BY <2>2, <2>4, <2>5 DEF TypeOK
    <3>2. /\ size' \in Nat /\ buf' \in [0 .. size' - 1 -> Byte]
          /\ past' \subseteq Ghosts
      BY <2>5
    <3> QED
      BY <2>4, <3>1, <3>2 DEF TypeOK
  <2>7. ASSUME Inside, c # Nul PROVE Inside'
    <3>1. ASSUME NEW k \in 0 .. pos PROVE buf'[k] # Nul
      <4>1. CASE k = pos
        BY <2>5, <2>7, <4>1
      <4>2. CASE k # pos
        <5>1. k \in 0 .. pos - 1
          BY <2>2, <4>2
        <5> QED
          BY <2>5, <2>7, <5>1 DEF Inside
      <4> QED
        BY <4>1, <4>2
    <3>2. \A k \in 0 .. pos' - 1 : k \in 0 .. pos
      BY <2>2, <2>4
    <3> QED
      BY <3>1, <3>2 DEF Inside
  <2> QED
    BY <2>5, <2>6, <2>7 DEF NulTyped
<1> QED
  BY <1>1, <1>2

(* A NUL at or before the cursor leaves what is before it. *)
LEMMA PutNul ==
  ASSUME TypeOK, NEW p \in Nat, p <= pos, Fits(1, p)
  PROVE  /\ Put(<<Nul>>, p) \in [0 .. size - 1 -> Byte]
         /\ Inside => \A k \in 0 .. p - 1 : Put(<<Nul>>, p)[k] # Nul
<1>1. <<Nul>> \in Seq(Byte) /\ Len(<<Nul>>) = 1
  BY ByteTypes
<1>2. pos \in 0 .. size /\ size \in Nat /\ p + 1 <= size
  BY DEF TypeOK, Fits
<1>3. /\ Put(<<Nul>>, p) \in [0 .. size - 1 -> Byte]
      /\ \A k \in 0 .. size - 1 :
           Put(<<Nul>>, p)[k] = IF k \in p .. p + Len(<<Nul>>) - 1 THEN <<Nul>>[k - p + 1] ELSE buf[k]
  BY <1>1, PutProperties
<1>4. ASSUME Inside, NEW k \in 0 .. p - 1 PROVE Put(<<Nul>>, p)[k] # Nul
  <2>1. k \in 0 .. pos - 1 /\ k \in 0 .. size - 1 /\ k \notin p .. p + Len(<<Nul>>) - 1
    BY <1>1, <1>2
  <2> QED
    BY <1>3, <1>4, <2>1 DEF Inside
<1> QED
  BY <1>3, <1>4

LEMMA EnterLineStep == TypeOK /\ Enter => LineStep
<1> SUFFICES ASSUME TypeOK, Enter PROVE LineStep
  OBVIOUS
<1>1. CASE Fits(1, pos)
  <2>1. buf' = Put(<<Nul>>, pos) /\ status' = "returned" /\ UNCHANGED <<size, pos, log, recalled, past>>
    BY <1>1 DEF Enter, Fails, TypeOK
  <2>2. pos \in Nat
    BY DEF TypeOK
  <2>3. buf' \in [0 .. size - 1 -> Byte] /\ (Inside => \A k \in 0 .. pos - 1 : buf'[k] # Nul)
    BY <1>1, <2>1, <2>2, PutNul
  <2> QED
    BY <2>1, <2>3 DEF LineStep, TypeOK, Inside
<1>2. CASE ~Fits(1, pos)
  BY <1>2, FailsLineStep DEF Enter
<1> QED
  BY <1>1, <1>2

LEMMA BackspaceLineStep == TypeOK /\ Backspace => LineStep
<1> SUFFICES ASSUME TypeOK, Backspace PROVE LineStep
  OBVIOUS
<1>1. CASE Ends # {}
  <2>1. /\ pos' = pos - 1 /\ buf' = Put(<<Nul>>, pos - 1)
        /\ Happened("tail", pos < strlen)
        /\ UNCHANGED <<size, log, recalled, status>>
    BY <1>1 DEF Backspace
  <2>2. pos - 1 \in Nat /\ pos - 1 <= pos /\ Fits(1, pos - 1)
    BY DEF Backspace, TypeOK, Fits
  <2>3. buf' \in [0 .. size - 1 -> Byte] /\ (Inside => \A k \in 0 .. pos' - 1 : buf'[k] # Nul)
    BY <2>1, <2>2, PutNul
  <2>4. past' \subseteq Ghosts
    BY <2>1, HappenedType DEF Ghosts
  <2> QED
    BY <2>1, <2>2, <2>3, <2>4 DEF LineStep, TypeOK, Inside
<1>2. CASE Ends = {}
  BY <1>2, FailsLineStep DEF Backspace
<1> QED
  BY <1>1, <1>2

LEMMA LeftLineStep == TypeOK /\ Left => LineStep
BY DEF Left, TypeOK, CursorInLine

(* Right stops at the first NUL. *)
LEMMA RightLineStep == TypeOK /\ Right => LineStep
<1> SUFFICES ASSUME TypeOK, Right PROVE LineStep
  OBVIOUS
<1>1. CASE Ends # {}
  <2>1. /\ pos < strlen /\ pos' = pos + 1
        /\ Happened("crossed", "junk" \in past)
        /\ UNCHANGED <<size, buf, log, recalled, status>>
    BY <1>1 DEF Right
  <2>2. strlen \in 0 .. size - 1 /\ \A k \in 0 .. strlen - 1 : buf[k] \in Full
    BY <1>1, StrlenProperties
  <2>3. pos' \in 0 .. size /\ \A k \in 0 .. pos' - 1 : buf[k] # Nul
    BY <2>1, <2>2 DEF TypeOK, Full
  <2>4. past' \subseteq Ghosts
    BY <2>1, HappenedType DEF Ghosts
  <2> QED
    BY <2>1, <2>3, <2>4 DEF LineStep, TypeOK, Inside
<1>2. CASE Ends = {}
  BY <1>2, FailsLineStep DEF Right
<1> QED
  BY <1>1, <1>2

LEMMA RecallLineStep ==
  ASSUME TypeOK, Reading, NEW k \in 1 .. Len(log), Recall(k)
  PROVE  LineStep
<1>1. log[k] \in Seq(Typed) /\ Len(log[k]) \in Nat /\ Len(log) \in Nat
  BY LineEditorAssumption, ElementOfSeq DEF TypeOK
<1>2. CASE Ends # {} /\ Fits(Len(log[k]) + 1, 0)
  <2>1. /\ buf' = Alone(log[k]) /\ pos' = Len(log[k]) /\ recalled' = k
        /\ UNCHANGED <<size, log, status, past>>
    BY <1>2 DEF Recall
  <2>2. Len(log[k]) + 1 <= size /\ size \in Nat
    BY <1>1, <1>2 DEF Fits, TypeOK
  <2>3. buf' \in [0 .. size - 1 -> Byte] /\ \A j \in 0 .. pos' - 1 : buf'[j] # Nul
    BY <1>1, <2>1, <2>2, AloneProperties
  <2> QED
    BY <1>1, <2>1, <2>2, <2>3 DEF LineStep, TypeOK, Inside
<1>3. CASE Ends # {} /\ ~Fits(Len(log[k]) + 1, 0)
  BY <1>3, FailsLineStep DEF Recall
<1>4. CASE Ends = {}
  BY <1>4, FailsLineStep DEF Recall
<1> QED
  BY <1>2, <1>3, <1>4

LEMMA UpLineStep == TypeOK /\ Up => LineStep
<1> SUFFICES ASSUME TypeOK, Up PROVE LineStep
  OBVIOUS
<1>1. recalled + 1 \in 1 .. Len(log)
  BY LineEditorAssumption DEF Up, TypeOK
<1> QED
  BY <1>1, RecallLineStep DEF Up

LEMMA DownLineStep == TypeOK /\ Down => LineStep
<1> SUFFICES ASSUME TypeOK, Down PROVE LineStep
  OBVIOUS
<1>1. CASE recalled > 1 /\ Recall(recalled - 1)
  <2>1. recalled - 1 \in 1 .. Len(log)
    BY <1>1, LineEditorAssumption DEF TypeOK
  <2> QED
    BY <1>1, <2>1, RecallLineStep DEF Down
<1>2. CASE DownToEmpty /\ Ends # {}
  <2>1. /\ buf' = Alone(<<>>) /\ pos' = 0 /\ recalled' = 0
        /\ status' \in {"reading", "overrun"}
        /\ UNCHANGED <<size, log, past>>
    BY <1>2 DEF DownToEmpty, MayOverrun
  <2>2. <<>> \in Seq(Typed)
    BY EmptySeq
  <2>3. buf' \in [0 .. size - 1 -> Byte]
    BY <2>1, <2>2, AloneProperties
  <2> QED
    BY <2>1, <2>3 DEF LineStep, TypeOK, Inside
<1>3. CASE DownToEmpty /\ Ends = {}
  BY <1>3, FailsLineStep DEF DownToEmpty
<1> QED
  BY <1>1, <1>2, <1>3 DEF Down

LEMMA TabSpacesLineStep == TypeOK /\ TabSpaces => LineStep
<1> SUFFICES ASSUME TypeOK, TabSpaces PROVE LineStep
  OBVIOUS
<1> DEFINE s == [k \in 1 .. Indent |-> Space]
<1>1. CASE ~Fits(Indent, pos)
  BY <1>1, FailsLineStep DEF TabSpaces
<1>2. CASE Fits(Indent, pos)
  <2>1. /\ pos' = pos + Indent /\ buf' = Put(s, pos)
        /\ Happened("full", pos' = size)
        /\ UNCHANGED <<size, log, recalled, status>>
    BY <1>2 DEF TabSpaces
  <2>2. Indent \in Nat /\ pos \in Nat /\ pos + Indent <= size /\ size \in Nat
    BY <1>2, LineEditorAssumption DEF TypeOK, Fits
  <2>3. s \in Seq(Byte) /\ Len(s) = Indent /\ \A k \in 1 .. Indent : s[k] = Space
    BY <2>2, ByteTypes, IsASeq
  <2> HIDE DEF s
  <2>4. /\ buf' \in [0 .. size - 1 -> Byte]
        /\ \A k \in 0 .. size - 1 :
             buf'[k] = IF k \in pos .. pos + Indent - 1 THEN s[k - pos + 1] ELSE buf[k]
    BY <1>2, <2>1, <2>2, <2>3, PutProperties
  <2>5. ASSUME Inside, NEW k \in 0 .. pos' - 1 PROVE buf'[k] # Nul
    <3>1. CASE k < pos
      BY <2>1, <2>2, <2>4, <2>5, <3>1 DEF Inside
    <3>2. CASE k >= pos
      <4>1. k \in pos .. pos + Indent - 1 /\ k - pos + 1 \in 1 .. Indent /\ k \in 0 .. size - 1
        BY <2>1, <2>2, <3>2
      <4>2. buf'[k] = Space
        BY <2>3, <2>4, <4>1
      <4> QED
        BY <4>2, ByteTypes DEF Full
    <3> QED
      BY <2>2, <3>1, <3>2
  <2>6. past' \subseteq Ghosts
    BY <2>1, HappenedType DEF Ghosts
  <2> QED
    BY <2>1, <2>2, <2>4, <2>5, <2>6 DEF LineStep, TypeOK, Inside
<1> QED
  BY <1>1, <1>2

LEMMA CompleteLineStep ==
  ASSUME TypeOK, NEW s \in Seq(Full), Complete(s)
  PROVE  LineStep
<1>1. CASE ~Fits(Len(s) + 1, 0)
  BY <1>1, FailsLineStep DEF Complete
<1>2. CASE Fits(Len(s) + 1, 0)
  <2>1. /\ buf' = Put(Append(s, Nul), 0) /\ pos' = Len(s)
        /\ status' \in {"reading", "overrun"}
        /\ Happened("crossed", "junk" \in past)
        /\ UNCHANGED <<size, log, recalled>>
    BY <1>2 DEF Complete, MayOverrun
  <2>2. Len(s) \in Nat /\ Len(s) + 1 <= size /\ size \in Nat
    BY <1>2 DEF Fits, TypeOK
  <2> DEFINE t == Append(s, Nul)
  <2>3. t \in Seq(Byte) /\ Len(t) = Len(s) + 1 /\ \A k \in 1 .. Len(s) : t[k] = s[k]
    <3>1. s \in Seq(Byte) /\ Nul \in Byte
      BY ByteTypes, SeqMonotonic
    <3> QED
      BY <3>1, AppendProperties
  <2> HIDE DEF t
  <2>4. /\ buf' \in [0 .. size - 1 -> Byte]
        /\ \A k \in 0 .. size - 1 :
             buf'[k] = IF k \in 0 .. 0 + Len(t) - 1 THEN t[k - 0 + 1] ELSE buf[k]
    <3>1. Fits(Len(t), 0) /\ buf' = Put(t, 0)
      BY <1>2, <2>1, <2>3 DEF t
    <3> QED
      BY <2>3, <3>1, PutProperties
  <2>5. ASSUME NEW k \in 0 .. pos' - 1 PROVE buf'[k] # Nul
    <3>1. k \in 0 .. size - 1 /\ k \in 0 .. 0 + Len(t) - 1 /\ k - 0 + 1 = k + 1 /\ k + 1 \in 1 .. Len(s)
      BY <2>1, <2>2, <2>3
    <3>2. buf'[k] = s[k + 1] /\ s[k + 1] \in Full
      BY <2>3, <2>4, <3>1, ElementOfSeq
    <3> QED
      BY <3>2 DEF Full
  <2>6. past' \subseteq Ghosts
    BY <2>1, HappenedType DEF Ghosts
  <2> QED
    BY <2>1, <2>2, <2>4, <2>5, <2>6 DEF LineStep, TypeOK, Inside
<1> QED
  BY <1>1, <1>2

LEMMA TabCompletesLineStep == TypeOK /\ TabCompletes => LineStep
<1> SUFFICES ASSUME TypeOK, TabCompletes PROVE LineStep
  OBVIOUS
<1>1. CASE Ends = {}
  BY <1>1, FailsLineStep DEF TabCompletes
<1>2. CASE Ends # {} /\ Fails("index")
  BY <1>2, FailsLineStep
<1>3. CASE Ends # {} /\ ~Fails("index")
  <2>1. PICK s \in completionOf(LastWord(Text)) :
          Complete(SubSeq(Text, 1, strlen - Len(LastWord(Text))) \o s)
    BY <1>3 DEF TabCompletes
  <2> QED
    <3>1. Text \in Seq(Full) /\ Letters \subseteq Full
      BY <1>3, TextProperties, ByteTypes
    <3> QED
      BY <1>3, <2>1, <3>1, CompletedProperties, CompleteLineStep
<1> QED
  BY <1>1, <1>2, <1>3

LEMMA NextLineStep == TypeOK /\ [Next]_vars => LineStep \/ (TypeOK' /\ Type /\ NulTyped)
BY StutterLineStep, TypeLineStep, EnterLineStep, BackspaceLineStep, LeftLineStep, RightLineStep,
   UpLineStep, DownLineStep, TabSpacesLineStep, TabCompletesLineStep
   DEF Next, Done, LineStep

LEMMA NextLineInv == LineInv /\ [Next]_vars => LineInv'
BY NextLineStep, PastGrows DEF LineInv, LineStep, NulTyped

(* Every byte, index and position of the line editor is in its range.      *)
THEOREM TypeCorrect == Spec => []TypeOK
<1>1. LineInv => TypeOK
  BY DEF LineInv
<1> QED
  BY InitLineInv, NextLineInv, <1>1, PTL DEF Spec

(* However keys are mixed and whatever the memory held, the cursor passes  *)
(* the end of the string only by a NUL that is typed.                      *)
THEOREM CursorStaysInLine == Spec => CursorInLine
<1>1. LineInv /\ [Next]_vars => [Inside => Inside' \/ (Type /\ buf'[pos] = Nul)]_vars
  BY NextLineStep DEF LineInv, LineStep, NulTyped
<1> QED
  BY InitLineInv, NextLineInv, <1>1, PTL DEF Spec, CursorInLine

-----------------------------------------------------------------------------
(* Leaving the buffer.                                                     *)

RoomStep ==
  /\ status' = "overrun" => pos >= size \/ Up \/ Down \/ TabSpaces \/ TabCompletes
  /\ pos' >= size' => pos >= size \/ TabSpaces

LEMMA FailsRoom ==
  ASSUME LineInv, NEW why, Fails(why), why = "overrun" => pos >= size
  PROVE  RoomStep
BY DEF RoomStep, Fails

LEMMA RecallRoom ==
  ASSUME LineInv, NEW k \in 1 .. Len(log), Recall(k)
  PROVE  pos' >= size' => pos >= size
<1>1. log[k] \in Seq(Typed) /\ Len(log[k]) \in Nat /\ size \in Nat
  BY LineEditorAssumption, ElementOfSeq DEF LineInv, TypeOK
<1>2. CASE Ends # {} /\ Fits(Len(log[k]) + 1, 0)
  BY <1>1, <1>2 DEF Recall, Fits
<1>3. CASE ~(Ends # {} /\ Fits(Len(log[k]) + 1, 0))
  BY <1>3 DEF Recall, Fails
<1> QED
  BY <1>2, <1>3

LEMMA UpDownRoom ==
  ASSUME LineInv, Up \/ Down
  PROVE  RoomStep
<1>1. log \in Seq(Seq(Typed)) /\ recalled \in 0 .. Len(log) /\ pos \in 0 .. size /\ size \in Nat
  BY LineEditorAssumption DEF LineInv, TypeOK
<1>2. pos' >= size' => pos >= size
  <2>1. CASE Up
    <3>1. recalled + 1 \in 1 .. Len(log)
      BY <1>1, <2>1 DEF Up
    <3> QED
      BY <2>1, <3>1, RecallRoom DEF Up
  <2>2. CASE recalled > 1 /\ Recall(recalled - 1)
    <3>1. recalled - 1 \in 1 .. Len(log)
      BY <1>1, <2>2
    <3> QED
      BY <2>2, <3>1, RecallRoom
  <2>3. CASE DownToEmpty /\ Ends # {}
    <3>1. pos' = 0 /\ size' = size /\ Ends \subseteq 0 .. size - 1
      BY <2>3 DEF DownToEmpty, Ends
    <3>2. PICK k \in 0 .. size - 1 : TRUE
      BY <2>3, <3>1
    <3> QED
      BY <1>1, <3>1, <3>2
  <2>4. CASE DownToEmpty /\ Ends = {}
    BY <2>4 DEF DownToEmpty, Fails
  <2> QED
    BY <2>1, <2>2, <2>3, <2>4 DEF Down
<1> QED
  BY <1>2 DEF RoomStep

LEMMA TypeRoom ==
  ASSUME LineInv, Type
  PROVE  RoomStep
<1>1. pos \in 0 .. size /\ size \in Nat /\ RlBfs \in Nat \ {0}
  BY LineEditorAssumption DEF LineInv, TypeOK
<1>2. CASE ~Fits(1, pos)
  <2>1. Fails("overrun") /\ pos >= size
    BY <1>1, <1>2 DEF Type, Fits
  <2> QED
    BY <2>1 DEF RoomStep
<1>3. CASE Fits(1, pos)
  <2>1. status' = "reading"
    BY <1>3 DEF Type, Reading
  <2>2. PICK c \in Typed \cup {Nul} : StoreCharacter(c)
    BY <1>3 DEF Type
  <2>3. pos' = pos + 1 /\ pos + 1 <= size
    BY <1>3, <2>2 DEF StoreCharacter, Fits
  <2>4. (pos' < size /\ size' = size) \/ size' = size + RlBfs
    BY <2>2 DEF StoreCharacter
  <2>5. ~(pos' >= size')
    BY <1>1, <2>3, <2>4
  <2> QED
    BY <2>1, <2>5 DEF RoomStep
<1> QED
  BY <1>2, <1>3

LEMMA OtherRoom ==
  ASSUME LineInv, Enter \/ Backspace \/ Left \/ Right
  PROVE  RoomStep
<1>1. pos \in 0 .. size /\ size \in Nat
  BY DEF LineInv, TypeOK
<1>2. CASE Enter
  BY <1>1, <1>2 DEF Enter, Fails, Fits, RoomStep
<1>3. CASE Backspace
  BY <1>1, <1>3 DEF Backspace, Fails, Reading, RoomStep
<1>4. CASE Left
  BY <1>1, <1>4 DEF Left, Reading, RoomStep
<1>5. CASE Right
  <2>1. CASE Ends = {}
    BY <1>5, <2>1, FailsRoom DEF Right
  <2>2. CASE Ends # {}
    <3>1. strlen \in 0 .. size - 1
      BY <2>2, StrlenProperties DEF LineInv
    <3>2. pos' = pos + 1 /\ pos < strlen /\ UNCHANGED <<size, status>> /\ status = "reading"
      BY <1>5, <2>2 DEF Right, Reading
    <3> QED
      BY <1>1, <3>1, <3>2 DEF RoomStep
  <2> QED
    BY <2>1, <2>2
<1> QED
  BY <1>2, <1>3, <1>4, <1>5

LEMMA CompleteRoom ==
  ASSUME LineInv, NEW s \in Seq(Full), Complete(s)
  PROVE  pos' >= size' => pos >= size
<1>1. Len(s) \in Nat /\ size \in Nat
  BY DEF LineInv, TypeOK
<1>2. CASE Fits(Len(s) + 1, 0)
  BY <1>1, <1>2 DEF Complete, Fits
<1>3. CASE ~Fits(Len(s) + 1, 0)
  BY <1>3 DEF Complete, Fails
<1> QED
  BY <1>2, <1>3

LEMMA TabCompletesRoom ==
  ASSUME LineInv, TabCompletes
  PROVE  RoomStep
<1>1. CASE \E why : Fails(why)
  BY <1>1 DEF Fails, RoomStep
<1>2. CASE Ends # {} /\ ~Fails("index")
  <2>1. PICK s \in completionOf(LastWord(Text)) :
          Complete(SubSeq(Text, 1, strlen - Len(LastWord(Text))) \o s)
    BY <1>2 DEF TabCompletes
  <2>2. pos' >= size' => pos >= size
    <3>1. Text \in Seq(Full) /\ Letters \subseteq Full
      BY <1>2, TextProperties, ByteTypes DEF LineInv
    <3> QED
      BY <3>1, <1>2, <2>1, CompletedProperties, CompleteRoom DEF LineInv
  <2> QED
    BY <2>2 DEF RoomStep
<1> QED
  BY <1>1, <1>2 DEF TabCompletes

(* A character, Enter, Backspace, Left and Right never write outside the   *)
(* buffer as long as the last tab left room, and no key but a tab's spaces *)
(* takes the last room: for every size of the buffer.                      *)
THEOREM OnlyTabFills == Spec => OnlyTabUsesRoom
<1>1. LineInv /\ [Next]_vars => [RoomStep]_vars
  <2> SUFFICES ASSUME LineInv, Next PROVE RoomStep \/ UNCHANGED vars
    OBVIOUS
  <2>1. TabSpaces => RoomStep
    BY DEF RoomStep
  <2> QED
    BY <2>1, TypeRoom, OtherRoom, UpDownRoom, TabCompletesRoom DEF Next, Done
<1>2. [RoomStep]_vars =>
        [/\ status' = "overrun" => pos >= size \/ Up \/ Down \/ TabSpaces \/ TabCompletes
         /\ pos' >= size' => pos >= size \/ TabSpaces]_vars
  BY DEF RoomStep
<1> QED
  BY InitLineInv, NextLineInv, <1>1, <1>2, PTL DEF Spec, OnlyTabUsesRoom

-----------------------------------------------------------------------------
(* What the memory held before.                                            *)

(* Memory that was clear stays free of junk; the line before the cursor is *)
(* free of it unless the cursor or a completion went through junk; and the *)
(* last byte of clear memory ends every string until a tab has filled it.  *)
JunkKnown == "junk" \notin past => \A k \in 0 .. size - 1 : buf[k] # Junk
JunkBehind == "crossed" \notin past => \A k \in 0 .. pos - 1 : buf[k] # Junk
EndKept ==
  past \cap {"junk", "full"} = {} =>
    status # "runaway" /\ pos < size /\ buf[size - 1] = Nul

MemoryInv == JunkKnown /\ JunkBehind /\ EndKept

LEMMA NotJunk ==
  /\ Nul # Junk /\ Space # Junk
  /\ \A c \in Typed : c # Junk /\ c # Nul
  /\ Full \ {Junk} = Typed
BY LineEditorAssumption DEF Full, Byte, Typed, Letters, Nul, Junk, Space, Other

(* A string has an end as long as the last byte is one.                    *)
LEMMA EndExists ==
  ASSUME LineInv, MemoryInv, past \cap {"junk", "full"} = {}
  PROVE  Ends # {}
<1>1. size - 1 \in 0 .. size - 1 /\ buf[size - 1] = Nul
  BY DEF MemoryInv, EndKept, LineInv, TypeOK
<1> QED
  BY <1>1 DEF Ends

LEMMA FailsMemory ==
  ASSUME LineInv, MemoryInv, NEW why, why = "runaway" => Ends = {}, Fails(why)
  PROVE  MemoryInv'
BY EndExists DEF MemoryInv, JunkKnown, JunkBehind, EndKept, Fails

(* A step that keeps the size and stores no junk, as the bytes tell.       *)
LEMMA BytesMemory ==
  ASSUME LineInv, MemoryInv, size' = size, past \subseteq past', status' # "runaway",
         "junk" \notin past' =>
           \A k \in 0 .. size - 1 : buf'[k] = buf[k] \/ buf'[k] # Junk,
         "crossed" \notin past' =>
           \A k \in 0 .. pos' - 1 : (k \in 0 .. pos - 1 /\ buf'[k] = buf[k]) \/ buf'[k] # Junk,
         past \cap {"junk", "full"} = {} /\ past' \cap {"junk", "full"} = {} =>
           pos' < size /\ (buf'[size - 1] = buf[size - 1] \/ buf'[size - 1] = Nul)
  PROVE  MemoryInv'
<1>1. JunkKnown'
  BY DEF MemoryInv, JunkKnown
<1>2. JunkBehind'
  BY DEF MemoryInv, JunkBehind
<1>3. EndKept'
  BY DEF MemoryInv, EndKept
<1> QED
  BY <1>1, <1>2, <1>3 DEF MemoryInv

LEMMA InitMemory == Init => MemoryInv
<1> SUFFICES ASSUME Init PROVE MemoryInv
  OBVIOUS
<1>1. size \in Nat \ {0} /\ buf \in [0 .. size - 1 -> {Nul, Junk}] /\ pos = 0
  BY LineEditorAssumption DEF Init, Fresh
<1>2. "junk" \notin past => \A k \in 0 .. size - 1 : buf[k] = Nul
  <2>1. "junk" \notin past => ~Dirty(buf)
    BY DEF Init
  <2> QED
    BY <1>1, <2>1 DEF Dirty
<1>3. JunkKnown
  BY <1>2, NotJunk DEF JunkKnown
<1>4. JunkBehind
  BY <1>1 DEF JunkBehind
<1>5. EndKept
  <2>1. size - 1 \in 0 .. size - 1 /\ status = "reading"
    BY <1>1 DEF Init
  <2> QED
    BY <1>1, <1>2, <2>1 DEF EndKept
<1> QED
  BY <1>3, <1>4, <1>5 DEF MemoryInv

LEMMA StutterMemory == MemoryInv /\ UNCHANGED vars => MemoryInv'
BY DEF MemoryInv, JunkKnown, JunkBehind, EndKept, vars

LEMMA TypeMemory == LineInv /\ MemoryInv /\ Type => MemoryInv'
<1> SUFFICES ASSUME LineInv, MemoryInv, Type PROVE MemoryInv'
  OBVIOUS
<1>1. CASE ~Fits(1, pos)
  BY <1>1, FailsMemory DEF Type
<1>2. CASE Fits(1, pos)
  <2> PICK c \in Typed \cup {Nul} : StoreCharacter(c)
    BY <1>2 DEF Type
  <2>1. c \in Byte /\ c # Junk /\ <<c>> \in Seq(Byte) /\ Len(<<c>>) = 1
    BY ByteTypes, NotJunk
  <2>2. pos \in Nat /\ size \in Nat /\ pos + 1 <= size
    BY <1>2 DEF LineInv, TypeOK, Fits
  <2> DEFINE stored == Put(<<c>>, pos)
  <2>3. \A k \in 0 .. size - 1 : stored[k] = IF k = pos THEN c ELSE buf[k]
    <3>1. \A k \in 0 .. size - 1 :
            stored[k] = IF k \in pos .. pos + Len(<<c>>) - 1 THEN <<c>>[k - pos + 1] ELSE buf[k]
      BY <1>2, <2>1, <2>2, PutProperties DEF LineInv
    <3>2. ASSUME NEW k \in 0 .. size - 1 PROVE stored[k] = IF k = pos THEN c ELSE buf[k]
      <4>1. k \in pos .. pos + Len(<<c>>) - 1 <=> k = pos
        BY <2>1, <2>2
      <4>2. <<c>>[pos - pos + 1] = c
        BY <2>2
      <4> HIDE DEF stored
      <4> QED
        BY <3>1, <4>1, <4>2
    <3> QED
      BY <3>2
  <2> HIDE DEF stored
  <2>4. pos' = pos + 1 /\ UNCHANGED <<log, recalled, status>>
    BY <1>2 DEF Type, StoreCharacter, Fits
  <2>5. CASE pos' < size
    <3>1. buf' = stored /\ size' = size /\ past \subseteq past'
      BY <2>2, <2>5 DEF StoreCharacter, Happened, stored, LineInv, TypeOK
    <3>2. size - 1 \in 0 .. size - 1 /\ size - 1 # pos
      BY <2>2, <2>4, <2>5
    <3>3. buf'[size - 1] = buf[size - 1]
      BY <2>3, <3>1, <3>2
    <3>4. status' # "runaway"
      BY <1>2, <2>4 DEF Type, Reading
    <3>5. \A k \in 0 .. size - 1 : buf'[k] = buf[k] \/ buf'[k] # Junk
      BY <2>1, <2>3, <3>1
    <3>6. \A k \in 0 .. pos' - 1 : (k \in 0 .. pos - 1 /\ buf'[k] = buf[k]) \/ buf'[k] # Junk
      BY <2>1, <2>2, <2>3, <2>4, <3>1
    <3> QED
      BY <2>5, <3>1, <3>3, <3>4, <3>5, <3>6, BytesMemory
  <2>6. CASE pos' >= size
    <3>1. PICK more \in Fresh(size .. size' - 1) :
            /\ buf' = [k \in 0 .. size' - 1 |-> IF k < size THEN stored[k] ELSE more[k]]
            /\ past' = past \cup Sign("nul", c = Nul) \cup Sign("junk", Dirty(more))
      BY <2>2, <2>4, <2>6 DEF StoreCharacter, stored
    <3>2. size' = size + RlBfs /\ size' \in Nat /\ size' > size /\ pos' = size
      BY <2>2, <2>4, <2>6, LineEditorAssumption DEF StoreCharacter
    <3>3. /\ past \subseteq past'
          /\ "junk" \notin past' => \A k \in size .. size' - 1 : more[k] = Nul
      BY <3>1 DEF Sign, Dirty, Fresh
    <3>4. /\ \A k \in 0 .. size - 1 : buf'[k] = stored[k]
          /\ \A k \in size .. size' - 1 : buf'[k] = more[k]
      BY <2>2, <3>1, <3>2
    <3>5. JunkKnown'
      <4> SUFFICES ASSUME "junk" \notin past', NEW k \in 0 .. size' - 1 PROVE buf'[k] # Junk
        BY DEF JunkKnown
      <4>1. "junk" \notin past
        BY <3>3
      <4>2. CASE k < size
        <5>1. k \in 0 .. size - 1
          BY <2>2, <3>2, <4>2
        <5>2. buf[k] # Junk
          BY <4>1, <5>1 DEF MemoryInv, JunkKnown
        <5> QED
          BY <2>1, <2>3, <3>4, <5>1, <5>2
      <4>3. CASE k >= size
        <5>1. k \in size .. size' - 1
          BY <2>2, <3>2, <4>3
        <5> QED
          BY <3>3, <3>4, <5>1, NotJunk
      <4> QED
        BY <2>2, <4>2, <4>3
    <3>6. JunkBehind'
      <4> SUFFICES ASSUME "crossed" \notin past', NEW k \in 0 .. pos' - 1 PROVE buf'[k] # Junk
        BY DEF JunkBehind
      <4>1. "crossed" \notin past /\ k \in 0 .. size - 1
        BY <2>2, <3>2, <3>3
      <4>2. k # pos => buf[k] # Junk
        BY <2>2, <2>4, <4>1 DEF MemoryInv, JunkBehind
      <4> QED
        BY <2>1, <2>3, <3>4, <4>1, <4>2
    <3>7. EndKept'
      <4>1. size' - 1 \in size .. size' - 1
        BY <2>2, <3>2
      <4>2. status' # "runaway"
        BY <1>2, <2>4 DEF Type, Reading
      <4> QED
        BY <3>2, <3>3, <3>4, <4>1, <4>2 DEF EndKept
    <3> QED
      BY <3>5, <3>6, <3>7 DEF MemoryInv
  <2> QED
    BY <2>2, <2>4, <2>5, <2>6
<1> QED
  BY <1>1, <1>2

(* n bytes at p, at or before the position here, with the next position    *)
(* among them or at their end.                                             *)
Placed(p, n, here, next, top) ==
  /\ p \in Nat /\ n \in Nat /\ here \in Nat /\ next \in Nat /\ top \in Nat
  /\ p <= here /\ p + n <= top /\ next <= p + n

LEMMA WithinOrBefore ==
  ASSUME NEW p, NEW n, NEW here, NEW next, NEW top, Placed(p, n, here, next, top)
  PROVE  \A k \in 0 .. next - 1 : k \in 0 .. top - 1 /\ (k \in p .. p + n - 1 \/ k \in 0 .. here - 1)
BY DEF Placed

(* The same for a string without junk that is stored at or before the      *)
(* cursor, which then stands in it or at its end.                          *)
Stores(s, p) ==
  /\ s \in Seq(Typed \cup {Nul}) /\ p \in Nat /\ p <= pos /\ p + Len(s) <= size
  /\ buf' = Put(s, p) /\ pos' \in Nat /\ pos' <= p + Len(s)
  /\ size' = size /\ past \subseteq past' /\ status' # "runaway"
  /\ past' \cap {"junk", "full"} = {} =>
       pos' < size /\ (p + Len(s) = size => Len(s) = 0 \/ s[Len(s)] = Nul)

LEMMA PutMemory ==
  ASSUME LineInv, MemoryInv, NEW s, NEW p, Stores(s, p)
  PROVE  MemoryInv'
<1>0. /\ s \in Seq(Typed \cup {Nul}) /\ p \in Nat /\ Fits(Len(s), p)
      /\ buf' = Put(s, p) /\ size' = size /\ past \subseteq past' /\ status' # "runaway"
  BY DEF Stores, Fits
<1>1. /\ Len(s) \in Nat /\ pos \in Nat /\ size \in Nat /\ p + Len(s) <= size /\ pos <= size
      /\ p \in Nat /\ pos' \in Nat /\ pos' <= p + Len(s) /\ p <= pos
  BY <1>0 DEF LineInv, TypeOK, Stores
<1>2. ASSUME NEW k \in p .. p + Len(s) - 1 PROVE s[k - p + 1] \in Typed \cup {Nul}
  <2>1. k - p + 1 \in 1 .. Len(s)
    BY <1>1
  <2> QED
    BY <1>0, <2>1, ElementOfSeq
<1>3. s \in Seq(Byte)
  BY <1>0, ByteTypes, SeqMonotonic DEF Byte
<1>4. \A k \in 0 .. size - 1 : buf'[k] = IF k \in p .. p + Len(s) - 1 THEN s[k - p + 1] ELSE buf[k]
  BY <1>0, <1>3, PutProperties DEF LineInv
<1>5. \A k \in 0 .. size - 1 : buf'[k] = buf[k] \/ buf'[k] # Junk
  BY <1>2, <1>4, NotJunk
<1>6. \A k \in 0 .. pos' - 1 :
        k \in 0 .. size - 1 /\ (k \in p .. p + Len(s) - 1 \/ k \in 0 .. pos - 1)
  <2>1. Placed(p, Len(s), pos, pos', size)
    BY <1>1 DEF Placed
  <2> QED
    BY <2>1, WithinOrBefore, Zenon
<1>7. \A k \in 0 .. pos' - 1 : (k \in 0 .. pos - 1 /\ buf'[k] = buf[k]) \/ buf'[k] # Junk
  <2> SUFFICES ASSUME NEW k \in 0 .. pos' - 1
               PROVE  (k \in 0 .. pos - 1 /\ buf'[k] = buf[k]) \/ buf'[k] # Junk
    OBVIOUS
  <2>1. k \in 0 .. size - 1 /\ (k \in p .. p + Len(s) - 1 \/ k \in 0 .. pos - 1)
    BY <1>6
  <2>2. CASE k \in p .. p + Len(s) - 1
    BY <1>2, <1>4, <2>1, <2>2, NotJunk
  <2>3. CASE k \notin p .. p + Len(s) - 1
    BY <1>4, <2>1, <2>3
  <2> QED
    BY <2>2, <2>3
<1>8. past \cap {"junk", "full"} = {} /\ past' \cap {"junk", "full"} = {} =>
        pos' < size /\ (buf'[size - 1] = buf[size - 1] \/ buf'[size - 1] = Nul)
  <2> SUFFICES ASSUME past' \cap {"junk", "full"} = {}
               PROVE  pos' < size /\ (buf'[size - 1] = buf[size - 1] \/ buf'[size - 1] = Nul)
    OBVIOUS
  <2>1. /\ pos' < size /\ size - 1 \in 0 .. size - 1
        /\ p + Len(s) = size => Len(s) = 0 \/ s[Len(s)] = Nul
    BY <1>1 DEF Stores
  <2>2. CASE size - 1 \in p .. p + Len(s) - 1
    <3>1. p + Len(s) = size /\ Len(s) # 0 /\ (size - 1) - p + 1 = Len(s)
      BY <1>1, <2>1, <2>2
    <3> QED
      BY <1>4, <2>1, <2>2, <3>1
  <2>3. CASE size - 1 \notin p .. p + Len(s) - 1
    BY <1>4, <2>1, <2>3
  <2> QED
    BY <2>1, <2>2, <2>3
<1> QED
  BY <1>0, <1>5, <1>7, <1>8, BytesMemory

LEMMA NulString == <<Nul>> \in Seq(Typed \cup {Nul}) /\ Len(<<Nul>>) = 1 /\ <<Nul>>[1] = Nul
OBVIOUS

LEMMA EnterMemory == LineInv /\ MemoryInv /\ Enter => MemoryInv'
<1> SUFFICES ASSUME LineInv, MemoryInv, Enter PROVE MemoryInv'
  OBVIOUS
<1>1. CASE Fits(1, pos)
  <2>1. /\ buf' = Put(<<Nul>>, pos) /\ status' = "returned"
        /\ UNCHANGED <<size, pos, past>>
    BY <1>1 DEF Enter
  <2>2. pos \in Nat /\ size \in Nat /\ pos + 1 <= size
    BY <1>1 DEF LineInv, TypeOK, Fits
  <2>3. Stores(<<Nul>>, pos)
    BY <2>1, <2>2, NulString DEF Stores
  <2> QED
    BY <2>3, PutMemory
<1>2. CASE ~Fits(1, pos)
  BY <1>2, FailsMemory DEF Enter
<1> QED
  BY <1>1, <1>2

LEMMA BackspaceMemory == LineInv /\ MemoryInv /\ Backspace => MemoryInv'
<1> SUFFICES ASSUME LineInv, MemoryInv, Backspace PROVE MemoryInv'
  OBVIOUS
<1>1. CASE Ends # {}
  <2>1. /\ pos' = pos - 1 /\ buf' = Put(<<Nul>>, pos - 1) /\ past \subseteq past'
        /\ status' # "runaway" /\ size' = size
    BY <1>1 DEF Backspace, Happened, Reading
  <2>2. pos \in Nat /\ pos - 1 \in Nat /\ pos - 1 <= pos /\ size \in Nat /\ pos <= size
    BY DEF Backspace, LineInv, TypeOK
  <2>3. Stores(<<Nul>>, pos - 1)
    BY <2>1, <2>2, NulString DEF Stores
  <2> QED
    BY <2>3, PutMemory
<1>2. CASE Ends = {}
  BY <1>2, FailsMemory DEF Backspace
<1> QED
  BY <1>1, <1>2

LEMMA LeftMemory == LineInv /\ MemoryInv /\ Left => MemoryInv'
<1> SUFFICES ASSUME LineInv, MemoryInv, Left PROVE MemoryInv'
  OBVIOUS
<1>1. /\ pos \in Nat /\ size \in Nat /\ pos' = pos - 1 /\ pos > 0 /\ pos <= size
      /\ status' # "runaway" /\ UNCHANGED <<size, buf, past>>
  BY DEF Left, LineInv, TypeOK, Reading
<1>2. past \cap {"junk", "full"} = {} => pos < size
  BY DEF MemoryInv, EndKept
<1> QED
  BY <1>1, <1>2, BytesMemory

(* Right stays before the NUL, which is in the buffer.                     *)
LEMMA RightMemory == LineInv /\ MemoryInv /\ Right => MemoryInv'
<1> SUFFICES ASSUME LineInv, MemoryInv, Right PROVE MemoryInv'
  OBVIOUS
<1>1. CASE Ends # {}
  <2>1. /\ pos < strlen /\ pos' = pos + 1
        /\ past' = past \cup Sign("crossed", "junk" \in past)
        /\ status' # "runaway" /\ UNCHANGED <<size, buf>>
    BY <1>1 DEF Right, Happened, Reading
  <2>2. strlen \in 0 .. size - 1 /\ size \in Nat /\ pos \in Nat
    BY <1>1, StrlenProperties DEF LineInv, TypeOK
  <2>3. "junk" \notin past \/ "crossed" \in past'
    BY <2>1 DEF Sign
  <2>4. "junk" \notin past => \A k \in 0 .. size - 1 : buf[k] # Junk
    BY DEF MemoryInv, JunkKnown
  <2>5. pos' < size
    BY <2>1, <2>2
  <2>6. "crossed" \notin past' =>
          \A k \in 0 .. pos' - 1 : (k \in 0 .. pos - 1 /\ buf'[k] = buf[k]) \/ buf'[k] # Junk
    BY <2>1, <2>2, <2>3, <2>4, <2>5
  <2> QED
    BY <2>1, <2>5, <2>6, BytesMemory
<1>2. CASE Ends = {}
  BY <1>2, FailsMemory DEF Right
<1> QED
  BY <1>1, <1>2

LEMMA AloneMemory ==
  ASSUME LineInv, MemoryInv, size' = size, past' = past, status' # "runaway",
         NEW s \in Seq(Typed), Len(s) < size, buf' = Alone(s), pos' = Len(s)
  PROVE  MemoryInv'
<1>1. Len(s) \in Nat /\ size \in Nat
  BY DEF LineInv, TypeOK
<1>2. \A k \in 0 .. size - 1 : buf'[k] = IF k < Len(s) THEN s[k + 1] ELSE Nul
  BY DEF Alone
<1>3. \A k \in 0 .. size - 1 : k < Len(s) => s[k + 1] \in Typed
  <2> SUFFICES ASSUME NEW k \in 0 .. size - 1, k < Len(s) PROVE s[k + 1] \in Typed
    OBVIOUS
  <2>1. k + 1 \in 1 .. Len(s)
    BY <1>1
  <2> QED
    BY <2>1, ElementOfSeq
<1>4. \A k \in 0 .. size - 1 : buf'[k] # Junk
  BY <1>2, <1>3, NotJunk
<1>5. buf'[size - 1] = Nul
  BY <1>1, <1>2
<1> QED
  BY <1>1, <1>4, <1>5, BytesMemory

LEMMA RecallMemory ==
  ASSUME LineInv, MemoryInv, Reading, NEW k \in 1 .. Len(log), Recall(k)
  PROVE  MemoryInv'
<1>1. log[k] \in Seq(Typed) /\ Len(log[k]) \in Nat /\ size \in Nat
  BY LineEditorAssumption, ElementOfSeq DEF LineInv, TypeOK
<1>2. CASE Ends # {} /\ Fits(Len(log[k]) + 1, 0)
  <2>1. /\ buf' = Alone(log[k]) /\ pos' = Len(log[k])
        /\ UNCHANGED <<size, past>> /\ status' # "runaway"
    BY <1>2 DEF Recall, Reading
  <2>2. Len(log[k]) < size
    BY <1>1, <1>2 DEF Fits
  <2> QED
    BY <1>1, <2>1, <2>2, AloneMemory
<1>3. CASE ~(Ends # {} /\ Fits(Len(log[k]) + 1, 0))
  BY <1>3, FailsMemory DEF Recall
<1> QED
  BY <1>2, <1>3

LEMMA UpMemory == LineInv /\ MemoryInv /\ Up => MemoryInv'
<1> SUFFICES ASSUME LineInv, MemoryInv, Up PROVE MemoryInv'
  OBVIOUS
<1>1. recalled + 1 \in 1 .. Len(log)
  BY LineEditorAssumption DEF Up, LineInv, TypeOK
<1> QED
  BY <1>1, RecallMemory DEF Up

LEMMA DownMemory == LineInv /\ MemoryInv /\ Down => MemoryInv'
<1> SUFFICES ASSUME LineInv, MemoryInv, Down PROVE MemoryInv'
  OBVIOUS
<1>1. CASE recalled > 1 /\ Recall(recalled - 1)
  <2>1. recalled - 1 \in 1 .. Len(log)
    BY <1>1, LineEditorAssumption DEF LineInv, TypeOK
  <2> QED
    BY <1>1, <2>1, RecallMemory DEF Down
<1>2. CASE DownToEmpty /\ Ends # {}
  <2>1. /\ buf' = Alone(<<>>) /\ pos' = 0 /\ status' # "runaway"
        /\ UNCHANGED <<size, past>>
    BY <1>2 DEF DownToEmpty, MayOverrun
  <2>2. <<>> \in Seq(Typed) /\ Len(<<>>) = 0
    BY EmptySeq
  <2>3. 0 < size
    BY <1>2 DEF Ends, LineInv, TypeOK
  <2> QED
    BY <2>1, <2>2, <2>3, AloneMemory
<1>3. CASE DownToEmpty /\ Ends = {}
  BY <1>3, FailsMemory DEF DownToEmpty
<1> QED
  BY <1>1, <1>2, <1>3 DEF Down

LEMMA TabSpacesMemory == LineInv /\ MemoryInv /\ TabSpaces => MemoryInv'
<1> SUFFICES ASSUME LineInv, MemoryInv, TabSpaces PROVE MemoryInv'
  OBVIOUS
<1> DEFINE s == [k \in 1 .. Indent |-> Space]
<1>1. CASE ~Fits(Indent, pos)
  BY <1>1, FailsMemory DEF TabSpaces
<1>2. CASE Fits(Indent, pos)
  <2>1. /\ pos' = pos + Indent /\ buf' = Put(s, pos) /\ size' = size
        /\ past \subseteq past' /\ (pos' = size => "full" \in past')
        /\ status' # "runaway"
    BY <1>2 DEF TabSpaces, Happened, Sign, Reading
  <2>2. Indent \in Nat /\ pos \in Nat /\ pos + Indent <= size /\ size \in Nat
    BY <1>2, LineEditorAssumption DEF LineInv, TypeOK, Fits
  <2>3. s \in Seq(Typed \cup {Nul}) /\ Len(s) = Indent
    BY <2>2, IsASeq DEF Typed
  <2> HIDE DEF s
  <2>4. Stores(s, pos)
    BY <2>1, <2>2, <2>3 DEF Stores
  <2> QED
    BY <2>4, PutMemory
<1> QED
  BY <1>1, <1>2

(* A completion in memory without junk makes a line of what may be typed.  *)
LEMMA CompleteMemory ==
  ASSUME LineInv, MemoryInv, Reading,
         NEW s \in Seq(Full), "junk" \notin past => s \in Seq(Typed), Complete(s)
  PROVE  MemoryInv'
<1>1. CASE ~Fits(Len(s) + 1, 0)
  BY <1>1, FailsMemory DEF Complete
<1>2. CASE Fits(Len(s) + 1, 0)
  <2>1. /\ buf' = Put(Append(s, Nul), 0) /\ pos' = Len(s) /\ size' = size
        /\ status' # "runaway"
        /\ past' = past \cup Sign("crossed", "junk" \in past)
    BY <1>2 DEF Complete, MayOverrun, Happened
  <2>2. Len(s) \in Nat /\ Len(s) + 1 <= size /\ size \in Nat /\ pos \in Nat
    BY <1>2 DEF Fits, LineInv, TypeOK
  <2>3. CASE "junk" \in past
    BY <2>1, <2>3 DEF Sign, MemoryInv, JunkKnown, JunkBehind, EndKept
  <2>4. CASE "junk" \notin past
    <3> DEFINE t == Append(s, Nul)
    <3>1. t \in Seq(Typed \cup {Nul}) /\ Len(t) = Len(s) + 1 /\ t[Len(t)] = Nul
      <4>1. s \in Seq(Typed \cup {Nul}) /\ Nul \in Typed \cup {Nul}
        BY <2>4, SeqMonotonic
      <4> QED
        BY <4>1, AppendProperties
    <3> HIDE DEF t
    <3>2. Stores(t, 0)
      BY <2>1, <2>2, <3>1 DEF Stores, t
    <3> QED
      BY <3>2, PutMemory
  <2> QED
    BY <2>3, <2>4
<1> QED
  BY <1>1, <1>2

LEMMA TextWithoutJunk ==
  ASSUME LineInv, MemoryInv, Ends # {}, "junk" \notin past
  PROVE  Text \in Seq(Typed)
<1>1. Text \in Seq(Full) /\ Len(Text) = strlen
  BY TextProperties DEF LineInv
<1>2. strlen \in 0 .. size - 1 /\ \A k \in 0 .. strlen - 1 : buf[k] \in Full
  BY StrlenProperties DEF LineInv
<1>3. \A k \in 0 .. size - 1 : buf[k] # Junk
  BY DEF MemoryInv, JunkKnown
<1>4. size \in Nat
  BY DEF LineInv, TypeOK
<1>5. \A k \in 1 .. strlen : buf[k - 1] \in Typed
  <2> TAKE k \in 1 .. strlen
  <2>1. k - 1 \in 0 .. strlen - 1 /\ k - 1 \in 0 .. size - 1
    BY <1>2, <1>4
  <2> QED
    BY <1>2, <1>3, <2>1, NotJunk
<1>6. Text \in [1 .. strlen -> Typed]
  BY <1>5 DEF Text
<1> QED
  BY <1>2, <1>6, SeqDef

LEMMA TabCompletesMemory == LineInv /\ MemoryInv /\ TabCompletes => MemoryInv'
<1> SUFFICES ASSUME LineInv, MemoryInv, TabCompletes PROVE MemoryInv'
  OBVIOUS
<1>1. CASE Ends = {}
  BY <1>1, FailsMemory DEF TabCompletes
<1>2. CASE Ends # {} /\ Fails("index")
  BY <1>2, FailsMemory
<1>3. CASE Ends # {} /\ ~Fails("index")
  <2>1. PICK s \in completionOf(LastWord(Text)) :
          Complete(SubSeq(Text, 1, strlen - Len(LastWord(Text))) \o s)
    BY <1>3 DEF TabCompletes
  <2> DEFINE line == SubSeq(Text, 1, strlen - Len(LastWord(Text))) \o s
  <2>2. line \in Seq(Full)
    <3>1. Text \in Seq(Full) /\ Letters \subseteq Full
      BY <1>3, TextProperties, ByteTypes DEF LineInv
    <3> QED
      BY <1>3, <3>1, CompletedProperties DEF LineInv
  <2>3. "junk" \notin past => line \in Seq(Typed)
    <3> SUFFICES ASSUME "junk" \notin past PROVE line \in Seq(Typed)
      OBVIOUS
    <3>1. Text \in Seq(Typed) /\ Letters \subseteq Typed
      BY <1>3, TextWithoutJunk DEF Typed
    <3> QED
      BY <1>3, <3>1, CompletedProperties DEF LineInv
  <2>4. Reading /\ Complete(line)
    BY <2>1 DEF TabCompletes
  <2> HIDE DEF line
  <2> QED
    BY <2>2, <2>3, <2>4, CompleteMemory
<1> QED
  BY <1>1, <1>2, <1>3

LEMMA NextMemory == LineInv /\ MemoryInv /\ [Next]_vars => MemoryInv'
BY StutterMemory, TypeMemory, EnterMemory, BackspaceMemory, LeftMemory, RightMemory,
   UpMemory, DownMemory, TabSpacesMemory, TabCompletesMemory
   DEF Next, Done

LEMMA LineAndMemory == Spec => [](LineInv /\ MemoryInv)
BY InitLineInv, InitMemory, NextLineInv, NextMemory, PTL DEF Spec

(* In memory that was clear no string function runs off the buffer, unless *)
(* a tab has filled it.                                                    *)
THEOREM StringsHaveEnds == Spec => []StringsEnd
<1>1. MemoryInv => StringsEnd
  BY DEF MemoryInv, EndKept, StringsEnd
<1> QED
  BY LineAndMemory, <1>1, PTL

(* What the memory held before is not returned, unless Right or Tab went   *)
(* through it.                                                             *)
THEOREM ReturnsWhatWasTyped == Spec => []NoJunkReturned
<1>1. MemoryInv => NoJunkReturned
  BY DEF MemoryInv, JunkBehind, NoJunkReturned
<1> QED
  BY LineAndMemory, <1>1, PTL

-----------------------------------------------------------------------------
(* The character that is no letter.                                        *)

(* The trie wanders off at a character of the last word, which has no      *)
(* space.                                                                  *)
LEMMA WandersProperties ==
  ASSUME LineInv, Ends # {}, Wanders(LastWord(Text))
  PROVE  \E k \in 0 .. strlen - 1 : buf[k] \in {Other, Junk}
<1>1. Text \in Seq(Full) /\ Len(Text) = strlen /\ strlen \in 0 .. size - 1
  BY TextProperties, StrlenProperties DEF LineInv
<1> DEFINE word == LastWord(Text)
<1>2. /\ word \in Seq(Full)
      /\ \A k \in 1 .. Len(word) :
           word[k] # Space /\ \E j \in 1 .. Len(Text) : word[k] = Text[j]
  BY <1>1, LastWordProperties
<1>3. PICK k \in DOMAIN word : word[k] \notin Letters
  BY DEF Wanders
<1>4. k \in 1 .. Len(word)
  BY <1>2, <1>3, LenProperties
<1>5. word[k] \in Full /\ word[k] # Space
  BY <1>2, <1>4, ElementOfSeq
<1>6. word[k] \in {Other, Junk}
  BY <1>3, <1>5 DEF Full, Byte, Typed
<1>7. PICK j \in 1 .. strlen : word[k] = Text[j]
  BY <1>1, <1>2, <1>4
<1>8. j - 1 \in 0 .. strlen - 1 /\ Text[j] = buf[j - 1]
  BY <1>1 DEF Text
<1> QED
  BY <1>6, <1>7, <1>8

LEMMA InitIndex == Init => IndexOnlyByOther
BY DEF Init, IndexOnlyByOther

LEMMA FailsIndex ==
  ASSUME LineInv, IndexOnlyByOther, Reading, NEW why, Fails(why),
         why = "index" => Ends # {} /\ Wanders(LastWord(Text))
  PROVE  IndexOnlyByOther'
<1>1. status' = why /\ UNCHANGED <<size, buf>>
  BY DEF Fails
<1>2. CASE why = "index"
  <2>1. \E k \in 0 .. strlen - 1 : buf[k] \in {Other, Junk}
    BY <1>2, WandersProperties
  <2>2. strlen' = strlen
    BY <1>1 DEF strlen, Ends
  <2> QED
    BY <1>1, <2>1, <2>2 DEF IndexOnlyByOther
<1>3. CASE why # "index"
  BY <1>1, <1>3 DEF IndexOnlyByOther
<1> QED
  BY <1>2, <1>3

LEMMA NextIndex == LineInv /\ IndexOnlyByOther /\ [Next]_vars => IndexOnlyByOther'
<1> SUFFICES ASSUME LineInv, IndexOnlyByOther, [Next]_vars PROVE IndexOnlyByOther'
  OBVIOUS
<1>1. CASE UNCHANGED vars
  BY <1>1 DEF vars, IndexOnlyByOther, strlen, Ends
<1>2. CASE Reading /\ Fails("index")
  <2>1. TabCompletes
    BY <1>2 DEF Next, Fails, Done, Reading, Type, Enter, Backspace, Left, Right, Up, Down,
                Recall, DownToEmpty, TabSpaces, MayOverrun, vars
  <2>2. Ends # {} /\ Wanders(LastWord(Text))
    BY <1>2, <2>1 DEF TabCompletes, Fails, Complete, MayOverrun
  <2> QED
    BY <1>2, <2>2, FailsIndex
<1>3. CASE Reading /\ ~Fails("index")
  <2>1. status' # "index"
    BY <1>3 DEF Next, vars, Fails, Done, Reading, Type, Enter, Backspace, Left, Right, Up, Down,
                Recall, DownToEmpty, TabSpaces, TabCompletes, Complete, MayOverrun
  <2> QED
    BY <2>1 DEF IndexOnlyByOther
<1>4. CASE ~Reading
  BY <1>1, <1>4 DEF Next, Done, Type, Enter, Backspace, Left, Right, Up, Down, TabSpaces, TabCompletes
<1> QED
  BY <1>1, <1>2, <1>3, <1>4

(* The trie is asked for a character that is no letter only when one that  *)
(* is neither a letter nor a space is in the line.                         *)
THEOREM IndexedByOther == Spec => []IndexOnlyByOther
BY InitLineInv, NextLineInv, InitIndex, NextIndex, PTL DEF Spec

-----------------------------------------------------------------------------
(* The line that EditedLine promises.                                      *)

EndsOf(b, n) == {k \in 0 .. n - 1 : b[k] = Nul}
TextOf(b, n) == [k \in 1 .. Min(EndsOf(b, n)) |-> b[k - 1]]

LEMMA TextIsTextOf ==
  /\ Ends = EndsOf(buf, size) /\ Text = TextOf(buf, size)
  /\ Text' = TextOf(buf', size')
BY DEF Ends, EndsOf, Text, TextOf, strlen

(* A string, and the first NUL behind it.                                  *)
Spells(b, n, s) ==
  /\ s \in Seq(Typed) /\ n \in Nat /\ Len(s) < n /\ b[Len(s)] = Nul
  /\ \A k \in 0 .. Len(s) - 1 : b[k] = s[k + 1]

LEMMA SpellsText ==
  ASSUME NEW b, NEW n, NEW s, Spells(b, n, s)
  PROVE  EndsOf(b, n) # {} /\ Min(EndsOf(b, n)) = Len(s) /\ TextOf(b, n) = s
<1>1. s \in Seq(Typed) /\ Len(s) \in Nat /\ n \in Nat /\ Len(s) < n
  BY LenProperties DEF Spells
<1>2. ASSUME NEW k \in 0 .. Len(s) - 1 PROVE b[k] # Nul
  <2>1. k + 1 \in 1 .. Len(s)
    BY <1>1
  <2>2. s[k + 1] \in Typed
    BY <1>1, <2>1, ElementOfSeq
  <2> QED
    BY <2>2, NotJunk DEF Spells
<1>3. Len(s) \in EndsOf(b, n) /\ EndsOf(b, n) \in SUBSET Nat
  BY <1>1 DEF EndsOf, Spells
<1>4. /\ Min(EndsOf(b, n)) \in EndsOf(b, n)
      /\ Min(EndsOf(b, n)) <= Len(s)
  BY <1>3, MinProperties
<1>5. Min(EndsOf(b, n)) = Len(s)
  BY <1>1, <1>2, <1>3, <1>4 DEF EndsOf
<1>6. TextOf(b, n) = [k \in 1 .. Len(s) |-> b[k - 1]]
  BY <1>5 DEF TextOf
<1>7. \A k \in 1 .. Len(s) : b[k - 1] = s[k]
  <2> TAKE k \in 1 .. Len(s)
  <2>1. k - 1 \in 0 .. Len(s) - 1 /\ (k - 1) + 1 = k
    BY <1>1
  <2> QED
    BY <2>1 DEF Spells
<1>8. s \in [1 .. Len(s) -> Typed]
  BY <1>1, LenProperties
<1>9. TextOf(b, n) = s
  BY <1>6, <1>7, <1>8
<1> QED
  BY <1>3, <1>5, <1>9

(* The buffer holds a line, and behind it nothing.                         *)
Holds(b, n, s) ==
  /\ s \in Seq(Typed) /\ n \in Nat /\ Len(s) < n
  /\ \A k \in 0 .. n - 1 : b[k] = IF k < Len(s) THEN s[k + 1] ELSE Nul

LEMMA HoldsSpells ==
  ASSUME NEW b, NEW n, NEW s, Holds(b, n, s)
  PROVE  Spells(b, n, s)
<1>1. Len(s) \in Nat /\ n \in Nat /\ Len(s) < n
  BY LenProperties DEF Holds
<1> QED
  BY <1>1 DEF Holds, Spells

(* What is stored over a line, from position c on.                         *)
Over(t, c, s) == SubSeq(t, 1, c) \o s \o SubSeq(t, c + Len(s) + 1, Len(t))

LEMMA OverProperties ==
  ASSUME NEW S, NEW t \in Seq(S), NEW c \in 0 .. Len(t), NEW s \in Seq(S)
  PROVE  /\ Over(t, c, s) \in Seq(S)
         /\ Len(Over(t, c, s)) = IF c + Len(s) < Len(t) THEN Len(t) ELSE c + Len(s)
         /\ \A k \in 1 .. Len(Over(t, c, s)) :
              Over(t, c, s)[k] = IF k \in c + 1 .. c + Len(s) THEN s[k - c] ELSE t[k]
<1>1. Len(t) \in Nat /\ Len(s) \in Nat /\ c \in Nat /\ c <= Len(t)
  BY LenProperties
<1> DEFINE before == SubSeq(t, 1, c)
           behind == SubSeq(t, c + Len(s) + 1, Len(t))
           m == IF c + Len(s) < Len(t) THEN Len(t) - (c + Len(s)) ELSE 0
<1>2. before \in Seq(S) /\ Len(before) = c /\ \A k \in 1 .. c : before[k] = t[k]
  <2>1. \A k \in 1 .. c : t[k] \in S
    BY <1>1, ElementOfSeq
  <2>2. /\ before \in Seq(S)
        /\ Len(before) = IF 1 <= c THEN c - 1 + 1 ELSE 0
        /\ \A k \in 1 .. c - 1 + 1 : before[k] = t[1 + k - 1]
    BY <1>1, <2>1, SubSeqProperties
  <2> HIDE DEF before
  <2> QED
    BY <1>1, <2>2
<1>3. /\ behind \in Seq(S) /\ Len(behind) = m
      /\ \A k \in 1 .. m : behind[k] = t[c + Len(s) + k]
  <2>1. \A k \in c + Len(s) + 1 .. Len(t) : t[k] \in S
    <3> TAKE k \in c + Len(s) + 1 .. Len(t)
    <3>1. k \in 1 .. Len(t)
      BY <1>1
    <3> QED
      BY <3>1, ElementOfSeq
  <2>2. /\ behind \in Seq(S)
        /\ Len(behind) = IF c + Len(s) + 1 <= Len(t) THEN Len(t) - (c + Len(s) + 1) + 1 ELSE 0
        /\ \A k \in 1 .. Len(t) - (c + Len(s) + 1) + 1 : behind[k] = t[(c + Len(s) + 1) + k - 1]
    BY <1>1, <2>1, SubSeqProperties
  <2> HIDE DEF behind
  <2> QED
    BY <1>1, <2>2
<1>7. /\ m \in Nat
      /\ (c + Len(s)) + m = IF c + Len(s) < Len(t) THEN Len(t) ELSE c + Len(s)
  <2> HIDE DEF before, behind
  <2>1. CASE c + Len(s) < Len(t)
    BY <1>1, <2>1
  <2>2. CASE ~(c + Len(s) < Len(t))
    BY <1>1, <2>2
  <2> QED
    BY <2>1, <2>2
<1> HIDE DEF before, behind, m
<1>4. /\ before \o s \in Seq(S) /\ Len(before \o s) = c + Len(s)
      /\ \A k \in 1 .. c + Len(s) : (before \o s)[k] = IF k <= c THEN before[k] ELSE s[k - c]
  BY <1>2, ConcatProperties
<1> DEFINE start == before \o s
<1> HIDE DEF start
<1>5. /\ start \o behind \in Seq(S) /\ Len(start \o behind) = (c + Len(s)) + m
      /\ \A k \in 1 .. (c + Len(s)) + m :
           (start \o behind)[k] = IF k <= c + Len(s) THEN start[k] ELSE behind[k - (c + Len(s))]
  BY <1>3, <1>4, ConcatProperties DEF start
<1>6. Over(t, c, s) = start \o behind
  BY DEF Over, start, before, behind
<1>8. ASSUME NEW k \in 1 .. (c + Len(s)) + m
      PROVE  (start \o behind)[k] = IF k \in c + 1 .. c + Len(s) THEN s[k - c] ELSE t[k]
  <2>1. CASE k <= c
    BY <1>1, <1>2, <1>4, <1>5, <1>7, <2>1 DEF start
  <2>2. CASE k > c /\ k <= c + Len(s)
    BY <1>1, <1>4, <1>5, <1>7, <2>2 DEF start
  <2>3. CASE k > c + Len(s)
    <3>1. k - (c + Len(s)) \in 1 .. m /\ (c + Len(s)) + (k - (c + Len(s))) = k
      BY <1>1, <1>7, <2>3
    <3>2. (start \o behind)[k] = behind[k - (c + Len(s))]
      BY <1>1, <1>5, <1>7, <2>3
    <3>3. k \notin c + 1 .. c + Len(s)
      BY <1>1, <2>3
    <3> QED
      BY <1>3, <3>1, <3>2, <3>3
  <2>4. k <= c \/ (k > c /\ k <= c + Len(s)) \/ k > c + Len(s)
    BY <1>1, <1>7
  <2> QED
    BY <2>1, <2>2, <2>3, <2>4, Zenon
<1> QED
  BY <1>5, <1>6, <1>7, <1>8

(* The same in the buffer, which may have grown by clear memory.           *)
LEMMA OverHolds ==
  ASSUME NEW b, NEW n, NEW t, Holds(b, n, t),
         NEW c \in 0 .. Len(t), NEW s \in Seq(Typed),
         NEW n2 \in Nat, n <= n2, c + Len(s) < n2, NEW b2,
         \A k \in 0 .. n2 - 1 :
           b2[k] = IF k \in c .. c + Len(s) - 1 THEN s[k - c + 1] ELSE IF k < n THEN b[k] ELSE Nul
  PROVE  Holds(b2, n2, Over(t, c, s))
<1> DEFINE new == Over(t, c, s)
<1>1. /\ t \in Seq(Typed) /\ Len(t) \in Nat /\ Len(s) \in Nat /\ n \in Nat /\ Len(t) < n
      /\ c \in Nat /\ c <= Len(t)
  BY LenProperties DEF Holds
<1>2. /\ new \in Seq(Typed)
      /\ Len(new) = IF c + Len(s) < Len(t) THEN Len(t) ELSE c + Len(s)
      /\ \A k \in 1 .. Len(new) : new[k] = IF k \in c + 1 .. c + Len(s) THEN s[k - c] ELSE t[k]
  BY <1>1, OverProperties
<1> HIDE DEF new
<1>3. Len(new) < n2 /\ Len(new) \in Nat
  BY <1>1, <1>2
<1>4. ASSUME NEW k \in 0 .. n2 - 1 PROVE b2[k] = IF k < Len(new) THEN new[k + 1] ELSE Nul
  <2>1. CASE k \in c .. c + Len(s) - 1
    <3>1. k + 1 \in 1 .. Len(new) /\ k + 1 \in c + 1 .. c + Len(s) /\ k < Len(new)
      BY <1>1, <1>2, <2>1
    <3>2. new[k + 1] = s[(k + 1) - c] /\ (k + 1) - c = k - c + 1
      BY <1>1, <1>2, <2>1, <3>1
    <3> QED
      BY <2>1, <3>1, <3>2
  <2>2. CASE k \notin c .. c + Len(s) - 1 /\ k < Len(t)
    <3>1. k + 1 \in 1 .. Len(new) /\ k + 1 \notin c + 1 .. c + Len(s) /\ k < Len(new) /\ k < n
      BY <1>1, <1>2, <2>2
    <3>2. new[k + 1] = t[k + 1]
      BY <1>2, <3>1
    <3>3. b2[k] = b[k] /\ k \in 0 .. n - 1
      BY <1>1, <2>2, <3>1
    <3>4. b[k] = t[k + 1]
      BY <2>2, <3>3 DEF Holds
    <3> QED
      BY <3>1, <3>2, <3>3, <3>4
  <2>3. CASE k \notin c .. c + Len(s) - 1 /\ k >= Len(t)
    <3>1. ~(k < Len(new))
      BY <1>1, <1>2, <2>3
    <3>2. k < n => k \in 0 .. n - 1 /\ b[k] = Nul
      BY <1>1, <2>3 DEF Holds
    <3> QED
      BY <2>3, <3>1, <3>2
  <2> QED
    BY <1>1, <2>1, <2>2, <2>3
<1>5. Holds(b2, n2, new)
  BY <1>2, <1>3, <1>4 DEF Holds
<1> QED
  BY <1>5 DEF new
(* As long as the promise holds the buffer is the line and clear memory.   *)
KeptInv == past = {} /\ Reading => Holds(buf, size, Text)

Keeping == LineInv /\ KeptInv /\ Reading /\ past = {}

LEMMA KeepingLine ==
  ASSUME Keeping
  PROVE  /\ Holds(buf, size, Text) /\ Text \in Seq(Typed)
         /\ size \in Nat /\ Len(Text) \in Nat /\ Len(Text) < size
         /\ Ends # {} /\ strlen = Len(Text)
         /\ pos \in 0 .. Len(Text)
         /\ \A k \in 1 .. Len(Text) : Text[k] = buf[k - 1]
         /\ Kept
<1>1. Holds(buf, size, Text)
  BY DEF Keeping, KeptInv
<1>2. /\ Text \in Seq(Typed) /\ Len(Text) \in Nat /\ size \in Nat /\ Len(Text) < size
  BY <1>1, LenProperties DEF Holds
<1>3. Ends # {} /\ strlen = Len(Text)
  BY <1>1, HoldsSpells, SpellsText, TextIsTextOf DEF strlen
<1>4. buf[Len(Text)] = Nul
  BY <1>1, <1>2 DEF Holds
<1>5. pos \in 0 .. Len(Text)
  BY <1>2, <1>4 DEF Keeping, LineInv, TypeOK, Inside
<1>6. ASSUME NEW k \in 1 .. Len(Text) PROVE Text[k] = buf[k - 1]
  <2>1. k - 1 \in 0 .. size - 1 /\ k - 1 < Len(Text) /\ (k - 1) + 1 = k
    BY <1>2
  <2> QED
    BY <1>1, <2>1 DEF Holds
<1>7. Kept
  BY DEF Keeping, Kept, Reading
<1> QED
  BY <1>1, <1>2, <1>3, <1>5, <1>6, <1>7

(* The next line and its cursor, while it is read.                         *)
Becomes(s, c) ==
  Holds(buf', size', s) /\ pos' = c /\ UNCHANGED <<log, status, past>>

LEMMA BecomesLine ==
  ASSUME Keeping, NEW s, NEW c, Becomes(s, c)
  PROVE  /\ KeptInv' /\ Kept' /\ Text' = s
         /\ UNCHANGED recalled => Promise!LineIs(s, c)
<1>1. Text' = s
  BY HoldsSpells, SpellsText, TextIsTextOf DEF Becomes
<1>2. Kept /\ Kept'
  BY DEF Keeping, Becomes, Kept, Reading
<1>3. KeptInv'
  BY <1>1 DEF KeptInv, Becomes
<1> QED
  BY <1>1, <1>2, <1>3 DEF Becomes, Promise!LineIs

(* Characters and the spaces of a tab.                                     *)
LEMMA OverIsOverwrite ==
  ASSUME Keeping, NEW s, Becomes(Over(Text, pos, s), pos + Len(s)), UNCHANGED recalled
  PROVE  Promise!Overwrite(s) /\ KeptInv'
<1>1. Promise!LineIs(Over(Text, pos, s), pos + Len(s)) /\ KeptInv'
  BY BecomesLine
<1>2. Kept
  BY KeepingLine
<1> QED
  BY <1>1, <1>2 DEF Promise!Overwrite, Over

LEMMA TypeKept ==
  ASSUME Keeping, Type, Kept'
  PROVE  Promise!Type /\ KeptInv'
<1>1. /\ Holds(buf, size, Text) /\ size \in Nat /\ pos \in 0 .. Len(Text)
      /\ Len(Text) \in Nat /\ Len(Text) < size /\ TypeOK
  BY KeepingLine DEF Keeping, LineInv
<1>2. PICK c \in Typed : StoreCharacter(c) /\ UNCHANGED <<log, recalled, status>>
  <2>1. PICK c \in Typed \cup {Nul} : StoreCharacter(c) /\ UNCHANGED <<log, recalled, status>>
    BY DEF Type, Fails, Kept
  <2>2. c # Nul
    BY <2>1 DEF StoreCharacter, Happened, Sign, Kept
  <2> QED
    BY <2>1, <2>2
<1>3. pos \in Nat /\ pos + 1 <= size /\ pos' = pos + 1 /\ past' = past
  BY <1>1, <1>2 DEF StoreCharacter, Kept, Keeping
<1> DEFINE s == <<c>>
<1>4. s \in Seq(Byte) /\ s \in Seq(Typed) /\ Len(s) = 1 /\ Fits(Len(s), pos)
  BY <1>3, ByteTypes DEF Fits
<1> HIDE DEF s
<1> DEFINE stored == Put(s, pos)
<1>5. \A k \in 0 .. size - 1 :
        stored[k] = IF k \in pos .. pos + Len(s) - 1 THEN s[k - pos + 1] ELSE buf[k]
  BY <1>1, <1>3, <1>4, PutProperties
<1> HIDE DEF stored
<1>6. /\ size' \in Nat /\ size <= size' /\ pos + Len(s) < size'
      /\ \A k \in 0 .. size' - 1 :
           buf'[k] = IF k \in pos .. pos + Len(s) - 1 THEN s[k - pos + 1]
                     ELSE IF k < size THEN buf[k] ELSE Nul
  <2>1. CASE pos' < size
    <3>1. buf' = stored /\ size' = size
      BY <1>2, <1>3, <2>1, <1>1 DEF StoreCharacter, stored, s
    <3>2. pos + Len(s) < size'
      BY <1>3, <1>4, <2>1, <3>1
    <3>3. \A k \in 0 .. size' - 1 : k < size
      BY <1>1, <3>1
    <3> QED
      BY <1>1, <1>5, <3>1, <3>2, <3>3
  <2>2. CASE pos' >= size
    <3>1. PICK more \in Fresh(size .. size' - 1) :
            /\ buf' = [k \in 0 .. size' - 1 |-> IF k < size THEN stored[k] ELSE more[k]]
            /\ past' = past \cup Sign("nul", c = Nul) \cup Sign("junk", Dirty(more))
      BY <1>1, <1>2, <1>3, <2>2 DEF StoreCharacter, stored, s
    <3>2. size' = size + RlBfs /\ size' \in Nat /\ size < size' /\ pos + 1 = size
      BY <1>1, <1>2, <1>3, <2>2, LineEditorAssumption DEF StoreCharacter
    <3>3. \A k \in size .. size' - 1 : more[k] = Nul
      BY <3>1, <1>3 DEF Sign, Dirty, Fresh, Keeping
    <3>4. ASSUME NEW k \in 0 .. size' - 1
          PROVE  buf'[k] = IF k \in pos .. pos + Len(s) - 1 THEN s[k - pos + 1]
                           ELSE IF k < size THEN buf[k] ELSE Nul
      <4>1. CASE k < size
        <5>1. k \in 0 .. size - 1 /\ buf'[k] = stored[k]
          BY <1>1, <3>1, <3>2, <4>1
        <5> QED
          BY <1>5, <4>1, <5>1
      <4>2. CASE ~(k < size)
        <5>1. k \in size .. size' - 1 /\ k \notin pos .. pos + Len(s) - 1
          BY <1>1, <1>3, <1>4, <3>2, <4>2
        <5>2. buf'[k] = more[k]
          BY <3>1, <4>2
        <5> QED
          BY <3>3, <4>2, <5>1, <5>2
      <4> QED
        BY <4>1, <4>2
    <3>5. pos + Len(s) < size'
      BY <1>3, <1>4, <3>2
    <3> QED
      BY <1>1, <3>2, <3>4, <3>5
  <2> QED
    BY <1>1, <1>3, <2>1, <2>2
<1>7. Holds(buf', size', Over(Text, pos, s))
  BY <1>1, <1>4, <1>6, OverHolds
<1>8. Becomes(Over(Text, pos, s), pos + Len(s)) /\ UNCHANGED recalled
  BY <1>2, <1>3, <1>4, <1>7 DEF Becomes
<1> QED
  BY <1>2, <1>8, OverIsOverwrite DEF Promise!Type, s

LEMMA TabSpacesKept ==
  ASSUME Keeping, TabSpaces, Kept'
  PROVE  Promise!TabSpaces /\ KeptInv'
<1> DEFINE s == [k \in 1 .. Indent |-> Space]
<1>1. /\ Holds(buf, size, Text) /\ size \in Nat /\ pos \in 0 .. Len(Text)
      /\ Len(Text) \in Nat /\ Len(Text) < size /\ TypeOK /\ Kept /\ Text \in Seq(Typed)
      /\ strlen = Len(Text) /\ \A k \in 1 .. Len(Text) : Text[k] = buf[k - 1]
  BY KeepingLine DEF Keeping, LineInv
<1>2. s \in Seq(Typed) /\ s \in Seq(Byte) /\ Len(s) = Indent /\ Indent \in Nat
  <2>1. Indent \in Nat /\ Space \in Typed /\ Space \in Byte
    BY LineEditorAssumption, ByteTypes DEF Typed
  <2> QED
    BY <2>1, IsASeq
<1>3. /\ Fits(Indent, pos) /\ pos' = pos + Indent /\ buf' = Put(s, pos)
      /\ past' = past \cup Sign("full", pos' = size)
      /\ UNCHANGED <<size, log, recalled, status>>
      /\ Space \in Before \/ (Ends # {} /\ strlen = 0)
  BY DEF TabSpaces, Fails, Happened, Kept
<1> HIDE DEF s
<1>4. past' = past /\ pos + Len(s) < size
  <2>1. past' = {} /\ past = {}
    BY DEF Kept, Keeping
  <2>2. pos' # size
    BY <1>3, <2>1 DEF Sign
  <2>3. pos + Len(s) <= size /\ pos' = pos + Len(s)
    BY <1>2, <1>3 DEF Fits
  <2>4. pos + Len(s) \in Nat
    BY <1>1, <1>2
  <2> QED
    BY <1>1, <2>1, <2>2, <2>3, <2>4
<1>5. \A k \in 0 .. size - 1 :
        buf'[k] = IF k \in pos .. pos + Len(s) - 1 THEN s[k - pos + 1] ELSE buf[k]
  BY <1>1, <1>2, <1>3, PutProperties
<1>6. \A k \in 0 .. size - 1 :
        buf'[k] = IF k \in pos .. pos + Len(s) - 1 THEN s[k - pos + 1]
                  ELSE IF k < size THEN buf[k] ELSE Nul
  BY <1>1, <1>5
<1>7. Holds(buf', size, Over(Text, pos, s))
  <2>1. size <= size /\ pos + Len(s) < size /\ size \in Nat
    BY <1>1, <1>4
  <2> QED
    BY <1>1, <1>2, <1>6, <2>1, OverHolds
<1>8. Becomes(Over(Text, pos, s), pos + Len(s)) /\ UNCHANGED recalled
  BY <1>2, <1>3, <1>4, <1>7 DEF Becomes
<1>9. Text = <<>> \/ (pos > 0 /\ Text[pos] = Space) \/ pos = 0
  <2>1. strlen = 0 => Text = <<>>
    BY <1>1, EmptySeq
  <2>2. Space \in Before /\ pos # 0 => Text[pos] = Space
    <3>1. pos # 0 => pos \in 1 .. Len(Text)
      BY <1>1
    <3> QED
      BY <1>1, <3>1 DEF Before
  <2> QED
    BY <1>1, <1>3, <2>1, <2>2
<1>10. Promise!Overwrite(s) /\ KeptInv'
  BY <1>8, OverIsOverwrite
<1> QED
  BY <1>1, <1>9, <1>10 DEF Promise!TabSpaces, Promise!AfterBlank, s
(* One NUL. *)
LEMMA PutNulAt ==
  ASSUME TypeOK, NEW p \in Nat, p < size
  PROVE  \A k \in 0 .. size - 1 : Put(<<Nul>>, p)[k] = IF k = p THEN Nul ELSE buf[k]
<1> DEFINE one == <<Nul>>
<1>1. one \in Seq(Byte) /\ Len(one) = 1 /\ one[1] = Nul
  BY ByteTypes
<1> HIDE DEF one
<1>2. size \in Nat /\ Fits(Len(one), p)
  BY <1>1 DEF TypeOK, Fits
<1>3. \A k \in 0 .. size - 1 :
        Put(one, p)[k] = IF k \in p .. p + Len(one) - 1 THEN one[k - p + 1] ELSE buf[k]
  BY <1>1, <1>2, PutProperties
<1>4. \A k \in 0 .. size - 1 : Put(one, p)[k] = IF k = p THEN Nul ELSE buf[k]
  BY <1>1, <1>2, <1>3
<1> QED
  BY <1>4 DEF one

LEMMA EnterKept ==
  ASSUME Keeping, Enter, Kept'
  PROVE  Promise!Enter /\ KeptInv'
<1> DEFINE s == SubSeq(Text, 1, pos)
<1>1. /\ Holds(buf, size, Text) /\ size \in Nat /\ pos \in 0 .. Len(Text)
      /\ Len(Text) \in Nat /\ Len(Text) < size /\ TypeOK /\ Kept /\ Text \in Seq(Typed)
      /\ \A k \in 1 .. Len(Text) : Text[k] = buf[k - 1]
  BY KeepingLine DEF Keeping, LineInv
<1>2. /\ buf' = Put(<<Nul>>, pos) /\ status' = "returned"
      /\ UNCHANGED <<size, pos, log, recalled, past>>
  BY DEF Enter, Fails, Kept
<1>3. s \in Seq(Typed) /\ Len(s) = pos /\ \A k \in 1 .. pos : s[k] = Text[k]
  <2>1. \A k \in 1 .. pos : Text[k] \in Typed
    BY <1>1, ElementOfSeq
  <2>2. /\ s \in Seq(Typed)
        /\ Len(s) = IF 1 <= pos THEN pos - 1 + 1 ELSE 0
        /\ \A k \in 1 .. pos - 1 + 1 : s[k] = Text[1 + k - 1]
    BY <1>1, <2>1, SubSeqProperties
  <2> HIDE DEF s
  <2> QED
    BY <1>1, <2>2
<1> HIDE DEF s
<1>4. buf'[pos] = Nul /\ \A k \in 0 .. pos - 1 : buf'[k] = buf[k]
  BY <1>1, <1>2, PutNulAt
<1>5. \A k \in 0 .. pos - 1 : buf'[k] = s[k + 1]
  <2> TAKE k \in 0 .. pos - 1
  <2>1. k + 1 \in 1 .. pos /\ k + 1 \in 1 .. Len(Text) /\ (k + 1) - 1 = k
    BY <1>1
  <2> QED
    BY <1>1, <1>3, <1>4, <2>1
<1>6. Spells(buf', size', s)
  BY <1>1, <1>2, <1>3, <1>4, <1>5 DEF Spells
<1>7. Text' = s
  BY <1>6, SpellsText, TextIsTextOf
<1>8. KeptInv'
  BY <1>2 DEF KeptInv, Reading
<1> QED
  BY <1>1, <1>2, <1>7, <1>8 DEF Promise!Enter, s

LEMMA BackspaceKept ==
  ASSUME Keeping, Backspace, Kept'
  PROVE  Promise!Backspace /\ KeptInv'
<1> DEFINE s == SubSeq(Text, 1, Len(Text) - 1)
<1>1. /\ Holds(buf, size, Text) /\ size \in Nat /\ pos \in 0 .. Len(Text)
      /\ Len(Text) \in Nat /\ Len(Text) < size /\ TypeOK /\ Kept /\ Text \in Seq(Typed)
      /\ strlen = Len(Text) /\ Ends # {}
  BY KeepingLine DEF Keeping, LineInv
<1>2. /\ pos > 0 /\ pos' = pos - 1 /\ buf' = Put(<<Nul>>, pos - 1)
      /\ past' = past \cup Sign("tail", pos < strlen)
      /\ UNCHANGED <<size, log, recalled, status>>
  BY <1>1 DEF Backspace, Happened
<1>3. past' = past /\ pos = Len(Text)
  <2>1. past' = {} /\ past = {}
    BY DEF Kept, Keeping
  <2>2. ~(pos < strlen)
    BY <1>2, <2>1 DEF Sign
  <2> QED
    BY <1>1, <2>1, <2>2
<1>4. s \in Seq(Typed) /\ Len(s) = pos - 1 /\ \A k \in 1 .. pos - 1 : s[k] = Text[k]
  <2>1. \A k \in 1 .. Len(Text) - 1 : Text[k] \in Typed
    BY <1>1, ElementOfSeq
  <2>2. /\ s \in Seq(Typed)
        /\ Len(s) = IF 1 <= Len(Text) - 1 THEN Len(Text) - 1 - 1 + 1 ELSE 0
        /\ \A k \in 1 .. Len(Text) - 1 - 1 + 1 : s[k] = Text[1 + k - 1]
    BY <1>1, <2>1, SubSeqProperties
  <2> HIDE DEF s
  <2> QED
    BY <1>1, <1>2, <1>3, <2>2
<1> HIDE DEF s
<1>5. \A k \in 0 .. size - 1 : buf'[k] = IF k = pos - 1 THEN Nul ELSE buf[k]
  <2>1. pos - 1 \in Nat /\ pos - 1 < size
    BY <1>1, <1>2
  <2> QED
    BY <1>1, <1>2, <2>1, PutNulAt
<1>6. Holds(buf', size', s)
  <2>1. ASSUME NEW k \in 0 .. size - 1 PROVE buf'[k] = IF k < Len(s) THEN s[k + 1] ELSE Nul
    <3>1. buf[k] = IF k < Len(Text) THEN Text[k + 1] ELSE Nul
      BY <1>1 DEF Holds
    <3>2. k < Len(s) => k + 1 \in 1 .. pos - 1
      BY <1>1, <1>2, <1>4
    <3> QED
      BY <1>1, <1>2, <1>3, <1>4, <1>5, <3>1, <3>2
  <2>2. Len(s) < size
    BY <1>1, <1>3, <1>4
  <2> QED
    BY <1>1, <1>2, <1>4, <2>1, <2>2 DEF Holds
<1>7. Becomes(s, pos - 1) /\ UNCHANGED recalled
  BY <1>2, <1>3, <1>6 DEF Becomes
<1>8. Promise!LineIs(s, pos - 1) /\ KeptInv'
  BY <1>7, BecomesLine
<1> QED
  BY <1>1, <1>2, <1>3, <1>8 DEF Promise!Backspace, Promise!Front, s

LEMMA LeftKept ==
  ASSUME Keeping, Left
  PROVE  Promise!Left /\ KeptInv'
<1>1. Holds(buf, size, Text) /\ Kept
  BY KeepingLine
<1>2. Becomes(Text, pos - 1) /\ UNCHANGED recalled /\ pos > 0
  BY <1>1 DEF Left, Becomes
<1> QED
  BY <1>1, <1>2, BecomesLine DEF Promise!Left

LEMMA RightKept ==
  ASSUME Keeping, Right
  PROVE  Promise!Right /\ KeptInv'
<1>1. Holds(buf, size, Text) /\ Kept /\ Ends # {} /\ strlen = Len(Text)
  BY KeepingLine
<1>2. pos < Len(Text) /\ Becomes(Text, pos + 1) /\ UNCHANGED recalled
  BY <1>1 DEF Right, Becomes, Happened, Sign, Keeping
<1> QED
  BY <1>1, <1>2, BecomesLine DEF Promise!Right

(* The history. *)
LEMMA AloneHolds ==
  ASSUME Keeping, NEW s \in Seq(Typed), Len(s) < size, buf' = Alone(s), UNCHANGED size
  PROVE  Holds(buf', size', s)
<1>1. size \in Nat
  BY KeepingLine
<1> QED
  BY <1>1 DEF Holds, Alone

LEMMA RecallKept ==
  ASSUME Keeping, NEW k \in 1 .. Len(log), Recall(k), Kept'
  PROVE  Promise!Recall(k) /\ KeptInv'
<1>1. log \in Seq(Seq(Typed)) /\ Len(log) \in Nat
  BY LineEditorAssumption, LenProperties DEF Keeping, LineInv, TypeOK
<1>2. log[k] \in Seq(Typed) /\ Len(log[k]) \in Nat /\ size \in Nat
  BY <1>1, ElementOfSeq, LenProperties DEF Keeping, LineInv, TypeOK
<1>3. /\ Fits(Len(log[k]) + 1, 0) /\ buf' = Alone(log[k]) /\ pos' = Len(log[k])
      /\ recalled' = k /\ UNCHANGED <<size, log, status, past>>
  BY DEF Recall, Fails, Kept
<1>4. Len(log[k]) < size
  BY <1>2, <1>3 DEF Fits
<1>5. Becomes(log[k], Len(log[k]))
  BY <1>2, <1>3, <1>4, AloneHolds DEF Becomes
<1>6. KeptInv' /\ Text' = log[k] /\ Kept
  BY <1>5, BecomesLine, KeepingLine
<1>7. k \in 0 .. Len(log) /\ k # 0
  BY <1>1
<1> QED
  BY <1>3, <1>6, <1>7 DEF Promise!Recall, Kept

LEMMA UpKept ==
  ASSUME Keeping, Up, Kept'
  PROVE  Promise!Up /\ KeptInv'
<1>1. recalled + 1 \in 1 .. Len(log)
  BY LineEditorAssumption DEF Up, Keeping, LineInv, TypeOK
<1> QED
  BY <1>1, RecallKept DEF Up, Promise!Up

LEMMA DownKept ==
  ASSUME Keeping, Down, Kept'
  PROVE  Promise!Down /\ KeptInv'
<1>1. CASE recalled > 1 /\ Recall(recalled - 1)
  <2>1. recalled - 1 \in 1 .. Len(log) /\ recalled > 0
    BY <1>1, LineEditorAssumption DEF Keeping, LineInv, TypeOK
  <2> QED
    BY <1>1, <2>1, RecallKept DEF Promise!Down
<1>2. CASE recalled = 1 /\ DownToEmpty
  <2>1. /\ buf' = Alone(<<>>) /\ pos' = 0 /\ recalled' = 0 /\ UNCHANGED <<size, log, past>>
    BY <1>2, KeepingLine DEF DownToEmpty
  <2>2. status' = status
    BY <1>2, KeepingLine DEF DownToEmpty, MayOverrun, Kept, Keeping, Reading
  <2>3. <<>> \in Seq(Typed) /\ Len(<<>>) = 0
    BY EmptySeq
  <2>4. Len(<<>>) < size
    BY <2>3, KeepingLine
  <2>5. Becomes(<<>>, 0)
    BY <2>1, <2>2, <2>3, <2>4, AloneHolds DEF Becomes
  <2>6. KeptInv' /\ Text' = <<>> /\ Kept
    BY <2>5, BecomesLine, KeepingLine
  <2>7. 0 \in 0 .. Len(log)
    BY LineEditorAssumption, LenProperties DEF Keeping, LineInv, TypeOK
  <2>8. Promise!Recall(0)
    BY <2>1, <2>2, <2>3, <2>6, <2>7 DEF Promise!Recall, Kept
  <2> QED
    BY <1>2, <2>6, <2>8 DEF Promise!Down
<1> QED
  BY <1>1, <1>2 DEF Down
(* Completions: the last word begins behind a blank or with the line.      *)
LEMMA LastWordPlace ==
  ASSUME NEW S, NEW s \in Seq(S)
  PROVE  LET n == Len(s) - Len(LastWord(s)) IN
         /\ n \in 0 .. Len(s)
         /\ LastWord(s) = SubSeq(s, n + 1, Len(s))
         /\ n = 0 \/ s[n] = Space
<1>1. Len(s) \in Nat /\ DOMAIN s = 1 .. Len(s)
  BY LenProperties
<1>2. CASE Spaces(s) = {}
  <2>1. LastWord(s) = s /\ Len(s) - Len(s) = 0
    BY <1>1, <1>2 DEF LastWord
  <2>2. SubSeq(s, 0 + 1, Len(s)) = s
    BY SubSeqFull
  <2> QED
    BY <1>1, <2>1, <2>2
<1>3. CASE Spaces(s) # {}
  <2>1. Spaces(s) \in SUBSET (0 .. Len(s)) /\ Spaces(s) \subseteq 1 .. Len(s)
    BY <1>1 DEF Spaces
  <2> DEFINE m == Max(Spaces(s))
  <2>2. m \in 1 .. Len(s) /\ m \in Spaces(s)
    BY <1>1, <1>3, <2>1, MaxProperties
  <2>3. LastWord(s) = SubSeq(s, m + 1, Len(s))
    BY <1>3 DEF LastWord
  <2> HIDE DEF m
  <2>4. \A k \in m + 1 .. Len(s) : s[k] \in S
    BY <1>1, <2>2, ElementOfSeq
  <2>5. Len(LastWord(s)) = IF m + 1 <= Len(s) THEN Len(s) - (m + 1) + 1 ELSE 0
    BY <1>1, <2>2, <2>3, <2>4, SubSeqProperties
  <2>6. Len(LastWord(s)) = Len(s) - m
    <3>1. m \in 1 .. Len(s) /\ Len(s) \in Nat
      BY <1>1, <2>2
    <3> QED
      BY <2>5, <3>1
  <2>7. Len(s) - Len(LastWord(s)) = m
    <3>1. m \in 1 .. Len(s) /\ Len(s) \in Nat
      BY <1>1, <2>2
    <3> QED
      BY <2>6, <3>1
  <2>8. m \in 0 .. Len(s) /\ s[m] = Space
    BY <1>1, <2>2 DEF Spaces
  <2> QED
    BY <2>3, <2>7, <2>8
<1> QED
  BY <1>2, <1>3

(* A line in place of one that was no longer.                              *)
LEMMA LongerHolds ==
  ASSUME Keeping, NEW s \in Seq(Typed), Len(Text) <= Len(s), Len(s) + 1 <= size,
         buf' = Put(Append(s, Nul), 0), UNCHANGED size
  PROVE  Holds(buf', size', s)
<1> DEFINE t == Append(s, Nul)
<1>1. /\ Holds(buf, size, Text) /\ size \in Nat /\ Len(Text) \in Nat /\ Len(s) \in Nat /\ TypeOK
  BY KeepingLine, LenProperties DEF Keeping, LineInv
<1>2. s \in Seq(Byte) /\ Nul \in Byte
  BY ByteTypes, SeqMonotonic
<1>3. /\ t \in Seq(Byte) /\ Len(t) = Len(s) + 1 /\ t[Len(s) + 1] = Nul
      /\ \A k \in 1 .. Len(s) : t[k] = s[k]
  BY <1>2, AppendProperties
<1> HIDE DEF t
<1>4. Fits(Len(t), 0)
  BY <1>1, <1>3 DEF Fits
<1>5. \A k \in 0 .. size - 1 : buf'[k] = IF k \in 0 .. 0 + Len(t) - 1 THEN t[k - 0 + 1] ELSE buf[k]
  BY <1>1, <1>3, <1>4, PutProperties DEF t
<1>6. ASSUME NEW k \in 0 .. size - 1 PROVE buf'[k] = IF k < Len(s) THEN s[k + 1] ELSE Nul
  <2>1. CASE k < Len(s)
    <3>1. k + 1 \in 1 .. Len(s) /\ k \in 0 .. 0 + Len(t) - 1 /\ k - 0 + 1 = k + 1
      BY <1>1, <1>3, <2>1
    <3> QED
      BY <1>3, <1>5, <2>1, <3>1
  <2>2. CASE k = Len(s)
    <3>1. k \in 0 .. 0 + Len(t) - 1 /\ k - 0 + 1 = Len(s) + 1
      BY <1>1, <1>3, <2>2
    <3> QED
      BY <1>1, <1>3, <1>5, <2>2, <3>1
  <2>3. CASE k > Len(s)
    <3>1. k \notin 0 .. 0 + Len(t) - 1 /\ ~(k < Len(Text)) /\ ~(k < Len(s))
      BY <1>1, <1>3, <2>3
    <3>2. buf[k] = Nul
      BY <1>1, <3>1 DEF Holds
    <3> QED
      BY <1>5, <3>1, <3>2
  <2> QED
    BY <1>1, <2>1, <2>2, <2>3
<1>7. Len(s) < size
  BY <1>1
<1> QED
  BY <1>1, <1>6, <1>7 DEF Holds

(* What completionOf returns continues the word, and is a name unless it   *)
(* is the word.                                                            *)
LEMMA CompletionContinues ==
  ASSUME NEW word \in Seq(Typed), NEW s \in completionOf(word)
  PROVE  /\ s \in Seq(Typed) /\ Len(word) <= Len(s)
         /\ s = word \/ (s \in Names /\ IsPrefix(word, s))
<1>1. s \in Seq(Typed)
  BY CompletionProperties DEF Typed
<1>2. s = word \/ (s \in Names /\ IsPrefix(word, s))
  BY DEF completionOf
<1>3. Len(word) \in Nat
  BY LenProperties
<1> QED
  BY <1>1, <1>2, <1>3 DEF IsPrefix

LEMMA TabCompletesKept ==
  ASSUME Keeping, TabCompletes, Kept'
  PROVE  Promise!TabCompletes /\ KeptInv'
<1> DEFINE word == LastWord(Text)
           n == Len(Text) - Len(word)
           rest == SubSeq(Text, 1, n)
<1>1. /\ Text \in Seq(Typed) /\ Len(Text) \in Nat /\ size \in Nat /\ Ends # {}
      /\ strlen = Len(Text) /\ pos \in 0 .. Len(Text) /\ Kept
      /\ \A k \in 1 .. Len(Text) : Text[k] = buf[k - 1]
  BY KeepingLine
<1>2. PICK s \in completionOf(word) : Complete(rest \o s)
  BY <1>1 DEF TabCompletes, Fails, Kept
<1>3. /\ word \in Seq(Typed) /\ Len(word) \in Nat
      /\ \A k \in 1 .. Len(word) : word[k] # Space
  BY <1>1, LastWordProperties, LenProperties
<1>4. n \in 0 .. Len(Text) /\ word = SubSeq(Text, n + 1, Len(Text)) /\ (n = 0 \/ Text[n] = Space)
  BY <1>1, LastWordPlace
<1>5. /\ s \in Seq(Typed) /\ Len(s) \in Nat /\ Len(word) <= Len(s)
      /\ s = word \/ (s \in Names /\ IsPrefix(word, s))
  BY <1>2, <1>3, CompletionContinues, LenProperties
<1> DEFINE line == rest \o s
<1>6. line \in Seq(Typed) /\ Len(Text) <= Len(line) /\ Len(line) \in Nat
  <2>1. \A k \in 1 .. n : Text[k] \in Typed
    BY <1>1, <1>4, ElementOfSeq
  <2>2. rest \in Seq(Typed) /\ Len(rest) = IF 1 <= n THEN n - 1 + 1 ELSE 0
    BY <1>4, <2>1, SubSeqProperties
  <2>3. line \in Seq(Typed) /\ Len(line) = Len(rest) + Len(s)
    BY <1>5, <2>2, ConcatProperties
  <2> HIDE DEF line, rest, word
  <2> QED
    BY <1>1, <1>3, <1>4, <1>5, <2>2, <2>3
<1>7. rest \o word = Text
  <2>1. n + 1 - 1 = n /\ 1 \in 1 .. Len(Text) + 1 /\ n \in 1 - 1 .. Len(Text)
        /\ Len(Text) \in n .. Len(Text)
    BY <1>1, <1>4
  <2>2. rest \o SubSeq(Text, n + 1, Len(Text)) = SubSeq(Text, 1, Len(Text))
    BY <1>1, <2>1, ConcatAdjacentSubSeq
  <2>3. SubSeq(Text, 1, Len(Text)) = Text
    BY <1>1, SubSeqFull
  <2> QED
    BY <1>4, <2>2, <2>3
<1>8. /\ Len(line) + 1 <= size /\ buf' = Put(Append(line, Nul), 0) /\ pos' = Len(line)
      /\ UNCHANGED <<size, log, recalled, status, past>>
  <2> HIDE DEF line
  <2>1. Complete(line)
    BY <1>2 DEF line
  <2> QED
    BY <1>1, <1>6, <2>1 DEF Complete, Fits, Fails, MayOverrun, Happened, Kept, Keeping, Reading
<1> HIDE DEF line
<1>9. Becomes(line, Len(line)) /\ UNCHANGED recalled
  BY <1>6, <1>8, LongerHolds DEF Becomes
<1>10. Promise!LineIs(line, Len(line)) /\ KeptInv'
  BY <1>9, BecomesLine
<1>11. ~Promise!AfterBlank
  <2>1. PICK c \in Before : c # Space
    BY DEF TabCompletes
  <2>2. pos # 0 => pos \in 1 .. Len(Text)
    BY <1>1
  <2>3. pos # 0 => Text[pos] # Space
    BY <1>1, <2>1, <2>2 DEF Before
  <2>4. strlen > 0
    BY <1>1 DEF TabCompletes
  <2>5. Text # <<>>
    BY <1>1, <2>4
  <2> QED
    BY <1>1, <2>3, <2>5 DEF Promise!AfterBlank
<1>12. PICK w \in Names \cup {<<>>} :
         line = IF IsPrefix(word, w) THEN rest \o w ELSE Text
  <2>1. CASE s = word
    <3>1. IsPrefix(word, <<>>) => word = <<>>
      BY <1>3, EmptySeq DEF IsPrefix
    <3> QED
      BY <1>7, <2>1, <3>1 DEF line
  <2>2. CASE s \in Names /\ IsPrefix(word, s)
    BY <2>2 DEF line
  <2> QED
    BY <1>5, <2>1, <2>2
<1>13. \A k \in DOMAIN word : word[k] # Space
  BY <1>3, LenProperties
<1> HIDE DEF n, rest
<1>14. line = IF IsPrefix(SubSeq(Text, n + 1, Len(Text)), w) THEN SubSeq(Text, 1, n) \o w ELSE Text
  BY <1>4, <1>12 DEF rest
<1>15. \A k \in DOMAIN SubSeq(Text, n + 1, Len(Text)) : SubSeq(Text, n + 1, Len(Text))[k] # Space
  BY <1>4, <1>13
<1> HIDE DEF word
<1> QED
  BY <1>1, <1>4, <1>10, <1>11, <1>12, <1>14, <1>15
     DEF Promise!TabCompletes, Promise!IsPrefix, IsPrefix

(* Every step. *)
LEMMA InitKept == Init => KeptInv /\ Promise!Init
<1> SUFFICES ASSUME Init PROVE KeptInv /\ Promise!Init
  OBVIOUS
<1>1. /\ size \in Nat \ {0} /\ buf \in [0 .. size - 1 -> {Nul, Junk}] /\ pos = 0
      /\ log \in Logs /\ recalled = 0 /\ status = "reading"
  BY LineEditorAssumption DEF Init, Fresh
<1>2. past = {} => \A k \in 0 .. size - 1 : buf[k] = Nul
  <2>1. past = {} => ~Dirty(buf)
    BY DEF Init
  <2> QED
    BY <1>1, <2>1 DEF Dirty
<1>3. <<>> \in Seq(Typed) /\ Len(<<>>) = 0
  BY EmptySeq
<1>4. past = {} => Holds(buf, size, <<>>) /\ Text = <<>>
  <2> SUFFICES ASSUME past = {} PROVE Holds(buf, size, <<>>) /\ Text = <<>>
    OBVIOUS
  <2>1. Holds(buf, size, <<>>)
    BY <1>1, <1>2, <1>3 DEF Holds
  <2> QED
    BY <2>1, HoldsSpells, SpellsText, TextIsTextOf
<1>5. KeptInv
  BY <1>4 DEF KeptInv
<1>6. Promise!Init
  BY <1>1, <1>4 DEF Promise!Init, Kept
<1> QED
  BY <1>5, <1>6

(* What has happened is not forgotten (PastGrows), so that a promise once  *)
(* ended stays ended.                                                      *)
LEMMA NextKept ==
  LineInv /\ KeptInv /\ [Next]_vars => KeptInv' /\ [Promise!Next \/ (~Kept)']_Promise!vars
<1> SUFFICES ASSUME LineInv, KeptInv, [Next]_vars
             PROVE  KeptInv' /\ [Promise!Next \/ (~Kept)']_Promise!vars
  OBVIOUS
<1>1. CASE UNCHANGED vars
  <2>1. Text' = Text
    BY <1>1, TextIsTextOf DEF vars, Text, strlen, Ends
  <2> QED
    BY <1>1, <2>1 DEF vars, KeptInv, Reading, Promise!vars, Kept
<1>2. CASE ~Kept'
  BY <1>2 DEF Kept, KeptInv, Reading
<1>3. CASE Kept' /\ ~UNCHANGED vars
  <2>1. Keeping /\ Next
    BY <1>3, PastGrows DEF Keeping, Kept
  <2>2. ~(status = "returned") /\ Kept
    BY <2>1, KeepingLine DEF Keeping, Reading
  <2>3. ASSUME Type \/ TabSpaces \/ TabCompletes \/ Backspace \/ Left \/ Right \/ Up \/ Down \/ Enter
        PROVE  KeptInv' /\ Promise!Next
    BY <1>3, <2>1, <2>2, <2>3, TypeKept, TabSpacesKept, TabCompletesKept, BackspaceKept, LeftKept,
       RightKept, UpKept, DownKept, EnterKept
       DEF Promise!Next
  <2> QED
    BY <1>3, <2>1, <2>3 DEF Next, Done
<1> QED
  BY <1>1, <1>2, <1>3

(* As long as nothing has ended the promise the bytes do what a user       *)
(* expects of a line and a cursor, for buffers of any size, however often  *)
(* they grow, and any history.                                             *)
THEOREM ImplementsEditedLine == Spec => KeepsPromise
BY InitLineInv, NextLineInv, InitKept, NextKept, PTL DEF Spec, KeepsPromise, Promise!Spec
=============================================================================
