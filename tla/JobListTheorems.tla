-------------------------- MODULE JobListTheorems --------------------------
(***************************************************************************)
(* What the operators of JobList return, for lists of any length: the      *)
(* facts the invariance proofs of JobControl cite.                         *)
(***************************************************************************)
EXTENDS JobList, SequenceTheorems, WellFoundedInduction, TLAPS

Entry(P) == [jid : Nat, pid : P, state : JobState]

(* A scan of the list stops at an entry that matches if there is one, and  *)
(* no earlier entry matches (the loops of jobs.c return at the first).     *)
LEMMA FirstOfProperties ==
  ASSUME NEW n \in Nat, NEW I \in SUBSET (1 .. n)
  PROVE  /\ I = {} => FirstOf(I) = 0
         /\ I # {} => FirstOf(I) \in I /\ \A k \in I : FirstOf(I) <= k
<1>1. CASE I = {}
  BY <1>1 DEF FirstOf
<1>2. CASE I # {}
  <2>1. I \subseteq Nat
    OBVIOUS
  <2>2. PICK x \in I : \A y \in I : ~ (<<y, x>> \in OpToRel(<, Nat))
    BY <2>1, <1>2, NatLessThanWellFounded, WFMin
  <2>3. \A y \in I : x <= y
    <3>1. ASSUME NEW y \in I, y < x PROVE FALSE
      <4>1. <<y, x>> \in OpToRel(<, Nat)
        BY <2>1, <3>1 DEF OpToRel
      <4> QED
        BY <4>1, <2>2
    <3>2. \A y \in I : ~(y < x)
      BY <3>1
    <3> QED
      BY <2>1, <3>2
  <2>4. \E i \in I : \A k \in I : i <= k
    BY <2>3
  <2> QED
    BY <1>2, <2>4 DEF FirstOf
<1> QED
  BY <1>1, <1>2

(* Unlinking an entry shifts the later ones down and touches no other.     *)
LEMMA UnlinkProperties ==
  ASSUME NEW S, NEW list \in Seq(S), NEW i \in 1 .. Len(list)
  PROVE  /\ Unlink(list, i) \in Seq(S)
         /\ Len(Unlink(list, i)) = Len(list) - 1
         /\ \A k \in 1 .. Len(list) - 1 :
              Unlink(list, i)[k] = IF k < i THEN list[k] ELSE list[k + 1]
<1> DEFINE a == SubSeq(list, 1, i - 1)
           b == SubSeq(list, i + 1, Len(list))
<1>1. \A k \in 1 .. Len(list) : list[k] \in S
  BY ElementOfSeq
<1>2. Len(list) \in Nat
  OBVIOUS
<1>3. /\ a \in Seq(S)
      /\ Len(a) = i - 1
      /\ \A k \in 1 .. i - 1 : a[k] = list[k]
  <2>1. \A k \in 1 .. i - 1 : list[k] \in S
    BY <1>1, <1>2
  <2>2. /\ a \in Seq(S)
        /\ Len(a) = IF 1 <= i - 1 THEN i - 1 - 1 + 1 ELSE 0
        /\ \A k \in 1 .. i - 1 - 1 + 1 : a[k] = list[1 + k - 1]
    BY <2>1, <1>2, SubSeqProperties
  <2> QED
    BY <2>2, <1>2
<1>4. /\ b \in Seq(S)
      /\ Len(b) = Len(list) - i
      /\ \A k \in 1 .. Len(list) - i : b[k] = list[i + k]
  <2>1. \A k \in i + 1 .. Len(list) : list[k] \in S
    BY <1>1, <1>2
  <2>2. /\ b \in Seq(S)
        /\ Len(b) = IF i + 1 <= Len(list) THEN Len(list) - (i + 1) + 1 ELSE 0
        /\ \A k \in 1 .. Len(list) - (i + 1) + 1 : b[k] = list[i + 1 + k - 1]
    BY <2>1, <1>2, SubSeqProperties
  <2> QED
    BY <2>2, <1>2
<1>5. Unlink(list, i) = a \o b
  <2>1. i # 0
    BY <1>2
  <2>2. Unlink(list, i) = RemoveAt(list, i)
    BY <2>1 DEF Unlink
  <2> QED
    BY <2>2 DEF RemoveAt
<1> HIDE DEF a, b
<1>6. /\ a \o b \in Seq(S)
      /\ Len(a \o b) = Len(a) + Len(b)
      /\ \A k \in 1 .. Len(a) + Len(b) :
           (a \o b)[k] = IF k <= Len(a) THEN a[k] ELSE b[k - Len(a)]
  BY <1>3, <1>4, ConcatProperties
<1>7. ASSUME NEW k \in 1 .. Len(list) - 1
      PROVE  (a \o b)[k] = IF k < i THEN list[k] ELSE list[k + 1]
  <2>0. k \in 1 .. Len(a) + Len(b) /\ Len(a) = i - 1
    BY <1>2, <1>3, <1>4
  <2>1. (a \o b)[k] = IF k <= i - 1 THEN a[k] ELSE b[k - (i - 1)]
    BY <1>6, <2>0
  <2>2. CASE k < i
    BY <1>2, <1>3, <2>1, <2>2
  <2>3. CASE ~(k < i)
    <3>1. k - (i - 1) \in 1 .. Len(list) - i /\ i + (k - (i - 1)) = k + 1
      BY <1>2, <2>3
    <3>2. b[k - (i - 1)] = list[k + 1]
      BY <1>4, <3>1
    <3>3. ~(k <= i - 1)
      BY <1>2, <2>3
    <3> QED
      BY <2>1, <2>3, <3>2, <3>3
  <2> QED
    BY <2>2, <2>3
<1> QED
  BY <1>2, <1>3, <1>4, <1>5, <1>6, <1>7

-----------------------------------------------------------------------------
(* The functions of jobs.c on a list of entries.                           *)

(* add_job puts the new entry behind all others.                           *)
LEMMA AddJobProperties ==
  ASSUME NEW P, NEW list \in Seq(Entry(P)),
         NEW jid \in Nat, NEW pid \in P, NEW state \in JobState
  PROVE  /\ add_job(list, jid, pid, state) \in Seq(Entry(P))
         /\ Len(add_job(list, jid, pid, state)) = Len(list) + 1
         /\ \A i \in 1 .. Len(list) : add_job(list, jid, pid, state)[i] = list[i]
         /\ add_job(list, jid, pid, state)[Len(list) + 1] =
              [jid |-> jid, pid |-> pid, state |-> state]
<1>1. [jid |-> jid, pid |-> pid, state |-> state] \in Entry(P)
  BY DEF Entry
<1> QED
  BY <1>1, AppendProperties DEF add_job

(* Changing the state of one entry changes nothing else.                   *)
LEMMA SetStateProperties ==
  ASSUME NEW P, NEW list \in Seq(Entry(P)), NEW state \in JobState,
         NEW i \in 1 .. Len(list)
  PROVE  /\ SetState(list, i, state) \in Seq(Entry(P))
         /\ Len(SetState(list, i, state)) = Len(list)
         /\ \A k \in 1 .. Len(list) :
              /\ SetState(list, i, state)[k].jid = list[k].jid
              /\ SetState(list, i, state)[k].pid = list[k].pid
              /\ SetState(list, i, state)[k].state =
                   IF k = i THEN state ELSE list[k].state
<1> DEFINE e == [list[i] EXCEPT !.state = state]
<1>1. list[i] \in Entry(P)
  BY ElementOfSeq
<1>2. e \in Entry(P) /\ e.jid = list[i].jid /\ e.pid = list[i].pid /\ e.state = state
  BY <1>1 DEF Entry
<1>3. i # 0
  BY LenProperties
<1>4. SetState(list, i, state) = [list EXCEPT ![i] = e]
  BY <1>3 DEF SetState
<1> HIDE DEF e
<1>5. /\ [list EXCEPT ![i] = e] \in Seq(Entry(P))
      /\ Len([list EXCEPT ![i] = e]) = Len(list)
      /\ \A k \in 1 .. Len(list) :
           [list EXCEPT ![i] = e][k] = IF k = i THEN e ELSE list[k]
  BY <1>2, ExceptSeq
<1> QED
  BY <1>2, <1>4, <1>5

(* Each scan finds an entry that matches, or there is none.                *)
LEMMA ScanProperties ==
  ASSUME NEW P, NEW list \in Seq(Entry(P)), NEW jid, NEW pid
  PROVE  /\ \/ FirstOf(WithJid(list, jid)) = 0 /\ \A k \in 1 .. Len(list) : list[k].jid # jid
            \/ /\ FirstOf(WithJid(list, jid)) \in 1 .. Len(list)
               /\ list[FirstOf(WithJid(list, jid))].jid = jid
         /\ \/ FirstOf(WithPid(list, pid)) = 0 /\ \A k \in 1 .. Len(list) : list[k].pid # pid
            \/ /\ FirstOf(WithPid(list, pid)) \in 1 .. Len(list)
               /\ list[FirstOf(WithPid(list, pid))].pid = pid
<1>1. Len(list) \in Nat /\ DOMAIN list = 1 .. Len(list)
  BY LenProperties
<1>2. WithJid(list, jid) = {k \in 1 .. Len(list) : list[k].jid = jid}
  BY <1>1 DEF WithJid
<1>3. WithPid(list, pid) = {k \in 1 .. Len(list) : list[k].pid = pid}
  BY <1>1 DEF WithPid
<1>4. CASE WithJid(list, jid) # {} /\ WithPid(list, pid) # {}
  BY <1>1, <1>2, <1>3, <1>4, FirstOfProperties
<1>5. CASE WithJid(list, jid) = {} /\ WithPid(list, pid) # {}
  BY <1>1, <1>2, <1>3, <1>5, FirstOfProperties
<1>6. CASE WithJid(list, jid) # {} /\ WithPid(list, pid) = {}
  BY <1>1, <1>2, <1>3, <1>6, FirstOfProperties
<1>7. CASE WithJid(list, jid) = {} /\ WithPid(list, pid) = {}
  BY <1>1, <1>2, <1>3, <1>7, FirstOfProperties
<1> QED
  BY <1>4, <1>5, <1>6, <1>7

(* remove_job_jid unlinks one entry that matches, or leaves a list without *)
(* one as it is.                                                           *)
LEMMA RemoveJidProperties ==
  ASSUME NEW P, NEW list \in Seq(Entry(P)), NEW jid
  PROVE  /\ remove_job_jid(list, jid) \in Seq(Entry(P))
         /\ \/ /\ remove_job_jid(list, jid) = list
               /\ \A k \in 1 .. Len(list) : list[k].jid # jid
            \/ \E i \in 1 .. Len(list) :
                 list[i].jid = jid /\ remove_job_jid(list, jid) = Unlink(list, i)
<1> DEFINE f == FirstOf(WithJid(list, jid))
<1>1. \/ f = 0 /\ \A k \in 1 .. Len(list) : list[k].jid # jid
      \/ f \in 1 .. Len(list) /\ list[f].jid = jid
  BY ScanProperties
<1>2. remove_job_jid(list, jid) = Unlink(list, f)
  BY DEF remove_job_jid
<1> HIDE DEF f
<1>3. CASE f = 0 /\ \A k \in 1 .. Len(list) : list[k].jid # jid
  BY <1>2, <1>3 DEF Unlink
<1>4. CASE f \in 1 .. Len(list) /\ list[f].jid = jid
  <2>1. Unlink(list, f) \in Seq(Entry(P))
    BY <1>4, UnlinkProperties
  <2> QED
    BY <1>2, <1>4, <2>1
<1> QED
  BY <1>1, <1>3, <1>4

(* The same of remove_job_pid.                                             *)
LEMMA RemovePidProperties ==
  ASSUME NEW P, NEW list \in Seq(Entry(P)), NEW pid
  PROVE  /\ remove_job_pid(list, pid) \in Seq(Entry(P))
         /\ \/ /\ remove_job_pid(list, pid) = list
               /\ \A k \in 1 .. Len(list) : list[k].pid # pid
            \/ \E i \in 1 .. Len(list) :
                 list[i].pid = pid /\ remove_job_pid(list, pid) = Unlink(list, i)
<1> DEFINE f == FirstOf(WithPid(list, pid))
<1>1. \/ f = 0 /\ \A k \in 1 .. Len(list) : list[k].pid # pid
      \/ f \in 1 .. Len(list) /\ list[f].pid = pid
  BY ScanProperties
<1>2. remove_job_pid(list, pid) = Unlink(list, f)
  BY DEF remove_job_pid
<1> HIDE DEF f
<1>3. CASE f = 0 /\ \A k \in 1 .. Len(list) : list[k].pid # pid
  BY <1>2, <1>3 DEF Unlink
<1>4. CASE f \in 1 .. Len(list) /\ list[f].pid = pid
  <2>1. Unlink(list, f) \in Seq(Entry(P))
    BY <1>4, UnlinkProperties
  <2> QED
    BY <1>2, <1>4, <2>1
<1> QED
  BY <1>1, <1>3, <1>4

LEMMA RemoveProperties ==
  ASSUME NEW P, NEW list \in Seq(Entry(P)), NEW jid, NEW pid
  PROVE  /\ remove_job_jid(list, jid) \in Seq(Entry(P))
         /\ remove_job_pid(list, pid) \in Seq(Entry(P))
         /\ \/ /\ remove_job_jid(list, jid) = list
               /\ \A k \in 1 .. Len(list) : list[k].jid # jid
            \/ \E i \in 1 .. Len(list) :
                 list[i].jid = jid /\ remove_job_jid(list, jid) = Unlink(list, i)
         /\ \/ /\ remove_job_pid(list, pid) = list
               /\ \A k \in 1 .. Len(list) : list[k].pid # pid
            \/ \E i \in 1 .. Len(list) :
                 list[i].pid = pid /\ remove_job_pid(list, pid) = Unlink(list, i)
  BY RemoveJidProperties, RemovePidProperties

(* update_job_jid and update_job_pid change one entry that matches, or     *)
(* leave a list without one as it is.                                      *)
LEMMA UpdateProperties ==
  ASSUME NEW P, NEW list \in Seq(Entry(P)), NEW jid, NEW pid,
         NEW state \in JobState
  PROVE  /\ update_job_jid(list, jid, state) \in Seq(Entry(P))
         /\ update_job_pid(list, pid, state) \in Seq(Entry(P))
         /\ \/ /\ update_job_jid(list, jid, state) = list
               /\ \A k \in 1 .. Len(list) : list[k].jid # jid
            \/ \E i \in 1 .. Len(list) :
                 /\ list[i].jid = jid
                 /\ update_job_jid(list, jid, state) = SetState(list, i, state)
         /\ \/ /\ update_job_pid(list, pid, state) = list
               /\ \A k \in 1 .. Len(list) : list[k].pid # pid
            \/ \E i \in 1 .. Len(list) :
                 /\ list[i].pid = pid
                 /\ update_job_pid(list, pid, state) = SetState(list, i, state)
<1> DEFINE f == FirstOf(WithJid(list, jid))
           g == FirstOf(WithPid(list, pid))
<1>1. \A i \in 1 .. Len(list) : SetState(list, i, state) \in Seq(Entry(P))
  BY SetStateProperties
<1>2. SetState(list, 0, state) = list
  BY DEF SetState
<1>3. \/ f = 0 /\ \A k \in 1 .. Len(list) : list[k].jid # jid
      \/ f \in 1 .. Len(list) /\ list[f].jid = jid
  BY ScanProperties
<1>4. \/ g = 0 /\ \A k \in 1 .. Len(list) : list[k].pid # pid
      \/ g \in 1 .. Len(list) /\ list[g].pid = pid
  BY ScanProperties
<1>5. /\ update_job_jid(list, jid, state) = SetState(list, f, state)
      /\ update_job_pid(list, pid, state) = SetState(list, g, state)
  BY DEF update_job_jid, update_job_pid
<1> HIDE DEF f, g
<1>6. /\ update_job_jid(list, jid, state) \in Seq(Entry(P))
      /\ update_job_pid(list, pid, state) \in Seq(Entry(P))
  BY <1>1, <1>2, <1>3, <1>4, <1>5
<1>7. \/ /\ update_job_jid(list, jid, state) = list
         /\ \A k \in 1 .. Len(list) : list[k].jid # jid
      \/ \E i \in 1 .. Len(list) :
           /\ list[i].jid = jid
           /\ update_job_jid(list, jid, state) = SetState(list, i, state)
  BY <1>2, <1>3, <1>5
<1>8. \/ /\ update_job_pid(list, pid, state) = list
         /\ \A k \in 1 .. Len(list) : list[k].pid # pid
      \/ \E i \in 1 .. Len(list) :
           /\ list[i].pid = pid
           /\ update_job_pid(list, pid, state) = SetState(list, i, state)
  BY <1>2, <1>4, <1>5
<1> QED
  BY <1>6, <1>7, <1>8

(* get_job_pid returns the pid of an entry with that jid.                  *)
LEMMA GetJobPidProperties ==
  ASSUME NEW P, NEW list \in Seq(Entry(P)), NEW jid
  PROVE  \/ get_job_pid(list, jid) = NoPid /\ \A k \in 1 .. Len(list) : list[k].jid # jid
         \/ \E i \in 1 .. Len(list) :
              list[i].jid = jid /\ get_job_pid(list, jid) = list[i].pid
<1>1. Len(list) \in Nat
  BY LenProperties
<1> QED
  BY <1>1, ScanProperties DEF get_job_pid

-----------------------------------------------------------------------------
(* What these functions preserve.  A list is made of the entries of        *)
(* another: each entry of the first is one of the second, in that order.   *)
PartOf(new, old) ==
  \E at \in [DOMAIN new -> DOMAIN old] :
    /\ \A k \in DOMAIN new : new[k] = old[at[k]]
    /\ \A j, k \in DOMAIN new : j < k => at[j] < at[k]

LEMMA UnlinkIsPart ==
  ASSUME NEW S, NEW list \in Seq(S), NEW i \in 1 .. Len(list)
  PROVE  PartOf(Unlink(list, i), list)
<1> DEFINE u == Unlink(list, i)
           at == [k \in DOMAIN u |-> IF k < i THEN k ELSE k + 1]
<1>1. /\ u \in Seq(S)
      /\ Len(u) = Len(list) - 1
      /\ \A k \in 1 .. Len(list) - 1 : u[k] = IF k < i THEN list[k] ELSE list[k + 1]
  BY UnlinkProperties
<1> HIDE DEF u
<1>2. DOMAIN u = 1 .. Len(list) - 1 /\ DOMAIN list = 1 .. Len(list) /\ Len(list) \in Nat
  BY <1>1, LenProperties
<1>3. at \in [DOMAIN u -> DOMAIN list]
  BY <1>2
<1>4. \A k \in DOMAIN u : u[k] = list[at[k]]
  BY <1>1, <1>2
<1>5. \A j, k \in DOMAIN u : j < k => at[j] < at[k]
  BY <1>2
<1> HIDE DEF at
<1>6. PartOf(u, list)
  BY <1>3, <1>4, <1>5 DEF PartOf
<1> QED
  BY <1>6 DEF u

LEMMA PartOfItself ==
  ASSUME NEW S, NEW list \in Seq(S)
  PROVE  PartOf(list, list)
<1> DEFINE at == [k \in DOMAIN list |-> k]
<1>1. /\ at \in [DOMAIN list -> DOMAIN list]
      /\ \A k \in DOMAIN list : list[k] = list[at[k]]
      /\ \A j, k \in DOMAIN list : j < k => at[j] < at[k]
  OBVIOUS
<1> HIDE DEF at
<1> QED
  BY <1>1 DEF PartOf

(* Removal keeps the other entries in their order.                         *)
LEMMA RemovalIsPart ==
  ASSUME NEW P, NEW list \in Seq(Entry(P)), NEW jid, NEW pid
  PROVE  /\ PartOf(remove_job_jid(list, jid), list)
         /\ PartOf(remove_job_pid(list, pid), list)
<1>1. \A i \in 1 .. Len(list) : PartOf(Unlink(list, i), list)
  BY UnlinkIsPart
<1>2. PartOf(list, list)
  BY PartOfItself
<1>3. \/ remove_job_jid(list, jid) = list
      \/ \E i \in 1 .. Len(list) : remove_job_jid(list, jid) = Unlink(list, i)
  BY RemoveProperties
<1>4. \/ remove_job_pid(list, pid) = list
      \/ \E i \in 1 .. Len(list) : remove_job_pid(list, pid) = Unlink(list, i)
  BY RemoveProperties
<1> QED
  BY <1>1, <1>2, <1>3, <1>4

(* The job ids of a list increase and are at most n.                       *)
JidsUpTo(list, n) ==
  /\ \A i, k \in DOMAIN list : i < k => list[i].jid < list[k].jid
  /\ \A i \in DOMAIN list : list[i].jid \in 1 .. n

LEMMA JidsOfPart ==
  ASSUME NEW old, NEW new, NEW n, PartOf(new, old), JidsUpTo(old, n)
  PROVE  JidsUpTo(new, n)
<1> PICK at \in [DOMAIN new -> DOMAIN old] :
      /\ \A k \in DOMAIN new : new[k] = old[at[k]]
      /\ \A j, k \in DOMAIN new : j < k => at[j] < at[k]
  BY DEF PartOf
<1> QED
  BY DEF JidsUpTo

LEMMA JidsOfUpdate ==
  ASSUME NEW P, NEW list \in Seq(Entry(P)), NEW state \in JobState,
         NEW jid, NEW pid, NEW n, JidsUpTo(list, n)
  PROVE  /\ JidsUpTo(update_job_jid(list, jid, state), n)
         /\ JidsUpTo(update_job_pid(list, pid, state), n)
<1>1. ASSUME NEW i \in 1 .. Len(list) PROVE JidsUpTo(SetState(list, i, state), n)
  <2>1. /\ SetState(list, i, state) \in Seq(Entry(P))
        /\ Len(SetState(list, i, state)) = Len(list)
        /\ \A k \in 1 .. Len(list) : SetState(list, i, state)[k].jid = list[k].jid
    BY SetStateProperties
  <2>2. DOMAIN SetState(list, i, state) = 1 .. Len(list) /\ DOMAIN list = 1 .. Len(list)
    BY <2>1, LenProperties
  <2> QED
    BY <2>1, <2>2 DEF JidsUpTo
<1>2. \/ update_job_jid(list, jid, state) = list
      \/ \E i \in 1 .. Len(list) : update_job_jid(list, jid, state) = SetState(list, i, state)
  BY UpdateProperties
<1>3. \/ update_job_pid(list, pid, state) = list
      \/ \E i \in 1 .. Len(list) : update_job_pid(list, pid, state) = SetState(list, i, state)
  BY UpdateProperties
<1> QED
  BY <1>1, <1>2, <1>3

LEMMA JidsOfAdd ==
  ASSUME NEW P, NEW list \in Seq(Entry(P)), NEW n \in Nat, NEW pid \in P,
         NEW state \in JobState, JidsUpTo(list, n)
  PROVE  JidsUpTo(add_job(list, n + 1, pid, state), n + 1)
<1> DEFINE m == n + 1
           new == add_job(list, m, pid, state)
<1>1. m = n + 1 /\ m \in Nat
  OBVIOUS
<1> HIDE DEF m
<1>2. /\ new \in Seq(Entry(P))
      /\ Len(new) = Len(list) + 1
      /\ \A i \in 1 .. Len(list) : new[i] = list[i]
      /\ new[Len(list) + 1] = [jid |-> m, pid |-> pid, state |-> state]
  <2>1. [jid |-> m, pid |-> pid, state |-> state] \in Entry(P)
    BY <1>1 DEF Entry
  <2> QED
    BY <2>1, AppendProperties DEF add_job
<1> HIDE DEF new
<1>3. DOMAIN new = 1 .. Len(list) + 1 /\ DOMAIN list = 1 .. Len(list) /\ Len(list) \in Nat
  BY <1>2, LenProperties
<1>4. new[Len(list) + 1].jid = m
  BY <1>2
<1>5. \A i \in 1 .. Len(list) : new[i].jid = list[i].jid /\ list[i].jid \in 1 .. n
  BY <1>2, <1>3 DEF JidsUpTo
<1>6. ASSUME NEW i \in DOMAIN new, NEW k \in DOMAIN new, i < k
      PROVE  new[i].jid < new[k].jid
  <2>1. i \in 1 .. Len(list)
    BY <1>3, <1>6
  <2>2. CASE k = Len(list) + 1
    BY <1>1, <1>4, <1>5, <2>1, <2>2
  <2>3. CASE k \in 1 .. Len(list)
    <3>1. list[i].jid < list[k].jid
      BY <1>3, <1>6, <2>1, <2>3 DEF JidsUpTo
    <3> QED
      BY <1>5, <2>1, <2>3, <3>1
  <2> QED
    BY <1>3, <2>2, <2>3
<1>7. ASSUME NEW i \in DOMAIN new PROVE new[i].jid \in 1 .. m
  <2>1. CASE i = Len(list) + 1
    BY <1>1, <1>4, <2>1
  <2>2. CASE i \in 1 .. Len(list)
    BY <1>1, <1>5, <2>2
  <2> QED
    BY <1>3, <2>1, <2>2
<1>8. JidsUpTo(new, m)
  BY <1>6, <1>7 DEF JidsUpTo
<1> QED
  BY <1>1, <1>8 DEF new

(* Removing the entry of one process leaves those of the others listed.    *)
LEMMA ListedAfterUnlink ==
  ASSUME NEW S, NEW list \in Seq(S), NEW i \in 1 .. Len(list), NEW q,
         WithPid(list, q) # {}, list[i].pid # q
  PROVE  WithPid(Unlink(list, i), q) # {}
<1>1. /\ Unlink(list, i) \in Seq(S)
      /\ Len(Unlink(list, i)) = Len(list) - 1
      /\ \A k \in 1 .. Len(list) - 1 :
           Unlink(list, i)[k] = IF k < i THEN list[k] ELSE list[k + 1]
  BY UnlinkProperties
<1>2. /\ DOMAIN Unlink(list, i) = 1 .. Len(list) - 1
      /\ DOMAIN list = 1 .. Len(list) /\ Len(list) \in Nat
  BY <1>1, LenProperties
<1>3. PICK k \in 1 .. Len(list) : list[k].pid = q
  BY <1>2 DEF WithPid
<1>4. k # i
  BY <1>3
<1>5. CASE k < i
  <2>1. k \in 1 .. Len(list) - 1
    BY <1>2, <1>5
  <2>2. Unlink(list, i)[k] = list[k]
    BY <1>1, <1>5, <2>1
  <2> QED
    BY <1>2, <1>3, <2>1, <2>2 DEF WithPid
<1>6. CASE k > i
  <2>1. k - 1 \in 1 .. Len(list) - 1 /\ ~(k - 1 < i) /\ (k - 1) + 1 = k
    BY <1>2, <1>6
  <2>2. Unlink(list, i)[k - 1] = list[k]
    BY <1>1, <2>1
  <2> QED
    BY <1>2, <1>3, <2>1, <2>2 DEF WithPid
<1> QED
  BY <1>2, <1>4, <1>5, <1>6

LEMMA ListedAfterRemovePid ==
  ASSUME NEW P, NEW list \in Seq(Entry(P)), NEW pid, NEW q,
         WithPid(list, q) # {}, q # pid
  PROVE  WithPid(remove_job_pid(list, pid), q) # {}
<1>1. \A i \in 1 .. Len(list) : list[i].pid # q => WithPid(Unlink(list, i), q) # {}
  BY ListedAfterUnlink
<1>2. \/ remove_job_pid(list, pid) = list
      \/ \E i \in 1 .. Len(list) :
           list[i].pid = pid /\ remove_job_pid(list, pid) = Unlink(list, i)
  BY RemoveProperties
<1> QED
  BY <1>1, <1>2

LEMMA ListedAfterRemoveJid ==
  ASSUME NEW P, NEW list \in Seq(Entry(P)), NEW n, JidsUpTo(list, n),
         NEW i \in DOMAIN list, NEW q, WithPid(list, q) # {}, q # list[i].pid
  PROVE  WithPid(remove_job_jid(list, list[i].jid), q) # {}
<1>1. DOMAIN list = 1 .. Len(list) /\ Len(list) \in Nat
  BY LenProperties
<1> DEFINE jid == list[i].jid
<1>2. \/ \A k \in 1 .. Len(list) : list[k].jid # jid
      \/ \E k \in 1 .. Len(list) :
           list[k].jid = jid /\ remove_job_jid(list, jid) = Unlink(list, k)
  BY RemoveJidProperties
<1>3. PICK k \in 1 .. Len(list) :
        /\ list[k].jid = list[i].jid
        /\ remove_job_jid(list, list[i].jid) = Unlink(list, k)
  BY <1>1, <1>2
<1>4. k = i
  BY <1>1, <1>3 DEF JidsUpTo
<1> QED
  BY <1>1, <1>3, <1>4, ListedAfterUnlink

(* An update of a state keeps every process at its place.                  *)
LEMMA ListedAfterUpdate ==
  ASSUME NEW P, NEW list \in Seq(Entry(P)), NEW state \in JobState,
         NEW jid, NEW pid, NEW q
  PROVE  /\ WithPid(update_job_jid(list, jid, state), q) = WithPid(list, q)
         /\ WithPid(update_job_pid(list, pid, state), q) = WithPid(list, q)
<1>1. ASSUME NEW i \in 1 .. Len(list)
      PROVE  WithPid(SetState(list, i, state), q) = WithPid(list, q)
  <2>1. /\ SetState(list, i, state) \in Seq(Entry(P))
        /\ Len(SetState(list, i, state)) = Len(list)
        /\ \A k \in 1 .. Len(list) : SetState(list, i, state)[k].pid = list[k].pid
    BY SetStateProperties
  <2>2. DOMAIN SetState(list, i, state) = 1 .. Len(list) /\ DOMAIN list = 1 .. Len(list)
    BY <2>1, LenProperties
  <2> QED
    BY <2>1, <2>2 DEF WithPid
<1>2. \/ update_job_jid(list, jid, state) = list
      \/ \E i \in 1 .. Len(list) : update_job_jid(list, jid, state) = SetState(list, i, state)
  BY UpdateProperties
<1>3. \/ update_job_pid(list, pid, state) = list
      \/ \E i \in 1 .. Len(list) : update_job_pid(list, pid, state) = SetState(list, i, state)
  BY UpdateProperties
<1> QED
  BY <1>1, <1>2, <1>3

LEMMA ListedAfterAdd ==
  ASSUME NEW P, NEW list \in Seq(Entry(P)), NEW jid \in Nat, NEW pid \in P,
         NEW state \in JobState, NEW q
  PROVE  WithPid(add_job(list, jid, pid, state), q) # {} <=>
           WithPid(list, q) # {} \/ q = pid
<1> DEFINE new == add_job(list, jid, pid, state)
<1>1. /\ new \in Seq(Entry(P))
      /\ Len(new) = Len(list) + 1
      /\ \A i \in 1 .. Len(list) : new[i] = list[i]
      /\ new[Len(list) + 1] = [jid |-> jid, pid |-> pid, state |-> state]
  BY AddJobProperties
<1> HIDE DEF new
<1>2. DOMAIN new = 1 .. Len(list) + 1 /\ DOMAIN list = 1 .. Len(list) /\ Len(list) \in Nat
  BY <1>1, LenProperties
<1>3. new[Len(list) + 1].pid = pid
  BY <1>1
<1>4. WithPid(new, q) # {} <=> WithPid(list, q) # {} \/ q = pid
  BY <1>1, <1>2, <1>3 DEF WithPid
<1> QED
  BY <1>4 DEF new

-----------------------------------------------------------------------------
(* A list that names each process once.                                    *)
DistinctPids(list) == \A i, k \in DOMAIN list : list[i].pid = list[k].pid => i = k

(* The entries of new are entries of old, but for that of one process.     *)
Without(new, old, pid) ==
  \A k \in DOMAIN new : \E j \in DOMAIN old : new[k] = old[j] /\ old[j].pid # pid

(* Unlinking the entry of a process leaves the entries of the others.      *)
LEMMA UnlinkOne ==
  ASSUME NEW S, NEW list \in Seq(S), DistinctPids(list), NEW i \in 1 .. Len(list)
  PROVE  DistinctPids(Unlink(list, i)) /\ Without(Unlink(list, i), list, list[i].pid)
<1> DEFINE at(k) == IF k < i THEN k ELSE k + 1
           new == Unlink(list, i)
<1>1. Len(list) \in Nat /\ DOMAIN list = 1 .. Len(list)
  BY LenProperties
<1>2. /\ DOMAIN new = 1 .. Len(list) - 1
      /\ \A k \in 1 .. Len(list) - 1 : new[k] = list[at(k)]
  BY <1>1, UnlinkProperties, LenProperties
<1>3. \A k \in 1 .. Len(list) - 1 : at(k) \in 1 .. Len(list) /\ at(k) # i
  BY <1>1
<1>4. \A j, k \in 1 .. Len(list) - 1 : at(j) = at(k) => j = k
  BY <1>1
<1> HIDE DEF at, new
<1>5. DistinctPids(new)
  BY <1>1, <1>2, <1>3, <1>4 DEF DistinctPids
<1>6. Without(new, list, list[i].pid)
  BY <1>1, <1>2, <1>3 DEF DistinctPids, Without
<1> QED
  BY <1>5, <1>6 DEF new

(* After remove_job_pid the process is no longer listed.                   *)
LEMMA RemovePidOne ==
  ASSUME NEW P, NEW list \in Seq(Entry(P)), DistinctPids(list), NEW pid
  PROVE  /\ DistinctPids(remove_job_pid(list, pid))
         /\ Without(remove_job_pid(list, pid), list, pid)
<1>1. DOMAIN list = 1 .. Len(list)
  BY LenProperties
<1>2. CASE remove_job_pid(list, pid) = list /\ \A k \in 1 .. Len(list) : list[k].pid # pid
  BY <1>1, <1>2 DEF Without
<1>3. CASE \E i \in 1 .. Len(list) :
             list[i].pid = pid /\ remove_job_pid(list, pid) = Unlink(list, i)
  BY <1>3, UnlinkOne
<1> QED
  BY <1>2, <1>3, RemovePidProperties

(* Nor is it after remove_job_jid of the job id of its entry, if the job   *)
(* ids differ.                                                             *)
LEMMA RemoveJidOne ==
  ASSUME NEW P, NEW list \in Seq(Entry(P)), DistinctPids(list),
         NEW n \in Nat, JidsUpTo(list, n), NEW i \in DOMAIN list
  PROVE  /\ DistinctPids(remove_job_jid(list, list[i].jid))
         /\ Without(remove_job_jid(list, list[i].jid), list, list[i].pid)
<1>1. DOMAIN list = 1 .. Len(list) /\ Len(list) \in Nat
  BY LenProperties
<1>2. PICK k \in 1 .. Len(list) :
        /\ list[k].jid = list[i].jid
        /\ remove_job_jid(list, list[i].jid) = Unlink(list, k)
  <2> DEFINE jid == list[i].jid
  <2>1. \/ \A k \in 1 .. Len(list) : list[k].jid # jid
        \/ \E k \in 1 .. Len(list) :
             list[k].jid = jid /\ remove_job_jid(list, jid) = Unlink(list, k)
    BY RemoveJidProperties
  <2> QED
    BY <1>1, <2>1
<1>3. k = i
  BY <1>1, <1>2 DEF JidsUpTo
<1> QED
  BY <1>1, <1>2, <1>3, UnlinkOne

(* The entries of new are those of old, but for the state of one process.  *)
WithState(new, old, pid, state) ==
  /\ DOMAIN new = DOMAIN old
  /\ \A k \in DOMAIN old :
       /\ new[k].pid = old[k].pid
       /\ new[k].state = IF old[k].pid = pid THEN state ELSE old[k].state

LEMMA SetStateOne ==
  ASSUME NEW P, NEW list \in Seq(Entry(P)), DistinctPids(list),
         NEW i \in 1 .. Len(list), NEW state \in JobState
  PROVE  WithState(SetState(list, i, state), list, list[i].pid, state)
<1>1. /\ SetState(list, i, state) \in Seq(Entry(P))
      /\ Len(SetState(list, i, state)) = Len(list)
      /\ \A k \in 1 .. Len(list) :
           /\ SetState(list, i, state)[k].pid = list[k].pid
           /\ SetState(list, i, state)[k].state = IF k = i THEN state ELSE list[k].state
  BY SetStateProperties
<1>2. /\ DOMAIN list = 1 .. Len(list)
      /\ DOMAIN SetState(list, i, state) = 1 .. Len(list)
  BY <1>1, LenProperties
<1> QED
  BY <1>1, <1>2 DEF DistinctPids, WithState

(* update_job_pid changes the state of that process and of no other.       *)
LEMMA UpdatePidOne ==
  ASSUME NEW P, NEW list \in Seq(Entry(P)), DistinctPids(list), NEW pid,
         NEW state \in JobState
  PROVE  WithState(update_job_pid(list, pid, state), list, pid, state)
<1>1. DOMAIN list = 1 .. Len(list)
  BY LenProperties
<1>2. \/ update_job_pid(list, pid, state) = list /\ \A k \in 1 .. Len(list) : list[k].pid # pid
      \/ \E i \in 1 .. Len(list) :
           /\ list[i].pid = pid
           /\ update_job_pid(list, pid, state) = SetState(list, i, state)
  BY UpdateProperties
<1>3. CASE update_job_pid(list, pid, state) = list /\ \A k \in 1 .. Len(list) : list[k].pid # pid
  BY <1>1, <1>3 DEF WithState
<1> QED
  BY <1>2, <1>3, SetStateOne

(* So does update_job_jid with the job id of its entry.                    *)
LEMMA UpdateJidOne ==
  ASSUME NEW P, NEW list \in Seq(Entry(P)), DistinctPids(list),
         NEW n \in Nat, JidsUpTo(list, n), NEW i \in DOMAIN list, NEW state \in JobState
  PROVE  WithState(update_job_jid(list, list[i].jid, state), list, list[i].pid, state)
<1>1. DOMAIN list = 1 .. Len(list) /\ Len(list) \in Nat
  BY LenProperties
<1>2. PICK k \in 1 .. Len(list) :
        /\ list[k].jid = list[i].jid
        /\ update_job_jid(list, list[i].jid, state) = SetState(list, k, state)
  <2> DEFINE jid == list[i].jid
  <2>1. \/ \A k \in 1 .. Len(list) : list[k].jid # jid
        \/ \E k \in 1 .. Len(list) :
             /\ list[k].jid = jid
             /\ update_job_jid(list, jid, state) = SetState(list, k, state)
    BY UpdateProperties
  <2> QED
    BY <1>1, <2>1
<1>3. k = i
  BY <1>1, <1>2 DEF JidsUpTo
<1> QED
  BY <1>1, <1>2, <1>3, SetStateOne
=============================================================================
