-------------------------- MODULE JobControlProofs --------------------------
(***************************************************************************)
(* Proofs about JobControl: for any set of process ids, any bound on job   *)
(* ids and any of the environment's disturbances.  First the types, then   *)
(* the terminal, then the job list.                                        *)
(***************************************************************************)
EXTENDS JobControl, JobListTheorems

PidOrNone == Pids \cup {NoPid}

(* What the functions of jobs.c return stays a list of entries.            *)
LEMMA JobsType ==
  ASSUME TypeOK
  PROVE  /\ jobs \in Seq(Entry(PidOrNone))
         /\ \A pid : remove_job_pid(jobs, pid) \in Seq(Entry(PidOrNone))
         /\ \A jid : remove_job_jid(jobs, jid) \in Seq(Entry(PidOrNone))
         /\ \A pid : \A st \in JobState : update_job_pid(jobs, pid, st) \in Seq(Entry(PidOrNone))
         /\ \A jid : \A st \in JobState : update_job_jid(jobs, jid, st) \in Seq(Entry(PidOrNone))
         /\ \A jid \in Nat, pid \in PidOrNone, st \in JobState :
              add_job(jobs, jid, pid, st) \in Seq(Entry(PidOrNone))
         /\ \A i \in DOMAIN jobs : jobs[i].jid \in Nat /\ jobs[i].pid \in PidOrNone
         /\ \A jid : get_job_pid(jobs, jid) \in PidOrNone
<1>1. jobs \in Seq(Entry(PidOrNone))
  BY DEF TypeOK, Entry, PidOrNone
<1>2. DOMAIN jobs = 1 .. Len(jobs) /\ \A i \in 1 .. Len(jobs) : jobs[i] \in Entry(PidOrNone)
  BY <1>1, LenProperties, ElementOfSeq
<1>3. \A i \in DOMAIN jobs : jobs[i].jid \in Nat /\ jobs[i].pid \in PidOrNone
  BY <1>2 DEF Entry
<1>4. \A jid : get_job_pid(jobs, jid) \in PidOrNone
  BY <1>1, <1>2, <1>3, GetJobPidProperties DEF PidOrNone
<1>5. \A pid : remove_job_pid(jobs, pid) \in Seq(Entry(PidOrNone))
  BY <1>1, RemoveProperties
<1>6. \A jid : remove_job_jid(jobs, jid) \in Seq(Entry(PidOrNone))
  BY <1>1, RemoveProperties
<1>7. \A pid : \A st \in JobState : update_job_pid(jobs, pid, st) \in Seq(Entry(PidOrNone))
  BY <1>1, UpdateProperties
<1>8. \A jid : \A st \in JobState : update_job_jid(jobs, jid, st) \in Seq(Entry(PidOrNone))
  BY <1>1, UpdateProperties
<1>9. \A jid \in Nat, pid \in PidOrNone, st \in JobState :
        add_job(jobs, jid, pid, st) \in Seq(Entry(PidOrNone))
  BY <1>1, AddJobProperties
<1> QED
  BY <1>1, <1>3, <1>4, <1>5, <1>6, <1>7, <1>8, <1>9

(* The part of TypeOK that speaks of the processes.                        *)
ProcTypeOK ==
  /\ phase \in [Pids -> {"free", "new", "grouped", "exec"}]
  /\ role \in [Pids -> {"fg", "bg"}]
  /\ run \in [Pids -> {"running", "stopped", "exited", "killed"}]
  /\ note \in [Pids -> {"none", "stopped", "continued"}]

(* The part of TypeOK that speaks of the shell and the terminal.           *)
ShellTypeOK ==
  /\ mode \in {"repl", "headless"}
  /\ pc \in {"prompt", "headless", "wait", "fgkill", "fgwait", "takeback", "reap", "exited"}
  /\ target \in PidOrNone
  /\ fgjid \in Nat
  /\ jobs \in Seq(Entry(PidOrNone))
  /\ jcount \in Nat
  /\ tty \in Pids \cup {Shell}

LEMMA TypeParts == TypeOK <=> ShellTypeOK /\ ProcTypeOK
  BY DEF TypeOK, ShellTypeOK, ProcTypeOK, Entry, PidOrNone

LEMMA ProcTypePreserved ==
  ASSUME ProcTypeOK, [Next]_vars
  PROVE  ProcTypeOK'
<1> USE DEF ProcTypeOK
<1>1. ASSUME NEW p \in Pids, NEW r \in {"fg", "bg"}, Spawn(p, r) PROVE ProcTypeOK'
  BY <1>1 DEF Spawn
<1>2. ASSUME NEW p, Release(p) PROVE ProcTypeOK'
  BY <1>2 DEF Release
<1>3. ASSUME NEW p, TakeNote(p) PROVE ProcTypeOK'
  BY <1>3 DEF TakeNote
<1>4. ASSUME NEW p, Resume(p) PROVE ProcTypeOK'
  BY <1>4 DEF Resume
<1>5. ASSUME UNCHANGED procVars PROVE ProcTypeOK'
  BY <1>5 DEF procVars
<1>6. ASSUME CleanupJobList PROVE ProcTypeOK'
  BY <1>6 DEF CleanupJobList
<1> HIDE DEF ProcTypeOK
<1>10. CASE ExecuteForeground
  BY <1>10, <1>1, <1>5 DEF ExecuteForeground
<1>11. CASE ExecuteBackground
  BY <1>11, <1>1, <1>5 DEF ExecuteBackground
<1>12. CASE FgStart
  BY <1>12, <1>5 DEF FgStart
<1>13. CASE Bg
  BY <1>13, <1>4, <1>5 DEF Bg
<1>14. CASE Exit
  BY <1>14, <1>6 DEF Exit
<1>15. CASE OtherLine
  BY <1>15, <1>5 DEF OtherLine
<1>16. CASE ForegroundReturns
  BY <1>16, <1>2, <1>3, <1>5 DEF ForegroundReturns
<1>17. CASE FgContinue
  BY <1>17, <1>4, <1>5 DEF FgContinue
<1>18. CASE FgReturns
  BY <1>18, <1>2, <1>3 DEF FgReturns
<1>19. CASE TakeBack
  BY <1>19, <1>5 DEF TakeBack
<1>20. CASE ReapDone
  BY <1>20, <1>5, <1>6 DEF ReapDone
<1>21. CASE \E p \in Pids : Reap(p)
  BY <1>21, <1>2, <1>3 DEF Reap
<1>22. CASE \E p \in Pids : Child(p)
  <2> SUFFICES ASSUME NEW p \in Pids, Child(p) PROVE ProcTypeOK'
    BY <1>22
  <2>1. CASE ContinuedByOther(p)
    BY <2>1, <1>4 DEF ContinuedByOther
  <2>2. CASE ChildSetpgid(p) \/ ChildExec(p) \/ ProgramExits(p) \/ Killed(p) \/ Stopped(p)
    BY <2>2 DEF ProcTypeOK, ChildSetpgid, ChildExec, ProgramExits, Killed, Stopped
  <2> QED
    BY <2>1, <2>2 DEF Child
<1>23. CASE UNCHANGED vars
  BY <1>23, <1>5 DEF vars
<1> QED
  BY <1>10, <1>11, <1>12, <1>13, <1>14, <1>15, <1>16, <1>17, <1>18, <1>19,
     <1>20, <1>21, <1>22, <1>23 DEF Next, Line, ShellStep, Terminated

LEMMA ShellTypePreserved ==
  ASSUME TypeOK, [Next]_vars
  PROVE  ShellTypeOK'
<1> USE DEF ShellTypeOK
<1>0. ShellTypeOK /\ JobState = {"RUNNING", "STOPPED"}
  BY TypeParts DEF JobState
<1>1. ASSUME CleanupJobList PROVE ShellTypeOK'
  <2>1. <<>> \in Seq(Entry(PidOrNone))
    BY EmptySeq
  <2> QED
    BY <1>0, <1>1, <2>1 DEF CleanupJobList
<1>2. NoPid \in PidOrNone /\ \A p \in Pids : p \in PidOrNone
  BY DEF PidOrNone
<1>10. CASE ExecuteForeground
  BY <1>0, <1>2, <1>10 DEF ExecuteForeground
<1>11. CASE ExecuteBackground
  <2>1. jcount + 1 \in Nat
    BY <1>0
  <2>2. \A p \in PidOrNone : add_job(jobs, jcount + 1, p, "RUNNING") \in Seq(Entry(PidOrNone))
    BY <1>0, <2>1, JobsType
  <2> QED
    BY <1>0, <1>2, <2>1, <2>2, <1>11 DEF ExecuteBackground
<1>12. CASE FgStart
  <2> PICK i \in DOMAIN jobs :
        LET pid == get_job_pid(jobs, jobs[i].jid) IN
        \/ /\ pid = NoPid
           /\ pc' = "reap"
           /\ UNCHANGED <<target, fgjid, tty>>
        \/ /\ pid # NoPid
           /\ pc' = "fgkill"
           /\ target' = pid
           /\ fgjid' = jobs[i].jid
           /\ tty' = IF pid \in Groups THEN pid ELSE tty
    BY <1>12 DEF FgStart
  <2>1. jobs[i].jid \in Nat /\ get_job_pid(jobs, jobs[i].jid) \in PidOrNone
    BY JobsType
  <2>2. \A p \in Groups : p \in Pids
    BY DEF Groups
  <2>3. UNCHANGED <<mode, jobs, jcount>>
    BY <1>12 DEF FgStart
  <2> QED
    BY <1>0, <2>1, <2>2, <2>3
<1>13. CASE Bg
  BY <1>0, <1>13 DEF Bg
<1>14. CASE Exit
  BY <1>1, <1>14 DEF Exit
<1>15. CASE OtherLine
  BY <1>0, <1>15 DEF OtherLine
<1>16. CASE ForegroundReturns
  <2>1. jcount + 1 \in Nat /\ target \in PidOrNone
    BY <1>0
  <2>2. add_job(jobs, jcount + 1, target, "STOPPED") \in Seq(Entry(PidOrNone))
    BY <1>0, <2>1, JobsType
  <2> QED
    BY <1>0, <2>1, <2>2, <1>16 DEF ForegroundReturns
<1>17. CASE FgContinue
  BY <1>0, <1>2, <1>17 DEF FgContinue
<1>18. CASE FgReturns
  BY <1>0, <1>18, JobsType DEF FgReturns
<1>19. CASE TakeBack
  BY <1>0, <1>2, <1>19 DEF TakeBack
<1>20. CASE ReapDone
  BY <1>0, <1>1, <1>20 DEF ReapDone
<1>21. CASE \E p \in Pids : Reap(p)
  BY <1>0, <1>21, JobsType DEF Reap
<1>22. CASE \E p \in Pids : Child(p)
  BY <1>0, <1>22 DEF Child, ChildSetpgid, ChildExec, ProgramExits, Killed,
     Stopped, ContinuedByOther, shellVars
<1>23. CASE UNCHANGED vars
  BY <1>0, <1>23 DEF vars, shellVars
<1> QED
  BY <1>10, <1>11, <1>12, <1>13, <1>14, <1>15, <1>16, <1>17, <1>18, <1>19,
     <1>20, <1>21, <1>22, <1>23 DEF Next, Line, ShellStep, Terminated

LEMMA InitType == Init => TypeOK
<1> SUFFICES ASSUME Init PROVE ShellTypeOK /\ ProcTypeOK
  BY TypeParts
<1>1. ShellTypeOK
  BY EmptySeq DEF Init, ShellTypeOK, PidOrNone
<1>2. ProcTypeOK
  BY DEF Init, ProcTypeOK
<1> QED
  BY <1>1, <1>2

LEMMA TypePreserved == TypeOK /\ [Next]_vars => TypeOK'
<1> SUFFICES ASSUME TypeOK, [Next]_vars PROVE ShellTypeOK' /\ ProcTypeOK'
  BY DEF TypeOK, ShellTypeOK, ProcTypeOK, Entry, PidOrNone
<1> QED
  BY TypeParts, ShellTypePreserved, ProcTypePreserved

(* Every variable of the shell, the job list and the kernel keeps a value  *)
(* of its kind, whatever commands run and whatever happens to them.        *)
THEOREM TypeCorrect == Spec => []TypeOK
  BY InitType, TypePreserved, PTL DEF Spec

-----------------------------------------------------------------------------
(* The terminal.  The shell gives it away in bin_fg, a child takes it in   *)
(* execute, and the shell takes it back; the proofs follow who may own it  *)
(* between these three calls.                                              *)

(* A process that owns the terminal has a group: both calls of tcsetpgrp   *)
(* that give it away name an existing one, and only a reap ends a group.   *)
OwnerHasGroup == \A p \in Pids : tty = p /\ Exists(p) => HasGroup(p)

(* Headless mode launches its one command before anything else happened.   *)
HeadlessOwnsTerminal ==
  pc = "headless" => tty = Shell /\ \A p \in Pids : ~Exists(p)

BackgroundInv ==
  TypeOK /\ OwnerHasGroup /\ HeadlessOwnsTerminal /\ BackgroundNeverHoldsTerminal

LEMMA InitBackground == Init => BackgroundInv
  BY InitType, ConstantsAssumption
     DEF Init, BackgroundInv, OwnerHasGroup, HeadlessOwnsTerminal,
         BackgroundNeverHoldsTerminal, Exists

LEMMA BackgroundPreserved == BackgroundInv /\ [Next]_vars => BackgroundInv'
<1> DEFINE Inv == OwnerHasGroup /\ HeadlessOwnsTerminal /\ BackgroundNeverHoldsTerminal
<1> SUFFICES ASSUME BackgroundInv, [Next]_vars PROVE Inv'
  BY TypePreserved DEF BackgroundInv
<1>0. ProcTypeOK /\ ShellTypeOK /\ Inv
  BY TypeParts DEF BackgroundInv
<1> USE ConstantsAssumption DEF OwnerHasGroup, HeadlessOwnsTerminal,
      BackgroundNeverHoldsTerminal, Exists, HasGroup
<1>10. CASE ExecuteForeground
  BY <1>0, <1>10 DEF ExecuteForeground, Spawn, AtPrompt, procVars, ProcTypeOK
<1>11. CASE ExecuteBackground
  BY <1>0, <1>11 DEF ExecuteBackground, Spawn, AtPrompt, procVars, ProcTypeOK
<1>12. CASE FgStart
  BY <1>0, <1>12 DEF FgStart, AtPrompt, procVars, Groups
<1>13. CASE Bg
  BY <1>0, <1>13 DEF Bg, Resume, AtPrompt, procVars
<1>14. CASE Exit
  BY <1>0, <1>14 DEF Exit, AtPrompt, CleanupJobList
<1>15. CASE OtherLine
  BY <1>0, <1>15 DEF OtherLine, AtPrompt, procVars
<1>16. CASE ForegroundReturns
  BY <1>0, <1>16 DEF ForegroundReturns, Release, TakeNote, procVars, ProcTypeOK
<1>17. CASE FgContinue
  BY <1>0, <1>17 DEF FgContinue, Resume, procVars, Groups
<1>18. CASE FgReturns
  BY <1>0, <1>18 DEF FgReturns, Release, TakeNote, ProcTypeOK
<1>19. CASE TakeBack
  BY <1>0, <1>19 DEF TakeBack
<1>20. CASE ReapDone
  BY <1>0, <1>20 DEF ReapDone, CleanupJobList, procVars
<1>21. CASE \E p \in Pids : Reap(p)
  BY <1>0, <1>21 DEF Reap, Release, TakeNote, ProcTypeOK
<1>22. CASE \E p \in Pids : Child(p)
  <2> SUFFICES ASSUME NEW p \in Pids, Child(p) PROVE Inv'
    BY <1>22
  <2>1. CASE ChildSetpgid(p)
    BY <1>0, <2>1 DEF ChildSetpgid, shellVars, ProcTypeOK
  <2>2. CASE ChildExec(p)
    BY <1>0, <2>2 DEF ChildExec, shellVars, ProcTypeOK
  <2>3. CASE ProgramExits(p) \/ Killed(p) \/ Stopped(p)
    BY <1>0, <2>3 DEF ProgramExits, Killed, Stopped, shellVars
  <2>4. CASE ContinuedByOther(p)
    BY <1>0, <2>4 DEF ContinuedByOther, Resume, shellVars
  <2> QED
    BY <2>1, <2>2, <2>3, <2>4 DEF Child
<1>23. CASE UNCHANGED vars
  BY <1>0, <1>23 DEF vars, shellVars, procVars
<1> QED
  BY <1>0, <1>10, <1>11, <1>12, <1>13, <1>14, <1>15, <1>16, <1>17, <1>18, <1>19,
     <1>20, <1>21, <1>22, <1>23 DEF Next, Line, ShellStep, Terminated

(* Whatever the environment does, a child launched with & owns the         *)
(* terminal only while bin_fg deals with it: not even a failing fg leaves  *)
(* it there.                                                               *)
THEOREM BackgroundTerminal == Spec => []BackgroundNeverHoldsTerminal
<1>1. BackgroundInv => BackgroundNeverHoldsTerminal
  BY DEF BackgroundInv
<1> QED
  BY <1>1, InitBackground, BackgroundPreserved, PTL DEF Spec

-----------------------------------------------------------------------------
(* From here on no child is stopped before it reaches execvp.              *)
Undisturbed == "earlystop" \notin Disturbances

(* Between fork and execvp a child runs or is killed.                      *)
NoEarlyStop ==
  \A p \in Pids : phase[p] \in {"new", "grouped"} => run[p] # "stopped" /\ note[p] = "none"

(* So a foreground child that has not taken the terminal yet is the one    *)
(* execute waits for: it cannot take it after the shell took it back.      *)
LaunchedIsAwaited ==
  \A p \in Pids :
    role[p] = "fg" /\ phase[p] \in {"new", "grouped"} /\ run[p] = "running" =>
      pc = "wait" /\ target = p

AwaitedIsForeground ==
  pc = "wait" /\ target \in Pids => role[target] = "fg" /\ Exists(target)

(* If kill fails in bin_fg, tcsetpgrp before it has failed too.            *)
FgOwnerHasGroup == pc = "fgkill" /\ tty # Shell => tty \in Groups

TerminalInv ==
  /\ BackgroundInv
  /\ Undisturbed =>
       /\ NoEarlyStop
       /\ LaunchedIsAwaited
       /\ AwaitedIsForeground
       /\ FgOwnerHasGroup
       /\ TerminalExclusive
       /\ ForegroundOwnsTerminal

LEMMA InitTerminal == Init => TerminalInv
  BY InitBackground, ConstantsAssumption
     DEF Init, TerminalInv, NoEarlyStop, LaunchedIsAwaited, AwaitedIsForeground,
         FgOwnerHasGroup, TerminalExclusive, ForegroundOwnsTerminal, Exists

LEMMA TerminalPreserved == TerminalInv /\ [Next]_vars => TerminalInv'
<1> DEFINE Inv == /\ NoEarlyStop /\ LaunchedIsAwaited /\ AwaitedIsForeground
                  /\ FgOwnerHasGroup /\ TerminalExclusive /\ ForegroundOwnsTerminal
<1> SUFFICES ASSUME TerminalInv, [Next]_vars, Undisturbed PROVE Inv'
  BY BackgroundPreserved DEF TerminalInv, Undisturbed
<1>0. /\ ProcTypeOK /\ ShellTypeOK /\ Inv
      /\ OwnerHasGroup /\ HeadlessOwnsTerminal
  BY TypeParts DEF TerminalInv, BackgroundInv
<1> USE ConstantsAssumption DEF Undisturbed, NoEarlyStop, LaunchedIsAwaited,
      AwaitedIsForeground, FgOwnerHasGroup, TerminalExclusive,
      ForegroundOwnsTerminal, Exists, HasGroup, Groups
<1>10. CASE ExecuteForeground
  BY <1>0, <1>10 DEF ExecuteForeground, Spawn, AtPrompt, procVars, ProcTypeOK,
     HeadlessOwnsTerminal
<1>11. CASE ExecuteBackground
  BY <1>0, <1>11 DEF ExecuteBackground, Spawn, AtPrompt, procVars, ProcTypeOK
<1>12. CASE FgStart
  BY <1>0, <1>12 DEF FgStart, AtPrompt, procVars
<1>13. CASE Bg
  BY <1>0, <1>13 DEF Bg, Resume, AtPrompt, procVars, ProcTypeOK
<1>14. CASE Exit
  BY <1>0, <1>14 DEF Exit, AtPrompt, CleanupJobList, Alive, ProcTypeOK
<1>15. CASE OtherLine
  BY <1>0, <1>15 DEF OtherLine, AtPrompt, procVars, HeadlessOwnsTerminal
<1>16. CASE ForegroundReturns
  BY <1>0, <1>16 DEF ForegroundReturns, Release, TakeNote, procVars, ProcTypeOK,
     ShellTypeOK, PidOrNone, Awaited, Dead, Alive
<1>17. CASE FgContinue
  BY <1>0, <1>17 DEF FgContinue, Resume, procVars, ProcTypeOK
<1>18. CASE FgReturns
  BY <1>0, <1>18 DEF FgReturns, Release, TakeNote, ProcTypeOK
<1>19. CASE TakeBack
  BY <1>0, <1>19 DEF TakeBack, procVars
<1>20. CASE ReapDone
  BY <1>0, <1>20 DEF ReapDone, CleanupJobList, procVars, Alive, ProcTypeOK
<1>21. CASE \E p \in Pids : Reap(p)
  BY <1>0, <1>21 DEF Reap, Release, TakeNote, ProcTypeOK
<1>22. CASE \E p \in Pids : Child(p)
  <2> SUFFICES ASSUME NEW p \in Pids, Child(p) PROVE Inv'
    BY <1>22
  <2>1. CASE ChildSetpgid(p)
    BY <1>0, <2>1 DEF ChildSetpgid, shellVars, ProcTypeOK
  <2>2. CASE ChildExec(p)
    BY <1>0, <2>2 DEF ChildExec, shellVars, ProcTypeOK
  <2>3. CASE ProgramExits(p) \/ Killed(p)
    BY <1>0, <2>3 DEF ProgramExits, Killed, shellVars, ProcTypeOK
  <2>4. CASE Stopped(p)
    BY <1>0, <2>4 DEF Stopped, shellVars, ProcTypeOK
  <2>5. CASE ContinuedByOther(p)
    BY <1>0, <2>5 DEF ContinuedByOther, Resume, shellVars, ProcTypeOK
  <2> QED
    BY <2>1, <2>2, <2>3, <2>4, <2>5 DEF Child
<1>23. CASE UNCHANGED vars
  BY <1>0, <1>23 DEF vars, shellVars, procVars
<1> QED
  BY <1>10, <1>11, <1>12, <1>13, <1>14, <1>15, <1>16, <1>17, <1>18, <1>19,
     <1>20, <1>21, <1>22, <1>23 DEF Next, Line, ShellStep, Terminated

(* Unless a child is stopped before it reaches execvp, no job ever owns    *)
(* the terminal but the one execute or bin_fg deals with.                  *)
THEOREM TerminalIsExclusive == Spec => []TerminalExclusive
<1>1. TerminalInv => TerminalExclusive
  BY DEF TerminalInv, TerminalExclusive, Undisturbed
<1> QED
  BY <1>1, InitTerminal, TerminalPreserved, PTL DEF Spec

(* Unless a child is stopped before it reaches execvp, a foreground        *)
(* program that execute started owns the terminal while the shell waits.   *)
THEOREM ForegroundTerminal == Spec => []ForegroundOwnsTerminal
<1>1. TerminalInv => ForegroundOwnsTerminal
  BY DEF TerminalInv, ForegroundOwnsTerminal, Undisturbed
<1> QED
  BY <1>1, InitTerminal, TerminalPreserved, PTL DEF Spec

-----------------------------------------------------------------------------
(* The job list.  Entries are added by execute and removed by bin_fg and   *)
(* the loop of wsh_main, each with a key of its own (job id or pid); the   *)
(* proofs show that the keys never disagree, so that no child is forgotten *)
(* and none is listed twice.                                               *)

(* The job id bin_fg keeps names the process it deals with.                *)
FgNamesTarget ==
  pc \in {"fgkill", "fgwait"} =>
    \E i \in DOMAIN jobs : jobs[i].jid = fgjid /\ jobs[i].pid = target

ListInv == TypeOK /\ JidsIncrease /\ FgNamesTarget /\ NoLostChild

LEMMA InitList == Init => ListInv
  BY InitType DEF Init, ListInv, JidsIncrease, FgNamesTarget, NoLostChild, Exists

(* Job ids.                                                                *)
LEMMA JidsPreserved == TypeOK /\ JidsIncrease /\ [Next]_vars => JidsIncrease'
<1> SUFFICES ASSUME TypeOK, JidsUpTo(jobs, jcount), [Next]_vars
             PROVE  JidsUpTo(jobs', jcount')
  BY DEF JidsIncrease, JidsUpTo
<1>0. ShellTypeOK /\ jobs \in Seq(Entry(PidOrNone)) /\ jcount \in Nat
      /\ target \in PidOrNone /\ JobState = {"RUNNING", "STOPPED"}
  BY TypeParts DEF ShellTypeOK, JobState
<1>1. ASSUME UNCHANGED <<jobs, jcount>> PROVE JidsUpTo(jobs', jcount')
  BY <1>1
<1>2. JidsUpTo(jobs, jcount + 1)
  <2>1. \A k : k \in 1 .. jcount => k \in 1 .. jcount + 1
    BY <1>0
  <2> QED
    BY <2>1 DEF JidsUpTo
<1>3. \A pid \in PidOrNone, st \in JobState :
        JidsUpTo(add_job(jobs, jcount + 1, pid, st), jcount + 1)
  BY <1>0, JidsOfAdd
<1>4. \A pid : JidsUpTo(remove_job_pid(jobs, pid), jcount)
  BY <1>0, RemovalIsPart, JidsOfPart
<1>5. \A jid : JidsUpTo(remove_job_jid(jobs, jid), jcount)
  BY <1>0, RemovalIsPart, JidsOfPart
<1>6. \A pid : \A st \in JobState : JidsUpTo(update_job_pid(jobs, pid, st), jcount)
  BY <1>0, JidsOfUpdate
<1>7. \A jid : \A st \in JobState : JidsUpTo(update_job_jid(jobs, jid, st), jcount)
  BY <1>0, JidsOfUpdate
<1>8. ASSUME CleanupJobList PROVE JidsUpTo(jobs', jcount')
  BY <1>8 DEF CleanupJobList, JidsUpTo
<1>10. CASE ExecuteForeground
  BY <1>1, <1>10 DEF ExecuteForeground
<1>11. CASE ExecuteBackground
  BY <1>0, <1>3, <1>11 DEF ExecuteBackground, PidOrNone
<1>12. CASE FgStart
  BY <1>1, <1>12 DEF FgStart
<1>13. CASE Bg
  BY <1>1, <1>13 DEF Bg
<1>14. CASE Exit
  BY <1>8, <1>14 DEF Exit
<1>15. CASE OtherLine
  BY <1>1, <1>15 DEF OtherLine
<1>16. CASE ForegroundReturns
  BY <1>0, <1>1, <1>2, <1>3, <1>16 DEF ForegroundReturns
<1>17. CASE FgContinue
  BY <1>1, <1>17 DEF FgContinue
<1>18. CASE FgReturns
  BY <1>0, <1>5, <1>7, <1>18 DEF FgReturns
<1>19. CASE TakeBack
  BY <1>1, <1>19 DEF TakeBack
<1>20. CASE ReapDone
  BY <1>1, <1>8, <1>20 DEF ReapDone
<1>21. CASE \E p \in Pids : Reap(p)
  BY <1>0, <1>4, <1>6, <1>21 DEF Reap
<1>22. CASE \E p \in Pids : Child(p)
  BY <1>1, <1>22 DEF Child, ChildSetpgid, ChildExec, ProgramExits, Killed,
     Stopped, ContinuedByOther, shellVars
<1>23. CASE UNCHANGED vars
  BY <1>1, <1>23 DEF vars, shellVars
<1> QED
  BY <1>10, <1>11, <1>12, <1>13, <1>14, <1>15, <1>16, <1>17, <1>18, <1>19,
     <1>20, <1>21, <1>22, <1>23 DEF Next, Line, ShellStep, Terminated

LEMMA FgNamePreserved == TypeOK /\ FgNamesTarget /\ [Next]_vars => FgNamesTarget'
<1> SUFFICES ASSUME TypeOK, FgNamesTarget, [Next]_vars PROVE FgNamesTarget'
  OBVIOUS
<1> USE DEF FgNamesTarget
<1>12. CASE FgStart
  <2> PICK i \in DOMAIN jobs :
        LET pid == get_job_pid(jobs, jobs[i].jid) IN
        \/ /\ pid = NoPid
           /\ pc' = "reap"
        \/ /\ pid # NoPid
           /\ pc' = "fgkill"
           /\ target' = pid
           /\ fgjid' = jobs[i].jid
    BY <1>12 DEF FgStart
  <2>1. jobs' = jobs
    BY <1>12 DEF FgStart
  <2>2. jobs \in Seq(Entry(PidOrNone)) /\ DOMAIN jobs = 1 .. Len(jobs)
    BY JobsType, LenProperties
  <2>3. \E k \in DOMAIN jobs :
          jobs[k].jid = jobs[i].jid /\ get_job_pid(jobs, jobs[i].jid) = jobs[k].pid
    BY <2>2, GetJobPidProperties
  <2> QED
    BY <2>1, <2>3
<1>13. CASE ExecuteForeground \/ ExecuteBackground \/ Bg \/ Exit \/ OtherLine
  BY <1>13 DEF ExecuteForeground, ExecuteBackground, Bg, Exit, OtherLine, CleanupJobList
<1>14. CASE ForegroundReturns \/ FgReturns \/ TakeBack \/ ReapDone
  BY <1>14 DEF ForegroundReturns, FgReturns, TakeBack, ReapDone, CleanupJobList
<1>15. CASE FgContinue
  BY <1>15 DEF FgContinue
<1>16. CASE \E p \in Pids : Reap(p)
  BY <1>16 DEF Reap
<1>17. CASE \E p \in Pids : Child(p)
  BY <1>17 DEF Child, ChildSetpgid, ChildExec, ProgramExits, Killed,
     Stopped, ContinuedByOther, shellVars
<1>18. CASE UNCHANGED vars
  BY <1>18 DEF vars, shellVars
<1> QED
  BY <1>12, <1>13, <1>14, <1>15, <1>16, <1>17, <1>18
     DEF Next, Line, ShellStep, Terminated

LEMMA NoLostPreserved == ListInv /\ [Next]_vars => NoLostChild'
<1> SUFFICES ASSUME ListInv, [Next]_vars PROVE NoLostChild'
  OBVIOUS
<1>0. /\ ShellTypeOK /\ ProcTypeOK /\ NoLostChild /\ TypeOK
      /\ jobs \in Seq(Entry(PidOrNone)) /\ jcount \in Nat /\ target \in PidOrNone
      /\ JobState = {"RUNNING", "STOPPED"}
  BY TypeParts DEF ListInv, ShellTypeOK, JobState
<1>1. \A q, pid : Listed(q) /\ q # pid => WithPid(remove_job_pid(jobs, pid), q) # {}
  BY <1>0, ListedAfterRemovePid DEF Listed
<1>2. \A q, pid : \A st \in JobState : WithPid(update_job_pid(jobs, pid, st), q) = WithPid(jobs, q)
  BY <1>0, ListedAfterUpdate
<1>3. \A q, jid : \A st \in JobState : WithPid(update_job_jid(jobs, jid, st), q) = WithPid(jobs, q)
  BY <1>0, ListedAfterUpdate
<1>4. \A q : \A pid \in PidOrNone, st \in JobState :
        WithPid(add_job(jobs, jcount + 1, pid, st), q) # {} <=> Listed(q) \/ q = pid
  BY <1>0, ListedAfterAdd DEF Listed
<1> USE DEF NoLostChild, Exists
<1>10. CASE ExecuteForeground
  BY <1>0, <1>10 DEF ExecuteForeground, AtPrompt, Spawn, procVars, ProcTypeOK, Listed
<1>11. CASE ExecuteBackground
  <2>1. \/ jobs' = add_job(jobs, jcount + 1, NoPid, "RUNNING") /\ UNCHANGED procVars
        \/ \E p \in Pids : Spawn(p, "bg") /\ jobs' = add_job(jobs, jcount + 1, p, "RUNNING")
    BY <1>11 DEF ExecuteBackground
  <2>2. pc # "exited" /\ pc # "wait"
    BY <1>11 DEF ExecuteBackground, AtPrompt
  <2>3. CASE \E p \in Pids : Spawn(p, "bg") /\ jobs' = add_job(jobs, jcount + 1, p, "RUNNING")
    <3> PICK p \in Pids : Spawn(p, "bg") /\ jobs' = add_job(jobs, jcount + 1, p, "RUNNING")
      BY <2>3
    <3>1. \A q \in Pids : WithPid(jobs', q) # {} <=> Listed(q) \/ q = p
      BY <1>0, <1>4 DEF PidOrNone
    <3>2. \A q \in Pids : q # p => phase'[q] = phase[q]
      BY <1>0 DEF Spawn, ProcTypeOK
    <3> QED
      BY <1>0, <2>2, <3>1, <3>2 DEF Listed
  <2>4. CASE jobs' = add_job(jobs, jcount + 1, NoPid, "RUNNING") /\ UNCHANGED procVars
    <3>1. \A q \in Pids : Listed(q) => WithPid(jobs', q) # {}
      BY <1>0, <1>4, <2>4 DEF PidOrNone
    <3> QED
      BY <1>0, <2>2, <2>4, <3>1 DEF Listed, procVars
  <2> QED
    BY <2>1, <2>3, <2>4
<1>12. CASE FgStart
  BY <1>0, <1>12 DEF FgStart, AtPrompt, procVars, Listed
<1>13. CASE Bg
  BY <1>0, <1>13 DEF Bg, Resume, AtPrompt, procVars, Listed
<1>14. CASE Exit
  BY <1>14 DEF Exit, CleanupJobList
<1>15. CASE OtherLine
  BY <1>0, <1>15 DEF OtherLine, AtPrompt, procVars, Listed
<1>16. CASE ForegroundReturns
  <2>1. pc = "wait" /\ pc' = "takeback" /\ target' = target
    BY <1>16 DEF ForegroundReturns
  <2>2. CASE \E p \in Awaited : Release(p) /\ UNCHANGED jobs
    <3> PICK p \in Awaited : Release(p) /\ UNCHANGED jobs
      BY <2>2
    <3>1. p \in Pids \/ p = target
      BY DEF Awaited
    <3>2. \A q \in Pids : phase'[q] # "free" => phase[q] # "free" /\ q # p
      BY <1>0 DEF Release, ProcTypeOK
    <3>3. target \in Pids => p = target
      BY ConstantsAssumption DEF Awaited
    <3> QED
      BY <1>0, <2>1, <3>2, <3>3, ConstantsAssumption DEF Listed
  <2>3. CASE \E p \in Awaited : /\ TakeNote(p)
                                /\ jobs' = add_job(jobs, jcount + 1, target, "STOPPED")
    <3>1. \A q \in Pids : WithPid(jobs', q) # {} <=> Listed(q) \/ q = target
      BY <1>0, <1>4, <2>3
    <3> QED
      BY <1>0, <2>1, <2>3, <3>1 DEF TakeNote, Listed
  <2>4. CASE Awaited = {} /\ UNCHANGED <<procVars, jobs, jcount>>
    BY <1>0, <2>1, <2>4 DEF Awaited, procVars
  <2> QED
    BY <1>16, <2>2, <2>3, <2>4 DEF ForegroundReturns
<1>17. CASE FgContinue
  BY <1>0, <1>17 DEF FgContinue, Resume, procVars, Listed
<1>18. CASE FgReturns
  <2>1. pc = "fgwait"
    BY <1>18 DEF FgReturns
  <2>2. PICK i \in DOMAIN jobs : jobs[i].jid = fgjid /\ jobs[i].pid = target
    BY <2>1 DEF ListInv, FgNamesTarget
  <2>3. JidsUpTo(jobs, jcount)
    BY DEF ListInv, JidsIncrease, JidsUpTo
  <2>4. \A q \in Pids : Listed(q) /\ q # target => WithPid(remove_job_jid(jobs, fgjid), q) # {}
    BY <1>0, <2>2, <2>3, ListedAfterRemoveJid DEF Listed
  <2>5. CASE Release(target) /\ jobs' = remove_job_jid(jobs, fgjid)
    BY <1>0, <2>1, <2>4, <2>5 DEF Release, ProcTypeOK, Listed
  <2>6. CASE TakeNote(target) /\ jobs' = update_job_jid(jobs, fgjid, "STOPPED")
    BY <1>0, <1>3, <2>1, <2>6 DEF TakeNote, Listed
  <2> QED
    BY <1>18, <2>5, <2>6 DEF FgReturns
<1>19. CASE TakeBack
  BY <1>0, <1>19 DEF TakeBack, procVars, Listed
<1>20. CASE ReapDone
  BY <1>0, <1>20 DEF ReapDone, CleanupJobList, procVars, Listed
<1>21. CASE \E p \in Pids : Reap(p)
  <2> PICK p \in Pids : Reap(p)
    BY <1>21
  <2>1. pc = "reap" /\ pc' = "reap"
    BY DEF Reap
  <2>2. CASE Release(p) /\ jobs' = remove_job_pid(jobs, p)
    BY <1>0, <1>1, <2>1, <2>2 DEF Release, ProcTypeOK, Listed
  <2>3. CASE TakeNote(p) /\ \E st \in JobState : jobs' = update_job_pid(jobs, p, st)
    BY <1>0, <1>2, <2>1, <2>3 DEF TakeNote, Listed
  <2> QED
    BY <1>0, <2>2, <2>3 DEF Reap
<1>22. CASE \E p \in Pids : Child(p)
  <2> SUFFICES ASSUME NEW p \in Pids, Child(p) PROVE NoLostChild'
    BY <1>22
  <2>1. UNCHANGED shellVars /\ \A q \in Pids : (phase'[q] = "free" <=> phase[q] = "free")
    BY <1>0 DEF Child, ChildSetpgid, ChildExec, ProgramExits, Killed,
       Stopped, ContinuedByOther, Resume, ProcTypeOK
  <2> QED
    BY <1>0, <2>1 DEF shellVars, Listed
<1>23. CASE UNCHANGED vars
  BY <1>0, <1>23 DEF vars, shellVars, procVars, Listed
<1> QED
  BY <1>10, <1>11, <1>12, <1>13, <1>14, <1>15, <1>16, <1>17, <1>18, <1>19,
     <1>20, <1>21, <1>22, <1>23 DEF Next, Line, ShellStep, Terminated

LEMMA ListPreserved == ListInv /\ [Next]_vars => ListInv'
  BY TypePreserved, JidsPreserved, FgNamePreserved, NoLostPreserved DEF ListInv

(* Job ids are handed out once, in increasing order.                       *)
THEOREM JidsAreUnique == Spec => []JidsIncrease
<1>1. ListInv => JidsIncrease
  BY DEF ListInv
<1> QED
  BY <1>1, InitList, ListPreserved, PTL DEF Spec

(* Whatever the environment does, a child that was not reaped is listed,   *)
(* or execute is waiting for it.                                           *)
THEOREM NoChildIsLost == Spec => []NoLostChild
<1>1. ListInv => NoLostChild
  BY DEF ListInv
<1> QED
  BY <1>1, InitList, ListPreserved, PTL DEF Spec

-----------------------------------------------------------------------------
(* At exit cleanup_job_list signals every entry; as no child is lost, only *)
(* one whose group does not exist yet escapes.                             *)
LEMMA ExitSparesPreserved == ListInv /\ ExitSparesOnlyNew /\ [Next]_vars => ExitSparesOnlyNew'
<1> SUFFICES ASSUME ListInv, ExitSparesOnlyNew, [Next]_vars PROVE ExitSparesOnlyNew'
  OBVIOUS
<1>0. ProcTypeOK /\ NoLostChild
  BY TypeParts DEF ListInv
<1> USE DEF ExitSparesOnlyNew
<1>1. ASSUME CleanupJobList, pc \notin {"exited", "wait"} PROVE ExitSparesOnlyNew'
  <2> SUFFICES ASSUME NEW p \in Pids, Alive(p)' PROVE phase'[p] = "new"
    OBVIOUS
  <2>1. phase' = phase /\ Exists(p) /\ run'[p] \in {"running", "stopped"}
    BY <1>1 DEF CleanupJobList, Alive, Exists
  <2>2. Alive(p) /\ run'[p] = run[p]
    BY <1>0, <1>1, <2>1 DEF CleanupJobList, Alive, ProcTypeOK
  <2>3. WithPid(jobs, p) # {}
    BY <1>0, <1>1, <2>1 DEF NoLostChild, Listed
  <2>4. p \notin Groups
    BY <1>0, <1>1, <2>1, <2>2, <2>3 DEF CleanupJobList
  <2> QED
    BY <1>0, <2>1, <2>4 DEF Groups, HasGroup, Exists, ProcTypeOK
<1>10. CASE Line
  <2>1. CASE Exit
    BY <1>1, <2>1 DEF Exit, AtPrompt
  <2>2. CASE ExecuteForeground \/ ExecuteBackground \/ FgStart \/ Bg \/ OtherLine
    BY <2>2 DEF ExecuteForeground, ExecuteBackground, FgStart, Bg, OtherLine
  <2> QED
    BY <1>10, <2>1, <2>2 DEF Line
<1>11. CASE ShellStep
  <2>1. CASE ReapDone
    BY <1>1, <2>1 DEF ReapDone
  <2>2. CASE ForegroundReturns \/ FgContinue \/ FgReturns \/ TakeBack \/ \E p \in Pids : Reap(p)
    BY <2>2 DEF ForegroundReturns, FgContinue, FgReturns, TakeBack, Reap
  <2> QED
    BY <1>11, <2>1, <2>2 DEF ShellStep
<1>12. CASE pc # "exited" /\ \E p \in Pids : Child(p)
  BY <1>12 DEF Child, ChildSetpgid, ChildExec, ProgramExits, Killed,
     Stopped, ContinuedByOther, shellVars
<1>13. CASE UNCHANGED vars
  BY <1>13 DEF vars, shellVars, procVars, Alive, Exists
<1> QED
  BY <1>10, <1>11, <1>12, <1>13 DEF Next, Terminated

(* Whatever the environment does, a child survives the shell only if it    *)
(* had not made its process group when cleanup_job_list signalled it.      *)
THEOREM OnlyNewSurvive == Spec => []ExitSparesOnlyNew
<1>1. Init => ExitSparesOnlyNew
  BY DEF Init, ExitSparesOnlyNew
<1> QED
  BY <1>1, InitList, ListPreserved, ExitSparesPreserved, PTL DEF Spec
-----------------------------------------------------------------------------
(* From here on fork succeeds.                                             *)
Reliable == "forkfail" \notin Disturbances

EntriesExist == \A i \in DOMAIN jobs : jobs[i].pid \in Pids /\ Exists(jobs[i].pid)

(* execute waits for a child that is not reaped by anybody else.           *)
AwaitedExists == pc = "wait" => target \in Pids /\ Exists(target)

AwaitedUnlisted == pc = "wait" => ~Listed(target)

EntryInv ==
  /\ ListInv
  /\ Reliable =>
       EntriesExist /\ DistinctPids(jobs) /\ AwaitedExists /\ AwaitedUnlisted

LEMMA InitEntry == Init => EntryInv
  BY InitList
     DEF Init, EntryInv, EntriesExist, DistinctPids, AwaitedExists, AwaitedUnlisted

(* What the steps of execute and of the reaps do to the list, when each    *)
(* process is listed once.                                                 *)
LEMMA OneEntryChanges ==
  ASSUME ListInv, DistinctPids(jobs)
  PROVE  /\ \A p : /\ DistinctPids(remove_job_pid(jobs, p))
                   /\ Without(remove_job_pid(jobs, p), jobs, p)
         /\ \A p : \A st \in JobState : WithState(update_job_pid(jobs, p, st), jobs, p, st)
         /\ pc = "fgwait" =>
              /\ DistinctPids(remove_job_jid(jobs, fgjid))
              /\ Without(remove_job_jid(jobs, fgjid), jobs, target)
              /\ WithState(update_job_jid(jobs, fgjid, "STOPPED"), jobs, target, "STOPPED")
<1>1. jobs \in Seq(Entry(PidOrNone)) /\ JidsUpTo(jobs, jcount) /\ jcount \in Nat
  BY JobsType DEF ListInv, JidsIncrease, JidsUpTo, TypeOK
<1>2. \A p : /\ DistinctPids(remove_job_pid(jobs, p))
             /\ Without(remove_job_pid(jobs, p), jobs, p)
  BY <1>1, RemovePidOne
<1>3. \A p : \A st \in JobState : WithState(update_job_pid(jobs, p, st), jobs, p, st)
  BY <1>1, UpdatePidOne
<1>4. ASSUME pc = "fgwait"
      PROVE  /\ DistinctPids(remove_job_jid(jobs, fgjid))
             /\ Without(remove_job_jid(jobs, fgjid), jobs, target)
             /\ WithState(update_job_jid(jobs, fgjid, "STOPPED"), jobs, target, "STOPPED")
  <2>1. PICK i \in DOMAIN jobs : jobs[i].jid = fgjid /\ jobs[i].pid = target
    BY <1>4 DEF ListInv, FgNamesTarget
  <2>2. "STOPPED" \in JobState
    BY DEF JobState
  <2>3. /\ DistinctPids(remove_job_jid(jobs, jobs[i].jid))
        /\ Without(remove_job_jid(jobs, jobs[i].jid), jobs, jobs[i].pid)
    BY <1>1, RemoveJidOne
  <2>4. WithState(update_job_jid(jobs, jobs[i].jid, "STOPPED"), jobs, jobs[i].pid, "STOPPED")
    BY <1>1, <2>2, UpdateJidOne
  <2> QED
    BY <2>1, <2>3, <2>4
<1> QED
  BY <1>2, <1>3, <1>4

(* A new entry of a process that is not listed.                            *)
LEMMA OneEntryAdded ==
  ASSUME TypeOK, DistinctPids(jobs), NEW p \in Pids, ~Listed(p), NEW st \in JobState
  PROVE  LET new == add_job(jobs, jcount + 1, p, st) IN
         /\ DistinctPids(new)
         /\ \A i \in DOMAIN new :
              \/ i \in DOMAIN jobs /\ new[i] = jobs[i] /\ jobs[i].pid # p
              \/ new[i].pid = p /\ new[i].state = st
<1> DEFINE new == add_job(jobs, jcount + 1, p, st)
<1>1. jobs \in Seq(Entry(PidOrNone)) /\ jcount + 1 \in Nat /\ p \in PidOrNone
  BY JobsType DEF TypeOK, PidOrNone
<1>2. /\ new \in Seq(Entry(PidOrNone))
      /\ Len(new) = Len(jobs) + 1
      /\ \A i \in 1 .. Len(jobs) : new[i] = jobs[i]
      /\ new[Len(jobs) + 1] = [jid |-> jcount + 1, pid |-> p, state |-> st]
  BY <1>1, AddJobProperties
<1> HIDE DEF new
<1>3. DOMAIN new = 1 .. Len(jobs) + 1 /\ DOMAIN jobs = 1 .. Len(jobs) /\ Len(jobs) \in Nat
  BY <1>1, <1>2, LenProperties
<1>4. new[Len(jobs) + 1].pid = p /\ new[Len(jobs) + 1].state = st
  BY <1>2
<1>5. \A i \in DOMAIN jobs : jobs[i].pid # p
  BY DEF Listed, WithPid
<1>6. DistinctPids(new)
  BY <1>2, <1>3, <1>4, <1>5 DEF DistinctPids
<1>7. \A i \in DOMAIN new :
        \/ i \in DOMAIN jobs /\ new[i] = jobs[i] /\ jobs[i].pid # p
        \/ new[i].pid = p /\ new[i].state = st
  BY <1>2, <1>3, <1>4, <1>5
<1> QED
  BY <1>6, <1>7 DEF new

LEMMA EntryPreserved == EntryInv /\ [Next]_vars => EntryInv'
<1> DEFINE Inv == EntriesExist /\ DistinctPids(jobs) /\ AwaitedExists /\ AwaitedUnlisted
<1> SUFFICES ASSUME EntryInv, Reliable, [Next]_vars PROVE Inv'
  BY ListPreserved DEF EntryInv, Reliable
<1>0. TypeOK /\ ProcTypeOK /\ ListInv /\ Inv
  BY TypeParts DEF EntryInv, ListInv
<1> USE DEF EntriesExist, AwaitedExists, AwaitedUnlisted
<1>1. ASSUME jobs' = jobs, \A q \in Pids : Exists(q) => Exists(q)',
             pc' = "wait" => pc = "wait" /\ target' = target
      PROVE  Inv'
  BY <1>0, <1>1 DEF Listed, DistinctPids
<1>2. ASSUME CleanupJobList PROVE Inv'
  BY <1>2 DEF CleanupJobList, DistinctPids
<1>3. ASSUME NEW p \in Pids, Release(p), Without(jobs', jobs, p), DistinctPids(jobs'),
             pc' # "wait"
      PROVE  Inv'
  <2>1. \A q \in Pids : q # p => (Exists(q) => Exists(q)')
    BY <1>0, <1>3 DEF Release, Exists, ProcTypeOK
  <2> QED
    BY <1>0, <1>3, <2>1 DEF Without, DistinctPids
<1>4. ASSUME NEW p \in Pids, NEW st, phase' = phase, WithState(jobs', jobs, p, st), pc' # "wait"
      PROVE  Inv'
  BY <1>0, <1>4 DEF WithState, Exists, DistinctPids
<1>10. CASE ExecuteForeground
  <2> PICK p \in Pids : Spawn(p, "fg") /\ target' = p
    BY <1>10 DEF ExecuteForeground, Reliable
  <2>1. jobs' = jobs /\ phase[p] = "free"
    BY <1>10 DEF ExecuteForeground, Spawn
  <2>2. Exists(p)' /\ \A q \in Pids : Exists(q) => Exists(q)'
    BY <1>0 DEF Spawn, Exists, ProcTypeOK
  <2> QED
    BY <1>0, <2>1, <2>2 DEF Listed, WithPid, Exists, DistinctPids
<1>11. CASE ExecuteBackground
  <2> PICK p \in Pids : Spawn(p, "bg") /\ jobs' = add_job(jobs, jcount + 1, p, "RUNNING")
    BY <1>11 DEF ExecuteBackground, Reliable
  <2>1. phase[p] = "free" /\ pc' = "reap"
    BY <1>11 DEF ExecuteBackground, Spawn
  <2>2. Exists(p)' /\ \A q \in Pids : Exists(q) => Exists(q)'
    BY <1>0 DEF Spawn, Exists, ProcTypeOK
  <2>3. ~Listed(p)
    BY <1>0, <2>1 DEF Listed, WithPid, Exists
  <2>4. /\ DistinctPids(jobs')
        /\ \A i \in DOMAIN jobs' : \/ i \in DOMAIN jobs /\ jobs'[i] = jobs[i]
                                   \/ jobs'[i].pid = p
    BY <1>0, <2>3, OneEntryAdded DEF JobState
  <2> QED
    BY <1>0, <2>1, <2>2, <2>4
<1>12. CASE FgStart
  BY <1>1, <1>12 DEF FgStart, procVars, Exists
<1>13. CASE Bg
  BY <1>1, <1>13 DEF Bg, Resume, procVars, Exists
<1>14. CASE Exit
  BY <1>2, <1>14 DEF Exit
<1>15. CASE OtherLine
  BY <1>1, <1>15 DEF OtherLine, procVars, Exists
<1>16. CASE ForegroundReturns
  <2>1. pc = "wait" /\ pc' = "takeback" /\ target' = target
    BY <1>16 DEF ForegroundReturns
  <2>2. target \in Pids /\ Exists(target) /\ ~Listed(target)
    BY <1>0, <2>1
  <2>3. Awaited = {target}
    BY <2>2, ConstantsAssumption DEF Awaited
  <2>4. CASE Release(target) /\ jobs' = jobs
    <3>1. Without(jobs', jobs, target)
      BY <2>2, <2>4 DEF Without, Listed, WithPid
    <3> QED
      BY <1>0, <1>3, <2>1, <2>2, <2>4, <3>1
  <2>5. CASE /\ TakeNote(target)
             /\ jobs' = add_job(jobs, jcount + 1, target, "STOPPED")
    <3>1. /\ DistinctPids(jobs')
          /\ \A i \in DOMAIN jobs' : \/ i \in DOMAIN jobs /\ jobs'[i] = jobs[i]
                                     \/ jobs'[i].pid = target
      BY <1>0, <2>2, <2>5, OneEntryAdded DEF JobState
    <3> QED
      BY <1>0, <2>1, <2>2, <2>5, <3>1 DEF TakeNote, Exists
  <2> QED
    BY <1>16, <2>3, <2>4, <2>5 DEF ForegroundReturns
<1>17. CASE FgContinue
  BY <1>1, <1>17 DEF FgContinue, Resume, procVars, Exists
<1>18. CASE FgReturns
  <2>1. pc = "fgwait" /\ pc' = "takeback"
    BY <1>18 DEF FgReturns
  <2>2. target \in Pids
    BY <1>0, <2>1 DEF ListInv, FgNamesTarget
  <2>3. CASE Release(target) /\ jobs' = remove_job_jid(jobs, fgjid)
    BY <1>0, <1>3, <2>1, <2>2, <2>3, OneEntryChanges
  <2>4. CASE TakeNote(target) /\ jobs' = update_job_jid(jobs, fgjid, "STOPPED")
    BY <1>0, <1>4, <2>1, <2>2, <2>4, OneEntryChanges DEF TakeNote
  <2> QED
    BY <1>18, <2>3, <2>4 DEF FgReturns
<1>19. CASE TakeBack
  BY <1>1, <1>19 DEF TakeBack, procVars, Exists
<1>20. CASE ReapDone
  BY <1>1, <1>2, <1>20 DEF ReapDone, procVars, Exists
<1>21. CASE \E p \in Pids : Reap(p)
  <2> PICK p \in Pids : Reap(p)
    BY <1>21
  <2>1. pc' # "wait" /\ JobState = {"RUNNING", "STOPPED"}
    BY DEF Reap, JobState
  <2>2. CASE Release(p) /\ jobs' = remove_job_pid(jobs, p)
    BY <1>0, <1>3, <2>1, <2>2, OneEntryChanges
  <2>3. CASE TakeNote(p) /\ \E st \in JobState : jobs' = update_job_pid(jobs, p, st)
    BY <1>0, <1>4, <2>1, <2>3, OneEntryChanges DEF TakeNote
  <2> QED
    BY <2>1, <2>2, <2>3 DEF Reap
<1>22. CASE \E p \in Pids : Child(p)
  <2>1. UNCHANGED shellVars /\ \A q \in Pids : (phase'[q] = "free" <=> phase[q] = "free")
    BY <1>0, <1>22 DEF Child, ChildSetpgid, ChildExec, ProgramExits, Killed,
       Stopped, ContinuedByOther, Resume, ProcTypeOK
  <2> QED
    BY <1>1, <2>1 DEF shellVars, Exists
<1>23. CASE UNCHANGED vars
  BY <1>1, <1>23 DEF vars, shellVars, procVars, Exists
<1> QED
  BY <1>10, <1>11, <1>12, <1>13, <1>14, <1>15, <1>16, <1>17, <1>18, <1>19,
     <1>20, <1>21, <1>22, <1>23 DEF Next, Line, ShellStep, Terminated

(* While fork succeeds, the list holds each child once and nothing else:   *)
(* no entry outlives its process, whose pid may be handed out again.       *)
THEOREM EachChildListedOnce == Spec => []OneEntryPerChild
<1>1. EntryInv => OneEntryPerChild
  BY DEF EntryInv, Reliable, OneEntryPerChild, EntriesExist, DistinctPids, AwaitedUnlisted
<1> QED
  BY <1>1, InitEntry, EntryPreserved, PTL DEF Spec

-----------------------------------------------------------------------------
(* A change of state that is still pending names the state a process is    *)
(* in: a later change replaces an earlier one.                             *)
NoteNamesState ==
  \A p \in Pids : Alive(p) =>
    /\ note[p] = "stopped" => run[p] = "stopped"
    /\ note[p] = "continued" => run[p] = "running"

(* What an entry says of a process from which nothing is pending.          *)
Agrees(state, p) ==
  Alive(p) /\ note[p] = "none" => (state = "STOPPED" <=> run[p] = "stopped")

AgreeInv ==
  /\ EntryInv
  /\ NoteNamesState
  /\ Reliable => \A i \in DOMAIN jobs : Agrees(jobs[i].state, jobs[i].pid)

LEMMA InitAgree == Init => AgreeInv
  BY InitEntry DEF Init, AgreeInv, NoteNamesState, Alive, Exists

LEMMA NotePreserved == TypeOK /\ NoteNamesState /\ [Next]_vars => NoteNamesState'
<1> SUFFICES ASSUME ProcTypeOK, NoteNamesState, [Next]_vars PROVE NoteNamesState'
  BY TypeParts
<1> USE DEF NoteNamesState, Alive, Exists, ProcTypeOK
<1>1. ASSUME NEW p \in Pids, NEW r, Spawn(p, r) PROVE NoteNamesState'
  BY <1>1 DEF Spawn
<1>2. ASSUME NEW p, Release(p) PROVE NoteNamesState'
  BY <1>2 DEF Release
<1>3. ASSUME NEW p, TakeNote(p) PROVE NoteNamesState'
  BY <1>3 DEF TakeNote
<1>4. ASSUME NEW p, Resume(p) PROVE NoteNamesState'
  BY <1>4 DEF Resume
<1>5. ASSUME UNCHANGED procVars PROVE NoteNamesState'
  BY <1>5 DEF procVars
<1>6. ASSUME CleanupJobList PROVE NoteNamesState'
  BY <1>6 DEF CleanupJobList
<1> HIDE DEF NoteNamesState, Alive, Exists, ProcTypeOK
<1>10. CASE Line
  BY <1>10, <1>1, <1>4, <1>5, <1>6
     DEF Line, ExecuteForeground, ExecuteBackground, FgStart, Bg, Exit, OtherLine
<1>11. CASE ShellStep
  BY <1>11, <1>2, <1>3, <1>4, <1>5, <1>6
     DEF ShellStep, ForegroundReturns, FgContinue, FgReturns, TakeBack, ReapDone, Reap
<1>12. CASE \E p \in Pids : Child(p)
  <2> SUFFICES ASSUME NEW p \in Pids, Child(p) PROVE NoteNamesState'
    BY <1>12
  <2>1. CASE ContinuedByOther(p)
    BY <2>1, <1>4 DEF ContinuedByOther
  <2>2. CASE ChildSetpgid(p) \/ ChildExec(p)
    BY <2>2 DEF ChildSetpgid, ChildExec, NoteNamesState, Alive, Exists, ProcTypeOK
  <2>3. CASE ProgramExits(p) \/ Killed(p) \/ Stopped(p)
    BY <2>3 DEF ProgramExits, Killed, Stopped, NoteNamesState, Alive, Exists, ProcTypeOK
  <2> QED
    BY <2>1, <2>2, <2>3 DEF Child
<1>13. CASE UNCHANGED vars
  BY <1>13, <1>5 DEF vars
<1> QED
  BY <1>10, <1>11, <1>12, <1>13 DEF Next, Terminated

LEMMA AgreePreserved == AgreeInv /\ [Next]_vars => AgreeInv'
<1> DEFINE Inv == \A i \in DOMAIN jobs : Agrees(jobs[i].state, jobs[i].pid)
<1> SUFFICES ASSUME AgreeInv, Reliable, [Next]_vars PROVE Inv'
  BY EntryPreserved, NotePreserved DEF AgreeInv, EntryInv, ListInv, Reliable
<1>0. /\ ProcTypeOK /\ TypeOK /\ ListInv /\ NoteNamesState /\ Inv
      /\ EntriesExist /\ DistinctPids(jobs) /\ AwaitedExists /\ AwaitedUnlisted
  BY TypeParts DEF AgreeInv, EntryInv, ListInv
<1> USE DEF EntriesExist
<1>1. ASSUME jobs' = jobs,
             \A q \in Pids : \A st : Exists(q) /\ Agrees(st, q) => Agrees(st, q)'
      PROVE  Inv'
  BY <1>0, <1>1
<1>2. ASSUME CleanupJobList PROVE Inv'
  BY <1>2 DEF CleanupJobList
<1>3. ASSUME NEW p \in Pids, Release(p), Without(jobs', jobs, p) PROVE Inv'
  <2>1. \A q \in Pids : \A st : q # p /\ Agrees(st, q) => Agrees(st, q)'
    BY <1>0, <1>3 DEF Release, Agrees, Alive, Exists, ProcTypeOK
  <2> QED
    BY <1>0, <1>3, <2>1 DEF Without
<1>4. ASSUME NEW p \in Pids, NEW st, TakeNote(p), WithState(jobs', jobs, p, st),
             Alive(p) => (st = "STOPPED" <=> run[p] = "stopped")
      PROVE  Inv'
  <2>1. \A q \in Pids : \A s : q # p /\ Agrees(s, q) => Agrees(s, q)'
    BY <1>0, <1>4 DEF TakeNote, Agrees, Alive, Exists, ProcTypeOK
  <2>2. Agrees(st, p)'
    BY <1>0, <1>4 DEF TakeNote, Agrees, Alive, Exists, ProcTypeOK
  <2> QED
    BY <1>0, <1>4, <2>1, <2>2 DEF WithState
<1>5. ASSUME UNCHANGED procVars PROVE \A q, st : Agrees(st, q) => Agrees(st, q)'
  BY <1>5 DEF procVars, Agrees, Alive, Exists
<1>6. ASSUME NEW p, Resume(p)
      PROVE  \A q \in Pids : \A st : Agrees(st, q) => Agrees(st, q)'
  BY <1>0, <1>6 DEF Resume, Agrees, Alive, Exists, ProcTypeOK
<1>7. ASSUME NEW p \in Pids, NEW r, Spawn(p, r)
      PROVE  /\ \A q \in Pids : \A st : Exists(q) /\ Agrees(st, q) => Agrees(st, q)'
             /\ Agrees("RUNNING", p)'
  BY <1>0, <1>7 DEF Spawn, Agrees, Alive, Exists, ProcTypeOK
<1> HIDE DEF Inv
<1>10. CASE ExecuteForeground
  BY <1>1, <1>5, <1>7, <1>10 DEF ExecuteForeground
<1>11. CASE ExecuteBackground
  <2> PICK p \in Pids : Spawn(p, "bg") /\ jobs' = add_job(jobs, jcount + 1, p, "RUNNING")
    BY <1>11 DEF ExecuteBackground, Reliable
  <2>1. ~Listed(p)
    BY <1>0 DEF Spawn, Listed, WithPid, Exists
  <2>2. \A i \in DOMAIN jobs' : \/ i \in DOMAIN jobs /\ jobs'[i] = jobs[i]
                                \/ jobs'[i].pid = p /\ jobs'[i].state = "RUNNING"
    BY <1>0, <2>1, OneEntryAdded DEF JobState
  <2> QED
    BY <1>0, <1>7, <2>2 DEF Inv
<1>12. CASE FgStart
  BY <1>1, <1>5, <1>12 DEF FgStart
<1>13. CASE Bg
  BY <1>1, <1>5, <1>6, <1>13 DEF Bg
<1>14. CASE Exit
  BY <1>2, <1>14 DEF Exit
<1>15. CASE OtherLine
  BY <1>1, <1>5, <1>15 DEF OtherLine
<1>16. CASE ForegroundReturns
  <2>1. pc = "wait" /\ target' = target
    BY <1>16 DEF ForegroundReturns
  <2>2. target \in Pids /\ Exists(target) /\ ~Listed(target)
    BY <1>0, <2>1 DEF AwaitedExists, AwaitedUnlisted
  <2>3. Awaited = {target}
    BY <2>2, ConstantsAssumption DEF Awaited
  <2>4. CASE Release(target) /\ jobs' = jobs
    <3>1. Without(jobs', jobs, target)
      BY <2>2, <2>4 DEF Without, Listed, WithPid
    <3> QED
      BY <1>3, <2>2, <2>4, <3>1
  <2>5. CASE /\ Alive(target) /\ note[target] = "stopped" /\ TakeNote(target)
             /\ jobs' = add_job(jobs, jcount + 1, target, "STOPPED")
    <3>1. \A i \in DOMAIN jobs' :
            \/ i \in DOMAIN jobs /\ jobs'[i] = jobs[i] /\ jobs[i].pid # target
            \/ jobs'[i].pid = target /\ jobs'[i].state = "STOPPED"
      BY <1>0, <2>2, <2>5, OneEntryAdded DEF JobState
    <3>2. \A q \in Pids : \A st : q # target /\ Agrees(st, q) => Agrees(st, q)'
      BY <1>0, <2>5 DEF TakeNote, Agrees, Alive, Exists, ProcTypeOK
    <3>3. Agrees("STOPPED", target)'
      BY <1>0, <2>1, <2>2, <2>5 DEF TakeNote, Agrees, Alive, Exists, ProcTypeOK, NoteNamesState
    <3> QED
      BY <1>0, <2>1, <3>1, <3>2, <3>3 DEF Inv
  <2> QED
    BY <1>16, <2>3, <2>4, <2>5 DEF ForegroundReturns
<1>17. CASE FgContinue
  BY <1>1, <1>5, <1>6, <1>17 DEF FgContinue
<1>18. CASE FgReturns
  <2>1. pc = "fgwait"
    BY <1>18 DEF FgReturns
  <2>2. target \in Pids
    BY <1>0, <2>1 DEF ListInv, FgNamesTarget
  <2>3. CASE Release(target) /\ jobs' = remove_job_jid(jobs, fgjid)
    BY <1>0, <1>3, <2>1, <2>2, <2>3, OneEntryChanges
  <2>4. CASE /\ Alive(target) /\ note[target] = "stopped" /\ TakeNote(target)
             /\ jobs' = update_job_jid(jobs, fgjid, "STOPPED")
    <3>1. run[target] = "stopped"
      BY <1>0, <2>2, <2>4 DEF NoteNamesState
    <3> QED
      BY <1>0, <1>4, <2>1, <2>2, <2>4, <3>1, OneEntryChanges
  <2> QED
    BY <1>18, <2>3, <2>4 DEF FgReturns
<1>19. CASE TakeBack
  BY <1>1, <1>5, <1>19 DEF TakeBack
<1>20. CASE ReapDone
  BY <1>1, <1>2, <1>5, <1>20 DEF ReapDone
<1>21. CASE \E p \in Pids : Reap(p)
  <2> PICK p \in Pids : Reap(p)
    BY <1>21
  <2>1. CASE Release(p) /\ jobs' = remove_job_pid(jobs, p)
    BY <1>0, <1>3, <2>1, OneEntryChanges
  <2>2. CASE /\ Alive(p) /\ note[p] = "stopped" /\ TakeNote(p)
             /\ jobs' = update_job_pid(jobs, p, "STOPPED")
    <3>1. run[p] = "stopped" /\ "STOPPED" \in JobState
      BY <1>0, <2>2 DEF NoteNamesState, JobState
    <3> QED
      BY <1>0, <1>4, <2>2, <3>1, OneEntryChanges
  <2>3. CASE /\ Alive(p) /\ note[p] = "continued" /\ TakeNote(p)
             /\ jobs' = update_job_pid(jobs, p, "RUNNING")
    <3>1. run[p] = "running" /\ "RUNNING" \in JobState
      BY <1>0, <2>3 DEF NoteNamesState, JobState
    <3> QED
      BY <1>0, <1>4, <2>3, <3>1, OneEntryChanges
  <2> QED
    BY <2>1, <2>2, <2>3 DEF Reap
<1>22. CASE \E p \in Pids : Child(p)
  <2> PICK p \in Pids : Child(p)
    BY <1>22
  <2>1. jobs' = jobs
    BY DEF Child, ChildSetpgid, ChildExec, ProgramExits, Killed, Stopped,
       ContinuedByOther, shellVars
  <2>2. CASE ContinuedByOther(p)
    BY <1>1, <1>6, <2>1, <2>2 DEF ContinuedByOther
  <2>3. CASE ChildSetpgid(p) \/ ChildExec(p)
    <3>1. \A q \in Pids : \A st : Agrees(st, q) => Agrees(st, q)'
      BY <1>0, <2>3 DEF ChildSetpgid, ChildExec, Agrees, Alive, Exists, ProcTypeOK
    <3> QED
      BY <1>1, <2>1, <3>1
  <2>4. CASE ProgramExits(p) \/ Killed(p) \/ Stopped(p)
    <3>1. \A q \in Pids : \A st : Agrees(st, q) => Agrees(st, q)'
      BY <1>0, <2>4 DEF ProgramExits, Killed, Stopped, Agrees, Alive, Exists, ProcTypeOK
    <3> QED
      BY <1>1, <2>1, <3>1
  <2> QED
    BY <2>2, <2>3, <2>4 DEF Child
<1>23. CASE UNCHANGED vars
  BY <1>1, <1>5, <1>23 DEF vars, shellVars
<1> QED
  BY <1>10, <1>11, <1>12, <1>13, <1>14, <1>15, <1>16, <1>17, <1>18, <1>19,
     <1>20, <1>21, <1>22, <1>23 DEF Next, Line, ShellStep, Terminated

(* While fork succeeds, an entry says STOPPED exactly if its process is    *)
(* stopped, unless a change is still pending: no order of stops,           *)
(* continuations, fg, bg and the loop of wsh_main loses an update.         *)
THEOREM NoUpdateIsLost == Spec => []ListAgrees
<1>1. AgreeInv => ListAgrees
  BY DEF AgreeInv, Reliable, Agrees, ListAgrees
<1> QED
  BY <1>1, InitAgree, AgreePreserved, PTL DEF Spec
=============================================================================
