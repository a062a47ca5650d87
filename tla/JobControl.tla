----------------------------- MODULE JobControl -----------------------------
(***************************************************************************)
(* Job control of the shell: the main loop of wsh_main (src/prompt.c),     *)
(* execute, the builtins fg, bg and exit (src/builtin.c), the job list     *)
(* (src/jobs.c), and the kernel objects they share with the children: the  *)
(* process table, process groups, pending wait statuses and the terminal.  *)
(*                                                                         *)
(* The shell is one sequential process; a step of it ends where it calls   *)
(* the kernel and something else may run before the next call.  Children   *)
(* run between any two steps: first the code of execute between fork and   *)
(* execvp, then a program that may exit, die, stop or be continued.        *)
(***************************************************************************)
EXTENDS JobList

CONSTANTS
  Pids,        (* process ids the kernel hands out, reused after a reap    *)
  Shell,       (* the shell's own process group                            *)
  MaxJid,      (* bound: no command is launched once jcount reaches it     *)
  Disturbances (* which rare events the environment may produce            *)

(* "forkfail":  fork returns -1.                                           *)
(* "earlystop": another process sends SIGSTOP to a child that has not      *)
(*              reached execvp (SIGTSTP is ignored there).                 *)
(* "extcont":   another process sends SIGCONT to a stopped child.          *)
ASSUME ConstantsAssumption ==
  /\ NoPid \notin Pids
  /\ Shell \notin Pids
  /\ MaxJid \in Nat
  /\ Disturbances \subseteq {"forkfail", "earlystop", "extcont"}

VARIABLES
  mode,    (* "repl", or "headless" when wsh is run with arguments         *)
  pc,      (* where the shell is blocked or about to call the kernel       *)
  target,  (* local pid of execute and bin_fg                              *)
  fgjid,   (* local jid of bin_fg                                          *)
  jobs,    (* jobs_list                                                    *)
  jcount,  (* jcount                                                       *)
  tty,     (* foreground process group of the terminal                     *)
  phase,   (* how far a child is: free, new, grouped or exec               *)
  role,    (* the child's copy of is_background                            *)
  run,     (* running, stopped, or a zombie that exited or was killed      *)
  note     (* state change not yet collected by waitpid                    *)

shellVars == <<mode, pc, target, fgjid, jobs, jcount>>
procVars  == <<phase, role, run, note>>
vars      == <<shellVars, tty, procVars>>

-----------------------------------------------------------------------------
(* The kernel, as far as the shell uses it.                                *)

Exists(p)   == phase[p] # "free"
Dead(p)     == Exists(p) /\ run[p] \in {"exited", "killed"}
Alive(p)    == Exists(p) /\ run[p] \in {"running", "stopped"}
Waitable(p) == Dead(p) \/ note[p] # "none"

(* The group that setpgid(pid, pid) creates lives until its leader is      *)
(* reaped; kill(-pid) and tcsetpgrp fail when there is none.               *)
HasGroup(p) == phase[p] \in {"grouped", "exec"}
Groups      == {p \in Pids : HasGroup(p)}

(* fork: the child starts in the shell's process group. *)
Spawn(p, r) ==
  /\ phase[p] = "free"
  /\ phase' = [phase EXCEPT ![p] = "new"]
  /\ role'  = [role  EXCEPT ![p] = r]
  /\ run'   = [run   EXCEPT ![p] = "running"]
  /\ note'  = [note  EXCEPT ![p] = "none"]

(* waitpid collects a zombie: its pid becomes free. *)
Release(p) ==
  /\ phase' = [phase EXCEPT ![p] = "free"]
  /\ role'  = [role  EXCEPT ![p] = "bg"]
  /\ run'   = [run   EXCEPT ![p] = "running"]
  /\ note'  = [note  EXCEPT ![p] = "none"]

(* waitpid collects a stop or a continuation. *)
TakeNote(p) == note' = [note EXCEPT ![p] = "none"] /\ UNCHANGED <<phase, role, run>>

(* SIGCONT resumes a stopped process; the kernel drops a stop that was not *)
(* collected yet and reports the continuation instead.                     *)
Resume(p) ==
  /\ run'  = IF run[p] = "stopped" THEN [run EXCEPT ![p] = "running"] ELSE run
  /\ note' = IF run[p] = "stopped" THEN [note EXCEPT ![p] = "continued"] ELSE note
  /\ UNCHANGED <<phase, role>>

-----------------------------------------------------------------------------
(* A shell whose group does not own the terminal is stopped by SIGTTIN     *)
(* when getch reads: main ignores SIGINT, SIGTSTP and SIGTTOU only.        *)
AtPrompt == pc = "prompt" /\ tty = Shell

(* The children waitpid(pid) of execute waits for: with pid = -1 any, and  *)
(* the call fails when there is none.                                      *)
Awaited == IF target = NoPid THEN {p \in Pids : Exists(p)} ELSE {target}

-----------------------------------------------------------------------------
(* Steps with a plausible mistake, each a variant of the step it is named  *)
(* after.  They are no part of Next: they serve to see that the properties *)
(* below notice the mistake.                                               *)

ForegroundReturns_Decrements ==
  /\ pc = "wait"
  /\ Dead(target) /\ Release(target)
  /\ jcount' = jcount - 1
  /\ pc' = "takeback"
  /\ UNCHANGED <<mode, target, fgjid, jobs, tty>>

ForegroundReturns_ForgetsStopped ==
  /\ pc = "wait"
  /\ \E p \in Awaited : (Dead(p) /\ Release(p)) \/ (note[p] = "stopped" /\ TakeNote(p))
  /\ pc' = "takeback"
  /\ UNCHANGED <<mode, target, fgjid, jobs, jcount, tty>>

FgReturnsBy(dead, stopped, count, next) ==
  /\ pc = "fgwait"
  /\ \/ Dead(target) /\ Release(target) /\ jobs' = dead /\ jcount' = count
     \/ /\ Alive(target) /\ note[target] = "stopped" /\ TakeNote(target)
        /\ jobs' = stopped
        /\ jcount' = jcount
  /\ fgjid' = 0 /\ pc' = next
  /\ target' = IF next = "reap" THEN NoPid ELSE target
  /\ UNCHANGED <<mode, tty>>

FgReturns_NoUpdate == FgReturnsBy(remove_job_jid(jobs, fgjid), jobs, jcount, "takeback")

FgReturns_Decrements ==
  FgReturnsBy(remove_job_jid(jobs, fgjid),
              update_job_jid(jobs, fgjid, "STOPPED"), jcount - 1, "takeback")

FgReturns_KeepsTerminal ==
  FgReturnsBy(remove_job_jid(jobs, fgjid),
              update_job_jid(jobs, fgjid, "STOPPED"), jcount, "reap")

FgReturns_NoUntraced ==
  /\ pc = "fgwait" /\ Dead(target)
  /\ FgReturnsBy(remove_job_jid(jobs, fgjid), jobs, jcount, "takeback")

CleanupJobList_SkipsStopped ==
  LET hit == {p \in Groups : WithPid(jobs, p) # {} /\ run[p] = "running"} IN
  /\ run' = [p \in Pids |-> IF p \in hit THEN "killed" ELSE run[p]]
  /\ jobs' = <<>>
  /\ pc' = "exited"
  /\ UNCHANGED <<mode, target, fgjid, jcount, tty, phase, role, note>>

Reap_KeepsKilled(p) ==
  /\ pc = "reap"
  /\ Dead(p) /\ Release(p)
  /\ jobs' = IF run[p] = "exited" THEN remove_job_pid(jobs, p) ELSE jobs
  /\ UNCHANGED <<mode, pc, target, fgjid, jcount, tty>>

ReapDone_WithoutLoop ==
  /\ pc = "reap" /\ mode = "repl"
  /\ pc' = "prompt"
  /\ UNCHANGED <<mode, target, fgjid, jobs, jcount, tty, procVars>>

ChildExecOwning(p, owner) ==
  /\ phase[p] = "grouped" /\ run[p] = "running"
  /\ phase' = [phase EXCEPT ![p] = "exec"]
  /\ tty' = owner
  /\ UNCHANGED <<shellVars, role, run, note>>

ChildExec_NoTerminal(p) == ChildExecOwning(p, tty)
ChildExec_IgnoresBackground(p) == ChildExecOwning(p, p)

-----------------------------------------------------------------------------
(* The shell.                                                              *)

(* execute(f_tokens, argv, 0) up to waitpid.  fork failing leaves pid = -1 *)
(* and takes the parent's branch.                                          *)
ExecuteForeground ==
  /\ AtPrompt \/ pc = "headless"
  /\ jcount < MaxJid
  /\ \/ \E p \in Pids : Spawn(p, "fg") /\ target' = p
     \/ "forkfail" \in Disturbances /\ target' = NoPid /\ UNCHANGED procVars
  /\ pc' = "wait"
  /\ UNCHANGED <<mode, fgjid, jobs, jcount, tty>>

(* waitpid(pid, &wstatus, WUNTRACED) of execute and the branches on the    *)
(* status.  A killed command spends a job id without being listed.         *)
ForegroundReturns ==
  /\ pc = "wait"
  /\ \/ \E p \in Awaited :
          \/ /\ Dead(p) /\ run[p] = "exited"
             /\ Release(p)
             /\ UNCHANGED <<jobs, jcount>>
          \/ /\ Dead(p) /\ run[p] = "killed"
             /\ Release(p)
             /\ jcount' = jcount + 1
             /\ UNCHANGED jobs
          \/ /\ Alive(p) /\ note[p] = "stopped"
             /\ TakeNote(p)
             /\ jcount' = jcount + 1
             /\ jobs' = add_job(jobs, jcount + 1, target, "STOPPED")
     \/ /\ Awaited = {}
        /\ UNCHANGED <<procVars, jobs, jcount>>
  /\ pc' = "takeback"
  /\ UNCHANGED <<mode, target, fgjid, tty>>

(* "Giving the terminal control back to the Shell", in execute and bin_fg. *)
TakeBack ==
  /\ pc = "takeback"
  /\ tty' = Shell
  /\ target' = NoPid
  /\ pc' = "reap"
  /\ UNCHANGED <<mode, fgjid, jobs, jcount, procVars>>

(* execute(f_tokens, argv, 1): the job is listed before its child has run. *)
ExecuteBackground ==
  /\ AtPrompt
  /\ jcount < MaxJid
  /\ \/ \E p \in Pids :
          /\ Spawn(p, "bg")
          /\ jobs' = add_job(jobs, jcount + 1, p, "RUNNING")
     \/ /\ "forkfail" \in Disturbances
        /\ jobs' = add_job(jobs, jcount + 1, NoPid, "RUNNING")
        /\ UNCHANGED procVars
  /\ jcount' = jcount + 1
  /\ pc' = "reap"
  /\ UNCHANGED <<mode, target, fgjid, tty>>

(* bin_fg up to tcsetpgrp; a job with pid -1 is "not found". *)
FgStart ==
  /\ AtPrompt
  /\ \E i \in DOMAIN jobs :
       LET pid == get_job_pid(jobs, jobs[i].jid) IN
       \/ /\ pid = NoPid
          /\ pc' = "reap"
          /\ UNCHANGED <<target, fgjid, tty>>
       \/ /\ pid # NoPid
          /\ pc' = "fgkill"
          /\ target' = pid
          /\ fgjid' = jobs[i].jid
          /\ tty' = IF pid \in Groups THEN pid ELSE tty
  /\ UNCHANGED <<mode, jobs, jcount, procVars>>

(* kill(-pid, SIGCONT) of bin_fg; on failure it returns at once. *)
FgContinue ==
  /\ pc = "fgkill"
  /\ \/ /\ target \in Groups
        /\ Resume(target)
        /\ pc' = "fgwait"
        /\ UNCHANGED <<target, fgjid>>
     \/ /\ target \notin Groups
        /\ pc' = "reap"
        /\ target' = NoPid
        /\ fgjid' = 0
        /\ UNCHANGED procVars
  /\ UNCHANGED <<mode, jobs, jcount, tty>>

(* waitpid(pid, &wstatus, WUNTRACED) of bin_fg.  There is no WCONTINUED: a *)
(* continuation stays pending for the loop of wsh_main.                    *)
FgReturns ==
  /\ pc = "fgwait"
  /\ \/ /\ Dead(target)
        /\ Release(target)
        /\ jobs' = remove_job_jid(jobs, fgjid)
     \/ /\ Alive(target) /\ note[target] = "stopped"
        /\ TakeNote(target)
        /\ jobs' = update_job_jid(jobs, fgjid, "STOPPED")
  /\ fgjid' = 0
  /\ pc' = "takeback"
  /\ UNCHANGED <<mode, target, jcount, tty>>

(* bin_bg: the list learns of the continuation in the loop of wsh_main; a  *)
(* job with pid -1 is "not found", and kill fails on one without a group.  *)
Bg ==
  /\ AtPrompt
  /\ \E i \in DOMAIN jobs :
       LET pid == get_job_pid(jobs, jobs[i].jid) IN
       \/ pid \in Groups /\ Resume(pid)
       \/ pid \notin Groups /\ UNCHANGED procVars
  /\ pc' = "reap"
  /\ UNCHANGED <<mode, target, fgjid, jobs, jcount, tty>>

(* A line that touches no process: empty, jobs, cd, ln, clear, alias, a    *)
(* builtin or execute returning on a syntax error; in headless mode the    *)
(* refused alias and a syntax error of execute.  (A splash that fails goes *)
(* straight back to the prompt and changes nothing here.)                  *)
OtherLine ==
  /\ AtPrompt \/ pc = "headless"
  /\ pc' = "reap"
  /\ UNCHANGED <<mode, target, fgjid, jobs, jcount, tty, procVars>>

(* cleanup_job_list of the shell: kill(-pid, SIGKILL) for every entry.  An *)
(* entry with pid -1 kills nothing the shell may signal.                   *)
CleanupJobList ==
  LET hit == {p \in Groups : WithPid(jobs, p) # {} /\ Alive(p)} IN
  /\ run'  = [p \in Pids |-> IF p \in hit THEN "killed" ELSE run[p]]
  /\ note' = [p \in Pids |-> IF p \in hit THEN "none" ELSE note[p]]
  /\ jobs' = <<>>
  /\ pc' = "exited"
  /\ UNCHANGED <<mode, target, fgjid, jcount, tty, phase, role>>

Exit == AtPrompt /\ CleanupJobList

(* One round of waitpid(-1, WNOHANG | WUNTRACED | WCONTINUED) in the loop  *)
(* that ends a command.                                                    *)
Reap(p) ==
  /\ pc = "reap"
  /\ \/ /\ Dead(p)
        /\ Release(p)
        /\ jobs' = remove_job_pid(jobs, p)
     \/ /\ Alive(p) /\ note[p] = "stopped"
        /\ TakeNote(p)
        /\ jobs' = update_job_pid(jobs, p, "STOPPED")
     \/ /\ Alive(p) /\ note[p] = "continued"
        /\ TakeNote(p)
        /\ jobs' = update_job_pid(jobs, p, "RUNNING")
  /\ UNCHANGED <<mode, pc, target, fgjid, jcount, tty>>

(* The call returns 0: back to get_line, or out of wsh_main. *)
ReapDone ==
  /\ pc = "reap"
  /\ \A p \in Pids : ~Waitable(p)
  /\ \/ /\ mode = "repl"
        /\ pc' = "prompt"
        /\ UNCHANGED <<mode, target, fgjid, jobs, jcount, tty, procVars>>
     \/ mode = "headless" /\ CleanupJobList

-----------------------------------------------------------------------------
(* A child p: the code of execute between fork and execvp, then a program. *)

ChildSetpgid(p) ==
  /\ phase[p] = "new" /\ run[p] = "running"
  /\ phase' = [phase EXCEPT ![p] = "grouped"]
  /\ UNCHANGED <<shellVars, tty, role, run, note>>

(* A foreground child takes the terminal (SIGTTOU is still ignored); then  *)
(* the signal dispositions are reset and the program starts.  A failing    *)
(* open or execvp is a program that exits at once.                         *)
ChildExec(p) ==
  /\ phase[p] = "grouped" /\ run[p] = "running"
  /\ phase' = [phase EXCEPT ![p] = "exec"]
  /\ tty' = IF role[p] = "fg" THEN p ELSE tty
  /\ UNCHANGED <<shellVars, role, run, note>>

ProgramExits(p) ==
  /\ phase[p] = "exec" /\ run[p] = "running"
  /\ run' = [run EXCEPT ![p] = "exited"]
  /\ note' = [note EXCEPT ![p] = "none"]
  /\ UNCHANGED <<shellVars, tty, phase, role>>

(* A signal of the keyboard, a fault or another process kills p. *)
Killed(p) ==
  /\ Alive(p)
  /\ run' = [run EXCEPT ![p] = "killed"]
  /\ note' = [note EXCEPT ![p] = "none"]
  /\ UNCHANGED <<shellVars, tty, phase, role>>

(* ^Z, a read of the terminal from the background, or SIGSTOP. *)
Stopped(p) ==
  /\ Alive(p) /\ run[p] = "running"
  /\ phase[p] = "exec" \/ "earlystop" \in Disturbances
  /\ run' = [run EXCEPT ![p] = "stopped"]
  /\ note' = [note EXCEPT ![p] = "stopped"]
  /\ UNCHANGED <<shellVars, tty, phase, role>>

ContinuedByOther(p) ==
  /\ "extcont" \in Disturbances
  /\ Alive(p) /\ run[p] = "stopped"
  /\ Resume(p)
  /\ UNCHANGED <<shellVars, tty>>

-----------------------------------------------------------------------------
Init ==
  /\ mode \in {"repl", "headless"}
  /\ pc = IF mode = "repl" THEN "prompt" ELSE "headless"
  /\ target = NoPid
  /\ fgjid = 0
  /\ jobs = <<>>
  /\ jcount = 0
  /\ tty = Shell
  /\ phase = [p \in Pids |-> "free"]
  /\ role  = [p \in Pids |-> "bg"]
  /\ run   = [p \in Pids |-> "running"]
  /\ note  = [p \in Pids |-> "none"]

(* Lines the user enters. *)
Line == ExecuteForeground \/ ExecuteBackground \/ FgStart \/ Bg \/ Exit \/ OtherLine

(* What the shell does by itself until the next prompt. *)
ShellStep ==
  \/ ForegroundReturns \/ FgContinue \/ FgReturns \/ TakeBack
  \/ ReapDone
  \/ \E p \in Pids : Reap(p)

Child(p) ==
  \/ ChildSetpgid(p) \/ ChildExec(p) \/ ProgramExits(p)
  \/ Killed(p) \/ Stopped(p) \/ ContinuedByOther(p)

(* After exit nothing of the shell is left to observe. *)
Terminated == pc = "exited" /\ UNCHANGED vars

Next ==
  \/ Line
  \/ ShellStep
  \/ pc # "exited" /\ \E p \in Pids : Child(p)
  \/ Terminated

Spec == Init /\ [][Next]_vars
-----------------------------------------------------------------------------
(* Properties.                                                             *)

Listed(p) == WithPid(jobs, p) # {}

(* Every variable holds a value of its kind, and the shell has a local pid *)
(* only while execute or bin_fg is at work.                                *)
TypeOK ==
  /\ mode \in {"repl", "headless"}
  /\ pc \in {"prompt", "headless", "wait", "fgkill", "fgwait", "takeback", "reap", "exited"}
  /\ target \in Pids \cup {NoPid}
  /\ fgjid \in Nat
  /\ jobs \in Seq([jid : Nat, pid : Pids \cup {NoPid}, state : JobState])
  /\ jcount \in Nat
  /\ tty \in Pids \cup {Shell}
  /\ phase \in [Pids -> {"free", "new", "grouped", "exec"}]
  /\ role \in [Pids -> {"fg", "bg"}]
  /\ run \in [Pids -> {"running", "stopped", "exited", "killed"}]
  /\ note \in [Pids -> {"none", "stopped", "continued"}]

(* Whatever the environment does, a child that was not reaped can be       *)
(* reached: it is listed, or execute is waiting for it.  (add_job runs     *)
(* after fork and after waitpid, removal only after a reap.)               *)
NoLostChild ==
  pc # "exited" =>
    \A p \in Pids : Exists(p) => Listed(p) \/ (pc = "wait" /\ target = p)

(* While fork succeeds, the list holds each child once and nothing else:   *)
(* no entry outlives its process, whose pid the kernel may hand out again, *)
(* and none is made for a child that execute still waits for.              *)
OneEntryPerChild ==
  "forkfail" \notin Disturbances =>
    /\ \A i \in DOMAIN jobs : jobs[i].pid \in Pids /\ Exists(jobs[i].pid)
    /\ \A i, k \in DOMAIN jobs : jobs[i].pid = jobs[k].pid => i = k
    /\ pc = "wait" => ~Listed(target)

(* Job ids are handed out once, in increasing order, although execute also *)
(* spends one on a foreground command that a signal kills: "fg %n" and     *)
(* "bg %n" name one job.                                                   *)
JidsIncrease ==
  /\ \A i, k \in DOMAIN jobs : i < k => jobs[i].jid < jobs[k].jid
  /\ \A i \in DOMAIN jobs : jobs[i].jid \in 1 .. jcount

(* While fork succeeds, an entry says STOPPED exactly if its process is    *)
(* stopped, unless a change of state is still pending in the kernel: no    *)
(* order of stops, continuations, fg, bg and the loop of wsh_main loses an *)
(* update, although bin_fg and bin_bg continue a job without noting it.    *)
ListAgrees ==
  "forkfail" \notin Disturbances =>
    \A i \in DOMAIN jobs :
      LET p == jobs[i].pid IN
      Alive(p) /\ note[p] = "none" =>
        (jobs[i].state = "STOPPED" <=> run[p] = "stopped")

(* Unless a child is stopped before it reaches execvp, no job ever owns    *)
(* the terminal but the one execute or bin_fg deals with; at the prompt    *)
(* the shell owns it.                                                      *)
TerminalExclusive ==
  "earlystop" \notin Disturbances =>
    (tty # Shell => pc \in {"wait", "fgkill", "fgwait", "takeback"} /\ tty = target)

(* Unless a child is stopped before it reaches execvp, a foreground        *)
(* program that execute started owns the terminal while the shell waits.   *)
ForegroundOwnsTerminal ==
  "earlystop" \notin Disturbances =>
    (pc = "wait" /\ target \in Pids /\ phase[target] = "exec" => tty = target)

(* Whatever the environment does, a child launched with & owns the         *)
(* terminal only while bin_fg deals with it.                               *)
BackgroundNeverHoldsTerminal ==
  \A p \in Pids : Exists(p) /\ role[p] = "bg" /\ tty = p =>
    pc \in {"fgkill", "fgwait", "takeback"} /\ target = p

(* Whatever the environment does, a child survives the shell only if it    *)
(* had not made its process group when cleanup_job_list signalled it.      *)
ExitSparesOnlyNew ==
  pc = "exited" => \A p \in Pids : Alive(p) => phase[p] = "new"

(* cleanup_job_list says of every entry "kill process": no job survives    *)
(* the shell.                                                              *)
ExitKillsEveryJob == pc = "exited" => \A p \in Pids : ~Alive(p)

(* Fairness: the shell does not stop between two calls, and somebody keeps *)
(* entering lines (at end of file get_line returns empty ones for ever).   *)
(* Nothing is assumed of the children.                                     *)
FairSpec == Spec /\ WF_vars(ShellStep) /\ WF_vars(Line)

Waiting == pc \in {"wait", "fgwait"}

(* A child's death or stop is collected in the end, unless the shell       *)
(* exits, or from some point on waits for one foreground job for ever.     *)
(* This and the next property are checked without disturbances: a SIGCONT  *)
(* from outside can take a stop back that was not collected, and after a   *)
(* failed fork execute waits for whatever child changes next.              *)
StatusCollected ==
  []<>(~Waiting) =>
    \A p \in Pids : (pc # "exited" /\ Waitable(p)) ~> (~Waitable(p) \/ pc = "exited")

(* When the foreground job exits, dies or stops, the user gets the prompt  *)
(* back (or headless mode ends): neither execute nor bin_fg waits for a    *)
(* status that does not come.                                              *)
PromptReturns ==
  (Waiting /\ (Dead(target) \/ run[target] = "stopped")) ~> pc \in {"prompt", "exited"}
=============================================================================
