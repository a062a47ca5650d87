------------------------------ MODULE JobList ------------------------------
(***************************************************************************)
(* The job list of src/jobs.c as the rest of the shell sees it: a sequence *)
(* of entries in the order in which add_job linked them.  Every operator   *)
(* below is one function of jobs.c; those that scan the list act on the    *)
(* first entry that matches, as the loops of jobs.c do, and leave the list *)
(* alone when no entry matches (the function returns -1).                  *)
(*                                                                         *)
(* The command string of an entry is only printed and is left out, and so  *)
(* are the job_list == NULL guards: the shell's one list is never NULL.    *)
(***************************************************************************)
EXTENDS Integers, SequencesExt

CONSTANT NoPid        (* the -1 that fork and get_job_pid return *)

JobState == {"RUNNING", "STOPPED"}

(* The smallest index of a set of indices, 0 when there is none. *)
FirstOf(I) == IF I = {} THEN 0 ELSE CHOOSE i \in I : \A k \in I : i <= k

WithJid(list, jid) == {i \in DOMAIN list : list[i].jid = jid}
WithPid(list, pid) == {i \in DOMAIN list : list[i].pid = pid}

(* Unlinks the entry at index i; the other entries keep their order. *)
Unlink(list, i) == IF i = 0 THEN list ELSE RemoveAt(list, i)

SetState(list, i, state) ==
  IF i = 0 THEN list ELSE [list EXCEPT ![i].state = state]

add_job(list, jid, pid, state) ==
  Append(list, [jid |-> jid, pid |-> pid, state |-> state])

remove_job_jid(list, jid) == Unlink(list, FirstOf(WithJid(list, jid)))
remove_job_pid(list, pid) == Unlink(list, FirstOf(WithPid(list, pid)))

update_job_jid(list, jid, state) ==
  SetState(list, FirstOf(WithJid(list, jid)), state)
update_job_pid(list, pid, state) ==
  SetState(list, FirstOf(WithPid(list, pid)), state)

get_job_pid(list, jid) ==
  LET i == FirstOf(WithJid(list, jid)) IN IF i = 0 THEN NoPid ELSE list[i].pid
=============================================================================
