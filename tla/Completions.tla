---------------------------- MODULE Completions ----------------------------
(***************************************************************************)
(* Tab completion: the trie of src/completions.c, filled with the names of *)
(* the builtins and of the programs of PATH, and the loop of wsh_main      *)
(* (src/prompt.c) that puts the names of the working directory into it     *)
(* before each command and takes them out after it.                        *)
(*                                                                         *)
(* A node of the trie is the string that leads to it.  Letters are 1 for   *)
(* 'a' and so on; 0 is any character that is not a lower-case letter.      *)
(***************************************************************************)
EXTENDS Integers, SequencesExt

CONSTANTS
  Alphabet,  (* the number of letters, ALPHABET_S                          *)
  Commands,  (* the builtins and the programs of PATH                      *)
  Files      (* names that a directory may hold                            *)

Letters == 1 .. Alphabet

(* Neither notalpha nor with a capital (str_islower). *)
Plain(name) == \A i \in DOMAIN name : name[i] \in Letters

ASSUME CompletionsAssumption ==
  /\ Alphabet \in Nat
  /\ Commands \subseteq Seq(Letters) \ {<<>>}
  /\ Files \subseteq Seq(Nat) \ {<<>>}
  /\ IsFiniteSet(Commands) /\ IsFiniteSet(Files)

VARIABLES
  pc,        (* "scan", "command" or "remove": where the loop is;          *)
             (* "crashed"                                                  *)
  nodes,     (* the nodes of the trie, none once the root was freed        *)
  leaf,      (* those with isLeaf                                          *)
  listed,    (* scandir could read the working directory                   *)
  listing,   (* the names of fListTemp that are still to be removed        *)
  stayed     (* names a failed splash left in the trie                     *)

vars == <<pc, nodes, leaf, listed, listing, stayed>>

-----------------------------------------------------------------------------
(* The functions of completions.c.                                         *)

Path(key) == {SubSeq(key, 1, n) : n \in 0 .. Len(key)}
Children(p) == {c \in Letters : Append(p, c) \in nodes}

(* isLastNode *)
IsLast(p) == Children(p) = {}

(* tn_insert of each of the keys. *)
tn_insert(keys) ==
  /\ nodes' = nodes \cup UNION {Path(key) : key \in keys}
  /\ leaf' = leaf \cup keys

(* Variants with a plausible mistake; they are no part of Next and serve   *)
(* to see that the properties notice the mistake.                          *)
Freed_OnlyKey(key) == {p \in nodes : p = key /\ IsLast(p)}

Freed_IgnoresLeaf(key) ==
  {p \in nodes \cap Path(key) :
     \A q \in nodes : IsPrefix(p, q) => q \in Path(key)}

(* What tn_remove frees on its way back to the root: the nodes of the path *)
(* to key below which nothing is left but the rest of that path, and no    *)
(* name ends.                                                              *)
Freed(key) ==
  {p \in nodes \cap Path(key) :
     \A q \in nodes : IsPrefix(p, q) => q \in Path(key) /\ q \notin leaf \ {key}}

tn_remove(key) ==
  /\ nodes' = nodes \ Freed(key)
  /\ leaf' = (leaf \ {key}) \ Freed(key)

suggestionsRec_Last[p \in nodes] ==
  IF p \in leaf \/ IsLast(p) THEN p
  ELSE suggestionsRec_Last[Append(p, Max(Children(p)))]

(* Down the first child until a name ends. *)
suggestionsRec[p \in nodes] ==
  IF p \in leaf \/ IsLast(p) THEN p
  ELSE suggestionsRec[Append(p, Min(Children(p)))]

completionOf_Last(prefix) ==
  IF prefix \in nodes /\ ~IsLast(prefix) THEN suggestionsRec_Last[prefix] ELSE prefix

(* A prefix the trie does not hold, or a name without continuation, is     *)
(* returned as it is.                                                      *)
completionOf(prefix) ==
  IF prefix \in nodes /\ ~IsLast(prefix) THEN suggestionsRec[prefix] ELSE prefix

-----------------------------------------------------------------------------
(* The loop of wsh_main.  Once the root is freed the trie is used no       *)
(* further: the pointer to it dangles.                                     *)

Scan_All ==
  /\ pc = "scan" /\ nodes # {}
  /\ \E found \in SUBSET Files :
       /\ listing' = found
       /\ tn_insert(found)
  /\ listed' = TRUE
  /\ pc' = "command"
  /\ UNCHANGED stayed

Command_SkipsRemoval ==
  /\ pc = "command"
  /\ pc' = "scan" /\ listing' = {}
  /\ UNCHANGED <<nodes, leaf, listed, stayed>>

(* scandir and tn_insert of each plain name.  Commands create and delete   *)
(* files and cd changes the directory: anything may be found, or the       *)
(* directory may be gone or unreadable.                                    *)
Scan ==
  /\ pc = "scan" /\ nodes # {}
  /\ listed' \in BOOLEAN
  /\ \E found \in IF listed' THEN SUBSET Files ELSE {{}} :
       /\ listing' = {name \in found : Plain(name)}
       /\ tn_insert(listing')
  /\ pc' = "command"
  /\ UNCHANGED stayed

(* get_line, which may call completionOf, and the command. *)
Command ==
  /\ pc = "command"
  /\ pc' = "remove"
  /\ UNCHANGED <<nodes, leaf, listed, listing, stayed>>

(* A splash that fails goes on with the next command. *)
SplashFails ==
  /\ pc = "command"
  /\ pc' = "scan"
  /\ listing' = {}
  /\ stayed' = stayed \cup listing
  /\ UNCHANGED <<nodes, leaf, listed>>

(* tn_remove of one name of the same listing; the order does not matter.   *)
RemoveName ==
  /\ pc = "remove" /\ nodes # {}
  /\ \E name \in listing :
       /\ tn_remove(name)
       /\ listing' = listing \ {name}
       /\ stayed' = stayed \ {name}
  /\ UNCHANGED <<pc, listed>>

(* fListTemp is freed.  It was never assigned when scandir failed, and may *)
(* point to memory that is free already, or in use.                        *)
Removed ==
  /\ pc = "remove" /\ listing = {}
  /\ pc' \in {"scan"} \cup (IF listed THEN {} ELSE {"crashed"})
  /\ UNCHANGED <<nodes, leaf, listed, listing, stayed>>

Init ==
  /\ pc = "scan"
  /\ nodes = {<<>>} \cup UNION {Path(key) : key \in Commands}
  /\ leaf = Commands
  /\ listed = TRUE /\ listing = {}
  /\ stayed = {}

Dangling == nodes = {} /\ pc = "scan" /\ UNCHANGED vars
Crashed == pc = "crashed" /\ UNCHANGED vars

Next ==
  \/ Scan \/ Command \/ SplashFails \/ RemoveName \/ Removed
  \/ Dangling \/ Crashed

Spec == Init /\ [][Next]_vars
-----------------------------------------------------------------------------
(* Properties.                                                             *)

TypeOK ==
  /\ pc \in {"scan", "command", "remove", "crashed"}
  /\ nodes \subseteq Seq(Letters)
  /\ leaf \subseteq nodes
  /\ listed \in BOOLEAN /\ listing \subseteq Files /\ stayed \subseteq Files

(* The trie holds the paths of its names and nothing else, however names   *)
(* that are prefixes of each other come and go: no node is cut off from    *)
(* the root, none is left behind, and the root is freed only with the last *)
(* name.                                                                   *)
Canonical ==
  IF leaf = {} THEN nodes \subseteq {<<>>}
  ELSE nodes = UNION {Path(name) : name \in leaf}

(* No name but those of the directory ever disappears from the trie: a     *)
(* removal takes no other name along.                                      *)
OnlyListedVanish == [][leaf \ leaf' \subseteq listing]_vars

(* Between two commands the trie holds no name of a directory, unless a    *)
(* failed splash left it there or it is a command as well.                 *)
NothingStays == pc = "scan" => leaf \subseteq Commands \cup stayed

(* Dictionary order. *)
Precedes(v, w) ==
  \/ IsPrefix(v, w)
  \/ \E i \in DOMAIN v \cap DOMAIN w :
       v[i] < w[i] /\ SubSeq(v, 1, i - 1) = SubSeq(w, 1, i - 1)

(* A completion is the first name, in dictionary order, that continues     *)
(* what was typed, or what was typed when there is none.                   *)
CompletesFirst ==
  pc = "command" =>
    \A prefix \in UNION {Path(name) : name \in Commands \cup Files} :
      Plain(prefix) =>
        LET names == {name \in leaf : IsPrefix(prefix, name)} IN
        IF names = {} THEN completionOf(prefix) = prefix
        ELSE /\ completionOf(prefix) \in names
             /\ \A name \in names : Precedes(completionOf(prefix), name)
=============================================================================
