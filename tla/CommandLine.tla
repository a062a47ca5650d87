---------------------------- MODULE CommandLine ----------------------------
(***************************************************************************)
(* From a line to a program: the tokens of wsh_tokenize, aliases and       *)
(* shortcuts (resolve_alias_shortcuts), the argument vector (prep), the    *)
(* choice of wsh_main between builtins, alias definitions and programs,    *)
(* and the redirects of execute (src/prompt.c, src/misc.c).                *)
(*                                                                         *)
(* A token is a string.  Wild is a pointer that was never assigned or      *)
(* whose target was freed: using it as a string may crash, or yield a word *)
(* that nobody wrote.                                                      *)
(***************************************************************************)
EXTENDS Integers, SequencesExt

CONSTANTS
  Words,     (* strings                                                    *)
  Lines,     (* what a user may enter: sequences of tokens                 *)
  Builtins,  (* the keys of BI_TABLE                                       *)
  Base,      (* for tokens with a '/', what follows the last one           *)
  Home,      (* HOME_PATH                                                  *)
  MaxFiles,  (* bound: so many files that are not hidden in a directory    *)
  MaxGarbage, (* bound: so many pointers behind the definition of an alias *)
             (* before memory happens to hold a NULL                       *)
  PsBfs,     (* PS_BFS                                                     *)
  Null, Wild

Redirects == {"<", ">", ">>"}
NoFile == ""

ASSUME CommandLineAssumption ==
  /\ Lines \subseteq Seq(Words) /\ Home \in Words
  /\ DOMAIN Base \subseteq Words /\ \A t \in DOMAIN Base : Base[t] \in Words
  /\ Words \cap {Null, Wild, NoFile} = {} /\ Redirects \subseteq Words
  /\ Null # Wild /\ NoFile \notin {Null, Wild}
  /\ MaxFiles \in Nat /\ MaxGarbage \in Nat /\ PsBfs \in Nat \ {0}

VARIABLES
  stage,     (* "prompt", "resolving", "preparing", "dispatching" and      *)
             (* "parsing" a line; "handled" without a program, "rejected"  *)
             (* by execute, "launched"; "overrun": an access outside an    *)
             (* array; "crashed" over the line, "aborted" at the end of    *)
             (* the turn                                                   *)
  headless,  (* the line comes from the arguments of wsh itself            *)
  aliases,   (* AL_TABLE: for each alias the tokens up to the first NULL   *)
  meaning,   (* ghost: for each alias the definition as it was entered     *)
  tokens,
  i,         (* index into tokens, or f_tokens in execute                  *)
  f_tokens,
  bufsize,   (* bufsize of resolve_alias_shortcuts                         *)
  room,      (* the slots that f_tokens really has                         *)
  argv,
  files      (* input, clobber and dclobber of execute                     *)

table == <<aliases, meaning>>
resolved == <<headless, tokens, f_tokens>>
vars == <<stage, headless, aliases, meaning, tokens, i, f_tokens, bufsize, room, argv, files>>

is_not_redirect(t) == t \notin Redirects
Kept(t) == is_not_redirect(t) /\ t # "&"

NoFiles == [r \in Redirects |-> NoFile]

-----------------------------------------------------------------------------
(* wsh_tokenize.  Its array grows before it is full.                       *)
ReadLine ==
  /\ stage = "prompt"
  /\ tokens' \in Lines
  /\ stage' = "resolving"
  /\ UNCHANGED <<headless, table, i, f_tokens, bufsize, room, argv, files>>

(* The loop of wsh_main, with the new arrays of the next command. *)
NextCommand ==
  /\ stage \in {"handled", "rejected", "launched"} /\ ~headless
  /\ stage' = "prompt"
  /\ tokens' = <<>> /\ f_tokens' = <<>> /\ argv' = <<>>
  /\ i' = 1
  /\ bufsize' = PsBfs /\ room' = PsBfs
  /\ files' = NoFiles
  /\ UNCHANGED <<headless, table>>

(* The turn ends with a free of the listing of the directory, which was    *)
(* never assigned when the directory could not be read (Completions).      *)
FreeListing ==
  /\ stage \in {"handled", "rejected", "launched"} /\ ~headless
  /\ stage' = "aborted"
  /\ UNCHANGED <<table, resolved, i, bufsize, room, argv, files>>

-----------------------------------------------------------------------------
(* resolve_alias_shortcuts, one token a step.                              *)

At(t) == stage = "resolving" /\ i <= Len(tokens) /\ tokens[i] = t
Same == UNCHANGED <<headless, table, tokens, argv, files>>

(* f_tokens[pos++] for each of these, checked or not. *)
Emit(words) ==
  /\ f_tokens' = f_tokens \o words
  /\ i' = i + 1
  /\ stage' = IF Len(f_tokens') > room' THEN "overrun" ELSE "resolving"

Grown(n) == IF Len(f_tokens) + n >= bufsize THEN bufsize + PsBfs ELSE bufsize

(* HOME_PATH is copied to wherever an unassigned pointer points. *)
ResolveHome ==
  /\ At("~")
  /\ bufsize' = Grown(1)
  /\ room' = IF bufsize' > bufsize THEN bufsize' ELSE room
  /\ Same
  /\ \/ Emit(<<Home>>)
     \/ stage' = "crashed" /\ UNCHANGED <<i, f_tokens>>

(* The names of the directory, which are freed at once; scandir also       *)
(* counts "." and "..", at least.  When it fails it returns -1 and leaves  *)
(* the pointer unassigned that is freed next.                              *)
ResolveStar ==
  /\ At("*")
  /\ \E num_files \in {-1} \cup 2 .. MaxFiles + 2 :
       /\ bufsize' = Grown(num_files)
       /\ room' = IF bufsize' > bufsize THEN bufsize' ELSE room
       /\ \/ Emit([k \in 1 .. num_files - 2 |-> Wild])
          \/ num_files = -1 /\ stage' = "crashed" /\ UNCHANGED <<i, f_tokens>>
  /\ Same

(* When there is too little room for the definition the code resizes       *)
(* tokens instead of f_tokens, to a size that may cut off the NULL at the  *)
(* end of tokens, and the loop runs past it.  The caller keeps the old     *)
(* pointer to tokens, but with so many tokens prep overruns before it is   *)
(* used.                                                                   *)
ResolveAlias(t) ==
  /\ At(t) /\ t \notin {"~", "*"} /\ t \in DOMAIN aliases
  /\ bufsize' = Grown(Len(aliases[t]))
  /\ UNCHANGED room
  /\ IF bufsize' > bufsize /\ Len(tokens) >= bufsize'
     THEN stage' = "overrun" /\ UNCHANGED <<i, f_tokens>>
     ELSE Emit(aliases[t])
  /\ Same

ResolveWord(t) ==
  /\ At(t) /\ t \notin {"~", "*"} \cup DOMAIN aliases
  /\ UNCHANGED <<bufsize, room>>
  /\ Emit(<<t>>)
  /\ Same

(* Variants with a plausible mistake; they are no part of Next and serve   *)
(* to see that the properties notice the mistake.                          *)
ResolveEnd_OneMore ==
  /\ stage = "resolving" /\ i > Len(tokens)
  /\ stage' = IF Len(f_tokens) + 2 > room THEN "overrun" ELSE "preparing"
  /\ UNCHANGED <<i, f_tokens, bufsize, room>>
  /\ Same

(* f_tokens[pos] = NULL *)
ResolveEnd ==
  /\ stage = "resolving" /\ i > Len(tokens)
  /\ stage' = IF Len(f_tokens) + 1 > room THEN "overrun" ELSE "preparing"
  /\ UNCHANGED <<i, f_tokens, bufsize, room>>
  /\ Same

-----------------------------------------------------------------------------
BaseName(t) == IF t \in DOMAIN Base THEN Base[t] ELSE t

MayCrash(wild, next) == stage' \in {next} \cup (IF wild THEN {"crashed"} ELSE {})

(* What prep may leave in slot k: redirects and "&" leave a slot as malloc *)
(* returned it.                                                            *)
Slot_KeepsFiles(k) ==
  IF k > Len(f_tokens) THEN {Null}
  ELSE IF f_tokens[k] # "&" THEN {IF k = 1 THEN BaseName(f_tokens[k]) ELSE f_tokens[k]}
  ELSE {Null, Wild}

Slot(k) ==
  IF k > Len(f_tokens) THEN {Null}
  ELSE IF Kept(f_tokens[k]) THEN {IF k = 1 THEN BaseName(f_tokens[k]) ELSE f_tokens[k]}
  ELSE {Null, Wild}

(* prep.  argv is resized only after a write beyond it, and never for its  *)
(* NULL.                                                                   *)
Prep ==
  /\ stage = "preparing"
  /\ \/ /\ Len(f_tokens) < PsBfs
        /\ argv' \in {a \in [1 .. Len(f_tokens) + 1 -> UNION {Slot(k) : k \in 1 .. Len(f_tokens) + 1}] :
                        \A k \in DOMAIN a : a[k] \in Slot(k)}
        /\ MayCrash(Wild \in ToSet(f_tokens) \cup {argv'[1]}, "dispatching")
     \/ Len(f_tokens) >= PsBfs /\ stage' = "overrun" /\ UNCHANGED argv
  /\ UNCHANGED <<table, resolved, i, bufsize, room, files>>

-----------------------------------------------------------------------------
(* The choice of wsh_main.                                                 *)

IsBuiltin == ~headless /\ f_tokens[1] \in Builtins
Handled(wild) == MayCrash(wild, "handled") /\ UNCHANGED <<resolved, i, bufsize, room, argv, files>>
Dispatching == stage = "dispatching" /\ f_tokens # <<>>

HandleEmpty ==
  /\ stage = "dispatching" /\ f_tokens = <<>>
  /\ Handled(FALSE) /\ UNCHANGED table

HandleBuiltin ==
  /\ Dispatching /\ IsBuiltin
  /\ Handled(FALSE) /\ UNCHANGED table

CrashOnFirst_Empty ==
  /\ stage = "dispatching" /\ (f_tokens = <<>> \/ ~IsBuiltin) /\ argv[1] \in {Null, Wild}
  /\ stage' = "crashed"
  /\ UNCHANGED <<table, resolved, i, bufsize, room, argv, files>>

(* strcmp(argv[0], ...) *)
CrashOnFirst ==
  /\ Dispatching /\ ~IsBuiltin /\ argv[1] \in {Null, Wild}
  /\ stage' = "crashed"
  /\ UNCHANGED <<table, resolved, i, bufsize, room, argv, files>>

HandleSplash ==
  /\ Dispatching /\ ~IsBuiltin /\ ~headless /\ argv[1] = "splash"
  /\ Handled(FALSE) /\ UNCHANGED table

IsAlias == Dispatching /\ ~IsBuiltin /\ argv[1] = "alias"

(* Not in headless mode, and not without "=" and a definition. *)
RefuseAlias ==
  /\ IsAlias
  /\ headless \/ Len(tokens) < 4 \/ tokens[3] # "="
  /\ Handled(FALSE) /\ UNCHANGED table

With(f, name, value) == [n \in DOMAIN f \cup {name} |-> IF n = name THEN value ELSE f[n]]

process_alias_Resolved ==
  /\ IsAlias /\ ~headless /\ Len(tokens) >= 4 /\ tokens[3] = "="
  /\ aliases' = With(aliases, tokens[2], SubSeq(f_tokens, 4, Len(f_tokens)))
  /\ meaning' = With(meaning, tokens[2], SubSeq(tokens, 4, Len(tokens)))
  /\ Handled(FALSE)

(* The definition is stored without a NULL behind it, and then printed: it *)
(* ends where the memory happened to hold one.                             *)
process_alias ==
  /\ IsAlias /\ ~headless /\ Len(tokens) >= 4 /\ tokens[3] = "="
  /\ LET definition == SubSeq(tokens, 4, Len(tokens)) IN
     \E n \in 0 .. MaxGarbage :
       /\ aliases' = With(aliases, tokens[2], definition \o [k \in 1 .. n |-> Wild])
       /\ meaning' = With(meaning, tokens[2], definition)
       /\ Handled(n > 0)

(* execute is called. *)
Execute ==
  /\ Dispatching /\ ~IsBuiltin /\ argv[1] \notin {Null, "alias"}
  /\ headless \/ argv[1] # "splash"
  /\ stage' = "parsing"
  /\ i' = 1
  /\ UNCHANGED <<table, resolved, bufsize, room, argv, files>>

Background == ~headless /\ Last(f_tokens) = "&"

-----------------------------------------------------------------------------
(* execute, one token a step.  The word behind a redirect is looked at     *)
(* again.                                                                  *)
Unparsed == stage = "parsing" /\ i <= Len(f_tokens)
Untouched == UNCHANGED <<table, resolved, bufsize, room, argv>>

ParseWord ==
  /\ Unparsed /\ is_not_redirect(f_tokens[i])
  /\ i' = i + 1
  /\ Untouched /\ UNCHANGED <<stage, files>>

ParseRedirect_LastWins ==
  /\ Unparsed /\ ~is_not_redirect(f_tokens[i])
  /\ i < Len(f_tokens)
  /\ files' = [files EXCEPT ![f_tokens[i]] = f_tokens[i + 1]]
  /\ i' = i + 1
  /\ Untouched /\ UNCHANGED stage

ParseRedirect_Unchecked ==
  /\ Unparsed /\ ~is_not_redirect(f_tokens[i])
  /\ files[f_tokens[i]] = NoFile
  /\ files' = [files EXCEPT ![f_tokens[i]] = IF i < Len(f_tokens) THEN f_tokens[i + 1] ELSE Null]
  /\ i' = i + 1
  /\ Untouched /\ UNCHANGED stage

ParseRedirect ==
  /\ Unparsed /\ ~is_not_redirect(f_tokens[i])
  /\ files[f_tokens[i]] = NoFile /\ i < Len(f_tokens)
  /\ files' = [files EXCEPT ![f_tokens[i]] = f_tokens[i + 1]]
  /\ i' = i + 1
  /\ Untouched /\ UNCHANGED stage

(* The same redirect twice, or no word behind it. *)
RejectRedirect ==
  /\ Unparsed /\ ~is_not_redirect(f_tokens[i])
  /\ files[f_tokens[i]] # NoFile \/ i = Len(f_tokens)
  /\ stage' = "rejected"
  /\ Untouched /\ UNCHANGED <<i, files>>

TwoOutputs == files[">"] # NoFile /\ files[">>"] # NoFile

(* first_nonredirect(tokens, ""), which runs into the NULL when there is   *)
(* none.                                                                   *)
NonRedirects ==
  {k \in DOMAIN f_tokens :
     is_not_redirect(f_tokens[k]) /\ (k > 1 => is_not_redirect(f_tokens[k - 1]))}

first_nonredirect == IF NonRedirects = {} THEN Null ELSE f_tokens[Min(NonRedirects)]

(* fork.  The shell itself asks for first_nonredirect when it lists the    *)
(* job: in the background always, in the foreground when the job stops.    *)
ParseEnd ==
  /\ stage = "parsing" /\ i > Len(f_tokens)
  /\ \/ TwoOutputs /\ stage' = "rejected"
     \/ ~TwoOutputs /\ ~(Background /\ first_nonredirect = Null) /\ stage' = "launched"
     \/ ~TwoOutputs /\ first_nonredirect = Null /\ stage' = "crashed"
  /\ Untouched /\ UNCHANGED <<i, files>>

(* What execvp passes to the program. *)
Args == SubSeq(argv, 1, Min({k \in DOMAIN argv : argv[k] = Null}) - 1)

Init ==
  /\ stage = "prompt"
  /\ headless \in BOOLEAN
  /\ aliases = [n \in {} |-> <<>>] /\ meaning = [n \in {} |-> <<>>]
  /\ tokens = <<>> /\ f_tokens = <<>> /\ argv = <<>>
  /\ i = 1
  /\ bufsize = PsBfs /\ room = PsBfs
  /\ files = NoFiles

Finished == stage \in {"overrun", "crashed", "aborted"} \/ (headless /\ stage \in {"handled", "rejected", "launched"})

Resolve ==
  \/ ResolveHome \/ ResolveStar \/ ResolveEnd
  \/ \E t \in ToSet(tokens) : ResolveAlias(t) \/ ResolveWord(t)

Dispatch ==
  \/ HandleEmpty \/ HandleBuiltin \/ CrashOnFirst \/ HandleSplash
  \/ RefuseAlias \/ process_alias \/ Execute

Parse == ParseWord \/ ParseRedirect \/ RejectRedirect \/ ParseEnd

Next ==
  \/ ReadLine \/ Resolve \/ Prep \/ Dispatch \/ Parse \/ NextCommand \/ FreeListing
  \/ Finished /\ UNCHANGED vars

Spec == Init /\ [][Next]_vars
-----------------------------------------------------------------------------
(* Properties.                                                             *)

TypeOK ==
  /\ stage \in {"prompt", "resolving", "preparing", "dispatching", "parsing",
                "handled", "rejected", "launched", "overrun", "crashed", "aborted"}
  /\ headless \in BOOLEAN
  /\ DOMAIN aliases = DOMAIN meaning
  /\ \A n \in DOMAIN meaning :
       meaning[n] \in Seq(Words) /\ aliases[n] \in Seq(Words \cup {Wild})
  /\ tokens \in Seq(Words)
  /\ i \in 1 .. Len(tokens) + Len(f_tokens) + 1
  /\ f_tokens \in Seq(Words \cup {Wild})
  /\ bufsize \in Nat /\ room \in Nat
  /\ argv \in Seq(Words \cup {Wild, Null})
  /\ files \in [Redirects -> Words \cup {Wild, NoFile}]

(* The words before the first redirect or "&" reach the program, all of    *)
(* them and in order, and the program is the first of them.  A word behind *)
(* a redirect, such as the name of its file, or behind "&" does not,       *)
(* unless a pointer comes before it that was never assigned.               *)
Written ==
  LET stops == {k \in DOMAIN f_tokens : ~Kept(f_tokens[k])}
  IN IF stops = {} THEN f_tokens ELSE SubSeq(f_tokens, 1, Min(stops) - 1)

ArgumentsAreWords ==
  stage = "launched" /\ Written # <<>> =>
    LET given == <<BaseName(Head(Written))>> \o Tail(Written) IN
    /\ first_nonredirect = Head(Written)
    /\ IsPrefix(given, Args)
    /\ Args # given => Args[Len(given) + 1] = Wild /\ given # f_tokens

(* execute launches a program only when the line redirects its input and   *)
(* its output at most once, and then to the file behind that redirect; it  *)
(* rejects no line that does so with a word behind each redirect.          *)
Places(r) == {k \in DOMAIN f_tokens : f_tokens[k] = r}

Unambiguous ==
  /\ \A j, k \in Places("<") : j = k
  /\ \A j, k \in Places(">") \cup Places(">>") : j = k

WordBehindEach ==
  \A r \in Redirects : \A k \in Places(r) : k < Len(f_tokens) /\ f_tokens[k + 1] \notin Redirects

RedirectsAsWritten ==
  /\ stage = "rejected" => ~(Unambiguous /\ WordBehindEach)
  /\ stage = "launched" =>
       /\ Unambiguous
       /\ \A r \in Redirects :
            IF Places(r) = {} THEN files[r] = NoFile
            ELSE \A k \in Places(r) : k < Len(f_tokens) /\ files[r] = f_tokens[k + 1]

(* Every alias in a line is replaced, once, by the definition that was     *)
(* entered for it last, and everything else stays, whatever pointers       *)
(* resolve_alias_shortcuts puts in between that nobody wrote.              *)
Replacement(t) ==
  IF t = "*" THEN <<>> ELSE IF t = "~" THEN <<Home>>
  ELSE IF t \in DOMAIN meaning THEN meaning[t] ELSE <<t>>

Word(t) == IF t = Wild THEN <<>> ELSE <<t>>

AliasesExpand ==
  stage \in {"preparing", "dispatching"} =>
    FlattenSeq([k \in DOMAIN f_tokens |-> Word(f_tokens[k])]) =
      FlattenSeq([k \in DOMAIN tokens |-> Replacement(tokens[k])])

(* A line crashes the shell only when it has "~", "*" or a Wild pointer in *)
(* it, begins with a redirect or "&", or defines an alias with garbage     *)
(* behind the definition: a line of plain words never does, unless by the  *)
(* listing that is freed at the end of any turn ("aborted").               *)
DefinesGarbage ==
  /\ argv # <<>> /\ Head(argv) = "alias"
  /\ Len(tokens) >= 4 /\ tokens[3] = "="
  /\ tokens[2] \in DOMAIN aliases /\ Wild \in ToSet(aliases[tokens[2]])

OnlyOddLinesCrash ==
  stage = "crashed" =>
    \/ ToSet(tokens) \cap {"~", "*"} # {}
    \/ Wild \in ToSet(f_tokens)
    \/ f_tokens # <<>> /\ ~Kept(Head(f_tokens))
    \/ DefinesGarbage

(* No array is used beyond its end for a line that, with its aliases       *)
(* replaced and its directory listed, has fewer than PS_BFS tokens.        *)
Longest(t) ==
  IF t = "*" THEN [k \in 1 .. MaxFiles |-> Wild]
  ELSE IF t # "~" /\ t \in DOMAIN aliases THEN aliases[t] ELSE <<t>>

OnlyLongLinesOverrun ==
  stage = "overrun" => Len(FlattenSeq([k \in DOMAIN tokens |-> Longest(tokens[k])])) >= PsBfs
=============================================================================
