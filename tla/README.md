# wizard-shell in TLA+

Specifications, model-checking configurations and machine-checked proofs for
wizard-shell (`src/src`), a job-control shell in C with a command history, tab
completion and aliases.

## The system

One sequential process reads a line, runs it, and collects the state changes
of its children before it reads the next. What makes it hard is around it: the
children that run between any two of its system calls, the terminal they all
share, and hand-made data structures that nothing tests.

| Component | State it keeps | Operations | Correct when |
| --- | --- | --- | --- |
| Job list (`jobs.c`) | linked list of job id, pid, state | `add_job`, `remove_job_*`, `update_job_*`, `get_job_pid`, `cleanup_job_list` | ids unique, order kept, the first match is the one changed |
| Job control (`wsh_main`, `execute`, `bin_fg`, `bin_bg`, `bin_exit`) | `jcount`, local pids; in the kernel: processes, groups, pending statuses, the terminal's foreground group | launch with and without `&`, `fg`, `bg`, `exit`, the reaping loop; the child's own steps up to `execvp` | each child is listed once, the list agrees with the kernel, the right group owns the terminal, waits end, nothing is left running |
| History (`history.c`, keys of `get_line`) | doubly linked list in the heap, `count`, `curr`, `hist_iter` | `h_push`, `pop_back`, Up, Down, Enter | the list is sound, the keys walk it newest first, at most `HIST_MAX` lines |
| Hash tables (`ht.c`) | slots, `size`, `count` | set, get, growth | a dictionary, whatever collides and however often it grows |
| Line editor (`get_line`) | buffer, its size, position | characters, backspace, tab, arrow keys, enter | cursor inside the line, no string without an end, no write outside the buffer, the line is the one the user saw |
| Command line (`wsh_tokenize`, `resolve_alias_shortcuts`, `prep`, `misc.c`, redirects of `execute`) | token arrays | split, expand, strip redirects | the program gets the words the user wrote, never reads past the array |
| Completions (`completions.c`) | trie of names | insert and remove of directory names, `completionOf` | names of PATH survive a command, suggestions are stored names |
| Aliases | alias table | `process_alias` | an alias is replaced by the definition entered last |
| Startup file | - | `wsh_rc_init`, which nothing calls | - |
| File builtins, output, splash | none | one system call or print each | - |
| `src/ht.c` | - | an older copy of `src/src/ht.c` the build does not use | - |

They interact by calls in one order (`wsh_main`): directory names into the
trie, `get_line` (history, trie), `wsh_tokenize` (writes into the very buffer
that the history has just stored), `resolve_alias_shortcuts` (alias table),
`prep`, a lookup in the builtins table, a builtin or `execute` (job list,
kernel), the reaping loop (kernel, job list), directory names out of the trie.
Children share with the shell the terminal, the process groups, and the wait
statuses.

The list of what is hard to test, at its lines, is `hazards` in `PROJECT.json`.

## The modules

| Module | What it is |
| --- | --- |
| `JobList` | the functions of `jobs.c` as operators on sequences |
| `JobControl` | the shell, its children and the kernel objects between them |
| `MCJobControl` | instances for TLC |
| `JobListTheorems` | what the operators of `JobList` return, for every list |
| `JobControlProofs` | theorems about `JobControl` |
| `Tokens` | what `wsh_tokenize` leaves of the line it cuts |
| `EditedLine` | abstract: a line and a cursor |
| `LineEditor`, `MCLineEditor` | the bytes under it: uninitialised memory, growth, NULs |
| `CommandLine`, `MCCommandLine` | from the tokens of a line to a program, a builtin or an alias |
| `LineEditorProofs`, `CommandLineProofs` | theorems about the two |
| `HistoryList` | abstract: a list of lines and a cursor |
| `History`, `MCHistory` | the heap under it, with freed and reused nodes |
| `Dictionary` | abstract: keys and values |
| `HashTable`, `MCHashTable` | open addressing with growth in steps |
| `Completions`, `MCCompletions` | the trie and the names that come and go in it |
| `HistoryProofs`, `HashTableProofs`, `CompletionsProofs` | theorems about the three |
| `Extremes` | facts about `Min` and `Max`, and induction up to a number |

### JobControl

A step of the shell ends where it calls the kernel and a child may run before
its next call; `pc` says where it is:

| `pc` | In the code |
| --- | --- |
| `prompt`, `headless` | `get_line`; the start of the one command of headless mode |
| `wait` | `waitpid` of `execute` (prompt.c:552) |
| `fgkill`, `fgwait` | `kill` and `waitpid` of `bin_fg` (builtin.c:37, 43) |
| `takeback` | `tcsetpgrp` back to the shell (prompt.c:573, end of `bin_fg`) |
| `reap` | the loop of `waitpid(-1, WNOHANG ...)` (prompt.c:1164) |
| `exited` | after `exit` |

`ExecuteForeground`, `ExecuteBackground`, `FgStart`, `Bg`, `Exit` and
`OtherLine` are the lines a user may enter; `ForegroundReturns`, `FgContinue`,
`FgReturns`, `TakeBack`, `Reap` and `ReapDone` are what the shell then does by
itself. A child goes through `ChildSetpgid` and `ChildExec` (the code of
`execute` between `fork` and `execvp`) and is then any program: it exits, is
killed, stops, is continued.

The kernel is modelled as the code relies on it and marked external: a pid is
free again once it was reaped; a process group lives until its leader is
reaped, and `kill(-pid)` and `tcsetpgrp` fail without one; one pending status per process, a later change replacing
an earlier one (`note`); a shell that does not own the terminal cannot read
from it. `Disturbances` selects three rare events: `fork` failing
(the code goes on with pid -1), a child stopped between `fork` and `execvp`,
and `SIGCONT` from another process. Each property says which of them it
excludes, and why it must: after a failed `fork` the list holds an entry with
pid -1, and a child that is stopped early may take the terminal long after the
shell took it back. The two liveness properties are checked with none of them
(`Disturbances = {}`): a `SIGCONT` from outside can take a stop back before the
shell collects it, and after a failed `fork` `execute` waits for any child. What
the waits do then is not covered.

Left out: programs that change their user id (`kill` failing with EPERM), jobs
of several processes (the shell has no pipes), failing prints, and keys that
reach the shell itself (it ignores those signals).

### History

`node` is the heap: what each address holds, whether allocated or not. `live`
are the allocated ones. `pop_back` frees the last node without taking it off
the list, and `malloc` may hand the address out again, so the model keeps the stale
contents. Reading or freeing a freed node either works on the stale contents
or crashes (`Crash`); a list in a circle makes `pop_back` run forever (`Hang`).
A stored line is the buffer itself, so `EnterNew` stores it as `wsh_tokenize`
leaves it (`Tokenized`: cut behind the first word). Not modelled: `malloc`
failing, and the bytes of the line being edited (`LineEditor`). `Edit` is any
other key. A key that writes outside the buffer of `get_line` may destroy the
heap; which keys can do so is a question for `LineEditor`, so here any key may
(`Overrun`), and nothing is promised after it.

### LineEditor

One call of `get_line`, one action per key, with every byte of the buffer.
`malloc` and `realloc` return what they like (`Fresh`): a byte is `Nul`, or
`Junk` left over from before. Characters are stored without a NUL behind them,
so `strlen` is the first NUL of whatever is there (`Ends`). The history is
fixed during the call (`log`, a member of `Logs`); its lines may be longer than
the buffer, since an earlier call may have grown another one.

| Action | In the code |
| --- | --- |
| `Type`, `Enter`, `Backspace` | prompt.c:806, 648, 790; `StoreCharacter` includes the growth at the end of the loop, which the other keys skip |
| `Left`, `Right`, `Up`, `Down` | the arrow keys, prompt.c:668-735; `Recall` copies a line of the history |
| `TabSpaces` | prompt.c:738-748, without a check |
| `TabCompletes` | prompt.c:749-789 with `completionOf` |

Undefined behaviour ends the model with a status that names it: `overrun` (a
write outside the buffer), `runaway` (a string without an end is read), `index`
(`completionOf` looks up a character that is no letter). Writes outside other
arrays, which may or may not do harm, are a choice (`MayOverrun`): the memset
of the Down key that clears `bufsize * sizeof(char *)` bytes, and the array for
the last word, which is one byte short and which `completionOf` extends. `Type`
stores every byte `getch` returns, a NUL (Ctrl-@) among them. A tab
at the beginning of the line reads the byte before the buffer (`Before`).
The completion is the one that `CompletesFirst` of `Completions` shows
`completionOf` to return, in the order that module defines (`Precedes`).
`Alphabet` stands for the 26 letters, `Indent` for the four spaces of a tab.
Not modelled: the echo on the terminal, and `malloc` failing.

`EditedLine` is what a user expects: characters overwrite, Tab indents or
completes, Enter returns what is before the cursor. `past` remembers the five
things after which the bytes no longer keep that promise, each a hazard of this
code: memory that was not clear, a cursor or completion that went through it, a
tab that filled the buffer to the last byte, a Backspace inside the line,
which hides the text behind the cursor until a character is typed over the NUL,
and a typed NUL, which hides what is typed after it.

### CommandLine

Lines are sequences of tokens, entered one after the other with the alias table
kept between them. `stage` follows a line through `wsh_main`:

| `stage` | In the code |
| --- | --- |
| `prompt` | `wsh_tokenize` (its array grows before it is full); in headless mode the arguments of `wsh` |
| `resolving` | `resolve_alias_shortcuts`, one token a step |
| `preparing` | `prep` |
| `dispatching` | builtin, `splash`, `alias` or a program, prompt.c:1137-1160 |
| `parsing` | the redirects in `execute`, one token a step |
| `handled`, `rejected`, `launched` | the end of a line: no program, an error message, `fork` |
| `overrun`, `crashed` | an access outside an array, a crash of the shell over the line |
| `aborted` | a crash at the end of the turn, when the listing of the directory is freed (`FreeListing`) |

`Wild` is a pointer that was never assigned, or whose target was freed: the
names that `*` stands for, the slots of `argv` that `prep` skips, what follows
the definition of an alias that was stored without a NULL. Its use as a string
may crash (`MayCrash`). `scandir` fails (-1) in a directory that is gone or
unreadable; for `*` the shell then frees a pointer that was never assigned, and
so it does at the end of every turn in such a directory (`FreeListing`; when
exactly is in `Completions`). The resize of the wrong array for an alias may cut
off the end of the tokens, and the loop then runs past it. The home directory copied to an unassigned pointer either
crashes or works. `room` is how many slots `f_tokens` really has, `bufsize` how
many the code believes it has. `meaning` remembers the definitions as they were
entered, to compare with. What a builtin or a program does with its words is
not part of this module, and a token is a string without its characters; only
`Base` tells what follows a `/`.

### HashTable

`Home(key, capacity)` stands for `ht_hash(key) & (capacity - 1)`, any function
into the slots. A probe is described by the distances at which it may end
(`Ends`), and ends at the smallest. Growth is stepwise: `SetGrows` allocates,
each `Move` is one turn of the loop of `at_blowup`, `SetAfterGrowth` goes on in
`at_set`. The new array is as long as the code allocates it, half of the slots
(`calloc(new_cap, sizeof(a_node *))`), and a probe that reaches beyond it ends
the model (`overrun`): what happens then is undefined, and nothing is claimed
about it. `count` starts as any member of `Garbage`, since `at_new_at` does not
set it. The generic and the builtins table are the same code with another
value type; lines refer to the alias table.

### Completions

A node of the trie is the string that leads to it, so the trie is a set of
strings, some of them marked as names. `tn_insert` adds the path of a name;
`tn_remove` frees, on its way back, what has become useless (`Freed`); both
are one step each, for nothing runs in between. `Scan` is the start of the
loop of `wsh_main`, which lists the directory and inserts its plain names
(lower-case letters only); `RemoveName` and `Removed` are its end, working on
the list made at the start, while a command may have changed the directory in
between. When `scandir` failed (`listed` is false) the list is empty, but its
pointer, never assigned or freed a turn ago, is freed at the end all the same, which
may crash the shell (`Removed`). A failed splash skips that end (`SplashFails`); `stayed` is a history
variable that remembers the names it leaves. A file named like a command of
PATH takes it out of the trie: that is what the code does, and the properties
allow it.

## What the runs check

| Run | Question | Instance |
| --- | --- | --- |
| `job_control` | Does the list hold each child once and agree with the kernel, and does the right group own the terminal? | 3 pids, 4 job ids, continuations from outside |
| `job_control_faults` | What holds even if `fork` fails and children are stopped early? | 2 pids, 3 job ids, all disturbances |
| `job_control_live` | Is every status collected and does every wait end? | 2 pids, 3 job ids, no disturbances |
| `job_control_exit` | violated: does `exit` kill every job? | 2 pids, 2 job ids |
| `history` | Is the list sound and does it do what `HistoryList` promises, until it is full? | 5 addresses, 4 lines, `HistMax` 4, up to 7 pushes |
| `history_repeats` | violated: are repeats left out? | the same |
| `history_limit` | violated: does it store the `HIST_MAX` most recent commands? | the same |
| `hash_table` | Is it a dictionary, also while it grows, as long as it stays in its memory? When may it hang? | 4 keys, 2 values, 3 slots growing to 4 and 6, `count` starting at 0, 1, 4, 31 |
| `hash_table_grows` | violated: does it grow safely? | `count` starting at 0 |
| `completions` | Is the trie exact, and do completions come from it in order, whatever names come and go? | 3 letters, 3 commands, any of 8 file names |
| `line_editor` | Is the line the one `EditedLine` promises, and which keys may lead outside the buffer or into old memory? | buffers of 3 and 6 bytes, 1 letter, 2 names, tabs of 2 spaces, a history of two lines |
| `command_line` | Which words and files does a program get, which lines are rejected, and which crash the shell or overrun an array? | arrays of 5 tokens, all lines of 3 tokens out of 6, longer ones out of fewer, alias definitions in any order |

**Bounds.** Three children are one in the foreground, one in the background
and one that reuses a pid; four job ids let a list of three lose its head, its
middle and its end and grow again. With all disturbances two pids are enough
for a failed `fork` to wait for another job's child. `MaxJid` stops
launching only. In the history, `HistMax` 4 stands for 30: lists of zero
to three nodes are grown before the first `pop_back`; the fifth address is one
more than the list should ever need, so that a freed node may or may not be
reused. In the hash table the start sizes and hashes give collisions,
wrap-around and a mask (`capacity` no power of two) that skips slots, and the
growth of a table with room to spare, which only a `count` that started too
high brings about; `MaxSize` stops growing, `CountRange` is the range of
`size_t`, so that 31 is the value before the wrap. In the trie the names are
chosen so that each way two names can share a path occurs, files are named like
commands, and all names may go, the root with them. In the line editor
a buffer of three bytes and one growth (`MaxSize` 6) let a tab of two spaces end
before, at and behind the end of the buffer, the history holds a line that fits
in it and one that is as long as it and so has no room for its NUL, and one name fits where the other does
not; one letter, a blank and any other character are all the code tells apart.
In the command line `PsBfs` 5 stands for 64: the longest lines overrun each
array, `MaxFiles` 2 is a directory whose names fill `f_tokens`, `MaxGarbage` 2
is a definition with one pointer behind it and with more than one, and lines of
three tokens hold every order of two redirects and `&`. The deadlock check is off
in `job_control_faults` only: a child that takes the terminal after the shell
took it back leaves the shell stopped by SIGTTIN.

**Fairness** (`job_control_live`). Weak fairness of `ShellStep`: the shell is
a running process that is not suspended between two calls. Weak fairness of
`Line`: someone keeps entering lines, since the code collects statuses only
after a command; at end of file `get_line` returns empty lines for ever, so
even then it holds. A `splash` that fails skips the collection and is not
counted as a line. Nothing is assumed of the children. `StatusCollected` also
assumes that the shell does not wait for one foreground program for ever.

## What the violated runs show

* `job_control_exit`: only the child calls `setpgid` (prompt.c:491). After
  `cmd &` and `exit`, `cleanup_job_list` signals a group that does not exist
  yet, and the job survives. The theorem `OnlyNewSurvive` says that nothing
  else can.
* `history_repeats`: `get_line` means to leave out repeats, but compares with a
  stored line that `wsh_tokenize` has cut; `ls -l` twice is stored twice.
* `history_limit`: the 30th line leaves the list ending in freed memory; the
  next `malloc` may reuse it and close a circle, in which the following
  `pop_back` never ends. `history` shows that nothing goes wrong before.
* `hash_table_grows`: a table that has filled up moves its entries into an
  array with room for three quarters of them.

What the passing runs allow is as telling as what they exclude.
`HangsOnlyWhenFull` says when a lookup never returns: in a full table, for an
absent key, for which ht.c:556 promises NULL. `OnlyTabUsesRoom` leaves the spaces of a tab, a completion and a
recalled line as the only keys that write outside the line buffer.
`FailsOnlyWhenFull` says that before `HIST_MAX` lines the history can only be
brought down by a key that leaves the line buffer. `CursorInLine` leaves a typed
NUL as the one key after which Enter returns less than stands before the cursor.
`OnlyOddLinesCrash` and `OnlyLongLinesOverrun` delimit the lines that end the
shell: `~`, `*` and aliases through wild pointers, a line that begins with a
redirect or `&`, and lines of `PS_BFS` tokens or more. The crash that comes with
an unreadable directory whatever the line is, `aborted`, is outside them.

## What is proved

TLAPS proves every safety invariant, every action property and every refinement
that a passing run checks, for all values of the constants that the assumptions
in the modules allow. The theorems, by module:

| `JobControlProofs` | |
| --- | --- |
| `TypeCorrect` | `TypeOK` |
| `JidsAreUnique` | `JidsIncrease` |
| `NoChildIsLost` | `NoLostChild` |
| `OnlyNewSurvive` | `ExitSparesOnlyNew` |
| `EachChildListedOnce` | `OneEntryPerChild` |
| `NoUpdateIsLost` | `ListAgrees` |
| `BackgroundTerminal` | `BackgroundNeverHoldsTerminal` |
| `TerminalIsExclusive` | `TerminalExclusive` |
| `ForegroundTerminal` | `ForegroundOwnsTerminal` |

For every set of pids, every bound on job ids and every set of disturbances
(`ConstantsAssumption`: the shell and -1 are no pids of children).

| `HistoryProofs` | |
| --- | --- |
| `TypeCorrect` | `TypeOK` |
| `ListIsDoublyLinked` | `DoublyLinked` |
| `NoFailureBeforeFull` | `FailsOnlyWhenFull` |
| `ImplementsHistoryList` | `KeepsPromise` |

For every finite heap, every `HistMax` and every set of lines
(`HistoryAssumption`: `NULL` is no address, what is left of a line that
`wsh_tokenize` cut is a line, and so is the empty one).

| `HashTableProofs` | |
| --- | --- |
| `TypeCorrect` | `TypeOK` |
| `StoredKeysAreFound` | `EachKeyFound` |
| `OnlyFullHangs` | `HangsOnlyWhenFull` |
| `ImplementsDictionary` | `IsDictionary` |

For all keys, values and hash functions into the slots, every size and every
content of the uninitialised `count` (`TableAssumption`: the sizes stay below
the range of `size_t`).

| `CompletionsProofs` | |
| --- | --- |
| `TypeCorrect` | `TypeOK` |
| `TrieIsCanonical` | `Canonical` |
| `RemovalTakesNoOther` | `OnlyListedVanish` |
| `NothingOfTheListingStays` | `NothingStays` |
| `CompletionIsFirst` | `CompletesFirst` |

For every alphabet and all finite sets of commands and files
(`CompletionsAssumption`: their names are not empty, those of commands consist
of letters, as the start of `wsh_main` sees to).

| `LineEditorProofs` | |
| --- | --- |
| `TypeCorrect` | `TypeOK` |
| `CursorStaysInLine` | `CursorInLine` |
| `OnlyTabFills` | `OnlyTabUsesRoom` |
| `StringsHaveEnds` | `StringsEnd` |
| `ReturnsWhatWasTyped` | `NoJunkReturned` |
| `IndexedByOther` | `IndexOnlyByOther` |
| `ImplementsEditedLine` | `KeepsPromise` |

For buffers of any size, any names and any history (`LineEditorAssumption`:
names are letters, lines of the history are characters that can be typed).

| `CommandLineProofs` | |
| --- | --- |
| `TypeCorrect` | `TypeOK` |
| `ArgumentsReachTheProgram` | `ArgumentsAreWords` |
| `RedirectsAreAsWritten` | `RedirectsAsWritten` |
| `AliasesAreExpanded` | `AliasesExpand` |
| `CrashesAreOdd` | `OnlyOddLinesCrash` |
| `OnlyLongLinesLeaveTheArrays` | `OnlyLongLinesOverrun` |

For arrays of any size, any words and any directory (`CommandLineAssumption`:
redirects, the home directory and what follows a `/` are words, and no word is
`Null` or `Wild`); lines may be of any length.

### The arguments

Every proof of an invariant has one step per action. What makes the properties
inductive:

* **Job list.** `JobListTheorems` first says what each function of `jobs.c`
  does to a list of any length: which entries stay, that order is kept, that
  only the first match changes. The other proofs use these lemmas and never
  look into the sequences again.
* **Ids and children.** `bin_fg` removes by job id the entry of the very pid it
  waited for (`FgNamesTarget`), which in turn rests on ids being unique; with
  `NoLostChild` the three are inductive together (`ListInv`).
* **`OneEntryPerChild`** (`EntryInv`): while `fork` succeeds, every entry
  belongs to a process that was not reaped, and so does the child `execute`
  waits for, which has no entry. A new child's pid is thus in no entry.
* **`ListAgrees`** (`AgreeInv`): a status not yet collected names the state the
  process is in (`NoteNamesState`), because a later change replaces it.
* **The terminal.** For background jobs its owner still has a group
  (`OwnerHasGroup`): this is why the early return of `bin_fg`, which does not
  give the terminal back, does no harm - if `kill` fails, so had `tcsetpgrp`.
  For the foreground (`TerminalInv`) a child that was launched in the foreground
  and has not reached `execvp` is the one `execute` waits for
  (`LaunchedIsAwaited`), which fails exactly when such a child is stopped early.
* **History.** A list is well linked if the walk from the head passes
  `count` different allocated nodes and then ends (`WellLinked`). The walk is
  defined by an equation that first needs a solution; then a push shifts the
  walk by one, and `pop_back` is never reached before the list is full. The
  refinement maps the nodes along the walk to the list of lines.
* **Hash table.** `PutKeepsFound`: storing an entry where the probe for its key
  ends moves the end of no other key's probe. In a table that never grew `count`
  is at least the number of its taken slots (`HangInv`), so that one of them is
  free whenever a set does not grow the table; one that grew is not allocated to
  its end, and every probe of it ends. For the
  dictionary an entry is never both moved and still to be moved, so that
  `Contents` is a function; a step of `at_blowup` leaves it alone.
* **Trie.** `tn_remove` frees a node only if it leads to no other name
  (`Freed`). A name not in the listing is a command or was left by a failed
  splash (`Accounted`). `completionOf` is recursive: its value is determined
  from the deepest nodes upwards, whose depth the finite set of names bounds.
* **Line editor.** The range of everything and, until a NUL was typed, a cursor
  inside the line are inductive together (`LineInv`); each key that is no NUL
  keeps the cursor inside (`LineStep`), also after one was typed. Memory that was not clear is recorded (`JunkKnown`),
  none of it is before the cursor unless a key went through it (`JunkBehind`),
  and in clear memory there is a NUL unless a tab used the last byte
  (`EndKept`). `OnlyTabUsesRoom` follows from `LineInv`. The last word of a
  line has no space, so that a character `completionOf` stumbles over is
  another one. The refinement of `EditedLine` needs `KeptInv`: while the promise
  holds, the buffer is the line and behind it nothing but NULs, so that a key
  that stores a string leaves the line with that string laid over it (`Over`);
  a promise that has ended stays ended (`PastGrows`).
* **Redirects.** `ParsedTo(n)`: of the first `n - 1` tokens each redirect was
  met at most once and `files` holds the token behind it. It makes a rejection
  imply two places of a redirect, or one with no word behind it.
* **Arguments and crashes.** `Prepared` says which tokens of the line each slot
  of `argv` may hold, and that only a slot `prep` skipped holds none; a search
  of `first_nonredirect` that finds nothing leads back to the line.
* **Aliases.** The line so far, with the tokens still to come, flattens to what
  was written with each alias replaced (`ExpandInv`); the table holds what was
  entered last (`TableInv`). `FlattenSeq` is defined by recursion in the
  community modules: a lemma says that its equation has exactly one solution,
  and others how it treats a concatenation.
* **Lengths.** A token never takes more slots than `Longest` of it
  (`LengthInv`), and the arrays have at least `PS_BFS` slots.

### Only model-checked

* `StatusCollected` and `PromptReturns`: liveness under fairness is out of the
  prover's reach.
* The four violated runs, whose counterexamples are the point.

## Not modelled

* The cells of the job list, and its cursor `current`, which only `get_next_pid`
  reads and nothing calls. The functions walk from the head and change one link
  each, so `JobList` states them on sequences; unlike the history, the list
  keeps no pointer to a cell it freed.
* Failing `malloc`: every call is followed by `exit` or by nothing at all.
* File builtins (`cd`, `ln`, `clear`; `rm` is not registered): one system call
  each, which shares no state with the rest of the shell.
* The output module, the splash screen and the echo of the line editor:
  formatting.
* `wsh_rc_init`, which nothing calls, and `src/ht.c`, which the build does not
  use.
* `jobs` and `get_job_jid`: they only read, for a print.
