# whowatch in TLA+

whowatch is a curses program that shows, and every three seconds refreshes,
either the list of users logged in or a tree of processes. This directory holds
TLA+ modules that model its core, TLC configurations that check them on small
instances, and TLAPS proofs about the process tree, the two lists, the window
over them, the details, the widgets, the timer of the main loop and the decoder of
keys. Paths like `proctree.c:207`
are relative to `src/src/`; documents (`whowatch.1`, `NEWS`, ...) to `src/`.

    tlc -workers 2 -config tree.cfg MCProcTree      # model-check one run
    tlapm ProcTreeProofs.tla                        # check the proofs of a module

## 1. The system

whowatch is one thread around `select()`. All state is in static variables.

| component | state | operations | interacts with |
|---|---|---|---|
| process tree, `proctree.c` | nodes `proc_t` with parent, `child`/`broth` lists, hash chains, `main_list`; the static nodes 0 and 1 | `update_tree(del)` once per tick, `tree_start`/`tree_next`, `tree_string` | reads `/proc`; calls back `mark_del` of the list; keeps the list's `priv` pointers |
| process list, `plist.c` | lines `struct process` with number and node, counters `pstat`, `tree_root` | `ptree_periodic` = update, delete marked lines, `synchronize`; hide/show; root change; signals; search | tree; screen; asks the users list for a pid (`MWANT_UPID`) |
| screen, `screen.c` | per widget: `vy`, `crsr`, `nlines`, `ysize` | output, line inserted/deleted, cursor keys, jump | called by both lists |
| users list, `ulist.c` | `users_l`, `nusers`, `prot_tab[].nr` | `read_utmpx` at start, `check_utmpx` per tick, hide/show, search | utmp; screen; answers `MWANT_UPID` |
| main loop, `whowatch.c` | `tv`, `size_changed`, `mwin` | wait, key, tick, resize, signals, exits | calls widgets in order; SIGWINCH and SIGINT handlers |
| keyboard, `kbd.c` | buffer of 20 bytes; the place in a sequence, its arguments, `waitdata` | `getkey`, one state function for each place in a sequence | terminal; called once or twice per `select()` |
| widgets and messages, `whowatch.c`, `wdgts.c`, `exti.c` | list of widgets, message registrations, search text | `mwin_keyh`, `wmsg_send`, periodic/redraw dispatch | all widgets |
| owner cache, `owner.c`, `block.c` | hash of uids over blocks | `get_owner_name` | process list |
| details, `exti.c` | data source in use, source of the list in front, window over the text | switch, open, close, scroll, redraw | lists (whose line is described), sources of text |
| information, `procinfo.c`, `sysinfo_*.c`, `*_plugin.c`, `pluglib.c` | nearly none | read, format, write and count lines | details widget |

What is hard about it, apart from what one handler does:

* `/proc` and utmp are read entry by entry while they change;
* the tree and the list are edited in place from tick to tick, in four intrusive
  structures, with a callback from the middle of one into the other, and the two
  are put in step again by position rather than by comparison;
* lines are renumbered, and cursor and window shifted, one line at a time, in a
  mixture of `u32` and `int`;
* the details are written anew by a source that counts its lines, and the window
  over them stays where it was, whatever the new text is;
* keys, the timer, SIGWINCH and SIGINT meet in one loop, and `getkey()` has a
  buffer that `select()` does not see;
* a key is one byte or a sequence that may arrive in pieces, and the first byte
  of a sequence is a key as well.

What makes each part correct: the **tree** is always well linked and after an
undisturbed scan is the process table; the **list** has one line per displayed
node, in preorder, no pointer to a freed node, right numbers and right counters;
the **cursor** stays on its process or user and on the screen; the **users list**
shows each session once; the **main loop** ticks on time and forgets no event; the
**decoder** gives the keys that were pressed, in their order, however their bytes
are cut; the window over the **details** stays on the pad and on their lines, and all of
them can be scrolled to; the **widgets** act on a key together, as if it were one step, and leave nothing old
on the screen.
`PROJECT.json` lists the hazards one by one, at their lines.

## 2. Modules

| module | models | state |
|---|---|---|
| `Kernel` | the process table behind `/proc` (environment) | `ppid`, `kstate` |
| `ProcTree` (extends `Kernel`) | `proctree.c`: `update_tree()` and its lists | as in the code; `phase`, `seen` are the place in `update_tree()` |
| `ProcTreeProofs` | TLAPS proofs about `ProcTree` | |
| `Screen` | `screen.c` as operators on a widget record | none |
| `ScreenProofs` | TLAPS lemmas about the operators of `Screen` and its 32-bit numbers | |
| `Window` (extends `Screen`) | a list of lines seen through its window | widget, number of lines |
| `PList` (extends `ProcTree`, `Screen`) | `plist.c` on top of the tree and of the screen | lines, counters, root, widget |
| `UList` (extends `Screen`) | `ulist.c` with utmp as environment | list, counters, widget, place in the poll |
| `Keyboard` | `kbd.c`: tables, state functions, `incomplete()` and the parts of `getkey()` as operators on a record | none |
| `MainLoop` (extends `Keyboard`) | `main()`, `resize()`, signals, the terminal, the reads of `getkey()` | place in the loop, time, bytes on the way, in the terminal and in the buffer, the decoder |
| `MainLoopProofs` | TLAPS proofs about the decoder, and about the timer and the order of keys with the decoder in the loop | |
| `Details` (extends `Screen`) | the box with the details: `exti.c`, `pluglib.c`, the sources of text (`proc_plugin.c`, `user_plugin.c`, the readers of `sysinfo_linux.c`), its geometry | window, pad, box, source, what the pad holds |
| `Display` | abstract: what a key promises to do to the screen | the screen |
| `Widgets` | `mwin_keyh()`, `wmsg_send()`, `mwin_redraw()`, `exti.c`, the search box, hiding and showing of the lists; implements `Display` | pointers and flags of the widgets, cursors, details, search box, info line, what has been drawn |
| `WindowProofs`, `PListProofs`, `UListProofs`, `DetailsProofs`, `WidgetsProofs` | TLAPS proofs about the module in their name | |
| `MC*` | instances for TLC (definitions used as constants; what terminals send for their keys) | |

How the modules correspond to the code:

* **ProcTree.** A node is named by its pid; a list is a sequence; `hash_table` is
  the set of malloced nodes. `StartUpdate` is lines 190-191, `ReadEntry(p)` one
  round of lines 203-211 (`Validate` for the process and its parent, `Reparent`
  with the call of `del`), `EndScan` the end of `readdir()`, `Reap(p)` one round
  of 219-228 (`Adopt`, then `Free`), `EndUpdate` the return. `old_list` is freed in any order,
  a superset of the code's one order. `readdir()` gives pids in ascending order
  and may or may not list a process born during the scan (`Passed`); a process
  that is gone is skipped. The callback is modelled by what `mark_del()` does to
  the tree: the `priv` pointers of the node and, down through displayed
  children, of its descendants become null (`Marked`). `Client` stands for any
  user of the tree: between updates it may set and clear `priv` of any nodes.
* **PList** replaces `Client` by the real one. A line is named by its node.
  `stage` follows `ptree_periodic()` and `ptree_redraw()`: tree, delete, sync,
  draw, idle. `DeleteLine` is one marked line in `delete_tree_lines()`;
  `SyncKeep` and `SyncInsert` are the two branches of `synchronize()`, which, as
  in the code, takes the line at hand for the node at hand without looking.
  `"broken"` is a stage the code has no name for: it would follow a null pointer,
  or a node gets a second line. `tree_string` gives the branches in front of a
  line as one sign for each level, as the code puts them together from the
  `broth` pointers on the way up; `KeySearch` is a search for a text that any
  set of lines may match. The run `list_steps` shows that PList implements
  `PTSafe`, so that all that is proved about `ProcTree` holds of it.
* **Screen** keeps `u32` and `int` apart: `U` and `S` reduce modulo `Wrap`, which
  stands for 2^32; comparisons are unsigned where C makes them so.
* **UList** keeps the newest user first, as the code does; `StartRecord` and
  `PollLogin`/`PollLogout` are one `getutxent()` each, and utmp may change in
  between (`Outside`). `HAVE_USER_PROCESS` and `HAVE_DEAD_PROCESS` are defined by
  no file of the build, so the branches for a non-empty name are modelled. `sel`
  is a history variable: the user under the cursor after the last output or key.
* **MainLoop** counts time in units, `Unit` to a second; time passes in
  `select()` only. `return_tv` tells the two builds (`RETURN_TV_IN_SELECT`,
  `configure.ac:67-88`) apart. `second` is the time of day below a second, which
  decides what the build without the macro sees. A pressed key sends one of its
  `Spellings`; a first part of the bytes arrives at once (`PressKey`), the others
  at any later time (`Arrive`). `ReadBytes`, `NextByte` and `NoByte` are the three
  ways through one round of `getkey()`; `Sleep` is the 10 ms after which one of
  the builds calls it again. `clear` is a history variable: it becomes false when
  what is typed cannot be told apart by any decoder that does not wait longer -
  the byte of Esc directly followed by another key, or following one that is not
  handled yet, or a sequence that pauses for longer than the 10 ms. `handled`
  holds the keys given to `key_action()` up to then.
* **Keyboard** keeps a key as its code and its set of modifiers, where the code
  has one number with bits; the tables are functions of the byte that selects an
  entry. What st_start() writes before it is read is reset at the end of a key
  instead (`Taken`).
* **Widgets.** A key is one `PressKey`, then one action for every handler that
  `mwin_keyh()` calls (`todo` holds those to come; `Pass` and `Final` are the two
  kinds of return), then `KeyUnfinal` or not, then `Redraw`, which draws what is
  flagged. `shown` is the set of widgets with a `wrefresh` pointer, `answers`
  the `msgh` pointer of the process list. `Asked` is `wmsg_send()` with its order.
  The lists have `Last + 1` lines that change only with the root; a text matches
  any set of lines, the empty one also if it is no regular expression. `hits`
  and `found` are history variables for `SearchesAll`. `screen` is what has been
  drawn, with the values at the time of drawing: what is not redrawn stays old.
  The info line has no redraw function: the process list writes its counts into
  it (`SendInfo`), and a tick erases it and has them written again if the list
  has a periodic function.
* **Details.** A text appears as the calls that `scr_lecho()` counts, the newlines
  in it, and whether something comes behind the last one (`Piece`); `++` is one
  output behind another. The sources are the functions of the code with this
  effect; what they read is taken from `Procs`, `Systems` and `Accounts` at every
  redraw, so a text may change in any way from one redraw to the next. A source that does not call
  `plgn_out_start()` (`Starts`) adds to the `nlines` it finds. `Draw` is
  `exti_redraw()`; `PressKey` and `Redraw` are a key and the redraw behind it,
  `Tick` and `Resize` redraw in any case. `LastCol` and `LastRow` are the last column and row
  of the pad, which `newpad()` makes one larger than `pxsize` and `pysize` say and
  `scr_wresize()` does not. Lines have no width. `mainw` is the source that the list in
  front has sent last. Which list that is, and whose line is described, is part
  of `Widgets`.
* **Display** says what a user can rely on, in one step for a key: no flags, no
  messages, no memory of earlier keys, the details always about the selected line.

## 3. Runs

Passing runs (all finish in about two minutes or less on two cores):

| run | module | bounds | checks |
|---|---|---|---|
| `tree` | MCProcTree | 3 pids besides init, given in any order and again; the kernel moves between updates; any client | `TypeOK`, `LinksConsistent`, `PrivLive`, `TreeIsKernel`, `Acyclic`, `MarkTerminates`, `NoSilentMove` |
| `list` | MCPList | 3 pids, each used once; the kernel moves also during the scan; root 1 or 2; keys Up, Down, r, o, a signal, t, Enter, searches; window of 3 rows; branches drawn to level 2 | `PLTypeOK`, `LinesOwnNodes`, `LinesNumbered`, `LinesInOrder`, `NoCrash`, `TreeOrder`, `ShowsProcesses`, `CursorFollowsProcess` |
| `list_steps` | MCPList | 2 pids, two state letters that change at any time, live scan, processes whose parent is 0 | `CountsMatch`, `ListsPartition`, `PTSafe` (refinement), `UpdateShown` (liveness) |
| `window` | MCWindow | up to 8 lines, windows of 3 and 4 rows, up to 3 deletions between redraws, searches, resizes, all keys but End; `Wrap` 64 | `CursorFollows`, `CursorSteady`, `CursorKept` |
| `users` | MCUList | 3 records, each with its tty, 2 users, 1 kind of login, window of 2 rows, searches | `LinesNumbered`, `CountsMatch`, `ShowsSessions`, `CursorFollowsUser`, `CursorOnUser`, `LogoutShown`, `LoginShown` |
| `main` | MCMainLoop | 2 keys or changes of size, of 5 keys of 1 to 4 bytes; buffer of 5 bytes; 2 heights, both builds, failures; 2 units a second, `TIMEOUT` 4 units | `TickNotLate`, `MoreInSequence`, `KeysInOrder`, `TickNotEarly`, `SizeTaken`, `InputAnswered` |
| `widgets` | MCWidgets | two lists of 3 lines, all keys that a widget but the scrolling details reacts to and some that none does, one character at a time in the search box | `DisplayKept` (refinement), `SearchesAll` |
| `details` | MCDetails | boxes of 4 to 9 rows on pads of 24 rows and 11 columns; texts from 8 to 40 lines; three heights and widths of the terminal | `WindowInside`, `WindowSteady`, `FromTop` |

Why the bounds are enough. Three processes make every shape of tree in which a
node has a parent that moves, a brother and a child, and let a pid be freed
while others are adopted by init; all hazards of the tree were found with two or
three (every mutant below fails there), but for the one that takes a wrapped pid counter
and four (section 6). Three lines or more under a window of
three rows scroll in both directions; `Wrap` is far above any line number, so
that a value is above `Wrap \div 2` only if the 32-bit value would be negative.
Two users on three ttys give logins before, at and after the record being read.
Three lines are enough for a search
to stop, go on and start again; of the text in the box only whether there is any
matters to the code modelled, so one character (`MaxText`) is enough.
`since` is bounded by the timer itself; keys and SIGWINCHs by `MaxEvents`. The
five keys of `main` are a byte, Esc alone, sequences that end in a letter and in
a number, and a letter of two bytes whose second is no key; two of them in any
order, cut anywhere, take the decoder through every state but those of mouse
events. The rest of the tables is checked by `TerminfoAssumption`, which decodes
what xterm, rxvt, the Linux console and vt100 send for their keys. A buffer of 5
bytes is smaller than two sequences, so that its end falls into the second. The
branches of a line are compared by `TreeOrder` with those that the lines alone
imply (`Drawn`), with a process deeper than `TreeDepth`.
The texts of `details` are shorter than the smallest box, longer than the largest
one, and longer than the pad, and each may follow each; a terminal gets wider than
the pad. `MaxLines` stops counting for the source that never starts from zero.

Restrictions of instances that are assumptions about the world, not the code:

* with a live scan (`Live`) pids ascend for ever in the checked instances (`PidsWrap` is
  false): every new process has a higher pid than all before it, so the scan, which goes by
  pids, comes to a process before its children. Once the pid counter has wrapped around a
  live scan can close a cycle of parents, or move a displayed node unseen (section 6);
* processes whose parent is 0 (`ZeroForks`: kernel threads) appear only in `list_steps`,
  where the list begins with init, and in `pl_root`;
* in `users` one session (whowatch's own) stays, and a tty is not given to the
  next session before the end of the last one has been seen (section 6);
* End is not pressed in `window` (section 6);
* in `details` the terminal does not shrink to less than half its height
  (`SizesAssumption`), is at start no wider than the pad, and
  `WindowInside` speaks of lines only in the details of a process or of the system, and in
  texts that are not longer than the pad (section 6);
* no key of `main` has more bytes than the buffer (`BufSizeAssumption`; the longest
  of a terminal has 6, the buffer 20).

Every property of a passing run has a mutant: a changed copy of one definition
of the model, next to the original and marked "Mutant of", under which TLC
finds the property violated.

Runs that show a disagreement between the code and what its documentation or
its own logic says (`expect: violation`):

| run | property | what happens |
|---|---|---|
| `pl_signal` | `SignalsSelected` | a signal key on an empty tree calls `kill(0, sig)` |
| `pl_root` | `NoCrash` | 't' after a tree of pid 0: a line without a way to the root, or two lines for a node |
| `main_keys` | `KeysAnswered` | keys that arrive together: the second waits for a third |
| `det_lines` | `LastLineReached` | the last lines of a process cannot be scrolled to, for the newlines of titles are not counted |

Fairness. The program is one thread that never blocks but in `select()`, which
returns when its time is up; so weak fairness of the steps of a running update
(`Continue`, `Work`), of the polling (`Program`, started by the timer) and of
the main loop (`Main`) is what scheduling gives. No fairness is assumed of the
kernel, of users, keys or signals. Where a kernel that moves on for ever could
keep the scan from ending, the pids of the live instances are given in ascending
order, as `/proc` lists them, and the fresh ones need not be listed.
Deadlock is checked except in `main`, `main_keys` and `widgets`, where the program may end.

## 4. Proofs

`ProcTreeProofs` proves for every finite set of pids, every set of states, with
pids given in any order and again or not, processes under pid 0 or not, the kernel moving during scans
or not, and any client:

| theorem | statement |
|---|---|
| `Invariant` | `PTSafe => []IInv` |
| `TypeCorrect`, `PartitionKept`, `LinksKept`, `PrivKept`, `QuietUpdateExact` | `[]TypeOK`, `[]ListsPartition`, `[]LinksConsistent`, `[]PrivLive`, `[]TreeIsKernel` |
| `MovesAreReported` | `~Live` implies `PTSafe => NoSilentMove` |
| `NoCycles`, `MarkingEnds` | `~Live \/ ~PidsWrap` (the kernel stands still during scans, or pids ascend for ever) implies `[]Acyclic`, `[]MarkTerminates` |

They rest on the assumptions of `Kernel` and `ProcTree` only: pids are natural
numbers other than 0 and 1 and finitely many, `None` is no pid and no state, the
flags are Boolean.

The argument. None of the properties is inductive by itself. `IInv` adds

* `KernelWellFormed`: init's parent is 0, and every other process has a living
  parent that is not itself - without it a scan could link a node under itself;
* `TreeRoots`: node 0 has no parent, init none but 0, no node is its own parent -
  needed so that adopting the children of a freed node never moves node 0 or
  init, and never puts a child back under the node being freed;
* `ScanProgress`: during an update in which the kernel has not moved, every
  process up to `seen` is validated and under the right parent. With `old_list`
  empty at the end this gives `TreeIsKernel`. The freeing phase must not disturb
  it: a freed node is no process, so no process is under it;
* `QuietUpdate`: without `Live` the kernel does not move during an update.

One lemma per action shows that it keeps `IInv`; the two ways a node moves
(`Reparent`, and `Adopt` with `Free`) have lemmas of their own about the links
(`ReparentLinks`, `ReapLinks`), which rest on four lemmas about lists.
`MovesAreReported` follows from `ScanProgress`: in a quiet update the
adoption by init moves only nodes that are themselves on `old_list`.

`NoCycles` and `MarkingEnds` speak of paths. `Grounded` says it without them:
every set of nodes has one whose parent is outside of it; then no node is below
itself (`NotBelowItself`). If pids ascend for ever, parents have lower pids than
their children, in the kernel and in the tree (`Ascending`), and the least pid of a set
is the one. If the kernel does not move during a scan, the process table and the
displayed nodes are grounded (`Unlooped`; the tree as a whole is not in the middle
of an update, when it is half old and half new): a node that moves leaves the
displayed ones, with those below it, in the same step.

`MainLoopProofs` proves for every set of keys and spellings of them, every
program of keys and changes of size, every size of the buffer, every timeout
and unit of time, in both builds:

| theorem | statement |
|---|---|
| `TimeKept`, `UpdatesNotLate`, `UpdatesNotEarly` | `[]TimeInv`, `[]TickNotLate`, `TickNotEarly` |
| `DecoderInOrder`, `NoByteInSequence` | `[]InputInv`, `[]MoreInSequence` |
| `KeysUnderstood`, `KeysStayInOrder` | if `Unmistakable(Spellings)`: `[]OrderInv`, `[]KeysInOrder` |

The timer. That no update is late needs to know what is left for `select()` at
every place in the loop. `TimeInv` says it for both builds: where `select()`
returns the rest in `tv`, `tv` and the time since the last update make up the
timeout; where it does not, the program has counted the seconds of the clock
that were passed, so `tv` is a whole number of seconds, and the time since the
last update differs from what they make by the fractions of the second at both
ends, which is less than a second. The loop either keeps this or
starts anew with an update.

The decoder. `MoreInSequence` says that the state function is not `st_start()` when
a byte is missing. For this `InputInv` (`DecoderInv` at every place in the
loop) ties the state function to the bytes taken since the last key: it is
`st_start()` if and only if there are none. The first part of `MainLoopProofs`
shows this for one byte, or a missing one, in each state function (`FeedInv`), and that the number
of arguments stays within the struct, into which the code writes by that number.

The order of keys. The bytes of the keys may arrive and be read in any pieces, and
`getkey()` keeps what it has read too much. `OrderInv` looks at all bytes behind the
last key handled, in the buffer, the terminal and on the line (`Ahead` of them). They
are divided (`Divided`) into the bytes of the keys typed and not handled yet, behind
bytes that are no key and no beginning of one (as the second byte of a letter in UTF-8); and the decoder is at
the start (`Between`), or has taken some bytes of the first of these keys and is as
if it had read these alone (`Within`). A step of the decoder depends on the sequence
it is in and not on its buffer (`StateAlike`), so it goes on as it would if the
key were alone, to the byte that makes the key; there the key is cut off the front. Esc is
an exception: its byte begins other keys, and only a missing byte makes it a key.
So the history variable `clear` says that no other key came close to it, nor
a pause within a key; and `OrderInv` says, for the time `clear` is true, that nothing is
typed behind Esc (`EscLast`). The hypothesis
`Unmistakable(Spellings)` is that the bytes of each key but Esc make this key when
read alone. TLC evaluates it for the keys of the runs, and for
what terminfo says of the keys of usual terminals, where it holds if only one of the bytes 8
and 127 is Backspace: `kbd.c` takes 127 for Delete once it has seen 8.

`WindowProofs` proves for every set of heights, every number of lines up to
`MaxLines` and every width of a word:

| theorem | statement |
|---|---|
| `WindowKept`, `CursorOnItsLine`, `CursorAtItsPlace` | `[]WindowInv`, `[]CursorFollows`, `CursorSteady` |
| `CursorStaysOnScreen` | `SmallNumbers` implies `CursorKept` |

The code compares lines as `u32` and subtracts them as `int`. The first three hold
although the numbers may wrap; `CursorKept` needs `SmallNumbers`: the number of
lines and the height of the window together are less than half of `Wrap`, so
that a negative difference is seen as negative.

`DetailsProofs` proves for every set of contents of the files that are read, all
sizes of the terminal and all keys, from `SmallNumbers` (as above) and `WidePad`
(at start the terminal is no wider than the pad):

| theorem | statement |
|---|---|
| `BoxKept`, `WindowStaysInside` | `[]BoxInv`, `[]WindowInside` |
| `WindowStays`, `NewSourceFromTop` | `WindowSteady`, `FromTop` |

`scr_output_end()` puts the window back by `nlines`, the number of calls of
`println()`; that it begins at a line of the text needs the number of newlines written.
In `print_or_no()` and `read_link()` a line may be counted that no newline ends, or twice; but
the titles between have newlines that are not counted. `AtLeast` adds up both,
piece by piece, and the sum over each source is that it writes at least as many
lines as it counts, and counts at least one. So the window, which begins before
the last counted line (`Placed`), begins before the last line. To the right it cannot leave
the pad because the box begins in column 0 or behind it and the terminal, with `resize()`,
never becomes wider than the pad. Nothing is said, nor true, of what is in the columns
shown: to the right of short lines the box is empty (section 6).

`PListProofs` proves of the process list on the tree, with everything that
`ProcTreeProofs` leaves open, and for any keys:

| theorem | statement |
|---|---|
| `LinesKept`, `LinesOwned` | `Safe => []LineInv`, `Safe => []LinesOwnNodes` |
| `ListIsClient` | `Safe => PTSafe` |
| `ProcessesCounted` | `LettersOnly` (no state is named "nr") implies `Safe => []CountsMatch` |

`Safe` is `Spec` without its fairness. `LineInv` adds to `LinesOwnNodes` that
the line at which `synchronize()` works is in the list. A node whose
pointer `mark_del()` clears leaves its line marked, and all marked lines are
deleted before `synchronize()` inserts the next; that no node has two lines
rests on its test for `priv`.

`ListIsClient` is the refinement of the tree's abstract client by the list. It
needs that `synchronize()` is always at a node that is there. `tree_next()` climbs
by recursion; that there is a function as `climb` defines it is proved by
collecting, for each node, where the way up from it stops (`ClimbDefined`), and
that it leads to a node at or below the root by collecting those from which it
would not: with every node this set has its parent, so it has the root, from
which it does (`NextReaches`).

The counters are changed by `mark_del()` and `synchronize()` in the state that the
node has then. `ProcessesCounted` rests on two facts: who keeps his line keeps the
state he was counted in (`ContinueKeeps`; only new nodes and the static ones are
given a state); and init, whose state changes, is never counted out again, because he gets
his line after his first reading, and is never moved after it (`InitRead`).

What the list shows is proved for any set `D` of processes that has init and
`Roots` in it (`Ours(D)`), from two conditions: `[]OfInit(D)`, parents of processes
of `D` are in `D`, and `~Live \/ ~PidsWrap`, as for `NoCycles`. The first says that
the processes the list may begin with are in the tree of init; kernel threads,
which have the parent 0, are outside of `D`. Without it `NoCrash` is false (`pl_root`).
The second is more than that no pid is given again while a scan runs, and has to be: it
says that the pid counter never wraps around at all, unless the kernel stands still during
scans. After a wrap a parent may be read after its child, and then the order of the lines
can be lost (section 6), so `LinesInOrder` and `TreeOrder` are false without it.

| theorem | statement |
|---|---|
| `AllKept` | `Safe /\ []OfInit(D) => []AllInv` |
| `LinesAreNumbered`, `NeverBroken`, `OrderOfTree` | `Safe /\ []OfInit(D) => []LinesNumbered`, `[]NoCrash`, `[]LinesInOrder` |
| `ProcessesAreShown`, `CursorOnItsProcess` | `Safe /\ []OfInit(D) => []ShowsProcesses`, `[]CursorFollowsProcess` |
| `TreeIsDrawn` | `Safe /\ []OfInit(D) => []TreeOrder` |
| `UpdatesEnd` | `Safe /\ []OfInit(D) => [](Left \in Nat) /\ UpdateEnds` |
| `TypesOfList` | the same with `LettersOnly`: `[]PLTypeOK` |
| `AllFromInit` | `~ZeroForks` implies `Safe => []OfInit(Procs)` |

`synchronize()` walks the tree and the list side by side and never compares them. That
it is right nevertheless takes an order of the nodes that needs no recursion:
`m` comes before `n` (`Precedes`) if it is above `n`, or if at or above the two there
are brothers of which that of `m` is the elder. Four facts carry the proof:

* *The order is that of the walk.* In a grounded tree it is total and has no
  cycle (`EarlierTotal`), and `tree_next()` goes from a node to the one that comes
  next, so that what has been passed grows by one node at a time (`NextInOrder`).
* *Marking keeps the order.* `Kept` are the nodes whose lines will be left. A step of
  `update_tree()` takes from it whatever moves, with all that is below; the others
  keep their parents and the order of their brothers, though new
  children are put in front of them, freed ones taken out, and those of
  freed nodes added to init's (`KeptStep`, `ReparentOrder`, `AdoptOrder`). So the lines of `Kept` are in order
  at every step (`OrderInv`).
* *What is left is below the root.* `Kept` is one tree (`OneTop`); its top is the root
  of the list, or, when 't' goes over to all processes, the root that was. In that case each
  node needs a way up to init of nodes that stay: those the scan has read
  (`Rooted`). While the kernel moves during the scan, that the parent of a node that was
  read has been read as well follows from the ascending order of pids (`ScanWay`);
  otherwise it follows from the process table.
* *The walk meets the lines in their order.* `SyncInv`: the first `l` lines are the nodes
  passed and have their numbers, and the lines behind them come later in the tree. So the
  line at hand is that of the node at hand, if that has one, and no line
  is left at the end.

The cursor follows `sel` through every deletion and insertion because the number of its
line is its place (`SelInv`, `NumInv`). `ProcessesAreShown` adds that the tree is the process
table (`QuietUpdateExact`) and that being below the root is the same in both
(`ShownIsKernel`).

What is printed. `TreeOrder` compares the list and its branches with recursions over the
tree: the preorder (`Preorder`) and the levels of the nodes (`Level`), from which `Drawn`
tells the branches that the lines alone ask for. The prover has no induction over data,
so a closed form takes its place: the level of a node is the number of nodes above it
(`Depth`), its preorder the part of the list from its line to the last line of a node
below it (`FirstLine`, `LastLine`). Each closed form satisfies the equation of the
recursion, and nothing else does: among the nodes at which two solutions differ there
would be one whose parent is not among them (`LevelIs`; the tree is grounded), or one
that is the last of them in the list, so that its children are not (`ListIsPreorder`). That the parts of the children, one behind the
other, make up the part of the node less its own line is `ChildParts`; `Flattened` is
the same of `FlattenSeq`. For the branches: the lines between a node and its next
brother are those below it (`UnderBetween`), so a line further down is on a level, with none
of a higher level in between, if and only if the ancestor on that level has a next
brother (`Branches`), which is what `tree_string()` looks at (`StringIsDrawn`).

The end of an update. `Left` counts what is left in rounds that are longer than any loop:
processes to read, nodes to free, lines to delete, nodes to walk through, the print. The walk is the
only loop for which this is not plain: `ToWalk`, the nodes it has not
passed, loses the node at hand with each step (`WalkedOn`) because `tree_next()` goes on in the order of the tree
(`NextInOrder`) and does not turn back; and the kernel, which may move between any two
steps, touches nothing that `Left` counts (`KernelLeft`). `UpdatesEnd` is the part of `UpdateShown` that
needs no fairness: with a thread that takes a step whenever it can, an update ends. `UpdateEnds` is stated
in `PListProofs` and belongs to no run: on a small instance `UpdateShown` shows more.

`UListProofs` proves for all records, users, kinds of logins and any number of
changes of utmp in the middle of a poll:

| theorem | statement |
|---|---|
| `ListKept`, `LinesAreNumbered`, `LoginsAreCounted` | `[]ListInv`, `[]LinesNumbered`, `[]CountsMatch` |
| `CursorOnItsUser` | `[]CursorFollowsUser` |
| `SessionsAreShown` | `OwnRecords` implies `[]ShowsSessions` |
| `CursorKeepsUser` | `OwnRecords`, `OwnSession` and `StepKeys` imply `[]CursorOnUser` |

* The numbers of lines: the newest user is first and has the highest number, so
  the user at place `i` of `n` has the number `n - i` (`Numbered`); what `udel()`
  does to the users before the one that goes keeps this.
* The counters: `CountsMatch` is inductive with `ListInv`; the sets of places of
  one kind of login before and after are compared by a bijection, since
  cardinality is all the library knows.
* The sessions, under `OwnRecords` (each record has its tty, and a tty is not given
  to the next session before the end of the last has been seen): `SessionInv` says
  that at most one user is listed for a tty, that every listed user has the record
  with his tty, and that of the records the poll has passed and that have not
  changed since, those of sessions are listed and the others not.
* The cursor, under `OwnSession` (whowatch's own session stays in utmp): the list is
  not empty when it is drawn, and the cursor is between 0 and its last line.
  `StepKeys` leaves out the keys that move by a page, because after many
  deletions the window may be left below the cursor (section 6), and then these
  keys can pass the ends of the list.

`WidgetsProofs` proves for lists of any length (`Last`), any text in the search box
(`MaxText`) and any sequence of keys and ticks:

| theorem | statement |
|---|---|
| `WidgetsAgree`, `KeysActAsOne` | `[]KeyInv`, `DisplayKept` (`Widgets` implements `Display`) |
| `SearchKept`, `EveryMatchFound` | `[]SearchInv`, `SearchesAll` |

The refinement. `Display` takes a key in one step, which is the `Redraw` at the end of
its handling; all that the handlers do before is a stutter, for the screen does not change. So
the invariant has to say, at each place in the handling, what has been done so far
against the screen that is still the old one. `KeyInv` has one disjunct for
each place, named after who has the key next (`AtInput`, `AtExti`, `AtTree`, `AtUsers`,
`AtEnd`, `AtRedraw`). The lists are there in one of the ways of `ListsDone`, one for
each key that means something to them; between the two lists, when both are shown
or none is, in one of `HalfDone`. `DetailsDue` and `InFront` say
that what differs from the screen is flagged. From this the redraw of what is flagged is
the redraw of everything (`RedrawnAll`), after it nothing is left to be drawn
(`RedrawnSteady`), and what it shows is the screen that `Display` gives for the key
(`KeyShown`). A tick draws all widgets and changes nothing.

The search. `SearchesAll` is about the matching lines a search has led to (`found`)
since it began. `SearchInv` says that they are those between the line where it began
and the cursor, in the direction of the search and around the end of the list (`Around`).
Enter leads to the next one behind the cursor, or the first of all (`NextAround`,
`EnterLeads`), so when it is back where it began it has been at all.

Only model-checked: all liveness (`UpdateShown`, `LogoutShown`, `LoginShown`, `SizeTaken`,
`InputAnswered`). It rests on fairness, so on `ENABLED`, which is out of the prover's reach;
for the updates of the process list `UpdatesEnd` proves what does not need it. That
the tables of `kbd.c` give the keys of terminals their meaning is shown by TLC, which
evaluates `TerminfoAssumption`.

## 5. Not modelled

Text and colours; regular expressions; what the lines of the details say, and
lines that are wider than their pad, and how wide lines are at all; the keys
'r', 'l', 'p', 'a', 'z', the arrows to the sides and signals in `Display` and `Widgets` ('r' and
signals are in `PList`, 'p' and scrolling in `Details`); the geometry of the widgets other than the
lists and the details; the BSD variants (`sysinfo_freebsd.c`, `update_tree()`);
`procinfo.c`, which reads a command line, or the foreground process of a terminal,
and keeps nothing; parsing of `/proc/<pid>/stat` (`get_pinfo()` returns a pid, a
parent and a letter) and its failures; the arguments of mouse events and of the
terminal's answers; SIGWINCH before `set_sig()`; time that
passes outside of `select()`; `menu.c` and `help.c`, which are not built into
anything.

## 6. Other disagreements seen while modelling

Found with instances of the same modules, or by reading, and not kept as runs:

* `screen.c:171-174`: when all lines left are above the window, `vy` is moved
  back by `ysize`, not by the height `ysize - y`, so the cursor may be below the
  screen (the comment at 163 says "Adopt visible window").
* `screen.c:365-373`: in a list shorter than its window `s_nleft()` is negative
  and End moves the cursor up, also to a negative line.
* `screen.c:193-197`: a search that jumps near the top from a scrolled window
  leaves a negative first line in `vy` (`u32`).
* `ulist.c:115-120`: without `USER_PROCESS`, records that name "LOGIN" or
  "reboot" are listed as users.
* `ulist.c:209-217`: a dead record of a tty that another record has taken over
  makes every poll drop, and insert again, the session.
* `screen.c:176`: when the users list has become empty its cursor is -1, which
  means "no cursor", and stays so.
* `ulist.c:259-280`: `users_l` has the newest user, which is on the last line,
  first, so a search in the users list stops at the last matching line, and Enter
  leads nowhere else (`SearchesAll` without its restriction to the process list).
* `plist.c:366-371`: 't' in the tree of a user leaves the help line of that tree
  ("all[t]ree") although all processes are shown now.
* `whowatch.c:125-131`: `err_exit()` leaves the terminal in curses mode
  (`NEWS:33`: "Restore terminal status on exit").
* `whowatch.c:459-461`: the build without `RETURN_TV_IN_SELECT` does not call
  `getkey()` again, so Esc does nothing until the next key, which it turns into
  Alt and that key. In both builds this happens to an Esc that is read together
  with a key before it.
* `kbd.c:297`: `"\0x9BM"` is a null byte followed by the text `x9BM`, so mouse
  sequences that begin with the byte 0x9B are not recognized.
* `kbd.c:152, 214-220`: in `ESC [ 1 ; 5 A` the modifier is taken from the first
  number, not from the second, so xterm's Ctrl and Shift with arrows are lost.
* `kbd.c:50`: `ESC [ 7 ~` and `ESC [ 8 ~`, rxvt's Home and End, are F1 and F2.
* `kbd.c:178`: `ALLOW_DEL_CH || v == KBD_DEL` is always true: any key of the form
  `ESC [ n ~`, not Del alone, makes byte 127 mean Backspace again.
* `kbd.c:278-280`: the mask 0xF000 is applied to the button as well, so every
  mouse event is `MSE_RELEASE`.
* `plist.c:209`: the search matches the owner `p->uid`, which nothing sets.
* `wdgts.c:192`: the counts are written over the old ones without clearing the
  line, so after 'r', 't' or a signal the end of a longer old text stays until
  the next tick.
* `proctree.c:162-165`: the state letter is stored in a new node only, so letters
  and the counts of running and sleeping tasks go stale (`src/README.md:1-2`:
  "updates information in real time"; `state` of `ProcTree` against `kstate`).
* `ulist.c:198`: a login is looked up by tty alone. When a session ends and another
  user's begins on its tty within one tick, the list keeps the old name for good:
  `ShowsSessions` of the run `users` with `FastReuse` and `MayEmpty`
  (`whowatch.1:25`: "in real-time").
* `user_plugin.c:35-58`: `euser()` does not call `plgn_out_start()` as the other
  sources do, so `nlines` grows by six with every redraw, 'z' scrolls the text out
  of the box, and `scr_output_end()` sees no reason to bring it back: `WindowInside`
  with `"euser"` in place of `Starts`.
* `screen.c:381`: the pad of the details is made 128 columns wide and is widened in
  `resize()` only. On a terminal that is wider at start, `pxsize - x - xsize` wraps
  and the key to the right leaves the pad: `WindowInside` with a `StartWidths` above
  `PadCols`.
* `screen.c:378-383`: the key to the right goes on to the end of the pad, 128 columns or
  more, whatever the text: in a terminal of 80 columns it moves past short lines and
  leaves the box empty (`TODO:12` asks to count how far the text can be moved).
  `WindowInside` does not speak of it. Nor is `vx` brought back when the terminal becomes
  wider: the right part of the box may then lie behind the end of the pad.
* `proctree.c:220-221`: after the pid counter has wrapped around a parent may have a higher
  pid than its child. If, in the middle of a scan, it exits after its child has been read
  and its own parent has exited too, it stays in the tree as the parent of its child, and
  when its own parent is freed it is moved to init without a call of `del`: its line
  stays where it was (`LinesInOrder` with `Live`, `PidsWrap` and four pids).
* `exti.c:100-107`: `exti_enable()` does not set `vy` and `vx` back as
  `exti_switch()` does, so a source that is opened in a closed box is shown from
  where another one was left (`FromTop` without the box being open).
* `whowatch.c:390`: the pad of the details has 256 rows, and lines behind them are
  lost but counted: one can scroll behind the end of a longer text (`WindowInside`
  without its bound).
* `whowatch.c:235`: a terminal that shrinks to less than half its height leaves
  the last row of the details' box above its first one.
* `whowatch.c:243`: a SIGWINCH during `resize()` is cleared unseen.

## 7. Plan

1. `Kernel`, `ProcTree`: tree and its proofs (done).
2. `Screen`, `Window` (done).
3. `PList`: the list on top of both, refinement of `PTSafe`, search, branches (done).
4. `UList`, with its search (done).
5. `Keyboard`, `MainLoop` (done).
6. `Display`, `Widgets`: keys, messages, redraw, details, search box, info line (done).
7. `Details`: its window, the sources of text, the geometry of the box (done).
8. Proofs of the timer and of the decoder (done).
9. Repeated search (`ido_search` of `Widgets`) on lists whose lines come and go.
10. Proofs of the window, the details, the lines of the process list and the users
   list (done).
11. `Acyclic`, `MarkTerminates`; the refinement of `PTSafe` by `PList`; its counters (done).
12. The numbers, the order, the completeness and the cursor of the lines of `PList` (done).
13. The refinement of `Display` by `Widgets`; `SearchesAll` (done).
14. That keys stay in order, for unmistakable spellings (done).
15. The printed list against the recursions (`TreeOrder`), and the end of every update
   of it (done). Open: the same for the poll of the users list, and the tick of a
   live system with pids given again.
