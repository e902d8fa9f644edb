------------------------------ MODULE Details -------------------------------
(***************************************************************************)
(* exti.c, pluglib.c and the plugins: the details are a box in the middle  *)
(* of the screen, without a cursor, whose text is longer than the box.     *)
(* A data source writes it anew at every redraw; the keys 'a' and 'z' and  *)
(* the arrows to the left and to the right move the window over the pad    *)
(* it is written to.                                                       *)
(*                                                                         *)
(* nlines, up to which one can scroll, is not the number of the last line  *)
(* on the pad: scr_lecho() adds one for each call of println() and         *)
(* newln(), while the lines are ended by the newlines of the texts, those  *)
(* of print() and title() included.  So a text appears as what its pieces  *)
(* do to both.  What the files of /proc hold is taken at every redraw from *)
(* a set, in lines that are no wider than the pad and fit into the buffers. *)
(***************************************************************************)
EXTENDS Screen

CONSTANTS
  Procs,      \* what the sources may find out about a process,
  Systems,    \* about the system,
  Accounts,   \* and about a user
  Heights,    \* the numbers of the last row of the terminal
  Widths,     \* the numbers of its last column
  StartWidths,\* those that it may have at start
  PadRows,    \* the numbers of the last row
  PadCols,    \* and of the last column of the pad at start
  MaxLines    \* bound: nlines before another text of a user is written

Unreadable == -1
File == Nat \cup {Unreadable}       \* a file, by its lines

ASSUME ProcsAssumption ==
  \A p \in Procs : /\ \A r \in {p.start, p.exe, p.root, p.cwd} : r \in BOOLEAN
                   /\ p.status \in File /\ p.fds \in File
ASSUME SystemsAssumption ==
  \A s \in Systems :
    /\ \A r \in {s.boot, s.cpu, s.open_files, s.open_inodes, s.max_files} : r \in BOOLEAN
    /\ \A f \in {s.mem, s.stat, s.modules, s.filesystems, s.partitions, s.devices} : f \in File
ASSUME AccountsAssumption == Accounts \subseteq {"none", "unknown", "known"}

\* The box starts in row TopY and ends that many rows above the last one, also
\* when the height has changed.  (Terminals that shrink to less than half their
\* height, and those of one column, are left out.)
ASSUME SizesAssumption ==
  /\ \A h \in Heights : h \in Nat /\ h > 2 * TopY
  /\ \A c \in Widths : c \in Nat \ {0}
  /\ StartWidths \subseteq Widths
ASSUME PadAssumption == PadRows \in Nat \ {0} /\ PadCols \in Nat /\ MaxLines \in Nat

-----------------------------------------------------------------------------
(* What is written: the calls that scr_lecho() counts, the newlines, and   *)
(* whether something comes behind the last newline.                        *)

Word == [rows |-> 0, open |-> TRUE]         \* "UID: "
Ended == [rows |-> 1, open |-> FALSE]       \* "0\n", "\n"
Below == [rows |-> 1, open |-> TRUE]        \* "\nSTAT:"
Between == [rows |-> 2, open |-> FALSE]     \* "\nSTATUS:\n"

Piece(text, counted) == [counted |-> counted, rows |-> text.rows, open |-> text.open]
println(text) == Piece(text, 1)
print(text) == Piece(text, 0)
title(text) == Piece(text, 0)
newln == println(Ended)
no_info == println(Ended)

\* a, then b
a ++ b == [counted |-> a.counted + b.counted, rows |-> a.rows + b.rows, open |-> b.open]

\* n times println() of a line
Lines(n) == [counted |-> n, rows |-> n, open |-> FALSE]

\* The lines of a file, from one that begins with a text if there is one to
\* look for (find).
read_proc_file(file, find) ==
  IF file = Unreadable \/ (file = 0 /\ find) THEN no_info ELSE Lines(file)

read_link(readable) == IF readable THEN println(Word) ++ newln ELSE no_info

sys_mem_info(file) == read_proc_file(file, TRUE)
sys_stat_info(file) == read_proc_file(file, TRUE)
sys_modules_info(file) == read_proc_file(file, FALSE)
sys_filesystems_info(file) == read_proc_file(file, FALSE)
sys_partitions_info(file) == read_proc_file(file, FALSE)
sys_devices_info(file) == read_proc_file(file, FALSE)
sys_proc_status(file) == read_proc_file(file, TRUE)

\* The open descriptors, of which readdir() and readlink() tell
sys_proc_fds(dir) == IF dir = Unreadable THEN no_info ELSE Lines(dir)

\* proc_starttime() and print_boot_time(): ctime() ends the line.
proc_starttime(known) == IF known THEN print(Ended) ELSE no_info
print_boot_time(known) == IF known THEN print(Ended) ELSE no_info
get_cpu_info(known) == IF known THEN print(Ended) ELSE no_info ++ print(Ended)
print_or_no(known) == IF known THEN println(Word) ELSE no_info

\* The data sources
eproc(p) ==
  (title(Word) ++ proc_starttime(p.start))
  ++ (title(Word) ++ read_link(p.exe))
  ++ (title(Word) ++ read_link(p.root))
  ++ (title(Word) ++ read_link(p.cwd))
  ++ (title(Between) ++ sys_proc_status(p.status))
  ++ (title(Between) ++ sys_proc_fds(p.fds))

esys(s) ==
  (title(Word) ++ print_boot_time(s.boot))
  ++ (title(Word) ++ get_cpu_info(s.cpu))
  ++ (title(Word) ++ newln ++ sys_mem_info(s.mem))
  ++ (title(Word) ++ print_or_no(s.open_files))
  ++ (title(Below) ++ print_or_no(s.open_inodes))
  ++ (title(Below) ++ print_or_no(s.max_files))
  ++ (title(Below) ++ newln ++ sys_stat_info(s.stat))
  ++ (title(Below) ++ newln ++ sys_modules_info(s.modules))
  ++ (title(Below) ++ newln ++ sys_filesystems_info(s.filesystems))
  ++ (title(Below) ++ newln ++ sys_partitions_info(s.partitions))
  ++ (title(Between) ++ sys_devices_info(s.devices))

\* Six titles and lines
euser(account) ==
  IF account # "known" THEN println(Word)
  ELSE title(Word) ++ Lines(6)

siglist == Lines(0)

\* The sources that call plgn_out_start()
Starts == {"eproc", "esys"}

Text(a) == [counted |-> a.counted, rows |-> a.rows + (IF a.open THEN 1 ELSE 0)]
Texts ==
  [eproc   |-> {Text(eproc(p)) : p \in Procs},
   esys    |-> {Text(esys(s)) : s \in Systems},
   euser   |-> {Text(euser(a)) : a \in Accounts},
   siglist |-> {Text(siglist)}]

-----------------------------------------------------------------------------
VARIABLES
  sy, sx,     \* the last row and the last column of the terminal
  w,          \* the widget, as in Screen
  vx,         \* its first column on the screen
  x, xsize,   \* the first and the last column of the box on the screen
  pxsize,     \* the width of the pad, see LastCol
  lines,      \* the lines of the text on the pad
  drawn,      \* the source of the text on the screen
  shown,      \* does the widget have its wrefresh and redraw?
  flagged,    \* WDGT_NEED_REDRAW
  cur_ds,     \* the data source, by its key
  mainw,      \* mainw->f
  pkey,       \* the static pkey of exti_keyh()
  pc          \* "redraw" when a key has been handled

colVars == <<vx, x, xsize, pxsize>>
sizeVars == <<sy, sx, x, xsize, pxsize>>
textVars == <<lines, drawn>>
keyVars == <<shown, flagged, cur_ds, mainw, pkey>>
vars == <<sy, sx, w, colVars, textVars, keyVars, pc>>

\* exti_wdgt()
Init ==
  /\ sy \in {h \in Heights : h \div 4 = TopY} /\ sx \in StartWidths
  /\ w = [vy |-> 0, crsr |-> -1, nlines |-> 0, ysize |-> sy - TopY]
  /\ vx = 0 /\ x = sx \div 5 /\ xsize = sx - x /\ pxsize = PadCols
  /\ lines = 0 /\ drawn = "none"
  /\ shown = FALSE /\ flagged = FALSE
  /\ cur_ds = "d" /\ mainw = "euser" /\ pkey = "none"
  /\ pc = "wait"

\* cur_ds->f
Source == CASE cur_ds = "d" -> mainw [] cur_ds = "s" -> "esys" [] cur_ds = "p" -> "siglist"

\* The pad: newpad() makes one row and one column more than its size says,
\* scr_wresize(), for a terminal that has become wider, does not.
Enlarged == pxsize > PadCols
LastCol == IF Enlarged THEN pxsize - 1 ELSE pxsize
LastRow == IF Enlarged THEN PadRows - 1 ELSE PadRows

\* Is the next redraw within the bound?
Room == ~(shown /\ Source = "euser" /\ w.nlines > MaxLines)

-----------------------------------------------------------------------------
(* exti_keyh()                                                             *)

\* (Mutant of Switch: the new source is shown where the old one was.)
SwitchStays(k) ==
  /\ cur_ds' = k /\ pkey' = k
  /\ IF shown /\ k = pkey
     THEN shown' = FALSE /\ drawn' = "none" /\ UNCHANGED <<flagged, w, vx>>
     ELSE /\ shown' = TRUE /\ flagged' = TRUE
          /\ UNCHANGED <<w, vx, drawn>>
  /\ UNCHANGED <<mainw, lines>>

\* exti_switch(), exti_enable(), exti_disable(): the key of a data source.  Only
\* in a box that is open does the text begin at the top.
Switch(k) ==
  /\ cur_ds' = k /\ pkey' = k
  /\ IF shown /\ k = pkey
     THEN shown' = FALSE /\ drawn' = "none" /\ UNCHANGED <<flagged, w, vx>>
     ELSE /\ shown' = TRUE /\ flagged' = TRUE
          /\ IF shown THEN w' = [w EXCEPT !.vy = 0] /\ vx' = 0 ELSE UNCHANGED <<w, vx>>
          /\ UNCHANGED drawn
  /\ UNCHANGED <<mainw, lines>>

Close ==
  /\ shown /\ shown' = FALSE /\ drawn' = "none"
  /\ UNCHANGED <<w, vx, lines, flagged, cur_ds, mainw, pkey>>

\* 'a' and 'z'
ScrollBy(k) ==
  /\ shown /\ w' = Key(k, w)
  /\ UNCHANGED <<vx, textVars, keyVars>>

\* kbd_left() and kbd_right()
Left ==
  /\ shown /\ vx' = IF vx # 0 THEN vx - 1 ELSE vx
  /\ UNCHANGED <<w, textVars, keyVars>>
Right ==
  /\ shown /\ vx' = IF vx < U(pxsize - x - xsize) THEN vx + 1 ELSE vx
  /\ UNCHANGED <<w, textVars, keyVars>>

\* A key of a list that comes to the front and sends its source (exti_msgh())...
SendSource(f) ==
  /\ mainw' = f
  /\ w' = [w EXCEPT !.vy = 0] /\ vx' = 0
  /\ UNCHANGED <<textVars, shown, flagged, cur_ds, pkey>>

\* ... and any other key
OtherKey == UNCHANGED <<w, vx, textVars, keyVars>>

PressKey ==
  /\ pc = "wait" /\ pc' = "redraw"
  /\ \/ \E k \in {"d", "s", "p"} : Switch(k)
     \/ Close \/ Left \/ Right \/ OtherKey
     \/ \E k \in {"Up", "Down"} : ScrollBy(k)
     \/ \E f \in {"euser", "eproc"} : SendSource(f)
  /\ Room'
  /\ UNCHANGED sizeVars

-----------------------------------------------------------------------------
(* exti_redraw() in the widget v, if it is to be drawn                     *)

Draw(v, due) ==
  IF ~(shown /\ due) THEN w' = v /\ UNCHANGED <<textVars, flagged>>
  ELSE /\ \E t \in Texts[Source] :
            /\ w' = OutputEnd([v EXCEPT !.nlines =
                                 t.counted + (IF Source \in Starts THEN -1 ELSE @)])
            /\ lines' = IF t.rows <= LastRow' THEN t.rows ELSE LastRow' + 1
       /\ drawn' = Source
       /\ flagged' = (cur_ds = "d")

\* key_action() after the handlers
Redraw ==
  /\ pc = "redraw" /\ pc' = "wait"
  /\ UNCHANGED <<sizeVars, vx, shown, cur_ds, mainw, pkey>>
  /\ Draw(w, flagged)

\* main_periodic()
Tick ==
  /\ pc = "wait" /\ Room
  /\ UNCHANGED <<sizeVars, vx, shown, cur_ds, mainw, pkey, pc>>
  /\ Draw(w, TRUE)

\* (Mutant of Resize: the pad keeps its width.)
ResizeBoxOnly ==
  /\ pc = "wait" /\ Room
  /\ sy' \in Heights /\ sx' \in Widths
  /\ xsize' = xsize + sx' - sx
  /\ UNCHANGED <<vx, x, pxsize, shown, cur_ds, mainw, pkey, pc>>
  /\ Draw([w EXCEPT !.ysize = @ + sy' - sy], TRUE)

\* resize()
Resize ==
  /\ pc = "wait" /\ Room
  /\ sy' \in Heights /\ sx' \in Widths
  /\ pxsize' = IF pxsize < sx' THEN sx' + 1 ELSE pxsize
  /\ xsize' = xsize + sx' - sx
  /\ Draw([w EXCEPT !.ysize = @ + sy' - sy], TRUE)
  /\ UNCHANGED <<vx, x, shown, cur_ds, mainw, pkey, pc>>

Next == PressKey \/ Redraw \/ Tick \/ Resize

Spec == Init /\ [][Next]_vars

-----------------------------------------------------------------------------
\* However far one has scrolled, in this text or in one before it, however short
\* the text has become since and however the terminal has been resized: the
\* window begins in a column of the pad (behind its last one prefresh() shows
\* nothing at all) and, over the details of a process or of the system, at one of
\* their lines, if they are not longer than the pad.  Lines have no width here:
\* to the right of short ones the box is empty, and nothing in the code prevents
\* it.  Nor is the second part true of the details of a user: euser() does not
\* start its output, and one can scroll past them.
WindowInside ==
  /\ vx <= LastCol
  /\ drawn \in Starts /\ w.nlines <= PadRows => w.vy < lines

\* Where one can scroll down no further the last line is in the box.
LastLineReached ==
  drawn \in Starts /\ lines < PadRows /\ NLeft(w) <= 0 => lines <= w.vy + Height(w) + 1

\* No redraw, whatever causes it, moves the window over a text that is not
\* shorter than it was before.
WindowSteady ==
  [][/\ Redraw \/ Tick \/ Resize
     /\ drawn' = drawn /\ w'.nlines >= w.nlines
     => w'.vy = w.vy]_vars

\* A source that replaces another one in the box is shown from its beginning.
FromTop ==
  [][drawn' # drawn /\ drawn # "none" /\ drawn' # "none" => w'.vy = 0 /\ vx' = 0]_vars
=============================================================================
