---------------------------- MODULE DetailsProofs ---------------------------
(* Proofs about Details: for every content of the files that are read, and *)
(* every size of the terminal and of the pad.                              *)
EXTENDS Details, ScreenProofs, TLAPS

-----------------------------------------------------------------------------
(* The texts of the sources.  What matters is that a text has at least as  *)
(* many lines as are counted: this is so because the newlines of titles,   *)
(* which are not counted, make up for the lines that are counted twice.    *)

Output == [counted : Nat, rows : Nat, open : BOOLEAN]

\* a is an output with n newlines more than are counted, and counts c at least.
AtLeast(a, n, c) ==
  a \in Output /\ a.rows - a.counted >= n /\ a.counted >= c

LEMMA Joined ==
  ASSUME NEW a, NEW b, NEW n \in Int, NEW m \in Int, NEW c \in Nat, NEW d \in Nat,
         AtLeast(a, n, c), AtLeast(b, m, d)
  PROVE  AtLeast(a ++ b, n + m, c + d)
BY DEF AtLeast, Output, ++

LEMMA Pieces ==
  /\ AtLeast(title(Word), 0, 0) /\ AtLeast(title(Below), 1, 0)
  /\ AtLeast(title(Between), 2, 0) /\ AtLeast(print(Ended), 1, 0)
  /\ AtLeast(println(Word), -1, 1) /\ AtLeast(newln, 0, 1) /\ AtLeast(no_info, 0, 1)
BY DEF AtLeast, Output, title, print, println, newln, no_info, Piece, Word, Ended,
       Below, Between

LEMMA SomeLines == ASSUME NEW n \in Nat PROVE AtLeast(Lines(n), 0, 0)
BY DEF AtLeast, Output, Lines

LEMMA Files ==
  ASSUME NEW file \in File, NEW find \in BOOLEAN
  PROVE  AtLeast(read_proc_file(file, find), 0, 0) /\ AtLeast(sys_proc_fds(file), 0, 0)
<1>1. AtLeast(no_info, 0, 0)
  BY Pieces DEF AtLeast, Output
<1>2. file # Unreadable => file \in Nat
  BY DEF File
<1>3. file # Unreadable => AtLeast(Lines(file), 0, 0)
  BY <1>2, SomeLines
<1> QED BY <1>1, <1>3 DEF read_proc_file, sys_proc_fds

LEMMA Readers ==
  ASSUME NEW known \in BOOLEAN
  PROVE  /\ AtLeast(proc_starttime(known), 0, 0) /\ AtLeast(print_boot_time(known), 0, 0)
         /\ AtLeast(get_cpu_info(known), 1, 0) /\ AtLeast(print_or_no(known), -1, 0)
         /\ AtLeast(read_link(known), -1, 1)
<1>1. AtLeast(no_info ++ print(Ended), 0 + 1, 1 + 0)
  BY Pieces, Joined
<1>2. AtLeast(println(Word) ++ newln, -1 + 0, 1 + 1)
  BY Pieces, Joined
<1> QED BY <1>1, <1>2, Pieces
     DEF AtLeast, Output, proc_starttime, print_boot_time, get_cpu_info, print_or_no,
         read_link

LEMMA ProcessText ==
  ASSUME NEW p \in Procs PROVE AtLeast(eproc(p), 1, 3)
<1>1. /\ p.start \in BOOLEAN /\ p.exe \in BOOLEAN /\ p.root \in BOOLEAN /\ p.cwd \in BOOLEAN
      /\ p.status \in File /\ p.fds \in File
  BY ProcsAssumption
<1> DEFINE start == title(Word) ++ proc_starttime(p.start)
           exe == title(Word) ++ read_link(p.exe)
           root == title(Word) ++ read_link(p.root)
           cwd == title(Word) ++ read_link(p.cwd)
           status == title(Between) ++ sys_proc_status(p.status)
           fds == title(Between) ++ sys_proc_fds(p.fds)
<1>2. AtLeast(start, 0 + 0, 0 + 0)
  BY <1>1, Pieces, Readers, Joined
<1>3. /\ AtLeast(exe, 0 + -1, 0 + 1) /\ AtLeast(root, 0 + -1, 0 + 1)
      /\ AtLeast(cwd, 0 + -1, 0 + 1)
  BY <1>1, Pieces, Readers, Joined
<1>4. AtLeast(status, 2 + 0, 0 + 0) /\ AtLeast(fds, 2 + 0, 0 + 0)
  <2>1. AtLeast(sys_proc_status(p.status), 0, 0) /\ AtLeast(sys_proc_fds(p.fds), 0, 0)
    BY <1>1, Files DEF sys_proc_status
  <2> QED BY <2>1, Pieces, Joined
<1>5. eproc(p) = start ++ exe ++ root ++ cwd ++ status ++ fds
  BY DEF eproc
<1> HIDE DEF start, exe, root, cwd, status, fds
<1>6. AtLeast(start, 0, 0) /\ AtLeast(exe, -1, 1) /\ AtLeast(root, -1, 1) /\ AtLeast(cwd, -1, 1)
      /\ AtLeast(status, 2, 0) /\ AtLeast(fds, 2, 0)
  BY <1>2, <1>3, <1>4
<1>7. AtLeast(start ++ exe, 0 + -1, 0 + 1)
  BY <1>6, Joined
<1>8. AtLeast(start ++ exe ++ root, 0 + -1 + -1, 0 + 1 + 1)
  BY <1>6, <1>7, Joined
<1>9. AtLeast(start ++ exe ++ root ++ cwd, 0 + -1 + -1 + -1, 0 + 1 + 1 + 1)
  BY <1>6, <1>8, Joined
<1>10. AtLeast(start ++ exe ++ root ++ cwd ++ status, 0 + -1 + -1 + -1 + 2, 0 + 1 + 1 + 1 + 0)
  BY <1>6, <1>9, Joined
<1>11. AtLeast(eproc(p), 0 + -1 + -1 + -1 + 2 + 2, 0 + 1 + 1 + 1 + 0 + 0)
  BY <1>5, <1>6, <1>10, Joined
<1> QED BY <1>11

\* A title, an empty line and a file
LEMMA FileBelow ==
  ASSUME NEW f \in File, NEW find \in BOOLEAN
  PROVE  /\ AtLeast(title(Word) ++ newln ++ read_proc_file(f, find), 0, 1)
         /\ AtLeast(title(Below) ++ newln ++ read_proc_file(f, find), 1, 1)
<1>1. AtLeast(read_proc_file(f, find), 0, 0)
  BY Files
<1>2. AtLeast(title(Word) ++ newln, 0 + 0, 0 + 1) /\ AtLeast(title(Below) ++ newln, 1 + 0, 0 + 1)
  BY Pieces, Joined
<1>3. /\ AtLeast(title(Word) ++ newln ++ read_proc_file(f, find), 0 + 0 + 0, 0 + 1 + 0)
      /\ AtLeast(title(Below) ++ newln ++ read_proc_file(f, find), 1 + 0 + 0, 0 + 1 + 0)
  BY <1>1, <1>2, Joined
<1> QED BY <1>3

LEMMA SystemText ==
  ASSUME NEW s \in Systems PROVE AtLeast(esys(s), 1, 1)
<1>1. /\ s.boot \in BOOLEAN /\ s.cpu \in BOOLEAN /\ s.open_files \in BOOLEAN
      /\ s.open_inodes \in BOOLEAN /\ s.max_files \in BOOLEAN
      /\ s.mem \in File /\ s.stat \in File /\ s.modules \in File
      /\ s.filesystems \in File /\ s.partitions \in File /\ s.devices \in File
  BY SystemsAssumption
<1> DEFINE boot == title(Word) ++ print_boot_time(s.boot)
           cpu == title(Word) ++ get_cpu_info(s.cpu)
           mem == title(Word) ++ newln ++ sys_mem_info(s.mem)
           used == title(Word) ++ print_or_no(s.open_files)
           inodes == title(Below) ++ print_or_no(s.open_inodes)
           files == title(Below) ++ print_or_no(s.max_files)
           stat == title(Below) ++ newln ++ sys_stat_info(s.stat)
           modules == title(Below) ++ newln ++ sys_modules_info(s.modules)
           filesystems == title(Below) ++ newln ++ sys_filesystems_info(s.filesystems)
           partitions == title(Below) ++ newln ++ sys_partitions_info(s.partitions)
           devices == title(Between) ++ sys_devices_info(s.devices)
<1>2. AtLeast(boot, 0 + 0, 0 + 0) /\ AtLeast(cpu, 0 + 1, 0 + 0)
  BY <1>1, Pieces, Readers, Joined
<1>3. /\ AtLeast(used, 0 + -1, 0 + 0)
      /\ AtLeast(inodes, 1 + -1, 0 + 0) /\ AtLeast(files, 1 + -1, 0 + 0)
  BY <1>1, Pieces, Readers, Joined
<1>4. AtLeast(devices, 2 + 0, 0 + 0)
  <2>1. AtLeast(sys_devices_info(s.devices), 0, 0)
    BY <1>1, Files DEF sys_devices_info
  <2> QED BY <2>1, Pieces, Joined
<1>5. /\ AtLeast(mem, 0, 1) /\ AtLeast(stat, 1, 1) /\ AtLeast(modules, 1, 1)
      /\ AtLeast(filesystems, 1, 1) /\ AtLeast(partitions, 1, 1)
  BY <1>1, FileBelow
     DEF sys_mem_info, sys_stat_info, sys_modules_info, sys_filesystems_info,
         sys_partitions_info
<1>6. esys(s) = boot ++ cpu ++ mem ++ used ++ inodes ++ files ++ stat ++ modules
                ++ filesystems ++ partitions ++ devices
  BY DEF esys
<1> HIDE DEF boot, cpu, mem, used, inodes, files, stat, modules, filesystems, partitions,
             devices
<1>7. /\ AtLeast(boot, 0, 0) /\ AtLeast(cpu, 1, 0) /\ AtLeast(used, -1, 0)
      /\ AtLeast(inodes, 0, 0) /\ AtLeast(files, 0, 0) /\ AtLeast(devices, 2, 0)
  BY <1>2, <1>3, <1>4
<1>8. AtLeast(boot ++ cpu, 0 + 1, 0 + 0)
  BY <1>7, Joined
<1>9. AtLeast(boot ++ cpu ++ mem, 1 + 0, 0 + 1)
  BY <1>5, <1>8, Joined
<1>10. AtLeast(boot ++ cpu ++ mem ++ used, 1 + -1, 1 + 0)
  BY <1>7, <1>9, Joined
<1>11. AtLeast(boot ++ cpu ++ mem ++ used ++ inodes, 0 + 0, 1 + 0)
  BY <1>7, <1>10, Joined
<1>12. AtLeast(boot ++ cpu ++ mem ++ used ++ inodes ++ files, 0 + 0, 1 + 0)
  BY <1>7, <1>11, Joined
<1>13. AtLeast(boot ++ cpu ++ mem ++ used ++ inodes ++ files ++ stat, 0 + 1, 1 + 1)
  BY <1>5, <1>12, Joined
<1>14. AtLeast(boot ++ cpu ++ mem ++ used ++ inodes ++ files ++ stat ++ modules, 1 + 1, 2 + 1)
  BY <1>5, <1>13, Joined
<1>15. AtLeast(boot ++ cpu ++ mem ++ used ++ inodes ++ files ++ stat ++ modules
               ++ filesystems, 2 + 1, 3 + 1)
  BY <1>5, <1>14, Joined
<1>16. AtLeast(boot ++ cpu ++ mem ++ used ++ inodes ++ files ++ stat ++ modules
               ++ filesystems ++ partitions, 3 + 1, 4 + 1)
  BY <1>5, <1>15, Joined
<1>17. AtLeast(esys(s), 4 + 2, 5 + 0)
  BY <1>6, <1>7, <1>16, Joined
<1> QED BY <1>17 DEF AtLeast, Output

LEMMA UserText ==
  ASSUME NEW a PROVE euser(a) \in Output
<1>1. AtLeast(Lines(6), 0, 0)
  BY SomeLines
<1>2. AtLeast(title(Word) ++ Lines(6), 0 + 0, 0 + 0)
  BY <1>1, Pieces, Joined
<1> QED BY <1>2, Pieces DEF euser, AtLeast

Sources == {"eproc", "esys", "euser", "siglist"}

\* What a source writes; the text of one that starts its output has more lines
\* than the number of the last one that is counted, and counts at least one.
LEMMA TextsCounted ==
  ASSUME NEW s \in Sources, NEW t \in Texts[s]
  PROVE  /\ t.counted \in Nat /\ t.rows \in Nat
         /\ s \in Starts => t.counted >= 1 /\ t.rows >= t.counted
<1>1. ASSUME NEW a \in Output
      PROVE  /\ Text(a).counted = a.counted /\ Text(a).rows \in Nat
             /\ Text(a).rows >= a.rows /\ a.counted \in Nat /\ a.rows \in Nat
  BY DEF Output, Text
<1>2. CASE s = "eproc"
  <2>1. PICK p \in Procs : t = Text(eproc(p))
    BY <1>2 DEF Texts
  <2> QED BY <1>1, <2>1, ProcessText DEF AtLeast
<1>3. CASE s = "esys"
  <2>1. PICK y \in Systems : t = Text(esys(y))
    BY <1>3 DEF Texts
  <2> QED BY <1>1, <2>1, SystemText DEF AtLeast
<1>4. CASE s = "euser"
  <2>1. PICK a \in Accounts : t = Text(euser(a))
    BY <1>4 DEF Texts
  <2> QED BY <1>1, <1>4, <2>1, UserText DEF Starts
<1>5. CASE s = "siglist"
  <2>1. t = Text(siglist)
    BY <1>5 DEF Texts
  <2>2. siglist \in Output
    BY SomeLines DEF siglist, AtLeast
  <2> QED BY <1>1, <1>5, <2>1, <2>2 DEF Starts
<1> QED BY <1>2, <1>3, <1>4, <1>5 DEF Sources

-----------------------------------------------------------------------------
(* The box                                                                 *)

\* Numbers of lines are far from the greatest int.
SmallNumbers ==
  /\ \A h \in Heights : h < Wrap \div 2
  /\ \A s \in Sources : \A t \in Texts[s] : MaxLines + t.counted < Wrap \div 2

Widget == [vy : Nat, crsr : {-1}, nlines : Nat, ysize : Nat]

\* A window that begins in front of the last line that is counted, or at the
\* first one, in a box with rows
Placed(v) ==
  /\ v \in Widget /\ v.ysize > TopY /\ v.ysize < Wrap \div 2 /\ v.nlines < Wrap \div 2
  /\ v.vy = 0 \/ v.vy < v.nlines

\* l lines of the source d, of which n + 1 are counted, are on the pad.
OnPad(d, l, n) == d \in Starts => l \in Nat /\ l >= 1 /\ (l > n \/ l >= PadRows)

LEMMA SmallU == ASSUME NEW n \in Nat, n < Wrap \div 2 PROVE U(n) = n
<1>1. n \in 0 .. Wrap - 1
  BY Half
<1> QED BY <1>1, USmall

LEMMA OutputEndPlaces ==
  ASSUME NEW v \in Widget, v.ysize > TopY, v.ysize < Wrap \div 2, v.nlines < Wrap \div 2
  PROVE  /\ Placed(OutputEnd(v)) /\ OutputEnd(v).ysize = v.ysize
         /\ OutputEnd(v).nlines = v.nlines
         /\ v.vy = 0 \/ v.vy < v.nlines => OutputEnd(v).vy = v.vy
<1> DEFINE vy == IF v.vy < U(v.nlines) THEN v.vy
                 ELSE IF U(v.nlines) > v.ysize THEN U(v.nlines - v.ysize) ELSE 0
<1>1. /\ v.vy \in Nat /\ v.crsr = -1 /\ v.nlines \in Nat /\ v.ysize \in Nat /\ v.ysize > 0
      /\ U(v.nlines) = v.nlines
  BY SmallU, TopYAssumption DEF Widget
<1>2. v.nlines > v.ysize => U(v.nlines - v.ysize) = v.nlines - v.ysize
  <2> SUFFICES ASSUME v.nlines > v.ysize PROVE U(v.nlines - v.ysize) = v.nlines - v.ysize
    OBVIOUS
  <2>1. v.nlines - v.ysize \in Nat /\ v.nlines - v.ysize < Wrap \div 2
    BY <1>1, Half
  <2> QED BY <2>1, SmallU
<1>3. vy \in Nat /\ (vy = 0 \/ vy < v.nlines) /\ (v.vy = 0 \/ v.vy < v.nlines => vy = v.vy)
  BY <1>1, <1>2
<1>4. OutputEnd(v) = [v EXCEPT !.vy = vy, !.crsr = IF v.crsr > v.nlines THEN v.nlines ELSE v.crsr]
  BY DEF OutputEnd, Widget
<1> HIDE DEF vy
<1>5. (IF v.crsr > v.nlines THEN v.nlines ELSE v.crsr) = -1
  BY <1>1
<1>6. OutputEnd(v) = [v EXCEPT !.vy = vy, !.crsr = -1]
  BY <1>4, <1>5
<1>7. /\ OutputEnd(v) \in Widget /\ OutputEnd(v).vy = vy
      /\ OutputEnd(v).ysize = v.ysize /\ OutputEnd(v).nlines = v.nlines
  BY <1>3, <1>6 DEF Widget
<1> QED BY <1>3, <1>7 DEF Placed

\* What a redraw does to a window that is in its place.
LEMMA DrawPlaces ==
  ASSUME SmallNumbers, NEW v, Placed(v), NEW due \in BOOLEAN, Draw(v, due),
         shown \in BOOLEAN, Source \in Sources, OnPad(drawn, lines, v.nlines),
         shown /\ Source = "euser" => v.nlines <= MaxLines
  PROVE  /\ Placed(w') /\ w'.ysize = v.ysize
         /\ OnPad(drawn', lines', w'.nlines)
         /\ v.vy = 0 \/ w'.nlines >= v.nlines => w'.vy = v.vy
         /\ IF shown /\ due THEN drawn' = Source /\ flagged' = (cur_ds = "d")
            ELSE drawn' = drawn /\ flagged' = flagged
<1>1. CASE ~(shown /\ due)
  BY <1>1 DEF Draw, textVars
<1>2. CASE shown /\ due
  <2>1. PICK t \in Texts[Source] :
          /\ w' = OutputEnd([v EXCEPT !.nlines =
                               t.counted + (IF Source \in Starts THEN -1 ELSE @)])
          /\ lines' = IF t.rows <= LastRow' THEN t.rows ELSE LastRow' + 1
    BY <1>2 DEF Draw
  <2>2. drawn' = Source /\ flagged' = (cur_ds = "d")
    BY <1>2 DEF Draw
  <2> DEFINE n == t.counted + (IF Source \in Starts THEN -1 ELSE v.nlines)
             u == [v EXCEPT !.nlines = n]
  <2>3. /\ t.counted \in Nat /\ t.rows \in Nat /\ MaxLines + t.counted < Wrap \div 2
        /\ Source \in Starts => t.counted >= 1 /\ t.rows >= t.counted
    BY TextsCounted DEF SmallNumbers
  <2>4. n \in Nat /\ n < Wrap \div 2
    <3>1. v.nlines \in Nat /\ v.nlines < Wrap \div 2 /\ MaxLines \in Nat
      BY PadAssumption DEF Placed, Widget
    <3>2. CASE Source \in Starts
      BY <2>3, <3>1, <3>2, Half
    <3>3. CASE Source = "euser"
      BY <1>2, <2>3, <3>1, <3>3, Half DEF Starts
    <3>4. CASE Source = "siglist"
      <4>1. t.counted = 0
        BY <2>1, <3>4 DEF Texts, Text, siglist, Lines
      <4> QED BY <3>1, <3>4, <4>1 DEF Starts
    <3> QED BY <3>2, <3>3, <3>4 DEF Sources, Starts
  <2>5. w' = OutputEnd(u)
    BY <2>1 DEF Placed, Widget
  <2> HIDE DEF n
  <2>6. /\ u \in Widget /\ u.vy = v.vy /\ u.nlines = n /\ u.ysize = v.ysize
        /\ v.vy \in Nat /\ v.nlines \in Nat
    BY <2>4 DEF Placed, Widget
  <2> HIDE DEF u
  <2>7. /\ Placed(w') /\ w'.ysize = v.ysize /\ w'.nlines = n
        /\ v.vy = 0 \/ v.vy < n => w'.vy = v.vy
    BY <2>4, <2>5, <2>6, OutputEndPlaces DEF Placed
  <2>8. v.vy = 0 \/ w'.nlines >= v.nlines => w'.vy = v.vy
    BY <2>4, <2>6, <2>7 DEF Placed
  <2>9. OnPad(drawn', lines', w'.nlines)
    <3>1. LastRow' \in {PadRows - 1, PadRows} /\ PadRows \in Nat \ {0}
      BY PadAssumption DEF LastRow
    <3> QED BY <2>1, <2>2, <2>3, <2>7, <3>1 DEF OnPad, n
  <2> QED BY <1>2, <2>2, <2>7, <2>8, <2>9
<1> QED BY <1>1, <1>2

-----------------------------------------------------------------------------
(* The invariant                                                           *)

\* The pad is not narrower than the terminal at start.
WidePad == \A c \in StartWidths : c <= PadCols

BoxInv ==
  /\ sy \in Heights /\ sx \in Nat \ {0}
  /\ Placed(w) /\ w.ysize = sy - TopY
  /\ vx \in Nat /\ x \in Nat /\ xsize \in Int /\ pxsize \in Nat
  /\ x + xsize = sx /\ sx <= pxsize /\ PadCols <= pxsize /\ vx <= LastCol
  /\ OnPad(drawn, lines, w.nlines)
  /\ shown \in BOOLEAN /\ flagged \in BOOLEAN
  /\ cur_ds \in {"d", "s", "p"} /\ mainw \in {"euser", "eproc"}
  /\ pc \in {"wait", "redraw"} /\ (pc = "redraw" => Room)
  /\ (shown /\ cur_ds = "d" => flagged)
  /\ (pc = "wait" => drawn = IF shown THEN Source ELSE "none")
  /\ (pc = "redraw" => /\ ~shown => drawn = "none"
                       /\ shown /\ drawn # Source =>
                            flagged /\ (drawn # "none" => w.vy = 0 /\ vx = 0))

LEMMA SourceKnown ==
  ASSUME cur_ds \in {"d", "s", "p"}, mainw \in {"euser", "eproc"}
  PROVE  Source \in Sources
BY DEF Source, Sources

LEMMA BoxInit == ASSUME SmallNumbers, WidePad PROVE Init => BoxInv
<1> SUFFICES ASSUME Init PROVE BoxInv
  OBVIOUS
<1>1. /\ sy \in Heights /\ sx \in StartWidths
      /\ w = [vy |-> 0, crsr |-> -1, nlines |-> 0, ysize |-> sy - TopY]
      /\ vx = 0 /\ x = sx \div 5 /\ xsize = sx - x /\ pxsize = PadCols
      /\ drawn = "none" /\ shown = FALSE /\ flagged = FALSE
      /\ cur_ds = "d" /\ mainw = "euser" /\ pc = "wait"
  BY DEF Init
<1>2. /\ sy \in Nat /\ sy > 2 * TopY /\ sy < Wrap \div 2 /\ TopY \in Nat
      /\ sx \in Nat \ {0} /\ sx <= PadCols /\ PadCols \in Nat
  BY <1>1, SizesAssumption, PadAssumption, TopYAssumption DEF SmallNumbers, WidePad
<1>3. x \in Nat
  BY <1>1, <1>2, Z3
<1>4. Placed(w) /\ w.ysize = sy - TopY
  BY <1>1, <1>2, Half DEF Placed, Widget
<1>5. OnPad(drawn, lines, w.nlines)
  BY <1>1 DEF OnPad, Starts
<1>6. /\ x + xsize = sx /\ sx <= pxsize /\ PadCols <= pxsize /\ vx <= LastCol /\ vx \in Nat
      /\ xsize \in Int /\ pxsize \in Nat
  BY <1>1, <1>2, <1>3 DEF LastCol, Enlarged
<1>7. /\ pc = "wait" /\ drawn = IF shown THEN Source ELSE "none"
  BY <1>1
<1> QED BY <1>1, <1>2, <1>3, <1>4, <1>5, <1>6, <1>7 DEF BoxInv

-----------------------------------------------------------------------------
(* The keys                                                                *)

\* Scrolling by a line leaves the window in its place.
LEMMA ScrollPlaces ==
  ASSUME NEW v, Placed(v), NEW k \in {"Up", "Down"}
  PROVE  /\ Placed(Key(k, v)) /\ Key(k, v).ysize = v.ysize
         /\ Key(k, v).nlines = v.nlines
<1>1. /\ v.vy \in Nat /\ v.crsr = -1 /\ v.nlines \in Nat /\ v.ysize \in Nat
      /\ v.ysize - TopY \in Nat /\ v.ysize - TopY > 0 /\ v.ysize - TopY < Wrap \div 2
      /\ v.vy < Wrap \div 2 /\ v.nlines < Wrap \div 2 /\ v.vy <= v.nlines
  BY TopYAssumption, Half DEF Placed, Widget
<1>2. ASSUME NEW n \in Nat, n = 0 \/ n < v.nlines
      PROVE  /\ Placed([v EXCEPT !.vy = n]) /\ [v EXCEPT !.vy = n].ysize = v.ysize
             /\ [v EXCEPT !.vy = n].nlines = v.nlines
  BY <1>2 DEF Placed, Widget
<1>3. CASE k = "Up"
  <2>1. v.vy # 0 => U(v.vy + -1) = v.vy - 1 /\ v.vy - 1 \in Nat
    <3> SUFFICES ASSUME v.vy # 0 PROVE U(v.vy + -1) = v.vy - 1 /\ v.vy - 1 \in Nat
      OBVIOUS
    <3>1. v.vy + -1 = v.vy - 1 /\ v.vy - 1 \in Nat /\ v.vy - 1 < Wrap \div 2
      BY <1>1, Half
    <3> QED BY <3>1, SmallU
  <2>2. Key(k, v) = IF v.vy # 0 THEN [v EXCEPT !.vy = U(v.vy + -1)] ELSE v
    BY <1>1, <1>3 DEF Key, KbdUp, Scroll
  <2>3. CASE v.vy # 0
    <3>1. Key(k, v) = [v EXCEPT !.vy = v.vy - 1]
      BY <2>1, <2>2, <2>3
    <3>2. v.vy - 1 \in Nat /\ (v.vy - 1 = 0 \/ v.vy - 1 < v.nlines)
      BY <1>1, <2>1, <2>3
    <3> QED BY <1>2, <3>1, <3>2
  <2>4. CASE v.vy = 0
    BY <2>2, <2>4
  <2> QED BY <2>3, <2>4
<1>4. CASE k = "Down"
  <2>1. Height(v) = v.ysize - TopY
    BY <1>1, SmallU DEF Height
  <2>2. NLeft(v) > 0 => v.vy + 1 < v.nlines
    <3>1. NLeft(v) = S(v.nlines - (v.vy + (v.ysize - TopY)))
      BY <2>1 DEF NLeft
    <3> DEFINE d == v.nlines - (v.vy + (v.ysize - TopY))
    <3>2. d \in Int /\ d < Wrap \div 2
      BY <1>1, Half
    <3>3. CASE -d < Wrap \div 2
      BY <1>1, <3>1, <3>2, <3>3, SSmall
    <3>4. CASE ~(-d < Wrap \div 2)
      <4>1. -d <= Wrap /\ d < 0
        BY <1>1, <3>2, <3>4, Half
      <4> QED BY <1>1, <3>1, <3>2, <3>4, <4>1, UNegative, Half DEF S
    <3> QED BY <3>3, <3>4
  <2>3. NLeft(v) > 0 => U(v.vy + 1) = v.vy + 1 /\ v.vy + 1 \in Nat
    <3> SUFFICES ASSUME NLeft(v) > 0 PROVE U(v.vy + 1) = v.vy + 1 /\ v.vy + 1 \in Nat
      OBVIOUS
    <3>1. v.vy + 1 \in Nat /\ v.vy + 1 < Wrap \div 2
      BY <1>1, <2>2, Half
    <3> QED BY <3>1, SmallU
  <2>4. Key(k, v) = IF NLeft(v) > 0 THEN [v EXCEPT !.vy = U(v.vy + 1)] ELSE v
    BY <1>1, <1>4 DEF Key, KbdDown, Scroll
  <2>5. CASE NLeft(v) > 0
    <3>1. Key(k, v) = [v EXCEPT !.vy = v.vy + 1]
      BY <2>3, <2>4, <2>5
    <3> QED BY <1>2, <2>2, <2>3, <2>5, <3>1
  <2>6. CASE ~(NLeft(v) > 0)
    BY <2>4, <2>6
  <2> QED BY <2>5, <2>6
<1> QED BY <1>3, <1>4

\* The last column of the pad
LEMMA LastColumn ==
  ASSUME BoxInv
  PROVE  LastCol \in Nat /\ sx - 1 <= LastCol /\ pxsize - 1 <= LastCol
<1>1. PadCols \in Nat
  BY PadAssumption
<1> QED BY <1>1 DEF BoxInv, LastCol, Enlarged

\* What the handler of a key has to keep
Handled ==
  /\ Placed(w') /\ w'.ysize = w.ysize
  /\ vx' \in Nat /\ vx' <= LastCol
  /\ OnPad(drawn', lines', w'.nlines)
  /\ shown' \in BOOLEAN /\ flagged' \in BOOLEAN
  /\ cur_ds' \in {"d", "s", "p"} /\ mainw' \in {"euser", "eproc"}
  /\ (shown' /\ cur_ds' = "d" => flagged')
  /\ (~shown' => drawn' = "none")
  /\ (shown' /\ drawn' # Source' =>
        flagged' /\ (drawn' # "none" => w'.vy = 0 /\ vx' = 0))

\* Where the window begins is all that Switch and SendSource change of w.
LEMMA TopPlaces ==
  ASSUME Placed(w)
  PROVE  /\ Placed([w EXCEPT !.vy = 0]) /\ [w EXCEPT !.vy = 0].ysize = w.ysize
         /\ [w EXCEPT !.vy = 0].nlines = w.nlines /\ [w EXCEPT !.vy = 0].vy = 0
BY DEF Placed, Widget

LEMMA SwitchHandled ==
  ASSUME BoxInv, pc = "wait", NEW k \in {"d", "s", "p"}, Switch(k) PROVE Handled
<1>1. /\ cur_ds' = k /\ mainw' = mainw /\ lines' = lines /\ mainw \in {"euser", "eproc"}
      /\ Placed(w) /\ OnPad(drawn, lines, w.nlines) /\ vx \in Nat /\ vx <= LastCol
      /\ 0 <= LastCol /\ drawn = IF shown THEN Source ELSE "none"
      /\ shown \in BOOLEAN /\ flagged \in BOOLEAN
  BY LastColumn DEF Switch, BoxInv
<1>2. CASE shown /\ k = pkey
  <2>1. shown' = FALSE /\ drawn' = "none" /\ flagged' = flagged /\ w' = w /\ vx' = vx
    BY <1>2 DEF Switch
  <2>2. OnPad(drawn', lines', w'.nlines)
    BY <2>1 DEF OnPad, Starts
  <2> QED BY <1>1, <2>1, <2>2 DEF Handled
<1>3. CASE ~(shown /\ k = pkey)
  <2>1. /\ shown' = TRUE /\ flagged' = TRUE /\ drawn' = drawn
        /\ IF shown THEN w' = [w EXCEPT !.vy = 0] /\ vx' = 0 ELSE w' = w /\ vx' = vx
    BY <1>3 DEF Switch
  <2>2. CASE shown
    <3>1. w' = [w EXCEPT !.vy = 0] /\ vx' = 0
      BY <2>1, <2>2
    <3>2. Placed(w') /\ w'.ysize = w.ysize /\ w'.nlines = w.nlines /\ w'.vy = 0
      BY <1>1, <3>1, TopPlaces
    <3> QED BY <1>1, <2>1, <3>1, <3>2 DEF Handled
  <2>3. CASE ~shown
    <3>1. w' = w /\ vx' = vx /\ drawn' = "none"
      BY <1>1, <2>1, <2>3
    <3> QED BY <1>1, <2>1, <3>1 DEF Handled
  <2> QED BY <2>2, <2>3
<1> QED BY <1>2, <1>3

LEMMA SendHandled ==
  ASSUME BoxInv, pc = "wait", NEW f \in {"euser", "eproc"}, SendSource(f) PROVE Handled
<1>1. /\ mainw' = f /\ w' = [w EXCEPT !.vy = 0] /\ vx' = 0
      /\ lines' = lines /\ drawn' = drawn /\ shown' = shown /\ flagged' = flagged
      /\ cur_ds' = cur_ds
  BY DEF SendSource, textVars
<1>2. /\ Placed(w) /\ OnPad(drawn, lines, w.nlines) /\ vx \in Nat /\ vx <= LastCol
      /\ 0 <= LastCol /\ drawn = IF shown THEN Source ELSE "none"
      /\ shown \in BOOLEAN /\ flagged \in BOOLEAN /\ cur_ds \in {"d", "s", "p"}
      /\ (shown /\ cur_ds = "d" => flagged)
  BY LastColumn DEF BoxInv
<1>3. Placed(w') /\ w'.ysize = w.ysize /\ w'.nlines = w.nlines /\ w'.vy = 0
  BY <1>1, <1>2, TopPlaces
<1>4. cur_ds # "d" => Source' = Source
  BY <1>1, <1>2 DEF Source
<1> QED BY <1>1, <1>2, <1>3, <1>4 DEF Handled

\* The keys that leave the source alone
LEMMA SameSourceHandled ==
  ASSUME BoxInv, pc = "wait", UNCHANGED <<textVars, keyVars>>,
         Placed(w'), w'.ysize = w.ysize, w'.nlines = w.nlines, vx' \in Nat, vx' <= LastCol
  PROVE  Handled
<1>1. /\ lines' = lines /\ drawn' = drawn /\ shown' = shown /\ flagged' = flagged
      /\ cur_ds' = cur_ds /\ mainw' = mainw
  BY DEF textVars, keyVars
<1>2. Source' = Source
  BY <1>1 DEF Source
<1>3. /\ OnPad(drawn, lines, w.nlines) /\ drawn = IF shown THEN Source ELSE "none"
      /\ shown \in BOOLEAN /\ flagged \in BOOLEAN /\ cur_ds \in {"d", "s", "p"}
      /\ mainw \in {"euser", "eproc"} /\ (shown /\ cur_ds = "d" => flagged)
  BY DEF BoxInv
<1> QED BY <1>1, <1>2, <1>3 DEF Handled

LEMMA PressKeyKeeps == ASSUME BoxInv, PressKey PROVE BoxInv' /\ Handled
<1>1. /\ pc = "wait" /\ pc' = "redraw" /\ Room'
      /\ sy' = sy /\ sx' = sx /\ x' = x /\ xsize' = xsize /\ pxsize' = pxsize
      /\ LastCol' = LastCol
  BY DEF PressKey, sizeVars, LastCol, Enlarged
<1>2. /\ Placed(w) /\ w.ysize = sy - TopY /\ vx \in Nat /\ vx <= LastCol /\ pxsize \in Nat
      /\ sy \in Heights /\ sx \in Nat \ {0} /\ x \in Nat /\ xsize \in Int
      /\ x + xsize = sx /\ sx <= pxsize /\ PadCols <= pxsize
      /\ LastCol \in Nat /\ pxsize - 1 <= LastCol
  BY LastColumn DEF BoxInv
<1>3. Handled
  <2>1. ASSUME NEW k \in {"d", "s", "p"}, Switch(k) PROVE Handled
    BY <1>1, <2>1, SwitchHandled
  <2>2. CASE Close
    <3>1. /\ shown' = FALSE /\ drawn' = "none" /\ w' = w /\ vx' = vx /\ lines' = lines
          /\ flagged' = flagged /\ cur_ds' = cur_ds /\ mainw' = mainw
      BY <2>2 DEF Close
    <3>2. OnPad(drawn', lines', w'.nlines)
      BY <3>1 DEF OnPad, Starts
    <3>3. flagged \in BOOLEAN /\ cur_ds \in {"d", "s", "p"} /\ mainw \in {"euser", "eproc"}
      BY DEF BoxInv
    <3> QED BY <1>2, <3>1, <3>2, <3>3 DEF Handled
  <2>3. CASE Left
    BY <1>1, <1>2, <2>3, SameSourceHandled DEF Left
  <2>4. CASE Right
    <3>1. pxsize - x - xsize \in Nat
      BY <1>2
    <3>2. U(pxsize - x - xsize) <= LastCol
      <4> DEFINE n == pxsize - x - xsize
      <4>1. n \in Nat /\ n <= LastCol
        BY <1>2, <3>1
      <4> HIDE DEF n
      <4>2. U(n) <= n /\ U(n) \in Int
        BY <4>1, WrapAssumption, Z3 DEF U
      <4>3. U(n) <= LastCol
        BY <1>2, <4>1, <4>2
      <4> QED BY <4>3 DEF n
    <3>3. U(pxsize - x - xsize) \in Int
      BY <3>1, URange
    <3>4. vx' \in Nat /\ vx' <= LastCol /\ w' = w /\ UNCHANGED <<textVars, keyVars>>
      BY <1>2, <2>4, <3>2, <3>3 DEF Right
    <3> QED BY <1>1, <1>2, <3>4, SameSourceHandled
  <2>5. CASE OtherKey
    BY <1>1, <1>2, <2>5, SameSourceHandled DEF OtherKey
  <2>6. ASSUME NEW k \in {"Up", "Down"}, ScrollBy(k) PROVE Handled
    <3>1. w' = Key(k, w) /\ vx' = vx /\ UNCHANGED <<textVars, keyVars>>
      BY <2>6 DEF ScrollBy
    <3>2. Placed(w') /\ w'.ysize = w.ysize /\ w'.nlines = w.nlines
      BY <1>2, <3>1, ScrollPlaces
    <3> QED BY <1>1, <1>2, <3>1, <3>2, SameSourceHandled
  <2>7. ASSUME NEW f \in {"euser", "eproc"}, SendSource(f) PROVE Handled
    BY <1>1, <2>7, SendHandled
  <2> QED BY <2>1, <2>2, <2>3, <2>4, <2>5, <2>6, <2>7 DEF PressKey
<1>4. BoxInv'
  <2>1. w'.ysize = sy' - TopY /\ Placed(w')
    BY <1>1, <1>2, <1>3 DEF Handled
  <2>2. Room'
    BY <1>1
  <2> QED BY <1>1, <1>2, <1>3, <2>1, <2>2 DEF BoxInv, Handled
<1> QED BY <1>3, <1>4

-----------------------------------------------------------------------------
(* The redraws                                                             *)

\* What a redraw, whatever causes it, does to the window
LEMMA DrawingPlaces ==
  ASSUME SmallNumbers, BoxInv, NEW v, NEW due \in BOOLEAN, Draw(v, due), Room,
         Placed(v), v.vy = w.vy, v.nlines = w.nlines
  PROVE  /\ Placed(w') /\ w'.ysize = v.ysize
         /\ OnPad(drawn', lines', w'.nlines)
         /\ w.vy = 0 \/ w'.nlines >= w.nlines => w'.vy = w.vy
         /\ IF shown /\ due THEN drawn' = Source /\ flagged' = (cur_ds = "d")
            ELSE drawn' = drawn /\ flagged' = flagged
<1>1. Source \in Sources /\ shown \in BOOLEAN /\ OnPad(drawn, lines, v.nlines)
  BY SourceKnown DEF BoxInv
<1>2. shown /\ Source = "euser" => v.nlines <= MaxLines
  BY PadAssumption DEF Room, Placed, Widget
<1> QED BY <1>1, <1>2, DrawPlaces

LEMMA RedrawKeeps ==
  ASSUME SmallNumbers, BoxInv, Redraw
  PROVE  /\ BoxInv'
         /\ w'.nlines >= w.nlines => w'.vy = w.vy
         /\ drawn' # drawn /\ drawn # "none" => w'.vy = 0 /\ vx' = 0
<1>1. /\ pc = "redraw" /\ pc' = "wait" /\ Draw(w, flagged)
      /\ sy' = sy /\ sx' = sx /\ x' = x /\ xsize' = xsize /\ pxsize' = pxsize
      /\ vx' = vx /\ shown' = shown /\ cur_ds' = cur_ds /\ mainw' = mainw
      /\ LastCol' = LastCol
  BY DEF Redraw, sizeVars, LastCol, Enlarged
<1>2. Source' = Source
  BY <1>1 DEF Source
<1>3. /\ Placed(w') /\ w'.ysize = w.ysize /\ OnPad(drawn', lines', w'.nlines)
      /\ w.vy = 0 \/ w'.nlines >= w.nlines => w'.vy = w.vy
      /\ IF shown /\ flagged THEN drawn' = Source /\ flagged' = (cur_ds = "d")
         ELSE drawn' = drawn /\ flagged' = flagged
  <2>1. Placed(w) /\ Room /\ flagged \in BOOLEAN
    BY <1>1 DEF BoxInv
  <2> QED BY <1>1, <2>1, DrawingPlaces
<1>4. /\ ~shown => drawn = "none"
      /\ shown /\ drawn # Source => flagged /\ (drawn # "none" => w.vy = 0 /\ vx = 0)
      /\ (shown /\ cur_ds = "d" => flagged)
      /\ shown \in BOOLEAN /\ flagged \in BOOLEAN
  BY <1>1 DEF BoxInv
<1>5. drawn' = IF shown' THEN Source' ELSE "none"
  BY <1>1, <1>2, <1>3, <1>4
<1>6. flagged' \in BOOLEAN /\ (shown' /\ cur_ds' = "d" => flagged')
  BY <1>1, <1>3, <1>4
<1>7. BoxInv'
  BY <1>1, <1>3, <1>5, <1>6 DEF BoxInv
<1>8. drawn' # drawn /\ drawn # "none" => w'.vy = 0 /\ vx' = 0
  BY <1>1, <1>3, <1>4
<1> QED BY <1>3, <1>7, <1>8

\* A redraw outside of key_action(), in a box that may have another size
LEMMA PeriodicKeeps ==
  ASSUME SmallNumbers, BoxInv, pc = "wait", Room, NEW h \in Heights,
         Draw([w EXCEPT !.ysize = h - TopY], TRUE),
         sy' = h, sx' \in Nat \ {0}, pxsize' \in Nat, sx' <= pxsize',
         pxsize' = pxsize \/ pxsize' > pxsize + 1,
         xsize' \in Int, x + xsize' = sx',
         UNCHANGED <<vx, x, shown, cur_ds, mainw, pc>>
  PROVE  /\ BoxInv' /\ (drawn # "none" => drawn' = drawn)
         /\ w'.nlines >= w.nlines => w'.vy = w.vy
<1> DEFINE v == [w EXCEPT !.ysize = h - TopY]
<1>1. h \in Nat /\ h > 2 * TopY /\ h < Wrap \div 2 /\ TopY \in Nat
  BY SizesAssumption, TopYAssumption DEF SmallNumbers
<1>2. /\ Placed(v) /\ v.vy = w.vy /\ v.nlines = w.nlines /\ v.ysize = h - TopY
  <2>1. Placed(w)
    BY DEF BoxInv
  <2>2. h - TopY \in Nat /\ h - TopY > TopY /\ h - TopY < Wrap \div 2
    BY <1>1, Half
  <2> QED BY <2>1, <2>2 DEF Placed, Widget
<1>3. Source' = Source
  BY DEF Source
<1>4. Draw(v, TRUE)
  OBVIOUS
<1> HIDE DEF v
<1>5. /\ Placed(w') /\ w'.ysize = v.ysize /\ OnPad(drawn', lines', w'.nlines)
      /\ w.vy = 0 \/ w'.nlines >= w.nlines => w'.vy = w.vy
      /\ IF shown THEN drawn' = Source /\ flagged' = (cur_ds = "d")
         ELSE drawn' = drawn /\ flagged' = flagged
  BY <1>2, <1>4, DrawingPlaces
<1>6. /\ drawn = IF shown THEN Source ELSE "none"
      /\ (shown /\ cur_ds = "d" => flagged)
      /\ shown \in BOOLEAN /\ flagged \in BOOLEAN /\ vx \in Nat /\ vx <= LastCol
      /\ x \in Nat /\ pxsize \in Nat /\ PadCols <= pxsize
  BY DEF BoxInv
<1>7. drawn' = drawn /\ drawn' = IF shown' THEN Source' ELSE "none"
  BY <1>3, <1>5, <1>6
<1>8. flagged' \in BOOLEAN /\ (shown' /\ cur_ds' = "d" => flagged')
  BY <1>5, <1>6
<1>9. vx' \in Nat /\ vx' <= LastCol' /\ PadCols <= pxsize'
  <2>1. PadCols \in Nat
    BY PadAssumption
  <2>2. LastCol <= LastCol'
    BY <1>6, <2>1 DEF LastCol, Enlarged
  <2>3. LastCol \in Int /\ LastCol' \in Int
    BY <1>6 DEF LastCol, Enlarged
  <2> QED BY <1>6, <2>1, <2>2, <2>3
<1>10. BoxInv'
  BY <1>2, <1>5, <1>7, <1>8, <1>9 DEF BoxInv
<1> QED BY <1>5, <1>7, <1>10

LEMMA TickKeeps ==
  ASSUME SmallNumbers, BoxInv, Tick
  PROVE  /\ BoxInv' /\ (drawn # "none" => drawn' = drawn)
         /\ w'.nlines >= w.nlines => w'.vy = w.vy
<1>1. /\ pc = "wait" /\ Room /\ Draw(w, TRUE)
      /\ sy' = sy /\ sx' = sx /\ x' = x /\ xsize' = xsize /\ pxsize' = pxsize
      /\ UNCHANGED <<vx, x, shown, cur_ds, mainw, pc>>
  BY DEF Tick, sizeVars
<1>2. /\ sy \in Heights /\ sx \in Nat \ {0} /\ pxsize \in Nat /\ sx <= pxsize
      /\ xsize \in Int /\ x + xsize = sx /\ Placed(w) /\ w.ysize = sy - TopY
  BY DEF BoxInv
<1>3. Draw([w EXCEPT !.ysize = sy - TopY], TRUE)
  <2>1. w = [w EXCEPT !.ysize = sy - TopY]
    BY <1>2 DEF Placed, Widget
  <2> QED BY <1>1, <2>1, Zenon
<1>4. /\ sy \in Heights /\ sy' = sy /\ pc = "wait" /\ Room
      /\ sx' \in Nat \ {0} /\ pxsize' \in Nat /\ sx' <= pxsize' /\ pxsize' = pxsize
      /\ xsize' \in Int /\ x + xsize' = sx'
      /\ UNCHANGED <<vx, x, shown, cur_ds, mainw, pc>>
  BY <1>1, <1>2
<1> QED BY <1>3, <1>4, PeriodicKeeps

LEMMA ResizeKeeps ==
  ASSUME SmallNumbers, BoxInv, Resize
  PROVE  /\ BoxInv' /\ (drawn # "none" => drawn' = drawn)
         /\ w'.nlines >= w.nlines => w'.vy = w.vy
<1>1. /\ pc = "wait" /\ Room /\ Draw([w EXCEPT !.ysize = @ + sy' - sy], TRUE)
      /\ sy' \in Heights /\ sx' \in Widths
      /\ pxsize' = IF pxsize < sx' THEN sx' + 1 ELSE pxsize
      /\ xsize' = xsize + sx' - sx
      /\ UNCHANGED <<vx, x, shown, cur_ds, mainw, pc>>
  BY DEF Resize
<1>2. /\ sy \in Nat /\ sy' \in Nat /\ sx \in Nat /\ sx' \in Nat \ {0} /\ pxsize \in Nat
      /\ x \in Nat /\ xsize \in Int /\ x + xsize = sx /\ Placed(w) /\ w.ysize = sy - TopY
  BY <1>1, SizesAssumption DEF BoxInv
<1>3. [w EXCEPT !.ysize = @ + sy' - sy] = [w EXCEPT !.ysize = sy' - TopY]
  <2>1. w.ysize + sy' - sy = sy' - TopY
    BY <1>2, TopYAssumption
  <2> QED BY <2>1
<1>4. /\ pxsize' \in Nat /\ sx' <= pxsize' /\ (pxsize' = pxsize \/ pxsize' > pxsize + 1)
      /\ xsize' \in Int /\ x + xsize' = sx'
  BY <1>1, <1>2
<1>5. Draw([w EXCEPT !.ysize = sy' - TopY], TRUE)
  BY <1>1, <1>3
<1> QED BY <1>1, <1>2, <1>4, <1>5, PeriodicKeeps

LEMMA BoxNext == ASSUME SmallNumbers PROVE BoxInv /\ [Next]_vars => BoxInv'
<1> SUFFICES ASSUME BoxInv, [Next]_vars PROVE BoxInv'
  OBVIOUS
<1>1. CASE PressKey
  BY <1>1, PressKeyKeeps
<1>2. CASE Redraw
  BY <1>2, RedrawKeeps
<1>3. CASE Tick
  BY <1>3, TickKeeps
<1>4. CASE Resize
  BY <1>4, ResizeKeeps
<1>5. CASE UNCHANGED vars
  <2>1. /\ sy' = sy /\ sx' = sx /\ w' = w /\ vx' = vx /\ x' = x /\ xsize' = xsize
        /\ pxsize' = pxsize /\ lines' = lines /\ drawn' = drawn /\ shown' = shown
        /\ flagged' = flagged /\ cur_ds' = cur_ds /\ mainw' = mainw /\ pc' = pc
        /\ LastCol' = LastCol
    BY <1>5 DEF vars, colVars, textVars, keyVars, LastCol, Enlarged
  <2>2. Source' = Source
    BY <2>1 DEF Source
  <2>3. Room' = Room
    BY <2>1, <2>2 DEF Room
  <2> QED BY <2>1, <2>2, <2>3 DEF BoxInv
<1> QED BY <1>1, <1>2, <1>3, <1>4, <1>5 DEF Next

-----------------------------------------------------------------------------
(* The theorems                                                            *)

\* The box, the pad, the text and the source that is shown stay in step.
THEOREM BoxKept == ASSUME SmallNumbers, WidePad PROVE Spec => []BoxInv
<1>1. Init => BoxInv
  BY BoxInit
<1>2. BoxInv /\ [Next]_vars => BoxInv'
  BY BoxNext
<1> QED BY <1>1, <1>2, PTL DEF Spec

\* The window begins in a column of the pad and, over the details of a process or
\* of the system that are not longer than the pad, at one of their lines
\* (scr_output_end(), kbd_down(), kbd_right(), resize()).  Neither says that there
\* is something in the columns that it shows.
THEOREM WindowStaysInside == ASSUME SmallNumbers, WidePad PROVE Spec => []WindowInside
<1>1. BoxInv => WindowInside
  <2> SUFFICES ASSUME BoxInv, drawn \in Starts, w.nlines <= PadRows PROVE w.vy < lines
    BY DEF WindowInside, BoxInv
  <2>1. Placed(w) /\ OnPad(drawn, lines, w.nlines)
    BY DEF BoxInv
  <2> QED BY <2>1, PadAssumption DEF Placed, Widget, OnPad
<1> QED BY <1>1, BoxKept, PTL

\* No redraw moves the window over a text that has not become shorter
\* (exti_redraw(), scr_output_end()).
THEOREM WindowStays == ASSUME SmallNumbers, WidePad PROVE Spec => WindowSteady
<1>1. BoxInv /\ [Next]_vars =>
        [/\ Redraw \/ Tick \/ Resize
         /\ drawn' = drawn /\ w'.nlines >= w.nlines
         => w'.vy = w.vy]_vars
  BY RedrawKeeps, TickKeeps, ResizeKeeps
<1> QED BY <1>1, BoxKept, PTL DEF Spec, WindowSteady

\* A source that replaces another one is shown from its beginning (exti_enable(),
\* exti_msgh(), exti_redraw()).
THEOREM NewSourceFromTop == ASSUME SmallNumbers, WidePad PROVE Spec => FromTop
<1>1. BoxInv /\ [Next]_vars =>
        [drawn' # drawn /\ drawn # "none" /\ drawn' # "none" => w'.vy = 0 /\ vx' = 0]_vars
  <2> SUFFICES ASSUME BoxInv, [Next]_vars,
                      drawn' # drawn, drawn # "none", drawn' # "none"
               PROVE  w'.vy = 0 /\ vx' = 0
    OBVIOUS
  <2>1. CASE PressKey
    <3>1. drawn' = drawn \/ drawn' = "none"
      BY <2>1 DEF PressKey, Switch, Close, Left, Right, OtherKey, ScrollBy, SendSource,
                  textVars
    <3> QED BY <3>1
  <2>2. CASE Redraw
    BY <2>2, RedrawKeeps
  <2>3. CASE Tick
    BY <2>3, TickKeeps
  <2>4. CASE Resize
    BY <2>4, ResizeKeeps
  <2>5. CASE UNCHANGED vars
    BY <2>5 DEF vars, textVars
  <2> QED BY <2>1, <2>2, <2>3, <2>4, <2>5 DEF Next
<1> QED BY <1>1, BoxKept, PTL DEF Spec, FromTop
=============================================================================
