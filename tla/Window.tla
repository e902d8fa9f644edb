------------------------------- MODULE Window -------------------------------
(***************************************************************************)
(* A list widget (users or processes) as its window sees it: lines come    *)
(* and go (scr_linserted, scr_ldeleted), then the list is printed again    *)
(* (scr_output_start .. scr_output_end), then keys move the cursor until   *)
(* the next change.  Keys, Jumps, Resizes and MaxGone select which of the  *)
(* events of the program an instance has.  The list keeps a line; what     *)
(* happens when it does not is a matter of UList.                          *)
(***************************************************************************)
EXTENDS Screen, FiniteSets

CONSTANTS
  MaxLines,   \* bound: most lines the list has
  YSizes,     \* the values of ysize that the terminal sizes give
  Keys,       \* the cursor keys pressed
  Jumps,      \* does a search move the cursor?
  Resizes,    \* does the terminal change its size?
  MaxGone     \* most lines deleted between two redraws

ASSUME MaxLinesAssumption == MaxLines \in Nat \ {0}
ASSUME YSizesAssumption == YSizes \subseteq {y \in Nat : y > TopY} /\ YSizes # {}
ASSUME KeysAssumption == Keys \subseteq ScreenKeys
ASSUME EventsAssumption ==
  Jumps \in BOOLEAN /\ Resizes \in BOOLEAN /\ MaxGone \in Nat

VARIABLES
  w,          \* the widget
  lines,      \* how many lines the list has
  gone,       \* how many were deleted since the last redraw
  drawn,      \* has the list been printed since it changed last?
  held        \* the line the user has put the cursor on, followed through
              \* insertions and deletions; -1 when it was itself deleted, or
              \* was the first line and lines have been inserted

vars == <<w, lines, gone, drawn, held>>

\* A widget list is printed for the first time with the cursor on line 0.
Init ==
  /\ lines \in 1 .. MaxLines
  /\ \E y \in YSizes : w = [vy |-> 0, crsr |-> 0, nlines |-> 0, ysize |-> y]
  /\ gone = 0 /\ drawn = FALSE /\ held = -1

Redraw ==
  /\ w' = OutputEnd(Printed(w, lines))
  /\ gone' = 0 /\ drawn' = TRUE
  /\ held' = w'.crsr
  /\ UNCHANGED lines

InsertLine(l) ==
  /\ l <= lines /\ lines < MaxLines
  /\ lines' = lines + 1
  /\ w' = LInserted(w, l)
  /\ held' = IF held = 0 THEN -1 ELSE IF held >= l THEN held + 1 ELSE held
  /\ drawn' = FALSE
  /\ UNCHANGED gone

DeleteLine(l) ==
  /\ l < lines /\ gone < MaxGone
  /\ lines > 1
  /\ lines' = lines - 1 /\ gone' = gone + 1
  /\ w' = LDeleted(w, l)
  /\ held' = IF held = l THEN -1 ELSE IF held > l THEN held - 1 ELSE held
  /\ drawn' = FALSE

PressKey(k) ==
  /\ drawn
  /\ w' = Key(k, w) /\ held' = w'.crsr
  /\ UNCHANGED <<lines, gone, drawn>>

Search(l) ==
  /\ Jumps /\ drawn /\ l < lines
  /\ w' = CrsrJmp(w, l) /\ held' = l
  /\ UNCHANGED <<lines, gone, drawn>>

\* resize() adds the difference of the screen heights to ysize and redraws.
Resize ==
  /\ Resizes /\ drawn
  /\ \E y \in YSizes : w' = OutputEnd(Printed([w EXCEPT !.ysize = y], lines))
  /\ held' = w'.crsr
  /\ UNCHANGED <<lines, gone, drawn>>

Next ==
  \/ Redraw
  \/ \E l \in 0 .. MaxLines : InsertLine(l) \/ DeleteLine(l) \/ Search(l)
  \/ \E k \in Keys : PressKey(k)
  \/ Resize

Spec == Init /\ [][Next]_vars

-----------------------------------------------------------------------------
\* The cursor is on a line of the list, and this line is on the screen.
OnScreen ==
  /\ S(w.vy) >= 0
  /\ w.crsr \in w.vy .. w.vy + Height(w)
  /\ w.crsr < lines

\* No key takes a cursor that can be seen off the screen or off the list, and no
\* new line does, however the window came to where it is (kbd_end(), which can,
\* is left out).
CursorKept ==
  [][/\ \/ \E k \in Keys \ {"End"} : PressKey(k)
        \/ \E l \in 0 .. MaxLines : InsertLine(l)
     /\ OnScreen
     => OnScreen']_vars

\* Through insertions and deletions of other lines the cursor stays on the
\* line it was put on (a line put before the very first one may take its place).
CursorFollows == held # -1 => w.crsr = held

\* While the list changes the cursor keeps its place on the screen as long as
\* the window can scroll.
CursorSteady ==
  [][~drawn' /\ w'.vy # 0 /\ w.vy # 0 => w'.crsr - w'.vy = w.crsr - w.vy]_vars
=============================================================================
