------------------------------- MODULE Screen -------------------------------
(***************************************************************************)
(* screen.c: the scrolling window of a widget, as operators on a record    *)
(*   vy      first line of the pad on the screen (u32)                     *)
(*   crsr    line of the cursor, -1 in a widget without cursor (int)       *)
(*   nlines  number of the last line printed, from 0 (int)                 *)
(*   ysize   last screen row of the widget (u32)                           *)
(* Rows TopY .. ysize of the screen show the lines vy .. vy+ysize-TopY.    *)
(*                                                                         *)
(* The code mixes u32 and int, so that a comparison of the two is unsigned *)
(* and a difference wraps.  U and S convert; Wrap stands for 2^32.         *)
(***************************************************************************)
EXTENDS Integers

CONSTANTS
  Wrap,       \* the number of values of a u32
  TopY        \* wdgt.y: the first screen row of the widget

ASSUME WrapAssumption == Wrap \in Nat /\ Wrap > 1 /\ Wrap % 2 = 0
ASSUME TopYAssumption == TopY \in Nat

U(x) == x % Wrap
S(x) == IF U(x) < Wrap \div 2 THEN U(x) ELSE U(x) - Wrap

\* Rows below the first one: ysize - y.
Height(w) == U(w.ysize - TopY)

\* s_nleft(): lines below the window.
NLeft(w) == S(w.nlines - (w.vy + Height(w)))

\* crsr_move()
Move(w, to) == [w EXCEPT !.crsr = to]

Scroll(w, n) == [w EXCEPT !.vy = U(@ + n)]

-----------------------------------------------------------------------------
(* Output: scr_output_start(), one scr_lecho() a line, scr_output_end().   *)

Printed(w, n) == [w EXCEPT !.nlines = n - 1]

\* (Mutant of OutputEnd: a cursor below the last line is left there.)
OutputEndUnclamped(w) ==
  IF w.vy < U(w.nlines) THEN w
  ELSE [w EXCEPT !.vy = IF U(w.nlines) > w.ysize THEN U(w.nlines - w.ysize) ELSE 0]

\* (Mutant of OutputEnd: the window is moved though there is text in it.)
OutputEndMoved(w) ==
  [w EXCEPT !.vy = IF U(w.nlines) > w.ysize THEN U(w.nlines - w.ysize) ELSE 0,
            !.crsr = IF @ > w.nlines THEN w.nlines ELSE @]

OutputEnd(w) ==
  LET vy == IF w.vy < U(w.nlines) THEN w.vy
            ELSE IF U(w.nlines) > w.ysize THEN U(w.nlines - w.ysize)
            ELSE 0
  IN  [w EXCEPT !.vy = vy,
                !.crsr = IF @ > w.nlines THEN w.nlines ELSE @]

\* (Mutants of LInserted and LDeleted: a line put in front of the cursor line
\* does not count; the window does not move with the cursor.)
LInsertedBelow(w, line) ==
  IF (w.vy = 0 /\ w.crsr = 0) \/ line >= w.crsr THEN w
  ELSE Scroll(Move(w, w.crsr + 1), 1)
LDeletedUnscrolled(w, line) ==
  IF line >= w.crsr THEN w ELSE Move(w, w.crsr - 1)

\* scr_linserted() and scr_ldeleted()
LInserted(w, line) ==
  IF (w.vy = 0 /\ w.crsr = 0) \/ line > w.crsr THEN w
  ELSE Scroll(Move(w, w.crsr + 1), 1)

LDeleted(w, line) ==
  IF line >= w.crsr THEN w
  ELSE IF w.vy = 0 THEN Move(w, w.crsr - 1)
  ELSE Scroll(Move(w, w.crsr - 1), -1)

\* scr_crsr_jmp(), the end of a search
CrsrJmp(w, line) ==
  LET size == Height(w) - 1
  IN  IF U(line) >= w.vy /\ U(line) < U(w.vy + size)
      THEN Move(w, line)
      ELSE [w EXCEPT !.crsr = line, !.vy = U(line - size)]

-----------------------------------------------------------------------------
(* The keys of scr_keyh().                                                 *)

MinOf(a, b) == IF U(a) < U(b) THEN a ELSE b

\* (Mutant of KbdUp: the window does not follow the cursor.)
KbdUpUnscrolled(w) == IF w.crsr > 0 THEN Move(w, w.crsr - 1) ELSE w

KbdUp(w) ==
  IF w.crsr = -1 THEN IF w.vy # 0 THEN Scroll(w, -1) ELSE w
  ELSE LET v == IF w.vy # 0 /\ U(w.crsr) = w.vy THEN Scroll(w, -1) ELSE w
       IN  IF w.crsr > 0 THEN Move(v, w.crsr - 1) ELSE v

KbdDown(w) ==
  LET left == NLeft(w)
      last == U(w.crsr - w.vy) = Height(w)
      v    == IF last THEN Scroll(w, 1) ELSE w
  IN  IF w.crsr = -1 THEN IF left > 0 THEN Scroll(w, 1) ELSE w
      ELSE IF last /\ left <= 0 THEN w
      ELSE IF w.crsr < w.nlines THEN Move(v, w.crsr + 1) ELSE v

KbdPageUp(w) ==
  LET n == MinOf(w.vy, Height(w))
  IN  IF S(w.vy) > 0 THEN Move(Scroll(w, -n), w.crsr - n) ELSE Move(w, 0)

KbdPageDown(w) ==
  LET n == MinOf(NLeft(w), Height(w))
  IN  IF NLeft(w) <= 0 THEN Move(w, w.nlines)
      ELSE IF w.crsr = -1 THEN Scroll(w, n)
      ELSE Move(Scroll(w, n), w.crsr + n)

KbdHome(w) == [w EXCEPT !.vy = 0, !.crsr = 0]

KbdEnd(w) ==
  LET left == NLeft(w)
      v    == IF left > 0 THEN Scroll(w, left) ELSE w
  IN  IF w.crsr < w.nlines THEN Move(v, w.crsr + left) ELSE v

Key(k, w) ==
  CASE k = "Up"       -> KbdUp(w)
    [] k = "Down"     -> KbdDown(w)
    [] k = "PageUp"   -> KbdPageUp(w)
    [] k = "PageDown" -> KbdPageDown(w)
    [] k = "Home"     -> KbdHome(w)
    [] k = "End"      -> KbdEnd(w)

ScreenKeys == {"Up", "Down", "PageUp", "PageDown", "Home", "End"}
=============================================================================
