---------------------------- MODULE WindowProofs ----------------------------
(* Proofs about Window: for every height of the window, every number of    *)
(* lines and every width of a word.                                        *)
EXTENDS Window, ScreenProofs, TLAPS

Widget == [vy : 0 .. Wrap - 1, crsr : Int, nlines : Int, ysize : YSizes]

\* The widget has its types; after output it knows the number of its lines;
\* and the cursor is where the user has put it.
WindowInv ==
  /\ w \in Widget /\ lines \in Nat /\ lines <= MaxLines /\ held \in Int
  /\ drawn => w.nlines = lines - 1
  /\ CursorFollows

-----------------------------------------------------------------------------
(* The operators on a widget                                               *)

LEMMA Sizes == \A y \in YSizes : y \in Nat /\ y > TopY /\ TopY \in Nat
BY YSizesAssumption, TopYAssumption

LEMMA MoveTyped ==
  ASSUME NEW v \in Widget, NEW to \in Int
  PROVE  /\ Move(v, to) \in Widget /\ Move(v, to).crsr = to
         /\ Move(v, to).vy = v.vy /\ Move(v, to).nlines = v.nlines
         /\ Move(v, to).ysize = v.ysize
BY DEF Move, Widget

LEMMA ScrollTyped ==
  ASSUME NEW v \in Widget, NEW n \in Int
  PROVE  /\ Scroll(v, n) \in Widget /\ Scroll(v, n).vy = U(v.vy + n)
         /\ Scroll(v, n).crsr = v.crsr /\ Scroll(v, n).nlines = v.nlines
         /\ Scroll(v, n).ysize = v.ysize
<1>1. v.vy + n \in Int
  BY WrapAssumption DEF Widget
<1>2. U(v.vy + n) \in 0 .. Wrap - 1
  BY <1>1, URange
<1> QED BY <1>2 DEF Scroll, Widget

LEMMA HeightTyped == ASSUME NEW v \in Widget PROVE Height(v) \in 0 .. Wrap - 1
<1>1. v.ysize - TopY \in Int
  BY Sizes DEF Widget
<1> QED BY <1>1, URange DEF Height

LEMMA NLeftTyped == ASSUME NEW v \in Widget PROVE NLeft(v) \in Int
<1>1. v.nlines - (v.vy + Height(v)) \in Int
  BY HeightTyped, WrapAssumption DEF Widget
<1> QED BY <1>1, SInt DEF NLeft

LEMMA OutputEndTyped ==
  ASSUME NEW v \in Widget, NEW y \in YSizes, NEW n \in Nat
  PROVE  /\ OutputEnd(Printed([v EXCEPT !.ysize = y], n)) \in Widget
         /\ OutputEnd(Printed([v EXCEPT !.ysize = y], n)).nlines = n - 1
<1> DEFINE u == Printed([v EXCEPT !.ysize = y], n)
<1>1. u \in Widget /\ u.nlines = n - 1
  <2>1. n - 1 \in Int
    OBVIOUS
  <2> QED BY <2>1 DEF Printed, Widget
<1> HIDE DEF u
<1>2. u.nlines - u.ysize \in Int
  BY <1>1, Sizes DEF Widget
<1>3. U(u.nlines - u.ysize) \in 0 .. Wrap - 1
  BY <1>2, URange
<1>4. OutputEnd(u) \in Widget /\ OutputEnd(u).nlines = u.nlines
  <2> DEFINE vy == IF u.vy < U(u.nlines) THEN u.vy
                   ELSE IF U(u.nlines) > u.ysize THEN U(u.nlines - u.ysize) ELSE 0
             crsr == IF u.crsr > u.nlines THEN u.nlines ELSE u.crsr
  <2>1. vy \in 0 .. Wrap - 1
    BY <1>1, <1>3, WrapAssumption DEF Widget
  <2>2. crsr \in Int
    BY <1>1 DEF Widget
  <2>3. OutputEnd(u) = [u EXCEPT !.vy = vy, !.crsr = crsr]
    BY <1>1 DEF OutputEnd, Widget
  <2> HIDE DEF vy, crsr
  <2> QED BY <1>1, <2>1, <2>2, <2>3 DEF Widget
<1> QED BY <1>1, <1>4 DEF u

LEMMA KeyTyped ==
  ASSUME NEW v \in Widget, NEW k \in ScreenKeys
  PROVE  Key(k, v) \in Widget /\ Key(k, v).nlines = v.nlines
<1>1. v.vy \in Int /\ v.vy >= 0 /\ v.crsr \in Int /\ v.nlines \in Int
  BY WrapAssumption DEF Widget
<1>2. Height(v) \in Int /\ NLeft(v) \in Int
  BY HeightTyped, NLeftTyped
<1> DEFINE Fine(u) == u \in Widget /\ u.nlines = v.nlines
<1>3. \A n \in Int : Fine(Scroll(v, n)) /\ Fine(Move(v, n))
  BY ScrollTyped, MoveTyped
<1>4. \A n, m \in Int : Fine(Move(Scroll(v, n), m))
  <2> TAKE n, m \in Int
  <2>1. Fine(Scroll(v, n))
    BY <1>3
  <2> QED BY <2>1, MoveTyped
<1>5. Fine(v)
  OBVIOUS
<1> HIDE DEF Fine
<1>6. Fine(KbdUp(v))
  <2>1. v.crsr - 1 \in Int /\ -1 \in Int
    BY <1>1
  <2> QED BY <2>1, <1>3, <1>4, <1>5 DEF KbdUp
<1>7. Fine(KbdDown(v))
  <2>1. v.crsr + 1 \in Int /\ 1 \in Int
    BY <1>1
  <2> QED BY <2>1, <1>3, <1>4, <1>5 DEF KbdDown
<1>8. Fine(KbdPageUp(v))
  <2> DEFINE n == MinOf(v.vy, Height(v))
  <2>1. n \in Int
    BY <1>1, <1>2 DEF MinOf
  <2>2. KbdPageUp(v) = IF S(v.vy) > 0 THEN Move(Scroll(v, -n), v.crsr - n) ELSE Move(v, 0)
    BY DEF KbdPageUp
  <2> HIDE DEF n
  <2>3. v.crsr - n \in Int /\ -n \in Int /\ 0 \in Int
    BY <1>1, <2>1
  <2> QED BY <2>2, <2>3, <1>3, <1>4
<1>9. Fine(KbdPageDown(v))
  <2> DEFINE n == MinOf(NLeft(v), Height(v))
  <2>1. n \in Int
    BY <1>2 DEF MinOf
  <2>2. KbdPageDown(v) = IF NLeft(v) <= 0 THEN Move(v, v.nlines)
                         ELSE IF v.crsr = -1 THEN Scroll(v, n)
                         ELSE Move(Scroll(v, n), v.crsr + n)
    BY DEF KbdPageDown
  <2> HIDE DEF n
  <2>3. v.crsr + n \in Int
    BY <1>1, <2>1
  <2> QED BY <1>1, <2>1, <2>2, <2>3, <1>3, <1>4
<1>10. Fine(KbdHome(v))
  <2> DEFINE zero == 0
  <2>1. zero \in 0 .. Wrap - 1 /\ zero \in Int
    BY WrapAssumption
  <2>2. KbdHome(v) = [v EXCEPT !.vy = zero, !.crsr = zero]
    BY DEF KbdHome
  <2> HIDE DEF zero
  <2>3. KbdHome(v) \in Widget /\ KbdHome(v).nlines = v.nlines
    BY <2>1, <2>2 DEF Widget
  <2> QED BY <2>3 DEF Fine
<1>11. Fine(KbdEnd(v))
  <2>1. v.crsr + NLeft(v) \in Int
    BY <1>1, <1>2
  <2> QED BY <1>2, <2>1, <1>3, <1>4, <1>5 DEF KbdEnd
<1> QED BY <1>6, <1>7, <1>8, <1>9, <1>10, <1>11 DEF Key, ScreenKeys, Fine

LEMMA CrsrJmpTyped ==
  ASSUME NEW v \in Widget, NEW l \in Nat
  PROVE  /\ CrsrJmp(v, l) \in Widget /\ CrsrJmp(v, l).nlines = v.nlines
         /\ CrsrJmp(v, l).crsr = l
<1> DEFINE size == Height(v) - 1
<1>1. l - size \in Int
  BY HeightTyped
<1>2. U(l - size) \in 0 .. Wrap - 1
  BY <1>1, URange
<1>3. CrsrJmp(v, l) = IF U(l) >= v.vy /\ U(l) < U(v.vy + size)
                      THEN Move(v, l)
                      ELSE [v EXCEPT !.crsr = l, !.vy = U(l - size)]
  BY DEF CrsrJmp
<1>6. l \in Int
  OBVIOUS
<1> HIDE DEF size
<1>4. CASE U(l) >= v.vy /\ U(l) < U(v.vy + size)
  BY <1>3, <1>4, <1>6, MoveTyped
<1>5. CASE ~(U(l) >= v.vy /\ U(l) < U(v.vy + size))
  BY <1>2, <1>3, <1>5, <1>6 DEF Widget
<1> QED BY <1>4, <1>5

\* What an insertion does to the widget
LEMMA InsertedLine ==
  ASSUME NEW v \in Widget, NEW l \in Nat
  PROVE  /\ LInserted(v, l) \in Widget /\ LInserted(v, l).nlines = v.nlines
         /\ LInserted(v, l).ysize = v.ysize
         /\ IF (v.vy = 0 /\ v.crsr = 0) \/ l > v.crsr THEN LInserted(v, l) = v
            ELSE LInserted(v, l).crsr = v.crsr + 1 /\ LInserted(v, l).vy = U(v.vy + 1)
<1>1. v.crsr + 1 \in Int
  BY DEF Widget
<1> DEFINE u == Move(v, v.crsr + 1)
<1>2. /\ u \in Widget /\ u.nlines = v.nlines /\ u.ysize = v.ysize
      /\ u.crsr = v.crsr + 1 /\ u.vy = v.vy
  BY <1>1, MoveTyped
<1>3. LInserted(v, l) = IF (v.vy = 0 /\ v.crsr = 0) \/ l > v.crsr THEN v ELSE Scroll(u, 1)
  BY DEF LInserted
<1> HIDE DEF u
<1>4. /\ Scroll(u, 1) \in Widget /\ Scroll(u, 1).nlines = v.nlines
      /\ Scroll(u, 1).ysize = v.ysize
      /\ Scroll(u, 1).crsr = v.crsr + 1 /\ Scroll(u, 1).vy = U(v.vy + 1)
  BY <1>2, ScrollTyped
<1> QED BY <1>3, <1>4

\* What a deletion does to the widget
LEMMA DeletedLine ==
  ASSUME NEW v \in Widget, NEW l \in Nat
  PROVE  /\ LDeleted(v, l) \in Widget /\ LDeleted(v, l).nlines = v.nlines
         /\ LDeleted(v, l).ysize = v.ysize
         /\ IF l >= v.crsr THEN LDeleted(v, l) = v
            ELSE /\ LDeleted(v, l).crsr = v.crsr - 1
                 /\ LDeleted(v, l).vy = IF v.vy = 0 THEN 0 ELSE U(v.vy - 1)
<1>1. v.crsr - 1 \in Int
  BY DEF Widget
<1> DEFINE u == Move(v, v.crsr - 1)
<1>2. /\ u \in Widget /\ u.nlines = v.nlines /\ u.ysize = v.ysize
      /\ u.crsr = v.crsr - 1 /\ u.vy = v.vy
  BY <1>1, MoveTyped
<1>3. LDeleted(v, l) = IF l >= v.crsr THEN v ELSE IF v.vy = 0 THEN u ELSE Scroll(u, -1)
  BY DEF LDeleted
<1> HIDE DEF u
<1>4. /\ Scroll(u, -1) \in Widget /\ Scroll(u, -1).nlines = v.nlines
      /\ Scroll(u, -1).ysize = v.ysize
      /\ Scroll(u, -1).crsr = v.crsr - 1 /\ Scroll(u, -1).vy = U(v.vy + -1)
  BY <1>2, ScrollTyped
<1>5. v.vy + -1 = v.vy - 1
  BY WrapAssumption DEF Widget
<1> QED BY <1>2, <1>3, <1>4, <1>5

-----------------------------------------------------------------------------
(* The invariant                                                           *)

LEMMA InitInv == Init => WindowInv
<1> SUFFICES ASSUME Init PROVE WindowInv
  OBVIOUS
<1>1. PICK y \in YSizes : w = [vy |-> 0, crsr |-> 0, nlines |-> 0, ysize |-> y]
  BY DEF Init
<1>2. 0 \in 0 .. Wrap - 1
  BY WrapAssumption
<1>3. w \in Widget
  BY <1>1, <1>2 DEF Widget
<1> QED BY <1>3, MaxLinesAssumption DEF Init, WindowInv, CursorFollows

LEMMA RedrawInv == WindowInv /\ Redraw => WindowInv'
<1> SUFFICES ASSUME WindowInv, Redraw PROVE WindowInv'
  OBVIOUS
<1>1. w = [w EXCEPT !.ysize = w.ysize] /\ w.ysize \in YSizes
  BY DEF WindowInv, Widget
<1>2. w' \in Widget /\ w'.nlines = lines - 1
  BY <1>1, OutputEndTyped DEF Redraw, WindowInv
<1>3. w'.crsr \in Int
  BY <1>2 DEF Widget
<1> QED BY <1>2, <1>3 DEF Redraw, WindowInv, CursorFollows

LEMMA InsertLineInv ==
  ASSUME WindowInv, NEW l \in 0 .. MaxLines, InsertLine(l) PROVE WindowInv'
<1>1. w' = LInserted(w, l) /\ w \in Widget /\ l \in Nat
  BY MaxLinesAssumption DEF InsertLine, WindowInv
<1>2. w' \in Widget
  BY <1>1, InsertedLine
<1>3. w.crsr \in Int /\ held \in Int /\ held' \in Int /\ w.crsr + 1 \in Int
  BY DEF WindowInv, Widget, InsertLine
<1>4. CursorFollows'
  <2>1. CASE (w.vy = 0 /\ w.crsr = 0) \/ l > w.crsr
    <3>1. w' = w
      BY <1>1, <2>1 DEF LInserted
    <3> QED BY <1>3, <2>1, <3>1 DEF InsertLine, WindowInv, CursorFollows
  <2>2. CASE ~((w.vy = 0 /\ w.crsr = 0) \/ l > w.crsr)
    <3>1. w'.crsr = w.crsr + 1
      BY <1>1, <2>2, InsertedLine
    <3> QED BY <1>1, <1>3, <2>2, <3>1 DEF InsertLine, WindowInv, CursorFollows
  <2> QED BY <2>1, <2>2
<1> QED BY <1>2, <1>3, <1>4, MaxLinesAssumption DEF InsertLine, WindowInv

LEMMA DeleteLineInv ==
  ASSUME WindowInv, NEW l \in 0 .. MaxLines, DeleteLine(l) PROVE WindowInv'
<1>1. w' = LDeleted(w, l) /\ w \in Widget /\ l \in Nat
  BY MaxLinesAssumption DEF DeleteLine, WindowInv
<1>2. w' \in Widget
  BY <1>1, DeletedLine
<1>3. w.crsr \in Int /\ held \in Int /\ held' \in Int /\ w.crsr - 1 \in Int
  BY DEF WindowInv, Widget, DeleteLine
<1>4. CursorFollows'
  <2>1. CASE l >= w.crsr
    <3>1. w' = w
      BY <1>1, <2>1 DEF LDeleted
    <3> QED BY <1>1, <1>3, <2>1, <3>1 DEF DeleteLine, WindowInv, CursorFollows
  <2>2. CASE ~(l >= w.crsr)
    <3>1. w'.crsr = w.crsr - 1
      BY <1>1, <2>2, DeletedLine
    <3> QED BY <1>1, <1>3, <2>2, <3>1 DEF DeleteLine, WindowInv, CursorFollows
  <2> QED BY <2>1, <2>2
<1>5. lines' \in Nat /\ lines' <= MaxLines
  BY MaxLinesAssumption DEF DeleteLine, WindowInv
<1> QED BY <1>2, <1>3, <1>4, <1>5 DEF DeleteLine, WindowInv

LEMMA KeysInv ==
  ASSUME WindowInv, NEW k \in Keys, PressKey(k) PROVE WindowInv'
<1>1. w' \in Widget /\ w'.nlines = w.nlines
  BY KeyTyped, KeysAssumption DEF PressKey, WindowInv
<1>2. w'.crsr \in Int
  BY <1>1 DEF Widget
<1> QED BY <1>1, <1>2 DEF PressKey, WindowInv, CursorFollows

LEMMA SearchInv ==
  ASSUME WindowInv, NEW l \in 0 .. MaxLines, Search(l) PROVE WindowInv'
<1>1. l \in Nat
  BY MaxLinesAssumption
<1>2. w' \in Widget /\ w'.nlines = w.nlines /\ w'.crsr = l
  BY <1>1, CrsrJmpTyped DEF Search, WindowInv
<1> QED BY <1>1, <1>2 DEF Search, WindowInv, CursorFollows

LEMMA ResizeInv == WindowInv /\ Resize => WindowInv'
<1> SUFFICES ASSUME WindowInv, Resize PROVE WindowInv'
  OBVIOUS
<1>1. PICK y \in YSizes : w' = OutputEnd(Printed([w EXCEPT !.ysize = y], lines))
  BY DEF Resize
<1>2. w' \in Widget /\ w'.nlines = lines - 1
  BY <1>1, OutputEndTyped DEF WindowInv
<1>3. w'.crsr \in Int
  BY <1>2 DEF Widget
<1> QED BY <1>2, <1>3 DEF Resize, WindowInv, CursorFollows

\* Through every history of lines that come and go, redraws, searches, keys and
\* changes of the size the widget keeps its types.
THEOREM WindowKept == Spec => []WindowInv
<1>1. WindowInv /\ [Next]_vars => WindowInv'
  <2> SUFFICES ASSUME WindowInv, [Next]_vars PROVE WindowInv'
    OBVIOUS
  <2>1. CASE UNCHANGED vars
    BY <2>1 DEF vars, WindowInv, CursorFollows
  <2> QED BY <2>1, RedrawInv, InsertLineInv, DeleteLineInv, KeysInv, SearchInv, ResizeInv
       DEF Next
<1> QED BY <1>1, InitInv, PTL DEF Spec

\* CursorFollows: through insertions and deletions of other lines, as
\* scr_linserted() and scr_ldeleted() tell the screen of them one by one, the
\* cursor stays on the line it was put on.
THEOREM CursorOnItsLine == Spec => []CursorFollows
<1>1. WindowInv => CursorFollows
  BY DEF WindowInv
<1> QED BY <1>1, WindowKept, PTL

-----------------------------------------------------------------------------
(* What a step may not do                                                  *)

Steady == ~drawn' /\ w'.vy # 0 /\ w.vy # 0 => w'.crsr - w'.vy = w.crsr - w.vy

LEMMA InsertLineSteady ==
  ASSUME WindowInv, NEW l \in 0 .. MaxLines, InsertLine(l) PROVE Steady
<1>1. w' = LInserted(w, l) /\ w \in Widget /\ l \in Nat
  BY MaxLinesAssumption DEF InsertLine, WindowInv
<1>2. w.vy \in 0 .. Wrap - 1 /\ w.crsr \in Int /\ Wrap \in Nat
  BY <1>1, WrapAssumption DEF Widget
<1>3. CASE w' = w
  BY <1>3 DEF Steady
<1>4. CASE w'.crsr = w.crsr + 1 /\ w'.vy = U(w.vy + 1)
  <2>1. CASE w.vy = Wrap - 1
    BY <1>2, <1>4, <2>1, UWrap DEF Steady
  <2>2. CASE w.vy # Wrap - 1
    <3>1. w.vy + 1 \in 0 .. Wrap - 1
      BY <1>2, <2>2
    <3>2. w'.vy = w.vy + 1
      BY <1>4, <3>1, USmall
    <3> QED BY <1>2, <1>4, <3>2 DEF Steady
  <2> QED BY <2>1, <2>2
<1> QED BY <1>1, <1>3, <1>4, InsertedLine

LEMMA DeleteLineSteady ==
  ASSUME WindowInv, NEW l \in 0 .. MaxLines, DeleteLine(l) PROVE Steady
<1>1. w' = LDeleted(w, l) /\ w \in Widget /\ l \in Nat
  BY MaxLinesAssumption DEF DeleteLine, WindowInv
<1>2. w.vy \in 0 .. Wrap - 1 /\ w.crsr \in Int /\ Wrap \in Nat
  BY <1>1, WrapAssumption DEF Widget
<1>3. CASE w' = w
  BY <1>3 DEF Steady
<1>4. CASE w'.crsr = w.crsr - 1 /\ w'.vy = IF w.vy = 0 THEN 0 ELSE U(w.vy - 1)
  <2>1. CASE w.vy = 0
    BY <2>1 DEF Steady
  <2>2. CASE w.vy # 0
    <3>1. w.vy - 1 \in 0 .. Wrap - 1
      BY <1>2, <2>2
    <3>2. w'.vy = w.vy - 1
      BY <1>4, <2>2, <3>1, USmall
    <3> QED BY <1>2, <1>4, <3>2 DEF Steady
  <2> QED BY <2>1, <2>2
<1> QED BY <1>1, <1>3, <1>4, DeletedLine

\* CursorSteady: scr_linserted() and scr_ldeleted() move the window by the same
\* line as the cursor, as long as the window can scroll.
THEOREM CursorAtItsPlace == Spec => CursorSteady
<1>1. WindowInv /\ Next => Steady
  <2> SUFFICES ASSUME WindowInv, Next PROVE Steady
    OBVIOUS
  <2>1. CASE Redraw
    BY <2>1 DEF Redraw, Steady
  <2>2. CASE Resize
    BY <2>2 DEF Resize, Steady
  <2>3. ASSUME NEW k \in Keys, PressKey(k) PROVE Steady
    BY <2>3 DEF PressKey, Steady
  <2>4. ASSUME NEW l \in 0 .. MaxLines, Search(l) PROVE Steady
    BY <2>4 DEF Search, Steady
  <2> QED BY <2>1, <2>2, <2>3, <2>4, InsertLineSteady, DeleteLineSteady DEF Next
<1>2. WindowInv /\ [Next]_vars => [Steady]_vars
  BY <1>1
<1>3. Spec => [][Steady]_vars
  BY <1>2, WindowKept, PTL DEF Spec
<1> QED BY <1>3 DEF CursorSteady, Steady

-----------------------------------------------------------------------------
(* The cursor and the screen                                               *)

\* Numbers of lines are far from the greatest int.
SmallNumbers == \A y \in YSizes : MaxLines + y + 1 < Wrap \div 2

\* In such a window the conversions change nothing.
LEMMA SmallWindow ==
  ASSUME SmallNumbers, WindowInv, OnScreen
  PROVE  /\ w.vy \in Nat /\ w.crsr \in Nat /\ lines \in Nat /\ w.nlines \in Int
         /\ Height(w) = w.ysize - TopY /\ w.ysize - TopY \in Nat
         /\ w.vy <= w.crsr /\ w.crsr <= w.vy + Height(w) /\ w.crsr < lines
         /\ lines <= MaxLines /\ MaxLines + Height(w) + 1 < Wrap \div 2
<1>1. /\ w \in Widget /\ lines \in Nat /\ lines <= MaxLines
      /\ w.vy \in 0 .. Wrap - 1 /\ w.crsr \in Int /\ w.nlines \in Int /\ w.ysize \in YSizes
  BY DEF WindowInv, Widget
<1>2. w.ysize \in Nat /\ w.ysize > TopY /\ TopY \in Nat
  BY <1>1, Sizes
<1>3. MaxLines + w.ysize + 1 < Wrap \div 2 /\ MaxLines \in Nat
  BY <1>1, MaxLinesAssumption DEF SmallNumbers
<1>4. w.ysize - TopY \in 0 .. Wrap - 1
  BY <1>2, <1>3, Half
<1>5. Height(w) = w.ysize - TopY
  BY <1>4, USmall DEF Height
<1>6. w.crsr \in w.vy .. w.vy + Height(w) /\ w.crsr < lines
  BY DEF OnScreen
<1> QED BY <1>1, <1>2, <1>3, <1>4, <1>5, <1>6, Half

\* The cursor of the widget u, of the size of w, is on the screen and among n
\* lines.
Fits(u, n) ==
  /\ u \in Widget /\ u.ysize = w.ysize
  /\ u.vy <= u.crsr /\ u.crsr <= u.vy + (w.ysize - TopY) /\ u.crsr < n

LEMMA FitsOnScreen ==
  ASSUME SmallNumbers, WindowInv, OnScreen, Fits(w', lines'), lines' \in 0 .. MaxLines
  PROVE  OnScreen'
<1>1. /\ w' \in Widget /\ w'.ysize = w.ysize /\ w'.vy <= w'.crsr
      /\ w'.crsr <= w'.vy + (w.ysize - TopY) /\ w'.crsr < lines'
  BY DEF Fits
<1>2. w'.vy \in 0 .. Wrap - 1 /\ w'.crsr \in Int
  BY <1>1 DEF Widget
<1>3. /\ Height(w) = w.ysize - TopY /\ w.ysize - TopY \in Nat
      /\ MaxLines + Height(w) + 1 < Wrap \div 2
  BY SmallWindow
<1>4. Height(w') = Height(w)
  BY <1>1 DEF Height
<1>5. S(w'.vy) = w'.vy
  BY <1>1, <1>2, <1>3, Half, MaxLinesAssumption, SSmall
<1>6. S(w'.vy) >= 0
  BY <1>2, <1>5, WrapAssumption
<1>7. w'.crsr \in w'.vy .. w'.vy + Height(w')
  BY <1>1, <1>2, <1>3, <1>4, WrapAssumption
<1> QED BY <1>1, <1>6, <1>7 DEF OnScreen

\* The window moved by n, and then the cursor to line c
LEMMA ScrollMove ==
  ASSUME NEW v \in Widget, NEW n \in Int, NEW c \in Int, v.vy + n \in 0 .. Wrap - 1
  PROVE  /\ Move(Scroll(v, n), c) \in Widget /\ Move(Scroll(v, n), c).ysize = v.ysize
         /\ Move(Scroll(v, n), c).vy = v.vy + n /\ Move(Scroll(v, n), c).crsr = c
<1>1. Scroll(v, n) \in Widget /\ Scroll(v, n).ysize = v.ysize /\ Scroll(v, n).vy = v.vy + n
  BY ScrollTyped, USmall
<1> QED BY <1>1, MoveTyped

LEMMA KeyFits ==
  ASSUME SmallNumbers, WindowInv, OnScreen, drawn, NEW k \in ScreenKeys \ {"End"}
  PROVE  Fits(Key(k, w), lines)
<1> DEFINE h == w.ysize - TopY
           half == Wrap \div 2
<1>1. /\ w.vy \in Nat /\ w.crsr \in Nat /\ lines \in Nat /\ h \in Nat /\ half \in Nat
      /\ w.vy <= w.crsr /\ w.crsr <= w.vy + h /\ w.crsr < lines
      /\ lines <= MaxLines /\ MaxLines + h + 1 < half /\ MaxLines \in Nat
      /\ Height(w) = h /\ Wrap = 2 * half
  BY SmallWindow, Half, MaxLinesAssumption
<1>2. w \in Widget /\ w.nlines = lines - 1
  BY DEF WindowInv
<1>3. NLeft(w) = lines - 1 - w.vy - h
  <2> DEFINE x == w.nlines - (w.vy + Height(w))
  <2>1. x = lines - 1 - w.vy - h
    BY <1>1, <1>2
  <2>2. x \in Int /\ x < half /\ -x < half
    BY <1>1, <2>1
  <2>3. S(x) = x
    BY <2>2, SSmall
  <2> QED BY <2>1, <2>3 DEF NLeft
<1> HIDE DEF h, half
<1>4. ASSUME NEW c \in Nat, w.vy <= c, c <= w.vy + h, c < lines
      PROVE  Fits(Move(w, c), lines)
  <2>1. c \in Int
    OBVIOUS
  <2> QED BY <1>2, <1>4, <2>1, MoveTyped DEF Fits, h
<1>5. ASSUME NEW n \in Int, NEW c \in Nat, w.vy + n >= 0,
             w.vy + n <= c, c <= w.vy + n + h, c < lines
      PROVE  Fits(Move(Scroll(w, n), c), lines)
  <2>1. w.vy + n \in 0 .. Wrap - 1
    BY <1>1, <1>5
  <2>2. c \in Int
    OBVIOUS
  <2> QED BY <1>2, <1>5, <2>1, <2>2, ScrollMove DEF Fits, h
<1>6. Fits(w, lines)
  BY <1>1, <1>2 DEF Fits, h
<1>7. U(w.vy) = w.vy /\ U(w.crsr) = w.crsr /\ U(h) = h /\ S(w.vy) = w.vy
  <2>1. w.vy \in 0 .. Wrap - 1 /\ w.crsr \in 0 .. Wrap - 1 /\ h \in 0 .. Wrap - 1
    BY <1>1
  <2>2. w.vy < half /\ -w.vy < half
    BY <1>1
  <2> QED BY <1>1, <2>1, <2>2, USmall, SSmall DEF half
<1>8. w.crsr # -1
  BY <1>1
<1>9. CASE k = "Up"
  <2>1. Key(k, w) = KbdUp(w)
    BY <1>9 DEF Key
  <2>2. CASE w.crsr = 0
    <3>1. w.vy = 0
      BY <1>1, <2>2
    <3>2. KbdUp(w) = w
      BY <1>7, <1>8, <2>2, <3>1 DEF KbdUp
    <3> QED BY <1>6, <2>1, <3>2
  <2>3. CASE w.crsr > 0 /\ w.vy # 0 /\ w.crsr = w.vy
    <3>1. KbdUp(w) = Move(Scroll(w, -1), w.crsr - 1)
      BY <1>1, <1>7, <1>8, <2>3, ScrollTyped, <1>2 DEF KbdUp
    <3>2. Fits(Move(Scroll(w, -1), w.crsr - 1), lines)
      BY <1>1, <1>5, <2>3
    <3> QED BY <2>1, <3>1, <3>2
  <2>4. CASE w.crsr > 0 /\ ~(w.vy # 0 /\ w.crsr = w.vy)
    <3>1. KbdUp(w) = Move(w, w.crsr - 1)
      BY <1>7, <1>8, <2>4 DEF KbdUp
    <3>2. Fits(Move(w, w.crsr - 1), lines)
      BY <1>1, <1>4, <2>4
    <3> QED BY <2>1, <3>1, <3>2
  <2> QED BY <1>1, <2>2, <2>3, <2>4
<1>10. CASE k = "Down"
  <2>1. Key(k, w) = KbdDown(w)
    BY <1>10 DEF Key
  <2>2. (U(w.crsr - w.vy) = Height(w)) = (w.crsr - w.vy = h)
    <3>1. w.crsr - w.vy \in 0 .. Wrap - 1
      BY <1>1
    <3> QED BY <1>1, <3>1, USmall
  <2>3. CASE w.crsr - w.vy = h /\ NLeft(w) <= 0
    <3>1. KbdDown(w) = w
      BY <1>8, <2>2, <2>3 DEF KbdDown
    <3> QED BY <1>6, <2>1, <3>1
  <2>4. CASE w.crsr - w.vy = h /\ NLeft(w) > 0
    <3>1. w.crsr < w.nlines /\ w.crsr + 1 \in Nat /\ ~(NLeft(w) <= 0)
      BY <1>1, <1>2, <1>3, <2>4
    <3>2. KbdDown(w) = Move(Scroll(w, 1), w.crsr + 1)
      BY <1>8, <1>2, <2>2, <2>4, <3>1, ScrollTyped DEF KbdDown
    <3>3. /\ 1 \in Int /\ w.vy + 1 >= 0 /\ w.vy + 1 <= w.crsr + 1
          /\ w.crsr + 1 <= w.vy + 1 + h /\ w.crsr + 1 < lines
      BY <1>1, <1>2, <3>1
    <3>4. Fits(Move(Scroll(w, 1), w.crsr + 1), lines)
      BY <1>5, <3>1, <3>3
    <3> QED BY <2>1, <3>2, <3>4
  <2>5. CASE w.crsr - w.vy # h /\ w.crsr < w.nlines
    <3>1. KbdDown(w) = Move(w, w.crsr + 1)
      BY <1>8, <2>2, <2>5 DEF KbdDown
    <3>2. Fits(Move(w, w.crsr + 1), lines)
      BY <1>1, <1>2, <1>4, <2>5
    <3> QED BY <2>1, <3>1, <3>2
  <2>6. CASE w.crsr - w.vy # h /\ ~(w.crsr < w.nlines)
    <3>1. KbdDown(w) = w
      BY <1>8, <2>2, <2>6 DEF KbdDown
    <3> QED BY <1>6, <2>1, <3>1
  <2> QED BY <1>1, <1>3, <2>3, <2>4, <2>5, <2>6
<1>11. CASE k = "PageUp"
  <2> DEFINE n == MinOf(w.vy, Height(w))
  <2>1. n = IF w.vy < h THEN w.vy ELSE h
    BY <1>1, <1>7 DEF MinOf
  <2>2. Key(k, w) = IF w.vy > 0 THEN Move(Scroll(w, -n), w.crsr - n) ELSE Move(w, 0)
    BY <1>7, <1>11 DEF Key, KbdPageUp
  <2> HIDE DEF n
  <2>3. /\ n \in Nat /\ n <= w.vy /\ -n \in Int /\ w.crsr - n \in Nat /\ w.vy + -n >= 0
        /\ w.vy + -n <= w.crsr - n /\ w.crsr - n <= w.vy + -n + h /\ w.crsr - n < lines
    BY <1>1, <2>1
  <2>4. Fits(Move(Scroll(w, -n), w.crsr - n), lines)
    BY <1>5, <2>3
  <2>5. w.vy = 0 => Fits(Move(w, 0), lines)
    BY <1>1, <1>4
  <2> QED BY <1>1, <2>2, <2>4, <2>5
<1>12. CASE k = "PageDown"
  <2> DEFINE n == MinOf(NLeft(w), Height(w))
  <2>1. Key(k, w) = IF NLeft(w) <= 0 THEN Move(w, w.nlines)
                    ELSE Move(Scroll(w, n), w.crsr + n)
    BY <1>8, <1>12 DEF Key, KbdPageDown
  <2>2. CASE NLeft(w) <= 0
    <3>1. w.nlines \in Nat /\ w.vy <= w.nlines /\ w.nlines <= w.vy + h /\ w.nlines < lines
      BY <1>1, <1>2, <1>3, <2>2
    <3> QED BY <1>4, <2>1, <2>2, <3>1
  <2>3. CASE NLeft(w) > 0
    <3>1. NLeft(w) \in 0 .. Wrap - 1
      BY <1>1, <1>3, <2>3
    <3>2. n = IF NLeft(w) < h THEN NLeft(w) ELSE h
      BY <1>1, <1>7, <3>1, USmall DEF MinOf
    <3> HIDE DEF n
    <3>3. /\ n \in Int /\ n >= 0 /\ w.crsr + n \in Nat /\ w.vy + n >= 0
          /\ w.vy + n <= w.crsr + n /\ w.crsr + n <= w.vy + n + h /\ w.crsr + n < lines
      BY <1>1, <1>3, <2>3, <3>2
    <3>4. Fits(Move(Scroll(w, n), w.crsr + n), lines)
      BY <1>5, <3>3
    <3>5. ~(NLeft(w) <= 0)
      BY <2>3, <3>1
    <3> QED BY <2>1, <3>4, <3>5
  <2> QED BY <1>1, <1>3, <2>2, <2>3
<1>13. CASE k = "Home"
  <2>1. Key(k, w) = KbdHome(w)
    BY <1>13 DEF Key
  <2>2. /\ KbdHome(w).vy = 0 /\ KbdHome(w).crsr = 0 /\ KbdHome(w).ysize = w.ysize
    BY <1>2 DEF KbdHome, Widget
  <2>3. KbdHome(w) \in Widget
    BY <1>2, <1>13, <2>1, KeyTyped
  <2> QED BY <1>1, <2>1, <2>2, <2>3 DEF Fits, h
<1> QED BY <1>9, <1>10, <1>11, <1>12, <1>13 DEF ScreenKeys

LEMMA InsertLineFits ==
  ASSUME SmallNumbers, WindowInv, OnScreen, NEW l \in 0 .. MaxLines, InsertLine(l)
  PROVE  Fits(w', lines') /\ lines' \in 0 .. MaxLines
<1>1. /\ w.vy \in Nat /\ w.crsr \in Nat /\ lines \in Nat /\ w.ysize - TopY \in Nat
      /\ w.vy <= w.crsr /\ w.crsr <= w.vy + (w.ysize - TopY) /\ w.crsr < lines
      /\ MaxLines + (w.ysize - TopY) + 1 < Wrap \div 2
  BY SmallWindow
<1>2. /\ w \in Widget /\ w' = LInserted(w, l) /\ lines' = lines + 1 /\ lines < MaxLines
      /\ MaxLines \in Nat /\ l \in Nat
  BY MaxLinesAssumption DEF InsertLine, WindowInv
<1>3. w' \in Widget /\ w'.ysize = w.ysize
  BY <1>2, InsertedLine
<1>4. CASE w' = w
  BY <1>1, <1>2, <1>4 DEF Fits
<1>5. CASE w'.crsr = w.crsr + 1 /\ w'.vy = U(w.vy + 1)
  <2>1. w.vy + 1 \in 0 .. Wrap - 1
    BY <1>1, <1>2, Half
  <2>2. w'.vy = w.vy + 1
    BY <1>5, <2>1, USmall
  <2> QED BY <1>1, <1>2, <1>3, <1>5, <2>2 DEF Fits
<1> QED BY <1>2, <1>4, <1>5, InsertedLine

\* CursorKept: as long as numbers of lines are far from the greatest int, no key
\* but End (kbd_end()) and no new line takes a cursor that can be seen off the
\* screen or off the list, for every size of the window.
THEOREM CursorStaysOnScreen == ASSUME SmallNumbers PROVE Spec => CursorKept
<1> DEFINE Kept == /\ \/ \E k \in Keys \ {"End"} : PressKey(k)
                      \/ \E l \in 0 .. MaxLines : InsertLine(l)
                   /\ OnScreen
                   => OnScreen'
<1>1. WindowInv => Kept
  <2> SUFFICES ASSUME WindowInv, OnScreen,
                      \/ \E k \in Keys \ {"End"} : PressKey(k)
                      \/ \E l \in 0 .. MaxLines : InsertLine(l)
               PROVE  OnScreen'
    OBVIOUS
  <2>1. ASSUME NEW k \in Keys \ {"End"}, PressKey(k) PROVE OnScreen'
    <3>1. k \in ScreenKeys \ {"End"}
      BY KeysAssumption
    <3>2. drawn /\ w' = Key(k, w) /\ lines' = lines /\ lines' \in 0 .. MaxLines
      BY <2>1, MaxLinesAssumption DEF PressKey, WindowInv
    <3>3. Fits(w', lines')
      BY <3>1, <3>2, KeyFits
    <3> QED BY <3>2, <3>3, FitsOnScreen
  <2>2. ASSUME NEW l \in 0 .. MaxLines, InsertLine(l) PROVE OnScreen'
    BY <2>2, InsertLineFits, FitsOnScreen
  <2> QED BY <2>1, <2>2
<1>2. Spec => [][Kept]_vars
  BY <1>1, WindowKept, PTL DEF Spec
<1> QED BY <1>2 DEF CursorKept
=============================================================================
