---------------------------- MODULE ScreenProofs ----------------------------
(* What the conversions of Screen between u32 and int do, for every width  *)
(* of a word.                                                              *)
EXTENDS Screen, TLAPS

LEMMA Half == Wrap \div 2 \in Nat /\ Wrap = 2 * (Wrap \div 2) /\ Wrap \div 2 > 0
BY WrapAssumption, Z3

LEMMA URange == ASSUME NEW x \in Int PROVE U(x) \in 0 .. Wrap - 1
BY WrapAssumption, Z3 DEF U

LEMMA USmall == ASSUME NEW x \in 0 .. Wrap - 1 PROVE U(x) = x
BY WrapAssumption, Z3 DEF U

LEMMA UWrap == U(Wrap) = 0
BY WrapAssumption, Z3 DEF U

\* A negative number, as a u32
LEMMA UNegative == ASSUME NEW x \in Int, x < 0, -x <= Wrap PROVE U(x) = x + Wrap
BY WrapAssumption, Z3 DEF U

LEMMA SInt == ASSUME NEW x \in Int PROVE S(x) \in Int
BY URange, WrapAssumption DEF S

LEMMA SSmall ==
  ASSUME NEW x \in Int, x < Wrap \div 2, -x < Wrap \div 2
  PROVE  S(x) = x
BY Half, USmall, UNegative, WrapAssumption DEF S

-----------------------------------------------------------------------------
(* Widgets with any numbers                                                *)

IntWidget == [vy : Int, crsr : Int, nlines : Int, ysize : Int]

LEMMA HeightInt ==
  ASSUME NEW v \in IntWidget PROVE Height(v) \in Int /\ NLeft(v) \in Int
<1>1. v.ysize - TopY \in Int
  BY TopYAssumption DEF IntWidget
<1>2. Height(v) \in Int
  BY <1>1, URange, WrapAssumption DEF Height
<1>3. v.nlines - (v.vy + Height(v)) \in Int
  BY <1>2 DEF IntWidget
<1> QED BY <1>2, <1>3, SInt DEF NLeft

LEMMA MoveInt ==
  ASSUME NEW v \in IntWidget, NEW n \in Int
  PROVE  /\ Move(v, n) \in IntWidget /\ Move(v, n).crsr = n /\ Move(v, n).vy = v.vy
         /\ Move(v, n).nlines = v.nlines
BY DEF Move, IntWidget

LEMMA ScrollInt ==
  ASSUME NEW v \in IntWidget, NEW n \in Int
  PROVE  /\ Scroll(v, n) \in IntWidget /\ Scroll(v, n).crsr = v.crsr
         /\ Scroll(v, n).nlines = v.nlines
<1>1. v.vy + n \in Int
  BY DEF IntWidget
<1>2. U(v.vy + n) \in Int
  BY <1>1, URange, WrapAssumption
<1> QED BY <1>2 DEF Scroll, IntWidget

\* A list of n lines is printed.
LEMMA OutputInt ==
  ASSUME NEW v \in IntWidget, NEW n \in Nat
  PROVE  /\ OutputEnd(Printed(v, n)) \in IntWidget
         /\ OutputEnd(Printed(v, n)).nlines = n - 1
         /\ OutputEnd(Printed(v, n)).crsr = IF v.crsr > n - 1 THEN n - 1 ELSE v.crsr
<1> DEFINE u == Printed(v, n)
<1>1. u \in IntWidget /\ u.nlines = n - 1 /\ u.crsr = v.crsr
  <2>1. n - 1 \in Int
    OBVIOUS
  <2> QED BY <2>1 DEF Printed, IntWidget
<1> HIDE DEF u
<1>2. u.nlines - u.ysize \in Int
  BY <1>1 DEF IntWidget
<1>3. U(u.nlines - u.ysize) \in Int
  BY <1>2, URange, WrapAssumption
<1> DEFINE vy == IF u.vy < U(u.nlines) THEN u.vy
                 ELSE IF U(u.nlines) > u.ysize THEN U(u.nlines - u.ysize) ELSE 0
           crsr == IF u.crsr > u.nlines THEN u.nlines ELSE u.crsr
<1>4. vy \in Int
  BY <1>1, <1>3 DEF IntWidget
<1>5. crsr \in Int /\ crsr = IF v.crsr > n - 1 THEN n - 1 ELSE v.crsr
  BY <1>1 DEF IntWidget
<1>6. OutputEnd(u) = [u EXCEPT !.vy = vy, !.crsr = crsr]
  BY <1>1 DEF OutputEnd, IntWidget
<1> HIDE DEF vy, crsr
<1> QED BY <1>1, <1>4, <1>5, <1>6 DEF IntWidget, u

LEMMA DeletedInt ==
  ASSUME NEW v \in IntWidget, NEW l \in Int
  PROVE  /\ LDeleted(v, l) \in IntWidget /\ LDeleted(v, l).nlines = v.nlines
         /\ LDeleted(v, l).crsr = IF l >= v.crsr THEN v.crsr ELSE v.crsr - 1
<1>1. v.crsr - 1 \in Int
  BY DEF IntWidget
<1> DEFINE u == Move(v, v.crsr - 1)
<1>2. u \in IntWidget /\ u.crsr = v.crsr - 1 /\ u.nlines = v.nlines
  BY <1>1, MoveInt
<1>3. LDeleted(v, l) = IF l >= v.crsr THEN v ELSE IF v.vy = 0 THEN u ELSE Scroll(u, -1)
  BY DEF LDeleted
<1> HIDE DEF u
<1>4. /\ Scroll(u, -1) \in IntWidget /\ Scroll(u, -1).crsr = v.crsr - 1
      /\ Scroll(u, -1).nlines = v.nlines
  BY <1>2, ScrollInt
<1> QED BY <1>2, <1>3, <1>4

LEMMA JumpInt ==
  ASSUME NEW v \in IntWidget, NEW l \in Int
  PROVE  /\ CrsrJmp(v, l) \in IntWidget /\ CrsrJmp(v, l).nlines = v.nlines
         /\ CrsrJmp(v, l).crsr = l
<1> DEFINE size == Height(v) - 1
<1>1. l - size \in Int
  BY HeightInt
<1>2. U(l - size) \in Int
  BY <1>1, URange, WrapAssumption
<1>3. CrsrJmp(v, l) = IF U(l) >= v.vy /\ U(l) < U(v.vy + size) THEN Move(v, l)
                      ELSE [v EXCEPT !.crsr = l, !.vy = U(l - size)]
  BY DEF CrsrJmp
<1> HIDE DEF size
<1>4. CASE U(l) >= v.vy /\ U(l) < U(v.vy + size)
  BY <1>3, <1>4, MoveInt
<1>5. CASE ~(U(l) >= v.vy /\ U(l) < U(v.vy + size))
  BY <1>2, <1>3, <1>5 DEF IntWidget
<1> QED BY <1>4, <1>5

\* Up and down move a cursor by a line, within the list.
LEMMA StepInt ==
  ASSUME NEW v \in IntWidget, v.crsr >= 0
  PROVE  /\ KbdUp(v) \in IntWidget /\ KbdUp(v).nlines = v.nlines
         /\ KbdUp(v).crsr = IF v.crsr > 0 THEN v.crsr - 1 ELSE v.crsr
         /\ KbdDown(v) \in IntWidget /\ KbdDown(v).nlines = v.nlines
         /\ KbdDown(v).crsr \in {v.crsr} \cup (IF v.crsr < v.nlines THEN {v.crsr + 1} ELSE {})
<1>1. /\ v.crsr \in Int /\ v.crsr # -1 /\ v.crsr - 1 \in Int /\ v.crsr + 1 \in Int
      /\ -1 \in Int /\ 1 \in Int
  BY DEF IntWidget
<1> DEFINE Same(u) == u \in IntWidget /\ u.nlines = v.nlines /\ u.crsr = v.crsr
<1>2. Same(v) /\ Same(Scroll(v, -1)) /\ Same(Scroll(v, 1))
  BY <1>1, ScrollInt
<1>3. ASSUME NEW u, NEW n \in Int, Same(u)
      PROVE  Move(u, n) \in IntWidget /\ Move(u, n).nlines = v.nlines /\ Move(u, n).crsr = n
  BY <1>3, MoveInt
<1>4. /\ KbdUp(v) \in IntWidget /\ KbdUp(v).nlines = v.nlines
      /\ KbdUp(v).crsr = IF v.crsr > 0 THEN v.crsr - 1 ELSE v.crsr
  <2>1. PICK u : Same(u) /\ KbdUp(v) = IF v.crsr > 0 THEN Move(u, v.crsr - 1) ELSE u
    BY <1>1, <1>2 DEF KbdUp
  <2> QED BY <1>1, <1>3, <2>1
<1>5. /\ KbdDown(v) \in IntWidget /\ KbdDown(v).nlines = v.nlines
      /\ KbdDown(v).crsr \in {v.crsr} \cup (IF v.crsr < v.nlines THEN {v.crsr + 1} ELSE {})
  <2>1. PICK u : Same(u) /\ \/ KbdDown(v) = u
                            \/ v.crsr < v.nlines /\ KbdDown(v) = Move(u, v.crsr + 1)
    <3>1. CASE U(v.crsr - v.vy) = Height(v)
      BY <1>1, <1>2, <3>1 DEF KbdDown
    <3>2. CASE U(v.crsr - v.vy) # Height(v)
      BY <1>1, <1>2, <3>2 DEF KbdDown
    <3> QED BY <3>1, <3>2
  <2> QED BY <1>1, <1>3, <2>1
<1> QED BY <1>4, <1>5

LEMMA HomeInt ==
  ASSUME NEW v \in IntWidget
  PROVE  KbdHome(v) \in IntWidget /\ KbdHome(v).nlines = v.nlines /\ KbdHome(v).crsr = 0
<1> DEFINE zero == 0
<1>1. zero \in Int
  OBVIOUS
<1>2. KbdHome(v) = [v EXCEPT !.vy = zero, !.crsr = zero]
  BY DEF KbdHome
<1> HIDE DEF zero
<1>3. KbdHome(v) \in IntWidget /\ KbdHome(v).nlines = v.nlines /\ KbdHome(v).crsr = zero
  BY <1>1, <1>2 DEF IntWidget
<1> QED BY <1>3 DEF zero

LEMMA KeyInt ==
  ASSUME NEW v \in IntWidget, NEW k \in ScreenKeys
  PROVE  Key(k, v) \in IntWidget
<1>1. /\ v.vy \in Int /\ v.crsr \in Int /\ v.nlines \in Int
      /\ v.crsr - 1 \in Int /\ v.crsr + 1 \in Int
  BY DEF IntWidget
<1>2. Height(v) \in Int /\ NLeft(v) \in Int
  BY HeightInt
<1>3. \A n \in Int : Scroll(v, n) \in IntWidget /\ Move(v, n) \in IntWidget
  BY ScrollInt, MoveInt
<1>4. \A n, m \in Int : Move(Scroll(v, n), m) \in IntWidget
  BY <1>3, MoveInt
<1>5. KbdUp(v) \in IntWidget
  <2>1. -1 \in Int
    OBVIOUS
  <2> QED BY <2>1, <1>1, <1>3, <1>4 DEF KbdUp
<1>6. KbdDown(v) \in IntWidget
  BY <1>1, <1>3, <1>4 DEF KbdDown
<1>7. KbdPageUp(v) \in IntWidget
  <2> DEFINE n == MinOf(v.vy, Height(v))
  <2>1. n \in Int
    BY <1>1, <1>2 DEF MinOf
  <2>2. KbdPageUp(v) = IF S(v.vy) > 0 THEN Move(Scroll(v, -n), v.crsr - n) ELSE Move(v, 0)
    BY DEF KbdPageUp
  <2> HIDE DEF n
  <2>3. v.crsr - n \in Int /\ -n \in Int /\ 0 \in Int
    BY <1>1, <2>1
  <2> QED BY <2>2, <2>3, <1>3, <1>4
<1>8. KbdPageDown(v) \in IntWidget
  <2> DEFINE n == MinOf(NLeft(v), Height(v))
  <2>1. n \in Int
    BY <1>2 DEF MinOf
  <2>2. KbdPageDown(v) = IF NLeft(v) <= 0 THEN Move(v, v.nlines)
                         ELSE IF v.crsr = -1 THEN Scroll(v, n)
                         ELSE Move(Scroll(v, n), v.crsr + n)
    BY DEF KbdPageDown
  <2> HIDE DEF n
  <2>3. v.crsr + n \in Int
    BY <1>1, <2>1
  <2> QED BY <1>1, <2>1, <2>2, <2>3, <1>3, <1>4
<1>9. KbdHome(v) \in IntWidget
  BY HomeInt
<1>10. KbdEnd(v) \in IntWidget
  <2>1. v.crsr + NLeft(v) \in Int
    BY <1>1, <1>2
  <2> QED BY <1>2, <2>1, <1>3, <1>4 DEF KbdEnd
<1> QED BY <1>5, <1>6, <1>7, <1>8, <1>9, <1>10 DEF Key, ScreenKeys
=============================================================================
