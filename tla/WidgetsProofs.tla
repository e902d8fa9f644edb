---------------------------- MODULE WidgetsProofs ---------------------------
(***************************************************************************)
(* Proofs about Widgets, for lists of any length and any text in the       *)
(* search box: the widgets implement Display, and a search that is         *)
(* repeated leads to every line that matches.                              *)
(***************************************************************************)
EXTENDS Widgets, WellFoundedInduction, TLAPS

-----------------------------------------------------------------------------
(* The invariant: what the widgets have done so far on the key, against    *)
(* the screen, which still shows what was before it.                       *)

Types ==
  /\ screen \in D!Views
  /\ crsr \in [Lists -> Line] /\ tree_root \in Line \cup {AllTree}
  /\ show_owner \in BOOLEAN /\ answers \in BOOLEAN
  /\ pkey \in [exti : {"none", "d", "s"}, ptree : {"none", "t", "Enter"}]
  /\ hits \subseteq Line

\* What the details on the screen are about
About == D!About(screen)

\* The parts of the screen fit together.
WellDrawn ==
  /\ screen.on
  /\ screen.help = screen.list /\ screen.counts = (screen.list = "ptree")
  /\ screen = D!Detailed(screen, About)

\* The details are to be about this from the next redraw on, and what this
\* redraw has to draw is flagged.
DetailsDue(about) ==
  /\ about \in {"d", "s", "none"}
  /\ "exti" \in shown <=> about # "none"
  /\ "exti" \in shown =>
       /\ cur_ds = about /\ pkey.exti = about
       /\ about = "d" \/ about # About => "exti" \in flagged

\* The others know that the list l is in front, and what a redraw has to draw is
\* flagged.
InFront(l) ==
  /\ cur_hlp = l /\ mainw = l
  /\ periodic = (l = "ptree") /\ info = (l = "ptree")
  /\ l # screen.help => "help" \in flagged
  /\ l = "ptree" => answers /\ (pkey.ptree = "t" <=> tree_root = AllTree)
  /\ tree_root # screen.root \/ show_owner # screen.owner =>
       l = "ptree" /\ "ptree" \in flagged

Shows(l) ==
  /\ "ulist" \in shown <=> l = "ulist"
  /\ "ptree" \in shown <=> l = "ptree"
  /\ InFront(l)

Cursors(u, p) == crsr["ulist"] = u /\ crsr["ptree"] = p
TreeIs(r, o) == tree_root = r /\ show_owner = o
Box(open) == "input" \in shown <=> open

\* The lists are what the screen shows.
Steady ==
  /\ Shows(screen.list)
  /\ Cursors(screen.user, screen.proc) /\ TreeIs(screen.root, screen.owner)

Selected(n) ==
  IF screen.list = "ulist" THEN Cursors(n, screen.proc) ELSE Cursors(screen.user, n)

\* The search box has not taken the key...
Passed == IF screen.box THEN key \in {"Up", "Down"} ELSE key # "/"

\* ... and the details have reacted to it.
Wanted ==
  IF key \in {"d", "s"} THEN IF About = key THEN "none" ELSE key ELSE About

\* What a key does to the lists
Moved ==
  LET n == D!Cursor(screen)
      to == IF key = "Up" THEN n - 1 ELSE n + 1
  IN  /\ key \in {"Up", "Down"}
      /\ Shows(screen.list) /\ TreeIs(screen.root, screen.owner)
      /\ Selected(IF to \in Line THEN to ELSE n)

AllShown ==
  /\ key = "t" /\ Shows("ptree") /\ TreeIs(AllTree, screen.owner)
  /\ \E n \in Line :
       /\ Cursors(screen.user, n)
       /\ screen.list = "ulist" => n = 0
       /\ screen.list = "ptree" /\ screen.root = AllTree => n = screen.proc

TreeShown ==
  /\ key = "Enter" /\ screen.list = "ulist"
  /\ Shows("ptree") /\ TreeIs(screen.user, screen.owner) /\ Cursors(screen.user, 0)

UsersShown ==
  /\ key = "Enter" /\ screen.list = "ptree"
  /\ Shows("ulist") /\ TreeIs(screen.root, screen.owner)
  /\ Cursors(screen.user, screen.proc)

OwnerShown ==
  /\ key = "o" /\ Shows(screen.list) /\ Cursors(screen.user, screen.proc)
  /\ TreeIs(screen.root, IF screen.list = "ptree" THEN ~screen.owner ELSE screen.owner)

NoMatter == Steady /\ key \notin {"Up", "Down", "t", "Enter", "o"}

ListsDone == Moved \/ AllShown \/ TreeShown \/ UsersShown \/ OwnerShown \/ NoMatter

\* What it does to them before the users list has seen it: when the list in front
\* changes, for a moment both are shown, or none.
HalfDone ==
  \/ /\ screen.list = "ulist" /\ key \in {"t", "Enter"}
     /\ {"ulist", "ptree"} \subseteq shown /\ InFront("ptree")
     /\ Cursors(screen.user, 0)
     /\ TreeIs(IF key = "t" THEN AllTree ELSE screen.user, screen.owner)
  \/ screen.list = "ulist" /\ key \notin {"t", "Enter"} /\ Steady
  \/ /\ screen.list = "ptree" /\ key = "Enter"
     /\ "ulist" \notin shown /\ "ptree" \notin shown /\ periodic = FALSE /\ info = FALSE
     /\ Cursors(screen.user, screen.proc) /\ TreeIs(screen.root, screen.owner)
  \/ screen.list = "ptree" /\ key # "Enter" /\ ListsDone

\* What a key does that the search box takes, or that closes the details
Searched ==
  /\ screen.box /\ key \in Ascii \cup {"Enter", "Backspace"}
  /\ Shows(screen.list) /\ TreeIs(screen.root, screen.owner) /\ Box(screen.box)
  /\ \E n \in Line : (key = "Backspace" => n = D!Cursor(screen)) /\ Selected(n)
BoxDone ==
  /\ IF screen.box THEN key = "Esc" ELSE key = "/"
  /\ Steady /\ Box(~screen.box)
Closed ==
  /\ ~screen.box /\ key = "Esc" /\ About # "none"
  /\ Steady /\ Box(screen.box)

\* The places in the handling of a key
Waiting ==
  pc = "wait" /\ WellDrawn /\ Steady /\ DetailsDue(About) /\ Box(screen.box)
Pressed == pc = "keys" /\ key \in Key /\ WellDrawn
Left(rest) == Pressed /\ todo = rest /\ Passed /\ Box(screen.box)
AtInput == Pressed /\ todo = KeyOrder /\ Steady /\ DetailsDue(About) /\ Box(screen.box)
AtExti == Left(<<"exti", "ptree", "ulist">>) /\ Steady /\ DetailsDue(About)
AtTree ==
  /\ Left(<<"ptree", "ulist">>) /\ Steady
  /\ DetailsDue(Wanted) /\ (key = "Esc" => About = "none")
AtUsers ==
  /\ Left(<<"ulist">>) /\ HalfDone
  /\ DetailsDue(Wanted) /\ (key = "Esc" => About = "none")
AtEnd ==
  /\ Left(<<>>) /\ ListsDone
  /\ DetailsDue(Wanted) /\ (key = "Esc" => About = "none")
AtRedraw ==
  /\ pc = "redraw" /\ key \in Key /\ WellDrawn
  /\ \/ (Searched \/ BoxDone) /\ DetailsDue(About)
     \/ Closed /\ DetailsDue("none")
     \/ /\ Passed /\ key \notin {"q", "Esc"} /\ Box(screen.box)
        /\ ListsDone /\ DetailsDue(Wanted)

KeyInv ==
  /\ Types
  /\ \/ Waiting \/ AtInput \/ AtExti \/ AtTree \/ AtUsers \/ AtEnd \/ AtRedraw
     \/ pc = "done"

-----------------------------------------------------------------------------
(* Facts about the abstract screen                                         *)

\* The details that v has if they are about this
DetailsOf(v, about) ==
  IF about = "none" THEN D!NoDetails
  ELSE IF about = "s" THEN [of |-> "esys", line |-> 0]
  ELSE [of |-> v.list, line |-> D!Cursor(v)]

LEMMA AboutKnown == ASSUME Types PROVE About \in {"d", "s", "none"}
BY DEF About, D!About

LEMMA DetailedIs ==
  ASSUME NEW v, NEW about \in {"d", "s", "none"}
  PROVE  D!Detailed(v, about) = [v EXCEPT !.details = DetailsOf(v, about)]
BY DEF D!Detailed, DetailsOf

LEMMA ScreenDetails == ASSUME Types, WellDrawn PROVE screen.details = DetailsOf(screen, About)
<1>1. screen = [screen EXCEPT !.details = DetailsOf(screen, About)]
  BY AboutKnown, DetailedIs DEF WellDrawn
<1>2. screen.details = DetailsOf(screen, About)
  BY <1>1 DEF Types, D!Views
<1> QED BY <1>2

\* A step that leaves the screen and the key alone
LEMMA SameScreen ==
  ASSUME screen' = screen
  PROVE  /\ About' = About /\ (key' = key => Wanted' = Wanted /\ Passed' = Passed)
         /\ (WellDrawn' <=> WellDrawn)
<1>1. About' = About
  BY DEF About
<1> QED BY <1>1 DEF Wanted, Passed, WellDrawn

LEMMA Order ==
  /\ Head(KeyOrder) = "input" /\ Tail(KeyOrder) = <<"exti", "ptree", "ulist">>
  /\ KeyOrder # <<>>
  /\ Head(<<"exti", "ptree", "ulist">>) = "exti"
  /\ Tail(<<"exti", "ptree", "ulist">>) = <<"ptree", "ulist">>
  /\ Head(<<"ptree", "ulist">>) = "ptree" /\ Tail(<<"ptree", "ulist">>) = <<"ulist">>
  /\ Head(<<"ulist">>) = "ulist" /\ Tail(<<"ulist">>) = <<>>
BY DEF KeyOrder

\* Who has the key
LEMMA Turn ==
  ASSUME KeyInv
  PROVE  /\ Offered("input") => AtInput
         /\ Offered("exti") => AtExti
         /\ Offered("ptree") => AtTree
         /\ Offered("ulist") => AtUsers
         /\ pc = "keys" /\ todo = <<>> => AtEnd
         /\ pc = "wait" => Waiting
         /\ pc = "redraw" => AtRedraw
<1>1. CASE Waiting
  BY <1>1 DEF Waiting, Offered
<1>2. CASE AtInput
  BY <1>2, Order DEF AtInput, Pressed, Offered
<1>3. CASE AtExti
  BY <1>3, Order DEF AtExti, Left, Pressed, Offered
<1>4. CASE AtTree
  BY <1>4, Order DEF AtTree, Left, Pressed, Offered
<1>5. CASE AtUsers
  BY <1>5, Order DEF AtUsers, Left, Pressed, Offered
<1>6. CASE AtEnd
  BY <1>6 DEF AtEnd, Left, Pressed, Offered
<1>7. CASE AtRedraw
  BY <1>7 DEF AtRedraw, Offered
<1>8. CASE pc = "done"
  BY <1>8 DEF Offered
<1> QED BY <1>1, <1>2, <1>3, <1>4, <1>5, <1>6, <1>7, <1>8 DEF KeyInv

\* A handler that leaves the lists alone
ListsAlone ==
  /\ UNCHANGED <<screen, crsr, treeVars, mainw, cur_hlp>>
  /\ pkey'.ptree = pkey.ptree
  /\ flagged \subseteq flagged'
  /\ "ulist" \in shown' <=> "ulist" \in shown
  /\ "ptree" \in shown' <=> "ptree" \in shown

LEMMA ListsKept ==
  ASSUME ListsAlone
  PROVE  /\ \A l \in Lists : Shows(l) => Shows(l)'
         /\ Types => (Steady => Steady')
<1>1. /\ screen' = screen /\ crsr' = crsr /\ tree_root' = tree_root
      /\ show_owner' = show_owner /\ answers' = answers /\ periodic' = periodic
      /\ info' = info /\ mainw' = mainw /\ cur_hlp' = cur_hlp
      /\ pkey'.ptree = pkey.ptree
  BY DEF ListsAlone, treeVars, infoVars
<1>2. ASSUME NEW l \in Lists, Shows(l) PROVE Shows(l)'
  BY <1>1, <1>2 DEF ListsAlone, Shows, InFront
<1>3. ASSUME Types, Steady PROVE Steady'
  <2>1. screen.list \in Lists
    BY <1>3 DEF Types, D!Views, Lists
  <2>2. Shows(screen.list)'
    BY <1>1, <1>2, <1>3, <2>1 DEF Steady
  <2> QED BY <1>1, <1>3, <2>2 DEF Steady, Cursors, TreeIs
<1> QED BY <1>2, <1>3

LEMMA DetailsKept ==
  ASSUME UNCHANGED <<screen, cur_ds>>, pkey'.exti = pkey.exti, flagged \subseteq flagged',
         "exti" \in shown' <=> "exti" \in shown,
         NEW about, DetailsDue(about)
  PROVE  DetailsDue(about)'
BY DEF DetailsDue, About

-----------------------------------------------------------------------------
(* The search box                                                          *)

\* A list is asked for its cursor: the one in front.
LEMMA FrontAsked == ASSUME Types, Steady PROVE Asked = screen.list
BY DEF Types, D!Views, Steady, Shows, InFront, Asked

\* A set of lines has a first and a last one.
LEMMA Ends ==
  ASSUME NEW A \in SUBSET Line, A # {}
  PROVE  /\ \E a \in A : \A b \in A : a <= b
         /\ \E a \in A : \A b \in A : b <= a
<1> DEFINE R == {ss \in Nat \X Nat : ss[1] < ss[2]}
           B == {Last - a : a \in A}
<1>1. IsWellFoundedOn(R, Nat)
  BY NatLessThanWellFounded DEF OpToRel
<1>2. A \subseteq Nat /\ B \subseteq Nat /\ B # {}
  <2>1. \A a \in A : a \in Nat /\ Last - a \in Nat
    BY LastAssumption DEF Line, D!Line
  <2> QED BY <2>1
<1> HIDE DEF R
<1>3. PICK a \in A : \A b \in A : <<b, a>> \notin R
  BY <1>1, <1>2, WFMin
<1>4. ASSUME NEW b \in A PROVE a <= b
  <2>1. <<b, a>> \notin R /\ b \in Nat /\ a \in Nat
    BY <1>2, <1>3
  <2> QED BY <2>1 DEF R
<1> HIDE DEF B
<1>5. PICK c \in B : \A d \in B : <<d, c>> \notin R
  BY <1>1, <1>2, WFMin
<1>6. PICK z \in A : c = Last - z
  BY DEF B
<1>7. ASSUME NEW b \in A PROVE b <= z
  <2>1. Last - b \in B
    BY DEF B
  <2>2. <<Last - b, c>> \notin R /\ Last - b \in Nat /\ c \in Nat /\ b \in Nat /\ z \in Nat
    BY <1>2, <1>5, <2>1
  <2> QED BY <1>6, <2>2, LastAssumption DEF R
<1> QED BY <1>4, <1>7

LEMMA FirstIsOne ==
  ASSUME NEW l, NEW A \in SUBSET Line, A # {}
  PROVE  /\ First(l, A) \in A
         /\ l # "ulist" => \A a \in A : First(l, A) <= a
<1>1. \E i \in A : \A j \in A : IF l = "ulist" THEN j <= i ELSE i <= j
  BY Ends
<1> QED BY <1>1 DEF First

\* A search puts the cursor of the list in front on some line.
LEMMA SearchSelects ==
  ASSUME Types, Steady, screen' = screen, hits' \subseteq Line, UNCHANGED <<shown, answers>>,
         NEW type \in {0, 1}, ido_search(type)
  PROVE  \E n \in Line : /\ crsr' \in [Lists -> Line]
                         /\ crsr' = [crsr EXCEPT ![screen.list] = n]
<1>1. Asked = screen.list /\ screen.list \in Lists
  BY FrontAsked DEF Types, D!Views, Lists
<1> DEFINE below == Candidates(Asked, type)
           to == IF below = {} /\ type = 0 THEN Candidates(Asked, 2) ELSE below
<1>2. to \in SUBSET Line
  BY DEF Candidates
<1>3. crsr' = IF to = {} THEN crsr ELSE [crsr EXCEPT ![Asked] = First(Asked, to)]
  BY DEF ido_search
<1> HIDE DEF to, below
<1>4. to # {} => First(Asked, to) \in Line
  BY <1>2, FirstIsOne
<1>5. crsr \in [Lists -> Line]
  BY DEF Types
<1>6. CASE to = {}
  <2>1. crsr[screen.list] \in Line /\ crsr' = [crsr EXCEPT ![screen.list] = crsr[screen.list]]
    BY <1>1, <1>3, <1>5, <1>6
  <2> QED BY <1>3, <1>5, <1>6, <2>1
<1>7. CASE to # {}
  <2>1. crsr' = [crsr EXCEPT ![screen.list] = First(Asked, to)]
    BY <1>1, <1>3, <1>7
  <2>2. crsr' \in [Lists -> Line]
    BY <1>1, <1>4, <1>5, <1>7, <2>1
  <2> QED BY <1>4, <1>7, <2>1, <2>2
<1> QED BY <1>6, <1>7

\* Where the keys of the box lead, and how it is passed by
LEMMA InputSteps ==
  ASSUME Types, AtInput, Input
  PROVE  Types' /\ (AtRedraw' \/ AtExti')
<1>1. /\ Pressed /\ todo = KeyOrder /\ Steady /\ DetailsDue(About) /\ Box(screen.box)
      /\ key \in Key /\ WellDrawn /\ pc = "keys"
  BY DEF AtInput, Pressed
<1>2. screen' = screen /\ key' = key /\ UNCHANGED <<treeVars, extiVars, pkey, cur_hlp, flagged>>
  BY DEF Input, InputOpen, InputClose, InputEnter, InputBackspace, InputChar, InputPass,
         Final, Pass
<1>3. /\ About' = About /\ Wanted' = Wanted /\ Passed' = Passed /\ WellDrawn'
      /\ screen.list \in Lists /\ About \in {"d", "s", "none"}
  BY <1>1, <1>2, SameScreen, AboutKnown DEF Types, D!Views, Lists
<1>4. /\ "exti" \in shown' <=> "exti" \in shown
      /\ "ulist" \in shown' <=> "ulist" \in shown
      /\ "ptree" \in shown' <=> "ptree" \in shown
  BY DEF Input, InputOpen, InputClose, InputEnter, InputBackspace, InputChar, InputPass
<1>5. DetailsDue(About)'
  BY <1>1, <1>2, <1>3, <1>4, DetailsKept DEF extiVars
<1>6. crsr' = crsr => Steady' /\ \A l \in Lists : Shows(l) => Shows(l)'
  BY <1>1, <1>2, <1>4, ListsKept DEF ListsAlone, extiVars
<1>7. CASE InputOpen \/ InputClose
  <2>1. pc' = "redraw" /\ crsr' = crsr /\ hits' = hits
    BY <1>7 DEF InputOpen, InputClose, Final, boxVars
  <2>2. Types'
    BY <1>2, <2>1 DEF Types, treeVars
  <2>3. BoxDone'
    <3>1. IF screen.box THEN key = "Esc" /\ "input" \notin shown'
                        ELSE key = "/" /\ "input" \in shown'
      BY <1>1, <1>7 DEF Box, InputOpen, InputClose
    <3> QED BY <1>2, <1>6, <2>1, <3>1 DEF BoxDone, Box
  <2> QED BY <1>1, <1>2, <1>3, <1>5, <2>1, <2>2, <2>3 DEF AtRedraw
<1>8. CASE InputEnter \/ InputBackspace \/ InputChar
  <2>1. /\ pc' = "redraw" /\ shown' = shown /\ hits' \subseteq Line
        /\ screen.box /\ key \in Ascii \cup {"Enter", "Backspace"}
    BY <1>1, <1>8 DEF InputEnter, InputBackspace, InputChar, Final, boxVars, Types, Box
  <2>2. PICK n \in Line : /\ crsr' \in [Lists -> Line]
                          /\ crsr' = [crsr EXCEPT ![screen.list] = n]
                          /\ key = "Backspace" => n = crsr[screen.list]
    <3>1. CASE crsr' = crsr
      <4>1. crsr[screen.list] \in Line /\ crsr' = [crsr EXCEPT ![screen.list] = crsr[screen.list]]
        BY <1>3, <3>1 DEF Types
      <4> QED BY <3>1, <4>1 DEF Types
    <3>2. CASE InputEnter /\ ido_search(0)
      <4>1. key # "Backspace"
        BY <3>2 DEF InputEnter
      <4> QED BY <1>1, <1>2, <2>1, <3>2, <4>1, SearchSelects DEF treeVars
    <3>3. CASE InputChar
      <4>1. key # "Backspace" /\ ido_search(1)
        BY <3>3 DEF InputChar, Ascii, D!Ascii
      <4> QED BY <1>1, <1>2, <2>1, <3>3, <4>1, SearchSelects DEF treeVars
    <3> QED BY <1>8, <3>1, <3>2, <3>3 DEF InputEnter, InputBackspace, boxVars
  <2>3. Types'
    BY <1>2, <2>1, <2>2 DEF Types, treeVars
  <2>4. Selected(n)'
    <3>1. Cursors(screen.user, screen.proc) /\ crsr \in [Lists -> Line]
      BY <1>1 DEF Steady, Types
    <3> QED BY <1>2, <1>3, <2>2, <3>1 DEF Selected, Cursors, Lists
  <2>5. key = "Backspace" => n = D!Cursor(screen)
    <3>1. Cursors(screen.user, screen.proc)
      BY <1>1 DEF Steady
    <3> QED BY <1>3, <2>2, <3>1 DEF Cursors, D!Cursor, Lists
  <2>6. Shows(screen.list)' /\ TreeIs(screen.root, screen.owner)'
    BY <1>1, <1>2, <1>4 DEF Steady, Shows, InFront, TreeIs, treeVars, infoVars, extiVars
  <2>7. Searched'
    BY <1>1, <1>2, <2>1, <2>4, <2>5, <2>6 DEF Searched, Box, D!Cursor
  <2> QED BY <1>1, <1>2, <1>3, <1>5, <2>1, <2>3, <2>7 DEF AtRedraw
<1>9. CASE InputPass
  <2>1. /\ pc' = "keys" /\ todo' = <<"exti", "ptree", "ulist">> /\ crsr' = crsr
        /\ hits' = hits /\ shown' = shown
    BY <1>1, <1>9, Order DEF InputPass, Pass, boxVars
  <2>2. Passed
    BY <1>1, <1>9 DEF InputPass, Passed, Box
  <2>3. Types'
    BY <1>2, <2>1 DEF Types, treeVars
  <2> QED BY <1>1, <1>2, <1>3, <1>5, <1>6, <2>1, <2>2, <2>3
       DEF AtExti, Left, Pressed, Box
<1> QED BY <1>7, <1>8, <1>9 DEF Input

-----------------------------------------------------------------------------
(* The details                                                             *)

LEMMA ExtiSteps ==
  ASSUME Types, AtExti, Exti
  PROVE  Types' /\ (AtRedraw' \/ AtTree')
<1>1. /\ Pressed /\ todo = <<"exti", "ptree", "ulist">> /\ Passed /\ Box(screen.box)
      /\ Steady /\ DetailsDue(About) /\ key \in Key /\ WellDrawn /\ pc = "keys"
  BY DEF AtExti, Left, Pressed
<1>2. /\ screen' = screen /\ key' = key /\ crsr' = crsr /\ hits' = hits /\ mainw' = mainw
      /\ cur_hlp' = cur_hlp
      /\ UNCHANGED treeVars /\ flagged \subseteq flagged'
  BY DEF Exti, ExtiSwitch, ExtiClose, ExtiPass, Final, Pass, extiVars, boxVars
<1>3. /\ "input" \in shown' <=> "input" \in shown
      /\ "ulist" \in shown' <=> "ulist" \in shown
      /\ "ptree" \in shown' <=> "ptree" \in shown
  BY DEF Exti, ExtiSwitch, ExtiClose, ExtiPass
<1>4. /\ About' = About /\ Wanted' = Wanted /\ Passed' = Passed /\ WellDrawn'
      /\ About \in {"d", "s", "none"}
  BY <1>1, <1>2, SameScreen, AboutKnown
<1>5. /\ pkey'.ptree = pkey.ptree
      /\ pkey' \in [exti : {"none", "d", "s"}, ptree : {"none", "t", "Enter"}]
      /\ IF ExtiSwitch THEN pkey'.exti = key ELSE pkey' = pkey
  <2>1. pkey \in [exti : {"none", "d", "s"}, ptree : {"none", "t", "Enter"}]
    BY DEF Types
  <2> QED BY <2>1 DEF Exti, ExtiSwitch, ExtiClose, ExtiPass
<1>6. Steady'
  BY <1>1, <1>2, <1>3, <1>5, ListsKept DEF ListsAlone
<1>7. Types'
  BY <1>2, <1>5 DEF Types, treeVars, infoVars
<1>8. Box(screen.box)'
  BY <1>1, <1>2, <1>3 DEF Box
<1>9. CASE ExtiClose
  <2>1. pc' = "redraw" /\ key = "Esc" /\ "exti" \in shown /\ "exti" \notin shown'
    BY <1>9 DEF ExtiClose, Final
  <2>2. DetailsDue("none")'
    BY <2>1 DEF DetailsDue
  <2>3. About # "none"
    BY <1>1, <2>1 DEF DetailsDue
  <2>4. Closed'
    BY <1>1, <1>2, <1>4, <1>6, <1>8, <2>1, <2>3 DEF Closed, Passed
  <2> QED BY <1>1, <1>2, <1>4, <1>7, <2>1, <2>2, <2>4 DEF AtRedraw
<1>10. CASE ExtiSwitch \/ ExtiPass
  <2>1. pc' = "keys" /\ todo' = <<"ptree", "ulist">>
    BY <1>1, <1>10, Order DEF ExtiSwitch, ExtiPass, Pass
  <2>2. key = "Esc" => About = "none"
    BY <1>1, <1>10 DEF ExtiSwitch, ExtiPass, DetailsDue
  <2>3. DetailsDue(Wanted)'
    <3>1. CASE ExtiPass
      <4>1. Wanted = About /\ shown' = shown /\ cur_ds' = cur_ds /\ pkey' = pkey
        BY <3>1 DEF ExtiPass, Wanted, extiVars
      <4>2. DetailsDue(About)'
        BY <1>1, <1>2, <1>4, <4>1, DetailsKept
      <4> QED BY <1>4, <4>1, <4>2
    <3>2. CASE ExtiSwitch
      <4>1. /\ key \in {"d", "s"} /\ cur_ds' = key
            /\ IF "exti" \in shown /\ key = pkey.exti
               THEN "exti" \notin shown'
               ELSE "exti" \in shown' /\ "exti" \in flagged'
        BY <3>2 DEF ExtiSwitch
      <4>2. "exti" \in shown /\ key = pkey.exti <=> About = key
        BY <1>1, <1>4, <4>1 DEF DetailsDue
      <4> QED BY <1>4, <1>5, <3>2, <4>1, <4>2 DEF DetailsDue, Wanted
    <3> QED BY <1>10, <3>1, <3>2
  <2> QED BY <1>1, <1>2, <1>4, <1>6, <1>7, <1>8, <2>1, <2>2, <2>3
       DEF AtTree, Left, Pressed
<1> QED BY <1>9, <1>10 DEF Exti

-----------------------------------------------------------------------------
(* The lists                                                               *)

\* What no handler of a list touches
LEMMA ListSteps ==
  ASSUME Types, Tree \/ Users
  PROVE  /\ screen' = screen /\ key' = key /\ hits' = hits /\ cur_ds' = cur_ds
         /\ "input" \in shown' <=> "input" \in shown
         /\ "exti" \in shown' <=> "exti" \in shown
         /\ flagged \subseteq flagged' /\ pkey'.exti = pkey.exti
         /\ pkey' \in [exti : {"none", "d", "s"}, ptree : {"none", "t", "Enter"}]
<1>1. pkey \in [exti : {"none", "d", "s"}, ptree : {"none", "t", "Enter"}]
  BY DEF Types
<1>2. CASE Tree
  BY <1>1, <1>2 DEF Tree, TreeSwitch, TreeHide, TreeAll, TreeOwner, ListCursor, TreePass,
     Pass, Unhide, SendHelp, SendSource, extiVars, boxVars
<1>3. CASE Users
  BY <1>1, <1>3 DEF Users, UsersHide, UsersShow, ListCursor, UsersPass, Pass, SendHelp,
     SendSource, extiVars, boxVars
<1> QED BY <1>2, <1>3

\* Cursor keys
LEMMA CursorMoves ==
  ASSUME Types, Steady, NEW l \in Lists, l = screen.list, ListCursor(l), key' = key, screen' = screen
  PROVE  Types' /\ Moved'
<1>1. /\ key \in {"Up", "Down"} /\ UNCHANGED <<shown, flagged, treeVars, extiVars, pkey, cur_hlp>>
      /\ hits' = hits
  BY DEF ListCursor, boxVars
<1>2. crsr \in [Lists -> Line] /\ crsr[l] = D!Cursor(screen)
  BY DEF Types, Steady, Cursors, D!Cursor, Lists
<1> DEFINE m == D!Cursor(screen)
           go == IF key = "Up" THEN m - 1 ELSE m + 1
<1>3. PICK n \in Line : n = (IF go \in Line THEN go ELSE m) /\ crsr' = [crsr EXCEPT ![l] = n]
  <2>1. crsr' = IF go \in Line THEN [crsr EXCEPT ![l] = go] ELSE crsr
    BY <1>2 DEF ListCursor
  <2>2. m \in Line /\ crsr = [crsr EXCEPT ![l] = m]
    BY <1>2
  <2> HIDE DEF m, go
  <2> QED BY <2>1, <2>2
<1>4. crsr' \in [Lists -> Line]
  BY <1>2, <1>3
<1>5. Types'
  BY <1>1, <1>4 DEF Types, treeVars
<1>6. Selected(n)'
  <2>1. Cursors(screen.user, screen.proc)
    BY DEF Steady
  <2> QED BY <1>2, <1>3, <2>1 DEF Selected, Cursors, Lists
<1>7. Shows(screen.list)' /\ TreeIs(screen.root, screen.owner)'
  BY <1>1 DEF Steady, Shows, InFront, TreeIs, treeVars, infoVars, extiVars
<1>8. m' = m /\ go' = go
  BY DEF D!Cursor
<1>9. Selected(IF go \in Line THEN go ELSE m)'
  BY <1>3, <1>6, <1>8
<1> QED BY <1>1, <1>5, <1>7, <1>9 DEF Moved

\* The process list: TreeSwitch, TreeHide, TreeAll, TreeOwner, cursor keys, others
LEMMA TreeHalf ==
  ASSUME Types, AtTree, Tree
  PROVE  Types' /\ HalfDone'
<1>1. /\ Steady /\ key \in Key /\ screen.list \in Lists /\ crsr \in [Lists -> Line]
      /\ screen.root \in Line \cup {AllTree}
      /\ Shows(screen.list) /\ Cursors(screen.user, screen.proc)
      /\ TreeIs(screen.root, screen.owner)
  BY DEF AtTree, Left, Pressed, Steady, Types, D!Views, Lists, Line, AllTree
<1>2. /\ screen' = screen /\ key' = key /\ hits' = hits /\ cur_ds' = cur_ds
      /\ flagged \subseteq flagged'
      /\ pkey' \in [exti : {"none", "d", "s"}, ptree : {"none", "t", "Enter"}]
  BY ListSteps
<1>3. "ulist" \in shown' <=> "ulist" \in shown
  BY DEF Tree, TreeSwitch, TreeHide, TreeAll, TreeOwner, ListCursor, TreePass, Unhide
<1>4. /\ "ulist" \in shown <=> screen.list = "ulist"
      /\ "ptree" \in shown <=> screen.list = "ptree"
      /\ InFront(screen.list)
  BY <1>1 DEF Shows
<1>5. CASE TreeSwitch
  <2>1. /\ key \in {"t", "Enter"} /\ screen.list = "ulist"
        /\ tree_root' = (IF key = "Enter" THEN crsr["ulist"] ELSE AllTree)
        /\ answers' = TRUE /\ periodic' = TRUE /\ info' = TRUE /\ mainw' = "ptree"
        /\ cur_hlp' = "ptree" /\ "ptree" \in flagged' /\ "help" \in flagged'
        /\ "ptree" \in shown' /\ crsr' = [crsr EXCEPT !["ptree"] = 0]
        /\ show_owner' = show_owner /\ pkey' = [pkey EXCEPT !.ptree = key]
    BY <1>1, <1>4, <1>5
       DEF TreeSwitch, Unhide, SendInfo, SendSource, SendHelp, Lists
  <2>2. 0 \in Line /\ AllTree \notin Line
    BY LastAssumption DEF Line, AllTree, D!Line, D!AllTree
  <2>3. crsr' \in [Lists -> Line] /\ crsr["ulist"] \in Line /\ crsr["ulist"] = screen.user
    BY <1>1, <2>1, <2>2 DEF Lists, Cursors
  <2>4. Types'
    BY <1>2, <2>1, <2>3 DEF Types
  <2>5. pkey'.ptree = key
    BY <2>1 DEF Types
  <2>6. InFront("ptree")'
    BY <2>1, <2>2, <2>3, <2>5 DEF InFront
  <2>7. Cursors(screen.user, 0)' /\ TreeIs(IF key = "t" THEN AllTree ELSE screen.user, screen.owner)'
    BY <1>1, <1>2, <2>1, <2>3 DEF Cursors, TreeIs, Lists, AllTree, D!AllTree
  <2> QED BY <1>2, <1>3, <1>4, <2>1, <2>4, <2>6, <2>7 DEF HalfDone
<1>6. CASE TreeHide
  <2>1. /\ key = "Enter" /\ screen.list = "ptree" /\ "ptree" \notin shown'
        /\ periodic' = FALSE /\ info' = FALSE /\ answers' = FALSE
        /\ crsr' = crsr /\ tree_root' = tree_root /\ show_owner' = show_owner
    BY <1>1, <1>4, <1>6 DEF TreeHide, SendInfo, Lists
  <2>2. Types'
    BY <1>2, <2>1 DEF Types
  <2>3. Cursors(screen.user, screen.proc)' /\ TreeIs(screen.root, screen.owner)'
    BY <1>1, <1>2, <2>1 DEF Cursors, TreeIs
  <2>4. "ulist" \notin shown'
    BY <1>3, <1>4, <2>1
  <2> QED BY <1>2, <2>1, <2>2, <2>3, <2>4 DEF HalfDone
<1>7. CASE TreeAll
  <2>1. /\ key = "t" /\ screen.list = "ptree" /\ shown' = shown /\ answers' = answers
        /\ periodic' = periodic /\ cur_hlp' = cur_hlp /\ mainw' = mainw
        /\ show_owner' = show_owner /\ pkey' = [pkey EXCEPT !.ptree = "t"]
    BY <1>1, <1>4, <1>7 DEF TreeAll, extiVars, Lists
  <2>2. PICK n \in Line :
          /\ tree_root' = AllTree /\ crsr' = [crsr EXCEPT !["ptree"] = n] /\ info' = TRUE
          /\ screen.root = AllTree => n = screen.proc
          /\ screen.root # AllTree => "ptree" \in flagged'
    <3>1. CASE pkey.ptree = "t"
      <4>1. /\ tree_root = AllTree /\ tree_root' = tree_root /\ crsr' = crsr /\ info' = info
            /\ info = TRUE /\ screen.root = AllTree
        BY <1>1, <1>4, <1>7, <2>1, <3>1 DEF TreeAll, InFront, TreeIs
      <4>2. crsr["ptree"] \in Line /\ crsr' = [crsr EXCEPT !["ptree"] = crsr["ptree"]]
            /\ crsr["ptree"] = screen.proc
        BY <1>1, <4>1 DEF Lists, Cursors
      <4> QED BY <4>1, <4>2
    <3>2. CASE pkey.ptree # "t"
      <4>1. screen.root # AllTree
        BY <1>1, <1>4, <2>1, <3>2 DEF InFront, TreeIs
      <4> QED BY <1>7, <3>2, <4>1 DEF TreeAll, SendInfo
    <3> QED BY <3>1, <3>2
  <2>3. crsr' \in [Lists -> Line]
    BY <1>1, <2>2
  <2>4. Types'
    BY <1>2, <2>1, <2>2, <2>3 DEF Types
  <2>5. pkey'.ptree = "t"
    BY <2>1 DEF Types
  <2>6. Shows("ptree")'
    <3>1. /\ cur_hlp = "ptree" /\ mainw = "ptree" /\ periodic = TRUE /\ answers
          /\ screen.help = "ptree" \/ "help" \in flagged
          /\ show_owner = screen.owner
      BY <1>1, <1>4, <2>1 DEF InFront, TreeIs
    <3>2. InFront("ptree")'
      BY <1>2, <2>1, <2>2, <2>5, <3>1 DEF InFront
    <3> QED BY <1>4, <2>1, <3>2 DEF Shows
  <2>7. Cursors(screen.user, n)' /\ TreeIs(AllTree, screen.owner)'
    BY <1>1, <1>2, <2>1, <2>2 DEF Cursors, TreeIs, Lists, AllTree, D!AllTree
  <2>8. AllShown'
    BY <1>2, <2>1, <2>2, <2>6, <2>7 DEF AllShown, AllTree, Line, D!AllTree
  <2> QED BY <1>2, <2>1, <2>4, <2>8 DEF HalfDone, ListsDone
<1>8. CASE TreeOwner
  <2>1. /\ key = "o" /\ screen.list = "ptree" /\ show_owner' = ~show_owner
        /\ "ptree" \in flagged' /\ shown' = shown /\ crsr' = crsr
        /\ tree_root' = tree_root /\ answers' = answers /\ periodic' = periodic
        /\ info' = info /\ mainw' = mainw /\ cur_hlp' = cur_hlp /\ pkey' = pkey
    BY <1>1, <1>4, <1>8 DEF TreeOwner, infoVars, extiVars, Lists
  <2>2. Types'
    BY <1>2, <2>1 DEF Types
  <2>3. Shows(screen.list)'
    BY <1>2, <1>4, <2>1 DEF Shows, InFront
  <2>4. Cursors(screen.user, screen.proc)' /\ TreeIs(screen.root, ~screen.owner)'
    BY <1>1, <1>2, <2>1 DEF Cursors, TreeIs
  <2>5. OwnerShown'
    BY <1>2, <2>1, <2>3, <2>4 DEF OwnerShown
  <2> QED BY <1>2, <2>1, <2>2, <2>5 DEF HalfDone, ListsDone
<1>9. CASE ListCursor("ptree")
  <2>1. screen.list = "ptree" /\ key \in {"Up", "Down"}
    BY <1>1, <1>4, <1>9 DEF ListCursor, Lists
  <2>2. Types' /\ Moved'
    BY <1>1, <1>2, <1>9, <2>1, CursorMoves
  <2> QED BY <1>2, <2>1, <2>2 DEF HalfDone, ListsDone
<1>10. CASE TreePass
  <2>1. /\ key \notin {"t", "Enter"} /\ (screen.list = "ptree" => key \notin {"Up", "Down", "o"})
        /\ UNCHANGED <<shown, flagged, crsr, treeVars, extiVars, pkey, cur_hlp>>
    BY <1>1, <1>4, <1>10 DEF TreePass, Lists
  <2>2. Types'
    BY <1>2, <2>1 DEF Types, treeVars
  <2>3. Steady'
    BY <1>1, <1>2, <2>1, ListsKept DEF ListsAlone, extiVars
  <2>4. screen.list = "ulist" \/ NoMatter'
    BY <1>1, <1>2, <2>1, <2>3 DEF NoMatter, Lists
  <2> QED BY <1>1, <1>2, <2>1, <2>2, <2>3, <2>4 DEF HalfDone, ListsDone, Lists
<1> QED BY <1>5, <1>6, <1>7, <1>8, <1>9, <1>10 DEF Tree

LEMMA TreeSteps ==
  ASSUME Types, AtTree, Tree
  PROVE  Types' /\ AtUsers'
<1>1. /\ pc = "keys" /\ todo = <<"ptree", "ulist">> /\ key \in Key /\ WellDrawn /\ Passed
      /\ Box(screen.box) /\ DetailsDue(Wanted) /\ (key = "Esc" => About = "none")
  BY DEF AtTree, Left, Pressed
<1>2. pc' = "keys" /\ todo' = <<"ulist">>
  BY <1>1, Order DEF Tree, TreeSwitch, TreeHide, TreeAll, TreeOwner, ListCursor, TreePass, Pass
<1>3. /\ screen' = screen /\ key' = key /\ Box(screen.box)' /\ DetailsDue(Wanted)'
      /\ About' = About /\ Passed' = Passed /\ WellDrawn'
  <2>1. /\ screen' = screen /\ key' = key /\ UNCHANGED cur_ds
        /\ "input" \in shown' <=> "input" \in shown
        /\ "exti" \in shown' <=> "exti" \in shown
        /\ flagged \subseteq flagged' /\ pkey'.exti = pkey.exti
    BY ListSteps
  <2>2. About' = About /\ Passed' = Passed /\ WellDrawn' /\ Wanted' = Wanted
    BY <1>1, <2>1, SameScreen
  <2>3. PICK about : about = Wanted
    OBVIOUS
  <2>4. DetailsDue(about)'
    BY <1>1, <2>1, <2>3, DetailsKept
  <2> QED BY <1>1, <2>1, <2>2, <2>3, <2>4 DEF Box
<1> QED BY <1>1, <1>2, <1>3, TreeHalf DEF AtUsers, Left, Pressed

\* The users list
LEMMA UsersDone ==
  ASSUME Types, AtUsers, Users
  PROVE  Types' /\ ListsDone'
<1>1. HalfDone /\ key \in Key /\ screen.list \in Lists /\ crsr \in [Lists -> Line]
  BY DEF AtUsers, Left, Pressed, Types, D!Views, Lists
<1>2. /\ screen' = screen /\ key' = key /\ hits' = hits /\ cur_ds' = cur_ds
      /\ flagged \subseteq flagged'
      /\ pkey' \in [exti : {"none", "d", "s"}, ptree : {"none", "t", "Enter"}]
  BY ListSteps
<1>3. /\ pkey' = pkey /\ UNCHANGED treeVars
      /\ "ptree" \in shown' <=> "ptree" \in shown
      /\ (crsr' = crsr) \/ ListCursor("ulist")
  BY DEF Users, UsersHide, UsersShow, ListCursor, UsersPass
<1>4. crsr' = crsr => Types'
  BY <1>2, <1>3 DEF Types, treeVars
<1>5. CASE screen.list = "ulist" /\ key \in {"t", "Enter"}
  <2>1. /\ "ulist" \in shown /\ "ptree" \in shown /\ InFront("ptree")
        /\ Cursors(screen.user, 0)
        /\ TreeIs(IF key = "t" THEN AllTree ELSE screen.user, screen.owner)
    BY <1>1, <1>5 DEF HalfDone
  <2>2. UsersHide
    BY <1>5, <2>1 DEF Users, UsersHide, UsersShow, ListCursor, UsersPass
  <2>3. /\ crsr' = crsr /\ "ulist" \notin shown' /\ "ptree" \in shown'
        /\ UNCHANGED <<flagged, extiVars, cur_hlp>>
    BY <2>1, <2>2 DEF UsersHide
  <2>4. Shows("ptree")'
    BY <1>2, <1>3, <2>1, <2>3 DEF Shows, InFront, treeVars, infoVars, extiVars
  <2>5. /\ Cursors(screen.user, 0)' /\ 0 \in Line
        /\ TreeIs(IF key = "t" THEN AllTree ELSE screen.user, screen.owner)'
    BY <1>2, <1>3, <2>1, <2>3, LastAssumption
       DEF Cursors, TreeIs, treeVars, Line, D!Line, AllTree, D!AllTree
  <2>6. key = "t" => AllShown'
    BY <1>2, <1>5, <2>4, <2>5 DEF AllShown, AllTree, Line, D!AllTree, D!Line
  <2>7. key = "Enter" => TreeShown'
    BY <1>2, <1>5, <2>4, <2>5 DEF TreeShown
  <2> QED BY <1>4, <1>5, <2>3, <2>6, <2>7 DEF ListsDone
<1>6. CASE screen.list = "ulist" /\ key \notin {"t", "Enter"}
  <2>1. Steady
    BY <1>1, <1>6 DEF HalfDone
  <2>2. "ulist" \in shown
    BY <1>6, <2>1 DEF Steady, Shows
  <2>3. CASE ListCursor("ulist")
    <3>1. Types' /\ Moved'
      BY <1>1, <1>2, <1>6, <2>1, <2>3, CursorMoves
    <3> QED BY <3>1 DEF ListsDone
  <2>4. CASE UsersPass
    <3>1. /\ key \notin {"t", "Enter", "Up", "Down"} /\ crsr' = crsr
          /\ UNCHANGED <<shown, flagged, extiVars, cur_hlp>>
      BY <2>2, <2>4 DEF UsersPass
    <3>2. Steady'
      BY <1>2, <1>3, <2>1, <3>1, ListsKept DEF ListsAlone, extiVars
    <3>3. CASE key = "o"
      <4>1. /\ Shows(screen.list)' /\ Cursors(screen.user, screen.proc)'
            /\ TreeIs(screen.root, screen.owner)'
        BY <3>2 DEF Steady
      <4>2. OwnerShown'
        BY <1>2, <1>6, <3>3, <4>1 DEF OwnerShown
      <4> QED BY <1>4, <3>1, <4>2 DEF ListsDone
    <3>4. CASE key # "o"
      BY <1>2, <1>4, <3>1, <3>2, <3>4 DEF ListsDone, NoMatter
    <3> QED BY <3>3, <3>4
  <2> QED BY <1>6, <2>2, <2>3, <2>4 DEF Users, UsersHide, UsersShow
<1>7. CASE screen.list = "ptree" /\ key = "Enter"
  <2>1. /\ "ulist" \notin shown /\ "ptree" \notin shown /\ periodic = FALSE /\ info = FALSE
        /\ Cursors(screen.user, screen.proc) /\ TreeIs(screen.root, screen.owner)
    BY <1>1, <1>7 DEF HalfDone
  <2>2. UsersShow
    BY <1>7, <2>1 DEF Users, UsersHide, UsersShow, ListCursor, UsersPass
  <2>3. /\ crsr' = crsr /\ "ulist" \in shown' /\ cur_hlp' = "ulist" /\ mainw' = "ulist"
        /\ "help" \in flagged'
    BY <2>2 DEF UsersShow, SendHelp, SendSource
  <2>4. Shows("ulist")'
    BY <1>2, <1>3, <2>1, <2>3 DEF Shows, InFront, treeVars, infoVars, TreeIs
  <2>5. Cursors(screen.user, screen.proc)' /\ TreeIs(screen.root, screen.owner)'
    BY <1>2, <1>3, <2>1, <2>3 DEF Cursors, TreeIs, treeVars
  <2> QED BY <1>2, <1>4, <1>7, <2>3, <2>4, <2>5 DEF ListsDone, UsersShown
<1>8. CASE screen.list = "ptree" /\ key # "Enter"
  <2>1. ListsDone
    BY <1>1, <1>8 DEF HalfDone
  <2>2. "ulist" \notin shown
    BY <1>8, <2>1 DEF ListsDone, Moved, AllShown, TreeShown, UsersShown, OwnerShown, NoMatter,
       Steady, Shows
  <2>3. UsersPass
    BY <1>8, <2>2 DEF Users, UsersHide, UsersShow, ListCursor, UsersPass
  <2>4. ListsAlone /\ crsr' = crsr /\ UNCHANGED treeVars
    BY <1>2, <1>3, <2>3 DEF UsersPass, ListsAlone, extiVars
  <2>5. /\ \A l \in Lists : Shows(l) => Shows(l)'
        /\ Steady => Steady'
        /\ "ptree" \in Lists /\ "ulist" \in Lists
    BY <2>4, ListsKept DEF Lists
  <2>6. /\ \A u, p : Cursors(u, p) => Cursors(u, p)'
        /\ \A r, o : TreeIs(r, o) => TreeIs(r, o)'
    BY <2>4 DEF Cursors, TreeIs, treeVars
  <2>7. CASE Moved
    <3> DEFINE m == D!Cursor(screen)
               to == IF key = "Up" THEN m - 1 ELSE m + 1
               n == IF to \in Line THEN to ELSE m
    <3>1. Selected(n) /\ n' = n
      BY <1>2, <2>7 DEF Moved, D!Cursor
    <3> HIDE DEF n
    <3>2. Selected(n)'
      BY <1>2, <2>4, <3>1 DEF Selected, Cursors
    <3>3. Moved'
      BY <1>1, <1>2, <2>5, <2>6, <2>7, <3>2 DEF Moved, n
    <3> QED BY <1>4, <2>4, <3>3 DEF ListsDone
  <2>8. CASE AllShown
    BY <1>2, <1>4, <2>4, <2>5, <2>6, <2>8 DEF ListsDone, AllShown, AllTree, Line
  <2>9. CASE OwnerShown
    BY <1>1, <1>2, <1>4, <2>4, <2>5, <2>6, <2>9 DEF ListsDone, OwnerShown
  <2>10. CASE NoMatter
    BY <1>2, <1>4, <2>4, <2>5, <2>10 DEF ListsDone, NoMatter
  <2> QED BY <1>8, <2>1, <2>7, <2>8, <2>9, <2>10 DEF ListsDone, TreeShown, UsersShown
<1> QED BY <1>1, <1>5, <1>6, <1>7, <1>8 DEF Lists

LEMMA UsersSteps ==
  ASSUME Types, AtUsers, Users
  PROVE  Types' /\ AtEnd'
<1>1. /\ pc = "keys" /\ todo = <<"ulist">> /\ key \in Key /\ WellDrawn /\ Passed
      /\ Box(screen.box) /\ DetailsDue(Wanted) /\ (key = "Esc" => About = "none")
  BY DEF AtUsers, Left, Pressed
<1>2. pc' = "keys" /\ todo' = <<>>
  BY <1>1, Order DEF Users, UsersHide, UsersShow, ListCursor, UsersPass, Pass
<1>3. /\ screen' = screen /\ key' = key /\ Box(screen.box)' /\ DetailsDue(Wanted)'
      /\ About' = About /\ Passed' = Passed /\ WellDrawn'
  <2>1. /\ screen' = screen /\ key' = key /\ UNCHANGED cur_ds
        /\ "input" \in shown' <=> "input" \in shown
        /\ "exti" \in shown' <=> "exti" \in shown
        /\ flagged \subseteq flagged' /\ pkey'.exti = pkey.exti
    BY ListSteps
  <2>2. About' = About /\ Passed' = Passed /\ WellDrawn' /\ Wanted' = Wanted
    BY <1>1, <2>1, SameScreen
  <2>3. PICK about : about = Wanted
    OBVIOUS
  <2>4. DetailsDue(about)'
    BY <1>1, <2>1, <2>3, DetailsKept
  <2> QED BY <1>1, <2>1, <2>2, <2>3, <2>4 DEF Box
<1> QED BY <1>1, <1>2, <1>3, UsersDone DEF AtEnd, Left, Pressed

-----------------------------------------------------------------------------
(* The redraw                                                              *)

LEMMA SameView ==
  ASSUME NEW v \in D!Views, NEW u \in D!Views,
         v.on = u.on, v.key = u.key, v.list = u.list, v.help = u.help,
         v.counts = u.counts, v.user = u.user, v.proc = u.proc, v.root = u.root,
         v.owner = u.owner, v.box = u.box, v.details = u.details
  PROVE  v = u
BY DEF D!Views

\* What the widgets have to show after key k when the list l is in front, but for
\* the details
Now(l, k) ==
  [screen EXCEPT !.key = k, !.list = l, !.help = l, !.counts = (l = "ptree"),
                 !.user = crsr["ulist"], !.proc = crsr["ptree"], !.root = tree_root,
                 !.owner = show_owner, !.box = "input" \in shown]

LEMMA NowFields ==
  ASSUME Types, NEW l \in Lists, NEW k \in Key \cup {"none"}
  PROVE  /\ Now(l, k) \in D!Views
         /\ Now(l, k).on = screen.on /\ Now(l, k).key = k /\ Now(l, k).list = l
         /\ Now(l, k).help = l /\ Now(l, k).counts = (l = "ptree")
         /\ Now(l, k).user = crsr["ulist"] /\ Now(l, k).proc = crsr["ptree"]
         /\ Now(l, k).root = tree_root /\ Now(l, k).owner = show_owner
         /\ Now(l, k).box = ("input" \in shown) /\ Now(l, k).details = screen.details
<1>1. crsr["ulist"] \in Line /\ crsr["ptree"] \in Line
  BY DEF Types, Lists
<1>2. screen \in D!Views /\ tree_root \in Line \cup {AllTree} /\ show_owner \in BOOLEAN
  BY DEF Types
<1> DEFINE box == "input" \in shown
           counts == l = "ptree"
<1>3. box \in BOOLEAN /\ counts \in BOOLEAN
  OBVIOUS
<1> HIDE DEF box, counts
<1>4. Now(l, k) = [screen EXCEPT !.key = k, !.list = l, !.help = l, !.counts = counts,
                 !.user = crsr["ulist"], !.proc = crsr["ptree"], !.root = tree_root,
                 !.owner = show_owner, !.box = box]
  BY DEF Now, box, counts
<1>5. Now(l, k) \in D!Views
  <2>1. k \in D!Key \cup {"none"} /\ l \in {"ulist", "ptree"}
    BY DEF Key, Lists
  <2>2. /\ crsr["ulist"] \in D!Line /\ crsr["ptree"] \in D!Line
        /\ tree_root \in D!Line \cup {D!AllTree}
    BY <1>1, <1>2 DEF Line, AllTree
  <2> QED BY <1>2, <1>3, <1>4, <2>1, <2>2 DEF D!Views
<1>6. /\ Now(l, k).on = screen.on /\ Now(l, k).key = k /\ Now(l, k).list = l
      /\ Now(l, k).help = l /\ Now(l, k).counts = counts
  BY <1>2, <1>4 DEF D!Views
<1>7. /\ Now(l, k).user = crsr["ulist"] /\ Now(l, k).proc = crsr["ptree"]
      /\ Now(l, k).root = tree_root /\ Now(l, k).owner = show_owner
      /\ Now(l, k).box = box /\ Now(l, k).details = screen.details
  BY <1>2, <1>4 DEF D!Views
<1> QED BY <1>5, <1>6, <1>7 DEF box, counts

LEMMA DetailsTyped ==
  ASSUME NEW v \in D!Views, NEW about \in {"d", "s", "none"}
  PROVE  /\ DetailsOf(v, about) \in [of : {"none", "esys", "ulist", "ptree"}, line : Line]
         /\ D!Detailed(v, about) \in D!Views
         /\ D!Detailed(v, about).details = DetailsOf(v, about)
<1>1. v.list \in Lists /\ D!Cursor(v) \in Line /\ 0 \in Line
  BY LastAssumption DEF D!Views, D!Cursor, Lists, Line, D!Line
<1>2. DetailsOf(v, about) \in [of : {"none", "esys", "ulist", "ptree"}, line : Line]
  BY <1>1 DEF DetailsOf, D!NoDetails, Lists
<1>3. D!Detailed(v, about) = [v EXCEPT !.details = DetailsOf(v, about)]
  BY DetailedIs
<1> QED BY <1>2, <1>3 DEF D!Views, Line

\* The key that makes the details of a view
LEMMA AboutDetailed ==
  ASSUME NEW v \in D!Views, NEW about \in {"d", "s", "none"}
  PROVE  D!About(D!Detailed(v, about)) = about
<1>1. D!Detailed(v, about).details = DetailsOf(v, about) /\ v.list \in {"ulist", "ptree"}
  BY DetailsTyped DEF D!Views
<1>2. DetailsOf(v, about).of =
        IF about = "none" THEN "none" ELSE IF about = "s" THEN "esys" ELSE v.list
  BY DEF DetailsOf, D!NoDetails
<1> QED BY <1>1, <1>2 DEF D!About

\* A redraw of at least the widgets that are flagged
Redrawn(W, k) ==
  /\ flagged \cap Redrawable \subseteq W /\ W \subseteq Redrawable
  /\ Refresh(W, k) /\ flagged' = StillFlagged(W) /\ info' = info
  /\ UNCHANGED <<shown, crsr, tree_root, show_owner, answers, periodic, extiVars, pkey,
                 cur_hlp>>

\* It makes the whole screen new.
LEMMA RedrawnAll ==
  ASSUME Types, WellDrawn, NEW l \in Lists, Shows(l), NEW about, DetailsDue(about),
         NEW k \in Key \cup {"none"}, NEW W, Redrawn(W, k)
  PROVE  screen' = D!Detailed(Now(l, k), about)
<1>1. /\ about \in {"d", "s", "none"} /\ "exti" \in shown <=> about # "none"
      /\ "exti" \in shown => cur_ds = about /\ (about = "d" \/ about # About => "exti" \in flagged)
  BY DEF DetailsDue
<1>2. /\ "ulist" \in shown <=> l = "ulist"
      /\ "ptree" \in shown <=> l = "ptree"
      /\ cur_hlp = l /\ mainw = l /\ info = (l = "ptree")
      /\ l # screen.help => "help" \in flagged
      /\ l = "ptree" => answers
      /\ tree_root # screen.root \/ show_owner # screen.owner =>
           l = "ptree" /\ "ptree" \in flagged
      /\ l \in {"ulist", "ptree"}
  BY DEF Shows, InFront, Lists
<1> DEFINE list == IF "ptree" \in shown THEN "ptree" ELSE IF "ulist" \in shown THEN "ulist" ELSE "none"
           help == IF "help" \in W THEN cur_hlp ELSE screen.help
           root == IF "ptree" \in W THEN tree_root ELSE screen.root
           owner == IF "ptree" \in W THEN show_owner ELSE screen.owner
           details == IF "exti" \notin shown THEN D!NoDetails
                      ELSE IF "exti" \in W THEN Details ELSE screen.details
<1>3. screen' = [screen EXCEPT !.key = k, !.list = list, !.help = help, !.counts = info',
                   !.user = crsr["ulist"], !.proc = crsr["ptree"], !.root = root,
                   !.owner = owner, !.box = "input" \in shown, !.details = details]
  BY DEF Redrawn, Refresh, Types, D!Views
<1>4. list = l
  BY <1>2
<1>5. help = l
  BY <1>2 DEF Redrawn, Redrawable
<1>6. root = tree_root /\ owner = show_owner
  BY <1>2 DEF Redrawn, Redrawable
<1>7. details = DetailsOf(Now(l, k), about)
  <2>1. CASE about = "none"
    BY <1>1, <2>1 DEF DetailsOf
  <2>2. CASE about = "s"
    <3>1. Details = [of |-> "esys", line |-> 0]
      BY <1>1, <2>2 DEF Details
    <3>2. "exti" \notin flagged => screen.details = [of |-> "esys", line |-> 0]
      BY <1>1, <2>2, ScreenDetails DEF DetailsOf
    <3>3. "exti" \in flagged => "exti" \in W
      BY <1>1, <2>2 DEF Redrawn, Redrawable
    <3> QED BY <1>1, <2>2, <3>1, <3>2, <3>3 DEF DetailsOf
  <2>3. CASE about = "d"
    <3>1. Asked = l
      BY <1>2 DEF Asked
    <3>2. D!Cursor(Now(l, k)) = crsr[l] /\ Now(l, k).list = l
      BY <1>2, NowFields DEF D!Cursor
    <3>3. Details = [of |-> l, line |-> crsr[l]]
      BY <1>1, <1>2, <2>3, <3>1 DEF Details
    <3>4. "exti" \in W
      BY <1>1, <2>3 DEF Redrawn, Redrawable
    <3> QED BY <1>1, <2>3, <3>2, <3>3, <3>4 DEF DetailsOf
  <2> QED BY <1>1, <2>1, <2>2, <2>3
<1>8. info' = (l = "ptree")
  BY <1>2 DEF Redrawn
<1> HIDE DEF list, help, root, owner, details
<1>9. screen' = [Now(l, k) EXCEPT !.details = DetailsOf(Now(l, k), about)]
  <2> DEFINE d == DetailsOf(Now(l, k), about)
  <2>1. screen' = [screen EXCEPT !.key = k, !.list = l, !.help = l, !.counts = (l = "ptree"),
                   !.user = crsr["ulist"], !.proc = crsr["ptree"], !.root = tree_root,
                   !.owner = show_owner, !.box = "input" \in shown, !.details = d]
    BY <1>3, <1>4, <1>5, <1>6, <1>7, <1>8
  <2> HIDE DEF d
  <2>2. screen' = [Now(l, k) EXCEPT !.details = d]
    BY <2>1 DEF Now, Types, D!Views
  <2> QED BY <2>2 DEF d
<1> QED BY <1>1, <1>9, DetailedIs

\* Then all is as it was between two keys.
LEMMA RedrawnSteady ==
  ASSUME Types, WellDrawn, NEW l \in Lists, Shows(l), NEW about, DetailsDue(about),
         NEW k \in Key \cup {"none"}, NEW W, Redrawn(W, k)
  PROVE  /\ screen' \in D!Views /\ screen'.key = k
         /\ WellDrawn' /\ Steady' /\ DetailsDue(About)' /\ Box(screen.box)'
<1>1. screen' = D!Detailed(Now(l, k), about) /\ about \in {"d", "s", "none"}
  BY RedrawnAll DEF DetailsDue
<1> DEFINE n == Now(l, k)
<1>2. /\ n \in D!Views /\ n.on = screen.on /\ n.key = k /\ n.list = l /\ n.help = l
      /\ n.counts = (l = "ptree") /\ n.user = crsr["ulist"] /\ n.proc = crsr["ptree"]
      /\ n.root = tree_root /\ n.owner = show_owner /\ n.box = ("input" \in shown)
  BY NowFields
<1> DEFINE d == DetailsOf(n, about)
<1>3. screen' = [n EXCEPT !.details = d]
  BY <1>1, DetailedIs
<1>4. screen' \in D!Views /\ D!About(screen') = about
  BY <1>1, <1>2, DetailsTyped, AboutDetailed
<1> HIDE DEF n, d
<1>5. /\ screen'.on = screen.on /\ screen'.key = k /\ screen'.list = l /\ screen'.help = l
      /\ screen'.counts = (l = "ptree") /\ screen'.user = crsr["ulist"]
      /\ screen'.proc = crsr["ptree"] /\ screen'.root = tree_root
      /\ screen'.owner = show_owner /\ screen'.box = ("input" \in shown)
  BY <1>2, <1>3 DEF D!Views
<1>6. About' = about
  BY <1>4 DEF About
<1>7. WellDrawn'
  <2>1. DetailsOf(screen', about) = d
    BY <1>2, <1>5 DEF DetailsOf, D!Cursor, d
  <2>2. screen' = [screen' EXCEPT !.details = d]
    BY <1>2, <1>3 DEF D!Views
  <2>3. D!Detailed(screen', about) = [screen' EXCEPT !.details = DetailsOf(screen', about)]
    BY <1>1, DetailedIs
  <2>4. screen' = D!Detailed(screen', about)
    BY <2>1, <2>2, <2>3
  <2> QED BY <1>5, <1>6, <2>4 DEF WellDrawn
<1>8. Steady'
  <2>1. Shows(l)'
    <3>1. l = "ptree" => pkey.ptree = "t" <=> tree_root = AllTree
      BY DEF Shows, InFront
    <3> QED BY <1>5, <3>1 DEF Shows, InFront, Redrawn, extiVars
  <2>2. Cursors(screen.user, screen.proc)' /\ TreeIs(screen.root, screen.owner)'
    BY <1>5 DEF Redrawn, Cursors, TreeIs
  <2> QED BY <1>5, <2>1, <2>2 DEF Steady
<1>9. DetailsDue(About)'
  <2>1. "exti" \in shown /\ about = "d" => "exti" \in W /\ cur_ds = "d"
    BY DEF Redrawn, Redrawable, DetailsDue
  <2> QED BY <1>6, <2>1 DEF DetailsDue, Redrawn, extiVars, StillFlagged
<1>10. Box(screen.box)'
  BY <1>5 DEF Redrawn, Box
<1> QED BY <1>4, <1>5, <1>7, <1>8, <1>9, <1>10

\* What the widgets show is what Display says, if it is a view that becomes...
LEMMA BecomesNow ==
  ASSUME Types, WellDrawn, NEW l \in Lists, Shows(l), DetailsDue(About),
         NEW k \in Key \cup {"none"}, NEW W, Redrawn(W, k),
         NEW v \in D!Views, v.on = screen.on, v.key = k, v.list = l,
         Cursors(v.user, v.proc), TreeIs(v.root, v.owner), Box(v.box),
         v.details = screen.details
  PROVE  D!Becomes(v)
<1> DEFINE counts == v.list = "ptree"
           u == [v EXCEPT !.help = v.list, !.counts = counts]
<1>1. counts \in BOOLEAN
  OBVIOUS
<1>2. /\ v.list \in {"ulist", "ptree"} /\ v.box \in BOOLEAN
      /\ l = v.list
  BY DEF D!Views
<1> HIDE DEF counts
<1>3. /\ u \in D!Views /\ u.on = v.on /\ u.key = v.key /\ u.list = v.list
      /\ u.help = v.list /\ u.counts = counts /\ u.user = v.user /\ u.proc = v.proc
      /\ u.root = v.root /\ u.owner = v.owner /\ u.box = v.box /\ u.details = v.details
  BY <1>1, <1>2 DEF D!Views
<1> HIDE DEF u
<1>4. u = Now(l, k)
  <2>1. counts = (l = "ptree") /\ v.box = ("input" \in shown)
    BY <1>2 DEF counts, Box
  <2>2. /\ v.user = crsr["ulist"] /\ v.proc = crsr["ptree"] /\ v.root = tree_root
        /\ v.owner = show_owner
    BY DEF Cursors, TreeIs
  <2> DEFINE n == Now(l, k)
  <2>3. /\ n \in D!Views /\ n.on = screen.on /\ n.key = k /\ n.list = l /\ n.help = l
        /\ n.counts = (l = "ptree") /\ n.user = crsr["ulist"] /\ n.proc = crsr["ptree"]
        /\ n.root = tree_root /\ n.owner = show_owner /\ n.box = ("input" \in shown)
        /\ n.details = screen.details
    BY NowFields
  <2> HIDE DEF n
  <2>4. u = n
    BY <1>2, <1>3, <2>1, <2>2, <2>3, SameView
  <2> QED BY <2>4 DEF n
<1>5. screen' = D!Detailed(u, About)
  BY <1>4, RedrawnAll
<1> QED BY <1>5 DEF D!Becomes, About, u, counts

\* ... or the same one with other details.
LEMMA OnlyDetails ==
  ASSUME Types, WellDrawn, Steady, Box(screen.box), NEW about, DetailsDue(about),
         NEW k \in Key \cup {"none"}, NEW W, Redrawn(W, k)
  PROVE  screen' = D!Detailed([screen EXCEPT !.key = k], about)
<1> DEFINE l == screen.list
           v == [screen EXCEPT !.key = k]
<1>1. screen \in D!Views /\ l \in Lists /\ k \in D!Key \cup {"none"} /\ screen.box \in BOOLEAN
  BY DEF Types, D!Views, Lists, Key
<1>2. /\ v \in D!Views /\ v.on = screen.on /\ v.key = k /\ v.list = l
      /\ v.help = screen.help /\ v.counts = screen.counts /\ v.user = screen.user
      /\ v.proc = screen.proc /\ v.root = screen.root /\ v.owner = screen.owner
      /\ v.box = screen.box /\ v.details = screen.details
  BY <1>1 DEF D!Views
<1>3. Shows(l)
  BY DEF Steady
<1>4. /\ screen.user = crsr["ulist"] /\ screen.proc = crsr["ptree"]
      /\ screen.root = tree_root /\ screen.owner = show_owner
      /\ screen.box = ("input" \in shown) /\ screen.help = l
      /\ screen.counts = (l = "ptree")
  BY <1>1 DEF Steady, Cursors, TreeIs, Box, WellDrawn
<1> DEFINE n == Now(l, k)
<1>5. /\ n \in D!Views /\ n.on = screen.on /\ n.key = k /\ n.list = l /\ n.help = l
      /\ n.counts = (l = "ptree") /\ n.user = crsr["ulist"] /\ n.proc = crsr["ptree"]
      /\ n.root = tree_root /\ n.owner = show_owner /\ n.box = ("input" \in shown)
      /\ n.details = screen.details
  BY <1>1, NowFields
<1>6. screen' = D!Detailed(n, about)
  BY <1>1, <1>3, RedrawnAll
<1> HIDE DEF n, v, l
<1>7. v = n
  BY <1>2, <1>4, <1>5, SameView
<1> QED BY <1>6, <1>7 DEF v

\* A view that differs from the screen as a key of Display says
LEMMA Fields ==
  ASSUME Types, NEW k \in Key, NEW n \in Line
  PROVE  LET s == [screen EXCEPT !.key = k]
             v == D!Select(s, n)
         IN  /\ v \in D!Views /\ v.on = screen.on /\ v.key = k /\ v.list = screen.list
             /\ v.user = (IF screen.list = "ulist" THEN n ELSE screen.user)
             /\ v.proc = (IF screen.list = "ulist" THEN screen.proc ELSE n)
             /\ v.root = screen.root /\ v.owner = screen.owner /\ v.box = screen.box
             /\ v.details = screen.details
<1> DEFINE s == [screen EXCEPT !.key = k]
<1>1. /\ s \in D!Views /\ s.on = screen.on /\ s.key = k /\ s.list = screen.list
      /\ s.user = screen.user /\ s.proc = screen.proc
      /\ s.root = screen.root /\ s.owner = screen.owner /\ s.box = screen.box
      /\ s.details = screen.details
  BY DEF Types, D!Views, Key
<1> HIDE DEF s
<1>2. CASE s.list = "ulist"
  <2>1. D!Select(s, n) = [s EXCEPT !.user = n]
    BY <1>2 DEF D!Select
  <2> QED BY <1>1, <1>2, <2>1 DEF D!Views, Line, s
<1>3. CASE s.list # "ulist"
  <2>1. D!Select(s, n) = [s EXCEPT !.proc = n]
    BY <1>3 DEF D!Select
  <2> QED BY <1>1, <1>3, <2>1 DEF D!Views, Line, s
<1> QED BY <1>2, <1>3

\* The redraw after a key is the step of Display for this key.
LEMMA KeyShown ==
  ASSUME Types, AtRedraw, NEW W, Redrawn(W, key)
  PROVE  D!Next
<1>1. key \in Key /\ WellDrawn /\ screen.on = TRUE /\ About \in {"d", "s", "none"}
  BY AboutKnown DEF AtRedraw, WellDrawn, Types, D!Views
<1>2. /\ key \in D!Key /\ screen.list \in Lists /\ screen \in D!Views
      /\ screen.box \in BOOLEAN /\ screen.user \in Line /\ screen.proc \in Line
      /\ screen.owner \in BOOLEAN
  BY <1>1 DEF Types, D!Views, Lists, Line, Key
<1> DEFINE s == [screen EXCEPT !.key = key]
<1>3. /\ s \in D!Views /\ s.on = screen.on /\ s.key = key /\ s.list = screen.list
      /\ s.user = screen.user /\ s.proc = screen.proc /\ s.root = screen.root
      /\ s.owner = screen.owner /\ s.box = screen.box /\ s.details = screen.details
  BY <1>2 DEF D!Views
<1>4. ASSUME D!Search(key) \/ D!CloseBox(key) \/ D!OpenBox(key) \/ D!Move(key)
             \/ D!ShowAll(key) \/ D!ShowTree(key) \/ D!ShowUsers(key) \/ D!ShowOwner(key)
             \/ D!ShowDetails(key) \/ D!CloseDetails(key) \/ D!Ignore(key)
      PROVE  D!Next
  BY <1>1, <1>2, <1>4 DEF D!Next
<1>5. CASE Searched /\ DetailsDue(About)
  <2>1. /\ screen.box /\ key \in D!Ascii \cup {"Enter", "Backspace"}
        /\ Shows(screen.list) /\ TreeIs(screen.root, screen.owner) /\ Box(screen.box)
    BY <1>5 DEF Searched, Ascii
  <2>2. PICK n \in Line : (key = "Backspace" => n = D!Cursor(screen)) /\ Selected(n)
    BY <1>5 DEF Searched
  <2> DEFINE v == D!Select(s, n)
  <2>3. /\ v \in D!Views /\ v.on = screen.on /\ v.key = key /\ v.list = screen.list
        /\ v.user = (IF screen.list = "ulist" THEN n ELSE screen.user)
        /\ v.proc = (IF screen.list = "ulist" THEN screen.proc ELSE n)
        /\ v.root = screen.root /\ v.owner = screen.owner /\ v.box = screen.box
        /\ v.details = screen.details
    BY <1>1, Fields
  <2> HIDE DEF v, s
  <2>4. Cursors(v.user, v.proc) /\ TreeIs(v.root, v.owner) /\ Box(v.box)
    BY <2>1, <2>2, <2>3 DEF Selected, Cursors
  <2>5. D!Becomes(v)
    BY <1>1, <1>2, <1>5, <2>1, <2>3, <2>4, BecomesNow
  <2>6. D!Search(key)
    BY <2>1, <2>2, <2>5 DEF D!Search, v, s, Line
  <2> QED BY <1>4, <2>6
<1>6. CASE BoxDone /\ DetailsDue(About)
  <2>1. /\ IF screen.box THEN key = "Esc" ELSE key = "/"
        /\ Shows(screen.list) /\ Cursors(screen.user, screen.proc)
        /\ TreeIs(screen.root, screen.owner) /\ Box(~screen.box)
    BY <1>6 DEF BoxDone, Steady
  <2> DEFINE b == ~screen.box
             v == [screen EXCEPT !.key = key, !.box = b]
  <2>2. b \in BOOLEAN
    OBVIOUS
  <2> HIDE DEF b
  <2>3. /\ v \in D!Views /\ v.on = screen.on /\ v.key = key /\ v.list = screen.list
        /\ v.user = screen.user /\ v.proc = screen.proc /\ v.root = screen.root
        /\ v.owner = screen.owner /\ v.box = b /\ v.details = screen.details
    BY <1>2, <2>2 DEF D!Views
  <2>4. Box(b)
    BY <2>1 DEF b
  <2> HIDE DEF v
  <2>5. Cursors(v.user, v.proc) /\ TreeIs(v.root, v.owner) /\ Box(v.box)
    BY <2>1, <2>3, <2>4
  <2>6. D!Becomes(v)
    BY <1>1, <1>2, <1>6, <2>1, <2>3, <2>5, BecomesNow
  <2>7. CASE screen.box
    <3>1. b = FALSE
      BY <2>7 DEF b
    <3>2. v = [screen EXCEPT !.key = key, !.box = FALSE]
      BY <3>1 DEF v
    <3> QED BY <1>4, <2>1, <2>6, <2>7, <3>2 DEF D!CloseBox
  <2>8. CASE ~screen.box
    <3>1. b = TRUE
      BY <2>8 DEF b
    <3>2. v = [screen EXCEPT !.key = key, !.box = TRUE]
      BY <3>1 DEF v
    <3> QED BY <1>4, <2>1, <2>6, <2>8, <3>2 DEF D!OpenBox
  <2> QED BY <2>7, <2>8
<1>7. CASE Closed /\ DetailsDue("none")
  <2>1. ~screen.box /\ key = "Esc" /\ About # "none" /\ Steady /\ Box(screen.box)
    BY <1>7 DEF Closed
  <2>2. screen' = D!Detailed(s, "none")
    BY <1>1, <1>7, <2>1, OnlyDetails
  <2> QED BY <1>4, <2>1, <2>2 DEF D!CloseDetails, About
<1>8. ASSUME Passed, key \notin {"q", "Esc"}, Box(screen.box), ListsDone, DetailsDue(Wanted)
      PROVE  D!Next
  <2>1. key \notin {"d", "s"} => DetailsDue(About)
    BY <1>8 DEF Wanted
  <2>2. key \notin {"Up", "Down"} => ~screen.box /\ key # "/"
    BY <1>8 DEF Passed
  <2>3. CASE Moved
    <3> DEFINE m == D!Cursor(screen)
               to == IF key = "Up" THEN m - 1 ELSE m + 1
               n == IF to \in Line THEN to ELSE m
               v == D!Select(s, n)
    <3>1. n \in Line
      BY <1>2 DEF D!Cursor
    <3>2. /\ key \in {"Up", "Down"} /\ Shows(screen.list) /\ TreeIs(screen.root, screen.owner)
          /\ Selected(n)
      BY <2>3 DEF Moved
    <3> HIDE DEF n
    <3>3. /\ v \in D!Views /\ v.on = screen.on /\ v.key = key /\ v.list = screen.list
          /\ v.user = (IF screen.list = "ulist" THEN n ELSE screen.user)
          /\ v.proc = (IF screen.list = "ulist" THEN screen.proc ELSE n)
          /\ v.root = screen.root /\ v.owner = screen.owner /\ v.box = screen.box
          /\ v.details = screen.details
      BY <1>1, <3>1, Fields
    <3> HIDE DEF v, s
    <3>4. Cursors(v.user, v.proc) /\ TreeIs(v.root, v.owner) /\ Box(v.box)
      BY <1>8, <3>2, <3>3 DEF Selected, Cursors
    <3>5. D!Becomes(v)
      BY <1>1, <1>2, <2>1, <3>2, <3>3, <3>4, BecomesNow
    <3>6. D!Move(key)
      BY <3>2, <3>5 DEF D!Move, v, s, n, Line
    <3> QED BY <1>4, <3>6
  <2>4. CASE AllShown
    <3>1. /\ key = "t" /\ Shows("ptree") /\ TreeIs(AllTree, screen.owner)
      BY <2>4 DEF AllShown
    <3>2. PICK n \in Line :
            /\ Cursors(screen.user, n)
            /\ screen.list = "ulist" => n = 0
            /\ screen.list = "ptree" /\ screen.root = AllTree => n = screen.proc
      BY <2>4 DEF AllShown
    <3> DEFINE v == [screen EXCEPT !.key = key, !.list = "ptree", !.root = AllTree, !.proc = n]
    <3>3. /\ v \in D!Views /\ v.on = screen.on /\ v.key = key /\ v.list = "ptree"
          /\ v.user = screen.user /\ v.proc = n /\ v.root = AllTree
          /\ v.owner = screen.owner /\ v.box = screen.box /\ v.details = screen.details
      BY <1>2 DEF D!Views, Line, AllTree
    <3> HIDE DEF v
    <3>4. Cursors(v.user, v.proc) /\ TreeIs(v.root, v.owner) /\ Box(v.box)
      BY <1>8, <3>1, <3>2, <3>3
    <3>5. D!Becomes(v)
      BY <1>1, <1>2, <2>1, <3>1, <3>3, <3>4, BecomesNow DEF Lists
    <3>6. D!ShowAll(key)
      BY <2>2, <3>1, <3>2, <3>5 DEF D!ShowAll, v, Line, AllTree
    <3> QED BY <1>4, <3>6
  <2>5. CASE TreeShown
    <3>1. /\ key = "Enter" /\ screen.list = "ulist"
          /\ Shows("ptree") /\ TreeIs(screen.user, screen.owner) /\ Cursors(screen.user, 0)
      BY <2>5 DEF TreeShown
    <3> DEFINE v == [screen EXCEPT !.key = key, !.list = "ptree", !.root = screen.user, !.proc = 0]
    <3>2. /\ v \in D!Views /\ v.on = screen.on /\ v.key = key /\ v.list = "ptree"
          /\ v.user = screen.user /\ v.proc = 0 /\ v.root = screen.user
          /\ v.owner = screen.owner /\ v.box = screen.box /\ v.details = screen.details
      <4>1. 0 \in D!Line
        BY LastAssumption DEF D!Line
      <4> QED BY <1>2, <4>1 DEF D!Views, Line
    <3> HIDE DEF v
    <3>3. Cursors(v.user, v.proc) /\ TreeIs(v.root, v.owner) /\ Box(v.box)
      BY <1>8, <3>1, <3>2
    <3>4. D!Becomes(v)
      BY <1>1, <1>2, <2>1, <3>1, <3>2, <3>3, BecomesNow DEF Lists
    <3>5. D!ShowTree(key)
      BY <2>2, <3>1, <3>4 DEF D!ShowTree, v
    <3> QED BY <1>4, <3>5
  <2>6. CASE UsersShown
    <3>1. /\ key = "Enter" /\ screen.list = "ptree"
          /\ Shows("ulist") /\ TreeIs(screen.root, screen.owner)
          /\ Cursors(screen.user, screen.proc)
      BY <2>6 DEF UsersShown
    <3> DEFINE v == [screen EXCEPT !.key = key, !.list = "ulist"]
    <3>2. /\ v \in D!Views /\ v.on = screen.on /\ v.key = key /\ v.list = "ulist"
          /\ v.user = screen.user /\ v.proc = screen.proc /\ v.root = screen.root
          /\ v.owner = screen.owner /\ v.box = screen.box /\ v.details = screen.details
      BY <1>2 DEF D!Views
    <3> HIDE DEF v
    <3>3. Cursors(v.user, v.proc) /\ TreeIs(v.root, v.owner) /\ Box(v.box)
      BY <1>8, <3>1, <3>2
    <3>4. D!Becomes(v)
      BY <1>1, <1>2, <2>1, <3>1, <3>2, <3>3, BecomesNow DEF Lists
    <3>5. D!ShowUsers(key)
      BY <2>2, <3>1, <3>4 DEF D!ShowUsers, v
    <3> QED BY <1>4, <3>5
  <2>7. CASE OwnerShown
    <3> DEFINE o == IF screen.list = "ptree" THEN ~screen.owner ELSE screen.owner
    <3>1. /\ key = "o" /\ Shows(screen.list) /\ Cursors(screen.user, screen.proc)
          /\ TreeIs(screen.root, o) /\ o \in BOOLEAN
      BY <1>2, <2>7 DEF OwnerShown
    <3> HIDE DEF o
    <3> DEFINE v == [screen EXCEPT !.key = key, !.owner = o]
    <3>2. /\ v \in D!Views /\ v.on = screen.on /\ v.key = key /\ v.list = screen.list
          /\ v.user = screen.user /\ v.proc = screen.proc /\ v.root = screen.root
          /\ v.owner = o /\ v.box = screen.box /\ v.details = screen.details
      BY <1>2, <3>1 DEF D!Views
    <3>3. v = [screen EXCEPT !.key = key,
                             !.owner = IF screen.list = "ptree" THEN ~@ ELSE @]
      BY <1>2 DEF v, o, D!Views
    <3> HIDE DEF v
    <3>4. Cursors(v.user, v.proc) /\ TreeIs(v.root, v.owner) /\ Box(v.box)
      BY <1>8, <3>1, <3>2
    <3>5. D!Becomes(v)
      BY <1>1, <1>2, <2>1, <3>1, <3>2, <3>4, BecomesNow
    <3>6. D!ShowOwner(key)
      BY <2>2, <3>1, <3>3, <3>5 DEF D!ShowOwner
    <3> QED BY <1>4, <3>6
  <2>8. CASE NoMatter
    <3>1. Steady /\ key \notin {"Up", "Down", "t", "Enter", "o"}
      BY <2>8 DEF NoMatter
    <3>2. Wanted \in {"d", "s", "none"}
      BY <1>1 DEF Wanted
    <3>3. screen' = D!Detailed(s, Wanted)
      <4>1. PICK about : about = Wanted
        OBVIOUS
      <4> QED BY <1>1, <1>8, <3>1, <4>1, OnlyDetails
    <3>4. CASE key \in {"d", "s"}
      <4>1. Wanted = IF About = key THEN "none" ELSE key
        BY <3>4 DEF Wanted
      <4> QED BY <1>4, <2>2, <3>3, <3>4, <4>1 DEF D!ShowDetails, About
    <3>5. CASE key \notin {"d", "s"}
      <4>1. Wanted = About /\ key \in {"x", "Backspace"}
        BY <1>2, <1>8, <2>2, <3>1, <3>5 DEF Wanted, D!Key, D!Ascii
      <4>2. D!Detailed(s, About) = [s EXCEPT !.details = DetailsOf(s, About)]
        BY <1>1, DetailedIs
      <4>3. DetailsOf(s, About) = s.details
        BY <1>1, <1>3, ScreenDetails DEF DetailsOf, D!Cursor
      <4>4. screen' = s
        BY <1>3, <3>3, <4>1, <4>2, <4>3 DEF D!Views
      <4> QED BY <1>4, <2>2, <3>1, <4>1, <4>4 DEF D!Ignore
    <3> QED BY <3>4, <3>5
  <2> QED BY <1>8, <2>3, <2>4, <2>5, <2>6, <2>7, <2>8 DEF ListsDone
<1> QED BY <1>5, <1>6, <1>7, <1>8 DEF AtRedraw

\* Which list is in front and what the details are to be about, at a redraw
LEMMA FrontKnown ==
  ASSUME Types, AtRedraw
  PROVE  \E l \in Lists : \E about : Shows(l) /\ DetailsDue(about)
<1>1. screen.list \in Lists /\ "ulist" \in Lists /\ "ptree" \in Lists
  BY DEF Types, D!Views, Lists
<1>2. DetailsDue(About) \/ DetailsDue("none") \/ DetailsDue(Wanted)
  BY DEF AtRedraw
<1>3. Shows(screen.list) \/ Shows("ulist") \/ Shows("ptree")
  BY DEF AtRedraw, Searched, BoxDone, Closed, ListsDone, Moved, AllShown, TreeShown,
     UsersShown, OwnerShown, NoMatter, Steady
<1> QED BY <1>1, <1>2, <1>3

LEMMA RedrawSteps ==
  ASSUME Types, AtRedraw, Redraw
  PROVE  Types' /\ Waiting' /\ D!Next
<1> DEFINE W == flagged \cap Redrawable
<1>1. Redrawn(W, key)
  BY DEF Redraw, Redrawn, treeVars, infoVars
<1> HIDE DEF W
<1>2. PICK l \in Lists : \E about : Shows(l) /\ DetailsDue(about)
  BY FrontKnown
<1>3. PICK about : Shows(l) /\ DetailsDue(about)
  BY <1>2
<1>4. WellDrawn /\ key \in Key
  BY DEF AtRedraw
<1>5. /\ screen' \in D!Views /\ WellDrawn' /\ Steady' /\ DetailsDue(About)'
      /\ Box(screen.box)'
  BY <1>1, <1>3, <1>4, RedrawnSteady
<1>6. Types'
  BY <1>5 DEF Redraw, Types, treeVars, boxVars
<1> QED BY <1>1, <1>5, <1>6, KeyShown DEF Waiting, Redraw

\* The redraw of main_periodic() changes nothing.
LEMMA TickSteps ==
  ASSUME Types, Waiting, Tick
  PROVE  Types' /\ Waiting' /\ screen' = screen
<1>1. WellDrawn /\ Steady /\ DetailsDue(About) /\ Box(screen.box)
  BY DEF Waiting
<1>2. screen.list \in Lists /\ screen \in D!Views /\ screen.key \in Key \cup {"none"}
  BY DEF Types, D!Views, Lists, Key
<1>3. Shows(screen.list) /\ periodic = info
  BY <1>1 DEF Steady, Shows, InFront
<1>4. Redrawn(Redrawable, screen.key)
  BY <1>3 DEF Tick, Redrawn, infopr, SendInfo
<1>5. /\ screen' \in D!Views /\ WellDrawn' /\ Steady' /\ DetailsDue(About)'
      /\ Box(screen.box)'
  BY <1>1, <1>2, <1>3, <1>4, RedrawnSteady
<1>6. screen' = screen
  <2>1. screen' = D!Detailed([screen EXCEPT !.key = screen.key], About)
    BY <1>1, <1>2, <1>4, OnlyDetails
  <2>2. screen = [screen EXCEPT !.key = screen.key]
    BY <1>2 DEF D!Views
  <2> QED BY <1>1, <2>1, <2>2 DEF WellDrawn
<1>7. Types'
  BY <1>5 DEF Tick, Types
<1> QED BY <1>5, <1>6, <1>7 DEF Waiting, Tick

-----------------------------------------------------------------------------
(* The other steps, and the theorems                                       *)

LEMMA PressSteps ==
  ASSUME Types, Waiting, NEW k \in Key, PressKey(k)
  PROVE  Types' /\ AtInput' /\ screen' = screen
<1>1. /\ WellDrawn /\ Steady /\ DetailsDue(About) /\ Box(screen.box)
  BY DEF Waiting
<1>2. /\ pc' = "keys" /\ key' = k /\ todo' = KeyOrder /\ screen' = screen
      /\ UNCHANGED <<shown, flagged, crsr, treeVars, extiVars, pkey, cur_hlp>>
      /\ hits' = hits \/ hits' = {}
  BY DEF PressKey
<1>3. Types'
  BY <1>2 DEF Types, treeVars
<1>4. Steady'
  BY <1>1, <1>2, ListsKept DEF ListsAlone, extiVars
<1>5. DetailsDue(About)' /\ WellDrawn' /\ Box(screen.box)'
  <2>1. About' = About /\ WellDrawn' /\ cur_ds' = cur_ds
    BY <1>1, <1>2, SameScreen DEF extiVars
  <2>2. PICK about : about = About
    OBVIOUS
  <2>3. DetailsDue(about)'
    BY <1>1, <1>2, <2>1, <2>2, DetailsKept
  <2> QED BY <1>1, <1>2, <2>1, <2>2, <2>3 DEF Box
<1> QED BY <1>2, <1>3, <1>4, <1>5 DEF AtInput, Pressed

LEMMA UnfinalSteps ==
  ASSUME Types, AtEnd, KeyUnfinal
  PROVE  Types' /\ ((AtRedraw' /\ screen' = screen) \/ (pc' = "done" /\ D!Next))
<1>1. /\ key \in Key /\ WellDrawn /\ Passed /\ Box(screen.box) /\ ListsDone
      /\ DetailsDue(Wanted) /\ (key = "Esc" => About = "none")
  BY DEF AtEnd, Left, Pressed
<1>2. /\ UNCHANGED <<shown, flagged, crsr, treeVars, extiVars, pkey, cur_hlp>>
      /\ key' = key /\ hits' = hits
  BY DEF KeyUnfinal, boxVars
<1>3. CASE key \in {"q", "Esc"}
  <2>1. pc' = "done" /\ screen' = [screen EXCEPT !.on = FALSE]
    BY <1>3 DEF KeyUnfinal
  <2>2. screen' \in D!Views
    BY <2>1 DEF Types, D!Views
  <2>3. Types'
    BY <1>2, <2>2 DEF Types, treeVars
  <2>4. ~screen.box
    BY <1>1, <1>3 DEF Passed
  <2>5. D!Quit(key)
    BY <1>1, <1>3, <2>1, <2>4 DEF D!Quit, About
  <2>6. screen.on /\ key \in D!Key
    BY <1>1 DEF WellDrawn, Key
  <2> QED BY <2>1, <2>3, <2>5, <2>6 DEF D!Next
<1>4. CASE key \notin {"q", "Esc"}
  <2>1. pc' = "redraw" /\ screen' = screen
    BY <1>4 DEF KeyUnfinal
  <2>2. About' = About /\ Wanted' = Wanted /\ Passed' = Passed /\ WellDrawn'
    BY <1>1, <1>2, <2>1, SameScreen
  <2>3. Types'
    BY <1>2, <2>1 DEF Types, treeVars
  <2>4. PICK about : about = Wanted
    OBVIOUS
  <2>5. DetailsDue(about)'
    BY <1>1, <1>2, <2>1, <2>4, DetailsKept DEF extiVars
  <2>6. ListsDone'
    <3>1. /\ crsr' = crsr /\ shown' = shown /\ flagged' = flagged /\ tree_root' = tree_root
          /\ show_owner' = show_owner /\ answers' = answers /\ periodic' = periodic
          /\ info' = info /\ mainw' = mainw /\ cur_hlp' = cur_hlp /\ pkey' = pkey
      BY <1>2 DEF treeVars, infoVars, extiVars
    <3> QED BY <1>1, <1>2, <2>1, <3>1
         DEF ListsDone, Moved, AllShown, TreeShown, UsersShown, OwnerShown, NoMatter, Steady,
             Shows, InFront, Cursors, TreeIs, Selected, D!Cursor, Line, AllTree
  <2>7. Box(screen.box)'
    BY <1>1, <1>2, <2>1 DEF Box
  <2> QED BY <1>1, <1>2, <1>4, <2>1, <2>2, <2>3, <2>4, <2>5, <2>6, <2>7 DEF AtRedraw
<1> QED BY <1>3, <1>4

LEMMA KeyInvInit == Init => KeyInv /\ D!Init
<1> SUFFICES ASSUME Init PROVE KeyInv
  BY DEF Init
<1>1. 0 \in Line /\ 0 \in D!Line
  BY LastAssumption DEF Line, D!Line
<1>2. /\ screen = [on |-> TRUE, key |-> "none", list |-> "ulist", help |-> "ulist",
          counts |-> FALSE, user |-> 0, proc |-> 0, root |-> AllTree,
          owner |-> FALSE, box |-> FALSE, details |-> D!NoDetails]
  BY DEF Init, D!Init, AllTree
<1>3. screen \in D!Views
  BY <1>1, <1>2 DEF D!Views, D!NoDetails, AllTree
<1>4. Types
  BY <1>1, <1>3 DEF Init, Types, AllTree
<1>5. About = "none"
  BY <1>2 DEF About, D!About, D!NoDetails
<1>6. WellDrawn
  <2>1. D!Detailed(screen, About) = [screen EXCEPT !.details = D!NoDetails]
    BY <1>5, DetailedIs DEF DetailsOf
  <2>2. screen = [screen EXCEPT !.details = D!NoDetails]
    <3>1. screen.details = D!NoDetails
      BY <1>2
    <3> QED BY <1>3, <3>1 DEF D!Views
  <2> QED BY <1>2, <2>1, <2>2 DEF WellDrawn
<1>7. Steady
  <2>1. crsr["ulist"] = 0 /\ crsr["ptree"] = 0
    BY DEF Init, Lists
  <2> QED BY <1>2, <2>1 DEF Init, Steady, Shows, InFront, Cursors, TreeIs
<1>8. DetailsDue(About) /\ Box(screen.box)
  BY <1>2, <1>5 DEF Init, DetailsDue, Box
<1> QED BY <1>4, <1>6, <1>7, <1>8 DEF Init, KeyInv, Waiting

\* Every step keeps the invariant, and is one of Display or leaves the screen.
LEMMA KeyInvNext ==
  ASSUME KeyInv, [Next]_vars
  PROVE  KeyInv' /\ [D!Next]_screen
<1>1. Types
  BY DEF KeyInv
<1>2. ASSUME NEW k \in Key, PressKey(k) PROVE KeyInv' /\ screen' = screen
  <2>1. Waiting
    BY <1>2, Turn DEF PressKey
  <2> QED BY <1>1, <1>2, <2>1, PressSteps DEF KeyInv
<1>3. CASE Input
  <2>1. AtInput /\ screen' = screen
    BY <1>3, Turn DEF Input, InputOpen, InputClose, InputEnter, InputBackspace, InputChar,
       InputPass
  <2> QED BY <1>1, <1>3, <2>1, InputSteps DEF KeyInv
<1>4. CASE Exti
  <2>1. AtExti /\ screen' = screen
    BY <1>4, Turn DEF Exti, ExtiSwitch, ExtiClose, ExtiPass
  <2> QED BY <1>1, <1>4, <2>1, ExtiSteps DEF KeyInv
<1>5. CASE Tree
  <2>1. AtTree
    BY <1>5, Turn DEF Tree, TreeSwitch, TreeHide, TreeAll, TreeOwner, ListCursor, TreePass
  <2>2. screen' = screen
    BY <1>1, <1>5, ListSteps
  <2> QED BY <1>1, <1>5, <2>1, <2>2, TreeSteps DEF KeyInv
<1>6. CASE Users
  <2>1. AtUsers
    BY <1>6, Turn DEF Users, UsersHide, UsersShow, ListCursor, UsersPass
  <2>2. screen' = screen
    BY <1>1, <1>6, ListSteps
  <2> QED BY <1>1, <1>6, <2>1, <2>2, UsersSteps DEF KeyInv
<1>7. CASE KeyUnfinal
  <2>1. AtEnd
    BY <1>7, Turn DEF KeyUnfinal
  <2> QED BY <1>1, <1>7, <2>1, UnfinalSteps DEF KeyInv
<1>8. CASE Redraw
  <2>1. AtRedraw
    BY <1>8, Turn DEF Redraw
  <2> QED BY <1>1, <1>8, <2>1, RedrawSteps DEF KeyInv
<1>9. CASE Tick
  <2>1. Waiting
    BY <1>9, Turn DEF Tick
  <2> QED BY <1>1, <1>9, <2>1, TickSteps DEF KeyInv
<1>10. CASE UNCHANGED vars
  <2>1. /\ crsr' = crsr /\ shown' = shown /\ flagged' = flagged /\ tree_root' = tree_root
        /\ show_owner' = show_owner /\ answers' = answers /\ periodic' = periodic
        /\ info' = info /\ mainw' = mainw /\ cur_hlp' = cur_hlp /\ pkey' = pkey
        /\ cur_ds' = cur_ds /\ hits' = hits /\ screen' = screen /\ pc' = pc /\ key' = key
        /\ todo' = todo
    BY <1>10 DEF vars, treeVars, infoVars, extiVars, boxVars
  <2>2. /\ About' = About /\ Wanted' = Wanted /\ Passed' = Passed /\ (WellDrawn' <=> WellDrawn)
    BY <2>1, SameScreen
  <2>3. Steady' = Steady
    BY <2>1 DEF Steady, Shows, InFront, Cursors, TreeIs
  <2>4. /\ (DetailsDue(About) => DetailsDue(About)') /\ (DetailsDue(Wanted) => DetailsDue(Wanted)')
        /\ (DetailsDue("none") => DetailsDue("none")')
    BY <2>1, <2>2 DEF DetailsDue
  <2>5. ListsDone => ListsDone'
    BY <2>1
       DEF ListsDone, Moved, AllShown, TreeShown, UsersShown, OwnerShown, NoMatter, Steady,
           Shows, InFront, Cursors, TreeIs, Selected, D!Cursor, Line, AllTree
  <2>6. HalfDone => HalfDone'
    BY <2>1, <2>3, <2>5 DEF HalfDone, InFront, Cursors, TreeIs, AllTree
  <2>7. Searched \/ BoxDone => (Searched \/ BoxDone)'
    BY <2>1, <2>3 DEF Searched, BoxDone, Box, Shows, InFront, Cursors, TreeIs, Selected,
       D!Cursor, Ascii, Line
  <2>8. /\ (Closed => Closed') /\ (Box(screen.box) => Box(screen.box)')
    BY <2>1, <2>2, <2>3 DEF Closed, Box
  <2>9. Types'
    BY <1>1, <2>1 DEF Types
  <2> QED BY <2>1, <2>2, <2>3, <2>4, <2>5, <2>6, <2>7, <2>8, <2>9
       DEF KeyInv, Waiting, AtInput, AtExti, AtTree, AtUsers, AtEnd, AtRedraw, Left, Pressed
<1> QED BY <1>2, <1>3, <1>4, <1>5, <1>6, <1>7, <1>8, <1>9, <1>10 DEF Next

\* What the widgets have done so far on a key, their pointers and flags, agree with
\* each other at every place in its handling.
THEOREM WidgetsAgree == Spec => []KeyInv
<1>1. Init => KeyInv
  BY KeyInvInit
<1>2. KeyInv /\ [Next]_vars => KeyInv'
  BY KeyInvNext
<1> QED BY <1>1, <1>2, PTL DEF Spec

\* The handlers that see a key, the messages between them and the partial redraw
\* make up one step of Display (mwin_keyh(), wmsg_send(), mwin_redraw()).
THEOREM KeysActAsOne == Spec => DisplayKept
<1>1. Init => D!Init
  BY KeyInvInit
<1>2. KeyInv /\ [Next]_vars => [D!Next]_screen
  BY KeyInvNext
<1> QED BY <1>1, <1>2, WidgetsAgree, PTL DEF Spec, DisplayKept, D!Spec

-----------------------------------------------------------------------------
(* The search that is repeated.  The lines it has led to are those of the  *)
(* matching ones that lie between the first of them and the cursor, going  *)
(* down and beginning again from above.                                    *)

Around(f, h, c) ==
  \/ f = h
  \/ \E s \in f : f = {n \in h : s <= n /\ n <= c}
  \/ \E s \in f : c < s /\ f = {n \in h : s <= n \/ n <= c}

SearchInv ==
  /\ found # {} =>
       /\ cx # 0 /\ found \subseteq hits
       /\ "ptree" \in shown => Around(found, hits, crsr["ptree"])
  /\ pc = "keys" /\ found # {} => todo = KeyOrder /\ key = "Enter" /\ "input" \in shown

\* From line c on to line d, the next that matches
LEMMA NextAround ==
  ASSUME NEW h \in SUBSET Line, NEW f \in SUBSET h, f # {}, NEW c \in Line, NEW d \in h,
         Around(f, h, c),
         \/ c < d /\ \A n \in h : c < n => d <= n
         \/ \A n \in h : n <= c /\ d <= n
  PROVE  Around(f \cup {d}, h, d) /\ (f \cup {d} = f => h \subseteq f)
<1>1. c \in Int /\ d \in Int /\ \A n \in h : n \in Int
  BY LastAssumption DEF Line, D!Line
<1> DEFINE g == f \cup {d}
<1>2. d \in g /\ g \subseteq h /\ \A n : n \in g <=> n \in f \/ n = d
  OBVIOUS
<1> HIDE DEF g
<1>3. CASE f = h
  BY <1>2, <1>3 DEF Around, g
<1>4. CASE \E s \in f : f = {n \in h : s <= n /\ n <= c}
  <2>1. PICK s \in f : f = {n \in h : s <= n /\ n <= c}
    BY <1>4
  <2>2. s \in h /\ s \in Int /\ s \in g
    BY <1>1, <1>2, <2>1
  <2>3. CASE c < d /\ \A n \in h : c < n => d <= n
    <3>1. ASSUME NEW n \in h PROVE n \in g <=> s <= n /\ n <= d
      <4>1. (n \in f <=> s <= n /\ n <= c) /\ n \in Int /\ s <= c
        BY <1>1, <2>1
      <4> QED BY <1>1, <1>2, <2>2, <2>3, <4>1
    <3>2. g = {n \in h : s <= n /\ n <= d}
      BY <1>2, <3>1
    <3>3. d \notin f
      BY <1>1, <2>1, <2>3
    <3> QED BY <1>2, <2>2, <3>2, <3>3 DEF Around, g
  <2>4. CASE \A n \in h : n <= c /\ d <= n
    <3>1. CASE d = s
      <4>1. \A n \in h : n \in f
        BY <1>1, <2>1, <2>2, <2>4, <3>1
      <4>2. g = h
        BY <1>2, <4>1
      <4> QED BY <4>1, <4>2 DEF Around, g
    <3>2. CASE d # s
      <4>1. d < s
        BY <1>1, <2>2, <2>4, <3>2
      <4>2. ASSUME NEW n \in h PROVE n \in g <=> s <= n \/ n <= d
        <5>1. (n \in f <=> s <= n /\ n <= c) /\ n \in Int /\ n <= c /\ d <= n
          BY <1>1, <2>1, <2>4
        <5> QED BY <1>1, <1>2, <2>2, <5>1
      <4>3. g = {n \in h : s <= n \/ n <= d}
        BY <1>2, <4>2
      <4>4. d \notin f
        BY <1>1, <2>1, <2>2, <4>1
      <4> QED BY <1>2, <2>2, <4>1, <4>3, <4>4 DEF Around, g
    <3> QED BY <3>1, <3>2
  <2> QED BY <2>3, <2>4
<1>5. CASE \E s \in f : c < s /\ f = {n \in h : s <= n \/ n <= c}
  <2>1. PICK s \in f : c < s /\ f = {n \in h : s <= n \/ n <= c}
    BY <1>5
  <2>2. s \in h /\ s \in Int /\ s \in g
    BY <1>1, <1>2, <2>1
  <2>3. c < d /\ (\A n \in h : c < n => d <= n) /\ d <= s
    BY <1>1, <2>1, <2>2
  <2>4. CASE d = s
    <3>1. \A n \in h : n \in f
      BY <1>1, <2>1, <2>2, <2>3, <2>4
    <3>2. g = h
      BY <1>2, <3>1
    <3> QED BY <3>1, <3>2 DEF Around, g
  <2>5. CASE d # s
    <3>1. d < s
      BY <1>1, <2>2, <2>3, <2>5
    <3>2. ASSUME NEW n \in h PROVE n \in g <=> s <= n \/ n <= d
      <4>1. (n \in f <=> s <= n \/ n <= c) /\ n \in Int /\ (c < n => d <= n)
        BY <1>1, <2>1, <2>3
      <4> QED BY <1>1, <1>2, <2>2, <2>3, <4>1
    <3>3. g = {n \in h : s <= n \/ n <= d}
      BY <1>2, <3>2
    <3>4. d \notin f
      BY <1>1, <2>1, <2>2, <2>3, <3>1
    <3> QED BY <1>2, <2>2, <3>1, <3>3, <3>4 DEF Around, g
  <2> QED BY <2>4, <2>5
<1> QED BY <1>3, <1>4, <1>5 DEF Around

LEMMA AroundOne ==
  ASSUME NEW h, \A n \in h : n \in Int, NEW d \in h, NEW f, f = {d} PROVE Around(f, h, d)
<1>1. f = {n \in h : d <= n /\ n <= d} /\ d \in f
  OBVIOUS
<1> QED BY <1>1, Zenon DEF Around

\* Enter in the search box, with the process list in front
LEMMA EnterLeads ==
  ASSUME Types, AtInput, SearchInv, InputEnter, "ptree" \in shown
  PROVE  /\ found' # {} => found' \subseteq hits' /\ Around(found', hits', crsr'["ptree"])
         /\ found # {} /\ found' = found => hits \subseteq found
<1>1. CASE cx = 0
  <2>1. found = {} /\ found' = found
    BY <1>1 DEF InputEnter, SearchInv
  <2> QED BY <2>1
<1>2. CASE cx # 0
  <2> DEFINE c == crsr["ptree"]
             d == crsr'["ptree"]
             h == hits'
  <2>1. /\ h \in IF found = {} THEN SUBSET Line ELSE {hits}
        /\ ido_search(0)
        /\ found' = IF h = {} THEN {} ELSE found \cup {crsr'[Asked]}
        /\ UNCHANGED <<shown, answers>>
    BY <1>2 DEF InputEnter, treeVars
  <2>2. h \in SUBSET Line /\ c \in Line /\ (found # {} => h = hits)
    BY <2>1 DEF Types, Lists
  <2>3. Asked = "ptree"
    BY FrontAsked DEF AtInput, Steady, Shows, Types, D!Views
  <2>4. SUFFICES ASSUME h # {}
                 PROVE  /\ found' \subseteq h /\ Around(found', h, d)
                        /\ found # {} /\ found' = found => hits \subseteq found
    BY <2>1, <2>2 DEF SearchInv
  <2> DEFINE below == Candidates("ptree", 0)
             to == IF below = {} THEN h ELSE below
  <2>5. below = {n \in h : n > c} /\ Candidates("ptree", 2) = h
    BY DEF Candidates
  <2>6. crsr' = IF to = {} THEN crsr ELSE [crsr EXCEPT !["ptree"] = First("ptree", to)]
    BY <2>1, <2>3, <2>5 DEF ido_search
  <2>7. to # {} /\ to \in SUBSET Line
    BY <2>2, <2>4, <2>5
  <2> HIDE DEF to
  <2>8. d = First("ptree", to)
    BY <2>6, <2>7 DEF Types, Lists
  <2>9. d \in to /\ \A n \in to : d <= n
    BY <2>7, <2>8, FirstIsOne
  <2>10. /\ d \in h
         /\ \/ c < d /\ \A n \in h : c < n => d <= n
            \/ \A n \in h : n <= c /\ d <= n
    <3>1. c \in Int /\ \A n \in h : n \in Int
      BY <2>2, LastAssumption DEF Line, D!Line
    <3> QED BY <2>5, <2>9, <3>1 DEF to
  <2>11. found' = found \cup {d}
    BY <2>1, <2>3, <2>4
  <2> HIDE DEF c, d, h, below
  <2>12. CASE found = {}
    <3>1. d \in Int /\ \A n \in h : n \in Int
      BY <2>2, <2>10, LastAssumption DEF Line, D!Line
    <3>2. found' = {d} /\ d \in h
      BY <2>10, <2>11, <2>12
    <3>3. Around(found', h, d)
      BY <3>1, <3>2, AroundOne
    <3> QED BY <2>12, <3>2, <3>3
  <2>13. CASE found # {}
    <3>1. h = hits /\ found \in SUBSET h /\ Around(found, h, c)
      BY <2>2, <2>13 DEF SearchInv, c
    <3>2. PICK f : f = found
      OBVIOUS
    <3>3. Around(f \cup {d}, h, d) /\ (f \cup {d} = f => h \subseteq f)
      BY <2>2, <2>10, <2>13, <3>1, <3>2, NextAround
    <3> QED BY <2>10, <2>11, <3>1, <3>2, <3>3
  <2> QED BY <2>12, <2>13
<1> QED BY <1>1, <1>2

LEMMA SearchInvNext ==
  ASSUME KeyInv, SearchInv, [Next]_vars
  PROVE  SearchInv'
<1>1. Types
  BY DEF KeyInv
<1>2. ASSUME NEW k \in Key, PressKey(k) PROVE SearchInv'
  <2>1. CASE "input" \in shown /\ k = "Enter"
    BY <1>2, <2>1 DEF PressKey, SearchInv
  <2>2. CASE ~("input" \in shown /\ k = "Enter")
    BY <1>2, <2>2 DEF PressKey, SearchInv
  <2> QED BY <2>1, <2>2
<1>3. CASE InputEnter
  <2>1. AtInput /\ pc' = "redraw" /\ cx' = cx /\ shown' = shown
    BY <1>3, Turn DEF InputEnter, Final
  <2>2. CASE cx = 0
    BY <1>3, <2>1, <2>2 DEF InputEnter, SearchInv
  <2>3. CASE cx # 0 /\ "ptree" \in shown
    BY <1>1, <1>3, <2>1, <2>3, EnterLeads DEF SearchInv
  <2>4. CASE cx # 0 /\ "ptree" \notin shown
    <3>1. Asked = "ulist"
      BY <1>1, <2>1, <2>4, FrontAsked DEF AtInput, Steady, Shows, Types, D!Views
    <3> DEFINE below == Candidates("ulist", 0)
               to == IF below = {} THEN Candidates("ulist", 2) ELSE below
    <3>2. /\ hits' \in IF found = {} THEN SUBSET Line ELSE {hits}
          /\ crsr' = IF to = {} THEN crsr ELSE [crsr EXCEPT !["ulist"] = First("ulist", to)]
          /\ found' = IF hits' = {} THEN {} ELSE found \cup {crsr'[Asked]}
      BY <1>3, <2>4, <3>1 DEF InputEnter, ido_search
    <3>3. to \subseteq hits' /\ (hits' # {} => to # {}) /\ hits' \subseteq Line
      BY <1>1, <3>2 DEF Candidates, Types
    <3> HIDE DEF to
    <3>4. hits' # {} => crsr'["ulist"] \in hits'
      <4>1. to # {} => First("ulist", to) \in to
        BY <3>3, FirstIsOne
      <4> QED BY <1>1, <3>2, <3>3, <4>1 DEF Types, Lists
    <3>5. Asked' = "ulist"
      BY <1>3, <2>1, <3>1 DEF Asked, InputEnter, treeVars
    <3>6. found' # {} => found' \subseteq hits'
      <4>1. CASE hits' = {}
        BY <3>2, <4>1
      <4>2. CASE hits' # {}
        <5>1. found' = found \cup {crsr'["ulist"]}
          BY <3>1, <3>2, <4>2
        <5>2. found # {} => found \subseteq hits /\ hits' = hits
          BY <3>2 DEF SearchInv
        <5> QED BY <3>4, <4>2, <5>1, <5>2
      <4> QED BY <4>1, <4>2
    <3> QED BY <2>1, <2>4, <3>6 DEF SearchInv
  <2> QED BY <2>2, <2>3, <2>4
<1>4. CASE (Input /\ ~InputEnter) \/ Exti \/ Tree \/ Users \/ KeyUnfinal
  <2>1. pc = "keys" /\ ~(todo = KeyOrder /\ key = "Enter" /\ "input" \in shown)
    <3>1. CASE Input /\ ~InputEnter
      BY <3>1 DEF Input, InputOpen, InputClose, InputBackspace, InputChar, InputPass, Offered,
         Ascii, D!Ascii
    <3>2. CASE Exti
      BY <3>2, Order DEF Exti, ExtiSwitch, ExtiClose, ExtiPass, Offered
    <3>3. CASE Tree
      BY <3>3, Order DEF Tree, TreeSwitch, TreeHide, TreeAll, TreeOwner, ListCursor, TreePass,
         Offered
    <3>4. CASE Users
      BY <3>4, Order DEF Users, UsersHide, UsersShow, ListCursor, UsersPass, Offered
    <3>5. CASE KeyUnfinal
      BY <3>5, Order DEF KeyUnfinal
    <3> QED BY <1>4, <3>1, <3>2, <3>3, <3>4, <3>5
  <2>2. found = {}
    BY <2>1 DEF SearchInv
  <2>3. found' = found
    BY <1>4
    DEF Input, InputOpen, InputClose, InputBackspace, InputChar, InputPass,
        Exti, ExtiSwitch, ExtiClose, ExtiPass, Tree, TreeSwitch, TreeHide, TreeAll,
        TreeOwner, ListCursor, TreePass, Users, UsersHide, UsersShow, UsersPass,
        KeyUnfinal, boxVars
  <2> QED BY <2>2, <2>3 DEF SearchInv
<1>5. CASE Redraw
  BY <1>5 DEF Redraw, SearchInv, boxVars
<1>6. CASE Tick
  BY <1>6 DEF Tick, SearchInv
<1>7. CASE UNCHANGED vars
  BY <1>7 DEF vars, boxVars, SearchInv
<1> QED BY <1>2, <1>3, <1>4, <1>5, <1>6, <1>7 DEF Next, Input

\* Where Enter goes from line to line, what it has been to is what matches between
\* where it began and the cursor.
THEOREM SearchKept == Spec => []SearchInv
<1>1. Init => SearchInv
  BY DEF Init, SearchInv
<1>2. KeyInv /\ SearchInv /\ [Next]_vars => SearchInv'
  BY SearchInvNext
<1> QED BY <1>1, <1>2, WidgetsAgree, PTL DEF Spec

\* When Enter leads to where it has led before, it has led to every matching line
\* (ido_search(), getprocbyname()).
THEOREM EveryMatchFound == Spec => SearchesAll
<1>1. KeyInv /\ SearchInv /\ [Next]_vars =>
        [InputEnter /\ "ptree" \in shown /\ found # {} /\ found' = found
           => hits \subseteq found]_vars
  <2> SUFFICES ASSUME KeyInv, SearchInv, InputEnter, "ptree" \in shown, found # {},
                      found' = found
               PROVE  hits \subseteq found
    OBVIOUS
  <2>1. Types /\ AtInput
    BY Turn DEF KeyInv, InputEnter
  <2> QED BY <2>1, EnterLeads
<1> QED BY <1>1, WidgetsAgree, SearchKept, PTL DEF Spec, SearchesAll
=============================================================================
