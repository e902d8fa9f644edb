------------------------------- MODULE Display -------------------------------
(***************************************************************************)
(* What the keys of whowatch promise to the user: an abstract              *)
(* specification of the widgets.  One of two lists fills the screen; a     *)
(* window of details may lie on it and a search box under it.  A key takes *)
(* effect at once and as a whole, it depends on what is on the screen      *)
(* only, and the details, if they are about the selected line, are always  *)
(* about the line that is selected now.                                    *)
(***************************************************************************)
EXTENDS Integers

CONSTANT Last       \* number of the last line of both lists

Line == 0 .. Last

\* The tree of all processes, where otherwise a line of the users list says
\* whose tree is shown.
AllTree == -1

\* isascii(): the keys that can be typed into the search box.
Ascii == {"/", "d", "s", "t", "o", "q", "x"}
Key == Ascii \cup {"Up", "Down", "Enter", "Backspace", "Esc"}

VARIABLE view       \* what is on the screen, and the key handled last

NoDetails == [of |-> "none", line |-> 0]

Views ==
  [on : BOOLEAN, key : Key \cup {"none"}, list : {"ulist", "ptree"},
   help : {"ulist", "ptree"}, counts : BOOLEAN, user : Line, proc : Line,
   root : Line \cup {AllTree}, owner : BOOLEAN, box : BOOLEAN,
   details : [of : {"none", "esys", "ulist", "ptree"}, line : Line]]

Init ==
  view = [on |-> TRUE, key |-> "none", list |-> "ulist", help |-> "ulist",
          counts |-> FALSE, user |-> 0, proc |-> 0, root |-> AllTree,
          owner |-> FALSE, box |-> FALSE, details |-> NoDetails]

Cursor(v) == IF v.list = "ulist" THEN v.user ELSE v.proc

\* v with the cursor on line n
Select(v, n) ==
  IF v.list = "ulist" THEN [v EXCEPT !.user = n] ELSE [v EXCEPT !.proc = n]

\* v with details of the selected line, of the system, or none
Detailed(v, about) ==
  [v EXCEPT !.details =
     CASE about = "d"    -> [of |-> v.list, line |-> Cursor(v)]
       [] about = "s"    -> [of |-> "esys", line |-> 0]
       [] about = "none" -> NoDetails]

\* The key that makes the details of v.
About(v) ==
  CASE v.details.of = "none" -> "none"
    [] v.details.of = "esys" -> "s"
    [] OTHER                 -> "d"

\* The help line goes with the list, and so does the line that counts processes.
Becomes(v) ==
  view' = Detailed([v EXCEPT !.help = v.list, !.counts = v.list = "ptree"],
                   About(view))

\* The search box is open and takes the key.
Search(k) ==
  /\ view.box
  /\ k \in Ascii \cup {"Enter", "Backspace"}
  /\ \E n \in Line :
       /\ k = "Backspace" => n = Cursor(view)
       /\ Becomes(Select([view EXCEPT !.key = k], n))

CloseBox(k) ==
  /\ view.box /\ k = "Esc"
  /\ Becomes([view EXCEPT !.key = k, !.box = FALSE])

OpenBox(k) ==
  /\ ~view.box /\ k = "/"
  /\ Becomes([view EXCEPT !.key = k, !.box = TRUE])

Move(k) ==
  LET to == IF k = "Up" THEN Cursor(view) - 1 ELSE Cursor(view) + 1
  IN  /\ k \in {"Up", "Down"}
      /\ Becomes(Select([view EXCEPT !.key = k],
                        IF to \in Line THEN to ELSE Cursor(view)))

\* Of another tree in the same place any line may become the selected one.
ShowAll(k) ==
  /\ ~view.box /\ k = "t"
  /\ \E n \in Line :
       /\ view.list = "ulist" => n = 0
       /\ view.list = "ptree" /\ view.root = AllTree => n = view.proc
       /\ Becomes([view EXCEPT !.key = k, !.list = "ptree", !.root = AllTree,
                               !.proc = n])

ShowTree(k) ==
  /\ ~view.box /\ k = "Enter" /\ view.list = "ulist"
  /\ Becomes([view EXCEPT !.key = k, !.list = "ptree", !.root = view.user,
                          !.proc = 0])

ShowUsers(k) ==
  /\ ~view.box /\ k = "Enter" /\ view.list = "ptree"
  /\ Becomes([view EXCEPT !.key = k, !.list = "ulist"])

ShowOwner(k) ==
  /\ ~view.box /\ k = "o"
  /\ Becomes([view EXCEPT !.key = k,
                          !.owner = IF view.list = "ptree" THEN ~@ ELSE @])

\* The key of the details on the screen closes them.
ShowDetails(k) ==
  /\ ~view.box /\ k \in {"d", "s"}
  /\ view' = Detailed([view EXCEPT !.key = k],
                      IF About(view) = k THEN "none" ELSE k)

CloseDetails(k) ==
  /\ ~view.box /\ k = "Esc" /\ About(view) # "none"
  /\ view' = Detailed([view EXCEPT !.key = k], "none")

Quit(k) ==
  /\ ~view.box
  /\ k = "q" \/ (k = "Esc" /\ About(view) = "none")
  /\ view' = [view EXCEPT !.on = FALSE]

Ignore(k) ==
  /\ ~view.box /\ k \in {"x", "Backspace"}
  /\ view' = [view EXCEPT !.key = k]

Next ==
  \E k \in Key :
    /\ view.on
    /\ \/ Search(k) \/ CloseBox(k) \/ OpenBox(k) \/ Move(k)
       \/ ShowAll(k) \/ ShowTree(k) \/ ShowUsers(k) \/ ShowOwner(k)
       \/ ShowDetails(k) \/ CloseDetails(k) \/ Quit(k) \/ Ignore(k)

Spec == Init /\ [][Next]_view
=============================================================================
