------------------------------- MODULE Widgets -------------------------------
(***************************************************************************)
(* whowatch.c, exti.c, wdgts.c: how the widgets share the keyboard, the    *)
(* screen and the message bus.  mwin_keyh() offers a key to the widgets,   *)
(* the newest first, until one says KEY_FINAL; what they have flagged is   *)
(* then redrawn, the oldest first.  wmsg_send() asks them, the oldest      *)
(* first, until one answers.  A widget hides by clearing its pointers, so  *)
(* the users list and the process list must agree on which of them shows,  *)
(* and the details window on whose cursor it describes.                    *)
(*                                                                         *)
(* The lists appear by their cursors only; their lines change with the     *)
(* root of the tree only, and the window they are seen through is a matter *)
(* of Window.  What is typed into the search box matches some set of lines *)
(* (none if it is no regular expression).  That keys do what they promise  *)
(* is stated by Display, which Widgets implements.                         *)
(***************************************************************************)
EXTENDS Integers, Sequences

CONSTANTS
  Last,       \* number of the last line of both lists
  MaxText     \* bound: characters in the search box

ASSUME LastAssumption == Last \in Nat
ASSUME MaxTextAssumption == MaxText \in Nat

VARIABLES
  shown,      \* the widgets that have a wrefresh function
  flagged,    \* the widgets that have WDGT_NEED_REDRAW
  crsr,       \* wdgt.crsr of the lists
  tree_root,  \* the line of the user whose tree it is, or AllTree
  show_owner, \* are the owners of processes shown?
  answers,    \* does the process list have its msgh?
  periodic,   \* does the process list have its periodic function?
  info,       \* does the info line count processes?
  mainw,      \* mainw->f: the list whose lines it describes (euser, eproc)
  cur_ds,     \* the key of the details' data source
  pkey,       \* the static pkey of exti_keyh() and of pkeyh()
  cx,         \* characters in the search box
  nc,         \* has something been typed since the box was opened?
  hits,       \* the lines that they match, as the last search has found
  found,      \* the lines that Enter has led to since the text has changed
  cur_hlp,    \* the help line
  screen,     \* what has been drawn last
  pc, key, todo  \* the key being handled and the widgets still to see it

infoVars == <<periodic, info>>
treeVars == <<tree_root, show_owner, answers, infoVars>>
extiVars == <<mainw, cur_ds>>
boxVars == <<cx, nc, hits, found>>
vars == <<shown, flagged, crsr, treeVars, extiVars, pkey, boxVars, cur_hlp,
          screen, pc, key, todo>>

D == INSTANCE Display WITH view <- screen
Line == D!Line
Key == D!Key
Ascii == D!Ascii
AllTree == D!AllTree

Lists == {"ulist", "ptree"}

\* The widgets that have a key handler, the newest first.
KeyOrder == <<"input", "exti", "ptree", "ulist">>

\* After wdgts_create() and the first main_periodic().
Init ==
  /\ shown = {"ulist"} /\ flagged = {}
  /\ crsr = [l \in Lists |-> 0]
  /\ tree_root = AllTree /\ show_owner = FALSE /\ answers = TRUE
  /\ periodic = FALSE /\ info = FALSE
  /\ mainw = "ulist" /\ cur_ds = "d"
  /\ pkey = [exti |-> "none", ptree |-> "none"]
  /\ cx = 0 /\ nc = FALSE /\ hits = {} /\ found = {}
  /\ cur_hlp = "ulist"
  /\ D!Init
  /\ pc = "wait" /\ key = "none" /\ todo = <<>>

\* key_action(k) begins.
PressKey(k) ==
  /\ pc = "wait"
  /\ "input" \in shown /\ nc /\ k \in Ascii => cx < MaxText
  /\ pc' = "keys" /\ key' = k /\ todo' = KeyOrder
  /\ IF "input" \in shown /\ k = "Enter" THEN UNCHANGED <<hits, found>>
     ELSE hits' = {} /\ found' = {}
  /\ UNCHANGED <<shown, flagged, crsr, treeVars, extiVars, pkey, cx, nc,
                 cur_hlp, screen>>

\* The key handler of widget wd is called and returns anything but KEY_FINAL
\* (Pass) or KEY_FINAL (Final).
Offered(wd) == pc = "keys" /\ todo # <<>> /\ Head(todo) = wd
Pass == todo' = Tail(todo) /\ UNCHANGED <<pc, key>>
Final == pc' = "redraw" /\ todo' = <<>> /\ UNCHANGED key

-----------------------------------------------------------------------------
(* The search box.                                                         *)

\* wmsg_send(): the list that answers MWANT_CRSR_VAL or MSND_SEARCH.
Asked ==
  IF "ulist" \in shown THEN "ulist" ELSE IF answers THEN "ptree" ELSE "none"

\* The first of the lines n in the order in which the list l is kept.
First(l, n) ==
  CHOOSE i \in n : \A j \in n : IF l = "ulist" THEN j <= i ELSE i <= j

\* user_search() and getprocbyname(): the lines a search may stop at.
Candidates(l, type) ==
  {n \in hits' : (type = 0 => n > crsr[l]) /\ (type = 1 => n >= crsr[l])}

\* (Mutant of ido_search: it does not start again from the beginning.)
ido_search_once(type) ==
  LET to == Candidates(Asked, type)
  IN  crsr' = IF to = {} THEN crsr ELSE [crsr EXCEPT ![Asked] = First(Asked, to)]

\* ido_search(): if there is nothing below the cursor, from the beginning.
ido_search(type) ==
  LET below == Candidates(Asked, type)
      to == IF below = {} /\ type = 0 THEN Candidates(Asked, 2) ELSE below
  IN  crsr' = IF to = {} THEN crsr ELSE [crsr EXCEPT ![Asked] = First(Asked, to)]

InputOpen ==
  /\ Offered("input") /\ "input" \notin shown /\ key = "/"
  /\ shown' = shown \cup {"input"} /\ nc' = FALSE
  /\ Final
  /\ UNCHANGED <<flagged, crsr, treeVars, extiVars, pkey, cx, hits, found,
                 cur_hlp, screen>>

InputClose ==
  /\ Offered("input") /\ "input" \in shown /\ key = "Esc"
  /\ shown' = shown \ {"input"}
  /\ Final
  /\ UNCHANGED <<flagged, crsr, treeVars, extiVars, pkey, boxVars, cur_hlp,
                 screen>>

\* The text of the last search is still in the box when it is opened again.
InputEnter ==
  /\ Offered("input") /\ "input" \in shown /\ key = "Enter"
  /\ IF cx = 0 THEN UNCHANGED <<crsr, hits, found>>
     ELSE /\ hits' \in IF found = {} THEN SUBSET Line ELSE {hits}
          /\ ido_search(0)
          /\ found' = IF hits' = {} THEN {} ELSE found \cup {crsr'[Asked]}
  /\ Final
  /\ UNCHANGED <<shown, flagged, treeVars, extiVars, pkey, cx, nc, cur_hlp,
                 screen>>

InputBackspace ==
  /\ Offered("input") /\ "input" \in shown /\ key = "Backspace"
  /\ cx' = IF cx = 0 THEN 0 ELSE cx - 1
  /\ Final
  /\ UNCHANGED <<shown, flagged, crsr, treeVars, extiVars, pkey, nc, hits,
                 found, cur_hlp, screen>>

\* The first character replaces the old text.
InputChar ==
  /\ Offered("input") /\ "input" \in shown /\ key \in Ascii
  /\ cx' = (IF nc THEN cx ELSE 0) + 1 /\ nc' = TRUE
  /\ hits' \in SUBSET Line
  /\ ido_search(1)
  /\ Final
  /\ UNCHANGED <<shown, flagged, treeVars, extiVars, pkey, found, cur_hlp,
                 screen>>

InputPass ==
  /\ Offered("input")
  /\ IF "input" \in shown THEN key \in {"Up", "Down"} ELSE key # "/"
  /\ Pass
  /\ UNCHANGED <<shown, flagged, crsr, treeVars, extiVars, pkey, boxVars,
                 cur_hlp, screen>>

-----------------------------------------------------------------------------
(* The details.                                                            *)

\* exti_keyh(), exti_switch(): a key that is a data source.
ExtiSwitch ==
  /\ Offered("exti") /\ key \in {"d", "s"}
  /\ cur_ds' = key /\ pkey' = [pkey EXCEPT !.exti = key]
  /\ IF "exti" \in shown /\ key = pkey.exti
     THEN shown' = shown \ {"exti"} /\ UNCHANGED flagged
     ELSE shown' = shown \cup {"exti"} /\ flagged' = flagged \cup {"exti"}
  /\ Pass
  /\ UNCHANGED <<crsr, treeVars, mainw, boxVars, cur_hlp, screen>>

ExtiClose ==
  /\ Offered("exti") /\ "exti" \in shown /\ key = "Esc"
  /\ shown' = shown \ {"exti"}
  /\ Final
  /\ UNCHANGED <<flagged, crsr, treeVars, extiVars, pkey, boxVars, cur_hlp,
                 screen>>

ExtiPass ==
  /\ Offered("exti") /\ key \notin {"d", "s"}
  /\ key = "Esc" => "exti" \notin shown
  /\ Pass
  /\ UNCHANGED <<shown, flagged, crsr, treeVars, extiVars, pkey, boxVars,
                 cur_hlp, screen>>

-----------------------------------------------------------------------------
(* The lists.                                                              *)

\* The list l tells the help line (MCUR_HLP) and the details (MSND_ESOURCE)
\* that it shows now, and asks to be drawn.
SendHelp(l) == cur_hlp' = l /\ flagged' = flagged \cup {l, "help"}
SendSource(l) == mainw' = l

\* MSND_INFO, infomsg(): the list writes its counts into the info line or
\* clears them.
SendInfo(counts) == info' = counts

\* ptree_unhide() with a tree of root r, after MSND_ESOURCE
Unhide(r) ==
  /\ tree_root' = r /\ answers' = TRUE /\ periodic' = TRUE /\ SendInfo(TRUE)
  /\ SendSource("ptree") /\ SendHelp("ptree")
  /\ shown' = shown \cup {"ptree"}
  /\ crsr' = [crsr EXCEPT !["ptree"] = 0]
  /\ UNCHANGED <<show_owner, cur_ds>>

\* pswitch() while the list is hidden; root_change() gets the answer of the
\* users list, which gives it hidden or not.
TreeSwitch ==
  /\ Offered("ptree") /\ key \in {"t", "Enter"} /\ "ptree" \notin shown
  /\ Unhide(IF key = "Enter" THEN crsr["ulist"] ELSE AllTree)
  /\ pkey' = [pkey EXCEPT !.ptree = key]
  /\ Pass
  /\ UNCHANGED <<boxVars, screen>>

\* ptree_hide()
TreeHide ==
  /\ Offered("ptree") /\ key = "Enter" /\ "ptree" \in shown
  /\ shown' = shown \ {"ptree"} /\ answers' = FALSE
  /\ periodic' = FALSE /\ SendInfo(FALSE)
  /\ pkey' = [pkey EXCEPT !.ptree = key]
  /\ Pass
  /\ UNCHANGED <<flagged, crsr, tree_root, show_owner, extiVars, boxVars,
                 cur_hlp, screen>>

\* pswitch() while the list is shown: 't' makes the root init, and the cursor
\* follows its process to whatever line that has in the new tree.
TreeAll ==
  /\ Offered("ptree") /\ key = "t" /\ "ptree" \in shown
  /\ IF pkey.ptree = "t" THEN UNCHANGED <<tree_root, crsr, flagged, info>>
     ELSE /\ tree_root' = AllTree /\ SendInfo(TRUE)
          /\ \E n \in Line : crsr' = [crsr EXCEPT !["ptree"] = n]
          /\ flagged' = flagged \cup {"ptree"}
  /\ pkey' = [pkey EXCEPT !.ptree = key]
  /\ Pass
  /\ UNCHANGED <<shown, show_owner, answers, periodic, extiVars, boxVars, cur_hlp,
                 screen>>

TreeOwner ==
  /\ Offered("ptree") /\ key = "o" /\ "ptree" \in shown
  /\ show_owner' = ~show_owner /\ flagged' = flagged \cup {"ptree"}
  /\ Pass
  /\ UNCHANGED <<shown, crsr, tree_root, answers, infoVars, extiVars, pkey, boxVars,
                 cur_hlp, screen>>

\* scr_keyh() of the list l
ListCursor(l) ==
  /\ Offered(l) /\ l \in shown /\ key \in {"Up", "Down"}
  /\ LET to == IF key = "Up" THEN crsr[l] - 1 ELSE crsr[l] + 1
     IN  crsr' = IF to \in Line THEN [crsr EXCEPT ![l] = to] ELSE crsr
  /\ Pass
  /\ UNCHANGED <<shown, flagged, treeVars, extiVars, pkey, boxVars, cur_hlp,
                 screen>>

TreePass ==
  /\ Offered("ptree") /\ key \notin {"t", "Enter"}
  /\ key \in {"Up", "Down", "o"} => "ptree" \notin shown
  /\ Pass
  /\ UNCHANGED <<shown, flagged, crsr, treeVars, extiVars, pkey, boxVars,
                 cur_hlp, screen>>

\* uswitch()
UsersHide ==
  /\ Offered("ulist") /\ key \in {"t", "Enter"} /\ "ulist" \in shown
  /\ shown' = shown \ {"ulist"}
  /\ Pass
  /\ UNCHANGED <<flagged, crsr, treeVars, extiVars, pkey, boxVars, cur_hlp,
                 screen>>

UsersShow ==
  /\ Offered("ulist") /\ key = "Enter" /\ "ulist" \notin shown
  /\ shown' = shown \cup {"ulist"}
  /\ SendHelp("ulist") /\ SendSource("ulist")
  /\ Pass
  /\ UNCHANGED <<crsr, treeVars, cur_ds, pkey, boxVars, screen>>

UsersPass ==
  /\ Offered("ulist")
  /\ IF "ulist" \in shown THEN key \notin {"t", "Enter", "Up", "Down"}
     ELSE key # "Enter"
  /\ Pass
  /\ UNCHANGED <<shown, flagged, crsr, treeVars, extiVars, pkey, boxVars,
                 cur_hlp, screen>>

-----------------------------------------------------------------------------
(* key_action() after the handlers, and main_periodic().                   *)

\* The widgets that have a redraw function.
Redrawable == (shown \ {"input"}) \cup {"help"}

\* exti_redraw(): of a list it asks for the cursor line now.
Details ==
  IF cur_ds = "s" THEN [of |-> "esys", line |-> 0]
  ELSE IF mainw = Asked THEN [of |-> mainw, line |-> crsr[mainw]]
  ELSE [of |-> "wrong", line |-> 0]

\* (Mutant of StillFlagged: get_crsr() does not ask for the next redraw.)
StillFlaggedOnce(W) == flagged \ W

\* mwin_redraw() of the widgets W: get_crsr() sets the flag of the details again.
StillFlagged(W) ==
  (flagged \ W) \cup (IF "exti" \in W /\ cur_ds = "d" THEN {"exti"} ELSE {})

\* mwin_redraw() of the widgets W and mwin_wrefresh(), after key k: what has
\* not been redrawn is shown as it was.
Refresh(W, k) ==
  screen' = [screen EXCEPT
    !.key = k,
    !.list = IF "ptree" \in shown THEN "ptree"
             ELSE IF "ulist" \in shown THEN "ulist" ELSE "none",
    !.help = IF "help" \in W THEN cur_hlp ELSE @,
    !.counts = info',
    !.user = crsr["ulist"], !.proc = crsr["ptree"],
    !.root = IF "ptree" \in W THEN tree_root ELSE @,
    !.owner = IF "ptree" \in W THEN show_owner ELSE @,
    !.box = "input" \in shown,
    !.details = IF "exti" \notin shown THEN D!NoDetails
                ELSE IF "exti" \in W THEN Details ELSE @]

\* No widget has said KEY_FINAL.
KeyUnfinal ==
  /\ pc = "keys" /\ todo = <<>>
  /\ IF key \in {"q", "Esc"}
     THEN pc' = "done" /\ screen' = [screen EXCEPT !.on = FALSE]
     ELSE pc' = "redraw" /\ UNCHANGED screen
  /\ UNCHANGED <<shown, flagged, crsr, treeVars, extiVars, pkey, boxVars,
                 cur_hlp, key, todo>>

Redraw ==
  LET W == flagged \cap Redrawable
  IN  /\ pc = "redraw" /\ pc' = "wait"
      /\ UNCHANGED <<shown, crsr, treeVars, extiVars, pkey, boxVars, cur_hlp,
                     todo>>
      /\ Refresh(W, key) /\ flagged' = StillFlagged(W)
      /\ key' = "none"

\* The periodic functions: that of the info line, the oldest, erases the counts,
\* and that of the process list writes them.
infopr == SendInfo(periodic)

\* What the text matches may have changed by the next search.
Tick ==
  /\ pc = "wait"
  /\ infopr
  /\ Refresh(Redrawable, screen.key) /\ flagged' = StillFlagged(Redrawable)
  /\ hits' = {} /\ found' = {}
  /\ UNCHANGED <<shown, crsr, tree_root, show_owner, answers, periodic, extiVars,
                 pkey, cx, nc, cur_hlp, pc, key, todo>>

Input ==
  \/ InputOpen \/ InputClose \/ InputEnter \/ InputBackspace \/ InputChar
  \/ InputPass

Exti == ExtiSwitch \/ ExtiClose \/ ExtiPass

Tree ==
  \/ TreeSwitch \/ TreeHide \/ TreeAll \/ TreeOwner \/ ListCursor("ptree")
  \/ TreePass

Users == UsersHide \/ UsersShow \/ ListCursor("ulist") \/ UsersPass

Next ==
  \/ \E k \in Key : PressKey(k)
  \/ Input \/ Exti \/ Tree \/ Users
  \/ KeyUnfinal \/ Redraw \/ Tick

Spec == Init /\ [][Next]_vars

-----------------------------------------------------------------------------
\* Widgets implements Display: the handlers that see one key, the messages
\* they exchange and the partial redraw leave the screen as if the key had
\* acted on it at once, whatever keys came before; and a tick changes nothing
\* that the keys have not shown already.
DisplayKept == D!Spec

\* When Enter in the search box leads to a line of the process list it has
\* led to before, it has been to every line that the text matches.
SearchesAll ==
  [][InputEnter /\ "ptree" \in shown /\ found # {} /\ found' = found
     => hits \subseteq found]_vars
=============================================================================
