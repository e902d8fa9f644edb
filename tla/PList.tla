------------------------------- MODULE PList --------------------------------
(***************************************************************************)
(* plist.c: the process list.  Each line (struct process) belongs to a     *)
(* node of the tree of proctree.c, and a node that has a line points back  *)
(* to it with priv; a line is named here by its node.  ptree_periodic()    *)
(*   - updates the tree, while mark_del() marks the lines of nodes that    *)
(*     move or go (stage "tree"),                                          *)
(*   - deletes the marked lines (delete_tree_lines, stage "delete"),       *)
(*   - walks the tree below tree_root in preorder and gives every node     *)
(*     without a line a new one (synchronize, stage "sync"),               *)
(* and the list is printed after that (draw_tree, stage "draw").  Stage    *)
(* "broken" is entered where the code would follow a null pointer or       *)
(* give a node a second line.                                              *)
(***************************************************************************)
EXTENDS ProcTree, Screen, SequencesExt

CONSTANTS
  Roots,      \* pids that the users list names as a user's process
  TreeDepth,  \* TREE_DEPTH: the levels of the tree that are drawn
  Keys,       \* what is done in the list: cursor keys, "r", "o", "signal", "search"
  YSize       \* last screen row of the widget

ASSUME RootsAssumption == Roots \subseteq Node
ASSUME KeysAssumption == Keys \subseteq ScreenKeys \cup {"r", "o", "signal", "search"}
ASSUME TreeDepthAssumption == TreeDepth \in Nat \ {0}
ASSUME YSizeAssumption == YSize \in Nat /\ YSize > TopY

VARIABLES
  begin,      \* the list of lines
  marked,     \* lines that have lost their node (p->proc = 0)
  line,       \* line[n]: process.line
  pstat,      \* the counters of the info line: nr, and one for each state
  tree_root,  \* the pid at the root of the displayed tree
  visible,    \* is the list on the screen?
  pkey,       \* the last of the keys 't' and Enter
  w,          \* the widget
  stage,      \* what the program is doing
  unhide,     \* is the running update part of ptree_unhide()?
  proc,       \* the node synchronize() is at, None after the last one
  l,          \* the lines synchronize() has passed
  sel,        \* the process the user has put the cursor on
  sent        \* target of the last kill()

listVars == <<begin, marked, line, pstat>>
viewVars == <<tree_root, visible, pkey>>
plVars == <<ptVars, listVars, viewVars, w, stage, unhide, proc, l, sel, sent>>

-----------------------------------------------------------------------------
\* pstat_update() for every node of D
Counted(D, n) ==
  [k \in DOMAIN pstat |->
     pstat[k] + n * Cardinality(IF k = "nr" THEN D ELSE {d \in D : state[d] = k})]

\* (Mutant of Mark: the counters are forgotten.)
MarkUncounted(D) ==
  /\ marked' = marked \cup D
  /\ sel' = IF sel \in D THEN None ELSE sel
  /\ UNCHANGED pstat

\* mark_del(): the nodes of D lose their lines.
Mark(D) ==
  /\ marked' = marked \cup D
  /\ pstat' = Counted(D, -1)
  /\ sel' = IF sel \in D THEN None ELSE sel

\* The pid of the process on the cursor line, 0 if there is none.
crsr_pid(c) ==
  LET on == {n \in priv : line[n] = c}
  IN  IF on = {} THEN 0 ELSE CHOOSE n \in on : TRUE

\* The process on the cursor line, None if there is none.
Selected(c) == IF \E n \in priv : line[n] = c THEN crsr_pid(c) ELSE None

\* The next node of the list n is on.
Brother(n) ==
  LET s == child[parent[n]]
      i == CHOOSE j \in DOMAIN s : s[j] = n
  IN  IF i < Len(s) THEN s[i + 1] ELSE None

\* (Mutant of tree_next: from the last child it does not go up.)
tree_next_flat(n) ==
  IF child[n] # <<>> THEN Head(child[n])
  ELSE IF n = tree_root THEN None ELSE Brother(n)

\* Going up from n one meets the root: so the loops of tree_next() and
\* tree_string() end before they come to a null parent.
ReachesRoot(n) ==
  \A A \in SUBSET Node :
    (n \in A /\ \A m \in A : parent[m] # None => parent[m] \in A) => tree_root \in A

\* tree_next(): down to the first child, or up to the first brother found.
tree_next(n) ==
  LET climb[m \in {q \in Node : ReachesRoot(q)}] ==
        IF m = tree_root THEN None
        ELSE IF Brother(m) # None THEN Brother(m) ELSE climb[parent[m]]
  IN  IF child[n] # <<>> THEN Head(child[n]) ELSE climb[n]

\* How far the process n is below the root r, which is not drawn if it is node 0.
Level(r, n) ==
  LET up[m \in {q \in Node : ReachesRoot(q)}] ==
        IF m = r THEN 0 ELSE 1 + up[parent[m]]
  IN  IF r = 0 THEN up[n] - 1 ELSE up[n]

\* The ancestor of n that is k levels above it.
Above(n, k) ==
  LET up[i \in 0 .. k] == IF i = 0 THEN n ELSE parent[up[i - 1]]
  IN  up[k]

\* (Mutant of tree_string: the columns of the ancestors are those of the process.)
tree_string_own(r, n) ==
  LET d == Level(r, n)
      i == IF d > TreeDepth THEN TreeDepth ELSE d
      branch(k) ==
        IF Brother(n) # None THEN "|" ELSE IF k = d THEN "L" ELSE " "
  IN  Append([k \in 1 .. i |-> branch(k)], IF d <= TreeDepth THEN "-" ELSE ".")

\* tree_string(): the branches in front of process n in the tree of r, one sign
\* for each of its ancestors below r, itself included (L is the code's backquote).
tree_string(r, n) ==
  LET d == Level(r, n)
      i == IF d > TreeDepth THEN TreeDepth ELSE d
      branch(k) ==
        IF Brother(Above(n, d - k)) # None THEN "|" ELSE IF k = d THEN "L" ELSE " "
  IN  Append([k \in 1 .. i |-> branch(k)], IF d <= TreeDepth THEN "-" ELSE ".")

\* getprocbyname(): the lines of the processes hits where a search of type t may
\* stop.  It stops at the first.
getprocbyname(hits, t) ==
  {line[n] : n \in {m \in hits : (t = 0 => line[m] > w.crsr)
                                /\ (t = 1 => line[m] >= w.crsr)}}

-----------------------------------------------------------------------------
Init ==
  /\ PTInit
  /\ begin = <<>> /\ marked = {}
  /\ line = [n \in Node |-> 0]
  /\ pstat = [k \in States \cup {"nr"} |-> 0]
  /\ tree_root = 1 /\ visible = FALSE /\ pkey = "none"
  /\ w = [vy |-> 0, crsr |-> 0, nlines |-> 0, ysize |-> YSize]
  /\ stage = "idle" /\ unhide = FALSE /\ proc = None /\ l = 0
  /\ sel = None /\ sent = None

KernelActs ==
  /\ stage \in {"idle", "tree"}
  /\ KernelMoves
  /\ UNCHANGED <<listVars, viewVars, w, stage, unhide, proc, l, sel, sent>>

\* ptree_periodic() is called.
Periodic ==
  /\ stage = "idle"
  /\ stage' = "tree"
  /\ StartUpdate
  /\ UNCHANGED <<listVars, w, proc, l>>

\* The timer: an update of the list if it is shown.
Tick ==
  /\ visible
  /\ Periodic
  /\ UNCHANGED <<viewVars, unhide, sel, sent>>

\* ptree_unhide() with the tree of process r.
Unhide(r) ==
  /\ tree_root' = r /\ visible' = TRUE
  /\ Periodic
  /\ unhide' = TRUE /\ sel' = None
  /\ UNCHANGED sent

\* (Mutant of clear_list: the nodes keep their pointers.)
clear_list_dangling ==
  /\ begin' = <<>> /\ line' = [n \in Node |-> 0]
  /\ UNCHANGED priv

\* clear_list(): every line is freed and its node forgets it.
clear_list ==
  /\ priv' = priv \ Range(begin)
  /\ begin' = <<>> /\ line' = [n \in Node |-> 0]

\* ptree_hide()
Hide ==
  /\ stage = "idle"
  /\ visible' = FALSE
  /\ clear_list
  /\ pstat' = [k \in DOMAIN pstat |-> 0]
  /\ sel' = None
  /\ UNCHANGED <<kernelVars, parent, child, state, hash_table, main_list,
                 old_list, scanVars, marked, tree_root, w, stage, unhide,
                 proc, l, sent>>

\* Key 't': the tree of init.  The lines of the tree shown before are kept.
KeyT ==
  /\ stage = "idle"
  /\ pkey' = "t"
  /\ \/ ~visible /\ Unhide(1)
     \/ /\ visible /\ pkey # "t"
        /\ tree_root' = 1
        /\ Periodic
        /\ sel' = None
        /\ UNCHANGED <<visible, unhide, sent>>
     \/ /\ visible /\ pkey = "t"
        /\ UNCHANGED <<ptVars, listVars, tree_root, visible, w, stage, unhide,
                       proc, l, sel, sent>>

\* Enter: back to the users list, or the tree of the user under its cursor
\* (of init, if there is none).
KeyEnter ==
  /\ stage = "idle"
  /\ pkey' = "Enter"
  /\ \/ visible /\ Hide
     \/ ~visible /\ \E r \in Roots \cup {1} : Unhide(r)

KeyR ==
  /\ "r" \in Keys
  /\ Tick

\* 'o' and 'l' change the columns and have the list redrawn.
KeyO ==
  /\ "o" \in Keys /\ visible /\ stage = "idle"
  /\ stage' = "draw"
  /\ UNCHANGED <<ptVars, listVars, viewVars, w, unhide, proc, l, sel, sent>>

\* A signal key: kill() for the process on the cursor line, unless it is init.
KeySignal ==
  /\ "signal" \in Keys /\ visible
  /\ Periodic
  /\ sent' = IF crsr_pid(w.crsr) = 1 THEN None ELSE crsr_pid(w.crsr)
  /\ UNCHANGED <<viewVars, unhide, sel>>

KeyCursor(k) ==
  /\ visible /\ stage = "idle"
  /\ w' = Key(k, w)
  /\ sel' = Selected(w'.crsr)
  /\ UNCHANGED <<ptVars, listVars, viewVars, stage, unhide, proc, l, sent>>

\* MSND_SEARCH: the search box looks for a text that the processes hits match.
KeySearch ==
  /\ "search" \in Keys /\ visible /\ stage = "idle"
  /\ \E hits \in SUBSET priv, t \in 0 .. 2 :
       LET at == getprocbyname(hits, t)
       IN  /\ at # {}
           /\ w' = CrsrJmp(w, CHOOSE i \in at : \A j \in at : i <= j)
  /\ sel' = Selected(w'.crsr)
  /\ UNCHANGED <<ptVars, listVars, viewVars, stage, unhide, proc, l, sent>>

-----------------------------------------------------------------------------
\* (Mutant of UpdateTree: the list is synchronized with half a tree.)
UpdateTreeHalf ==
  /\ stage = "tree"
  /\ Continue
  /\ Mark(priv \ priv')
  /\ stage' = "delete"
  /\ UNCHANGED <<begin, line, viewVars, w, unhide, proc, l, sent>>

\* A step of update_tree(), with its calls of mark_del().
UpdateTree ==
  /\ stage = "tree"
  /\ Continue
  /\ Mark(priv \ priv')
  /\ stage' = IF phase' = "idle" THEN "delete" ELSE "tree"
  /\ UNCHANGED <<begin, line, viewVars, w, unhide, proc, l, sent>>

\* (Mutants of MovedUp: no line is renumbered; all are.)
NotMovedUp(n) == [line EXCEPT ![n] = 0]
AllMovedUp(n) == [m \in Node |-> IF m = n THEN 0 ELSE line[m] - 1]

\* The lines below that of n move up by one.
MovedUp(n) ==
  LET below == {m \in Node : \E i, j \in DOMAIN begin :
                                 begin[i] = n /\ begin[j] = m /\ i < j}
  IN  [m \in Node |-> IF m = n THEN 0
                      ELSE IF m \in below THEN line[m] - 1 ELSE line[m]]

\* The first marked line is deleted.
DeleteLine(n) ==
  /\ stage = "delete" /\ n \in marked
  /\ \A i, j \in DOMAIN begin : begin[i] = n /\ begin[j] \in marked => i <= j
  /\ w' = LDeleted(w, line[n])
  /\ begin' = ListDel(begin, n)
  /\ marked' = marked \ {n}
  /\ line' = MovedUp(n)
  /\ UNCHANGED <<ptVars, pstat, viewVars, stage, unhide, proc, l, sel, sent>>

\* tree_start(): nothing if no node has the pid tree_root; node 0 is skipped.
StartSync ==
  /\ stage = "delete" /\ marked = {}
  /\ stage' = "sync" /\ l' = 0
  /\ proc' = IF tree_root \notin Found THEN None
             ELSE IF tree_root = 0 THEN tree_next(0) ELSE tree_root
  /\ UNCHANGED <<ptVars, listVars, viewVars, w, unhide, sel, sent>>

\* (Mutant of SyncKeep: a line that is kept is not renumbered.)
SyncKeepUnnumbered ==
  /\ stage = "sync" /\ proc # None /\ proc \in priv
  /\ IF l < Len(begin)
     THEN l' = l + 1 /\ proc' = tree_next(proc) /\ UNCHANGED stage
     ELSE stage' = "broken" /\ UNCHANGED <<l, proc>>
  /\ UNCHANGED <<ptVars, begin, line, marked, pstat, viewVars, w, unhide, sel, sent>>

\* The node has a line: the line at hand, whosever it is, is taken for it.
SyncKeep ==
  /\ stage = "sync" /\ proc # None /\ proc \in priv
  /\ IF l < Len(begin)
     THEN /\ line' = [line EXCEPT ![begin[l + 1]] = l]
          /\ l' = l + 1 /\ proc' = tree_next(proc)
          /\ UNCHANGED stage
     ELSE stage' = "broken" /\ UNCHANGED <<line, l, proc>>
  /\ UNCHANGED <<ptVars, begin, marked, pstat, viewVars, w, unhide, sel, sent>>

\* (Mutant of Inserted: the new line is put at the end.)
InsertedLast(n) == Append(begin, n)

Inserted(n) == SubSeq(begin, 1, l) \o <<n>> \o SubSeq(begin, l + 1, Len(begin))

\* A line for the node is put in front of the line at hand.
SyncInsert ==
  /\ stage = "sync" /\ proc # None /\ proc \notin priv
  /\ w' = LInserted(w, l)
  /\ begin' = Inserted(proc)
  /\ line' = [line EXCEPT ![proc] = l]
  /\ priv' = priv \cup {proc}
  /\ pstat' = Counted({proc}, 1)
  /\ l' = l + 1 /\ proc' = tree_next(proc)
  /\ UNCHANGED <<kernelVars, parent, child, state, hash_table, main_list,
                 old_list, scanVars, marked, viewVars, stage, unhide, sel, sent>>

EndSync ==
  /\ stage = "sync" /\ proc = None
  /\ stage' = "draw" /\ unhide' = FALSE /\ l' = 0
  /\ w' = IF unhide THEN [w EXCEPT !.vy = 0, !.crsr = 0] ELSE w
  /\ UNCHANGED <<ptVars, listVars, viewVars, proc, sel, sent>>

\* draw_tree(): without lines the text "User has logged out" is printed and
\* the window is left where it is.
Draw ==
  /\ stage = "draw"
  /\ IF \E n \in priv : ~ReachesRoot(n)
     THEN stage' = "broken" /\ UNCHANGED <<w, sel>>
     ELSE /\ stage' = "idle"
          /\ w' = IF begin = <<>> THEN Printed(w, 1)
                  ELSE OutputEnd(Printed(w, Len(begin)))
          /\ sel' = Selected(w'.crsr)
  /\ UNCHANGED <<ptVars, listVars, viewVars, unhide, proc, l, sent>>

-----------------------------------------------------------------------------
User ==
  \/ KeyT \/ KeyEnter \/ KeyR \/ KeyO \/ KeySignal \/ KeySearch
  \/ \E k \in Keys \cap ScreenKeys : KeyCursor(k)

\* The steps of a running update, up to the printed list.
Work ==
  \/ UpdateTree
  \/ \E n \in Node : DeleteLine(n)
  \/ StartSync
  \/ SyncKeep \/ SyncInsert
  \/ EndSync
  \/ Draw

Next == KernelActs \/ Tick \/ User \/ Work

Safe == Init /\ [][Next]_plVars

Spec == Safe /\ WF_plVars(Work)

-----------------------------------------------------------------------------
PLTypeOK ==
  /\ begin \in Seq(Node) /\ marked \subseteq Node
  /\ line \in [Node -> Nat]
  /\ pstat \in [States \cup {"nr"} -> Nat]
  /\ tree_root \in Roots \cup {1} /\ visible \in BOOLEAN
  /\ pkey \in {"none", "t", "Enter"}
  /\ stage \in {"idle", "tree", "delete", "sync", "draw", "broken"}
  /\ unhide \in BOOLEAN
  /\ proc \in Node \cup {None} /\ l \in Nat
  /\ sel \in Node \cup {None} /\ sent \in Node \cup {None}

\* Lines and nodes own each other: the nodes with a priv pointer are those of
\* the unmarked lines, and no two lines share a node.  A marked line, whose proc
\* is null, never outlives the update that marked it: crsr_pid() and draw_tree()
\* follow proc without a test.
LinesOwnNodes ==
  /\ IsInjective(begin)
  /\ Range(begin) = priv \cup marked
  /\ priv \cap marked = {}
  /\ stage \in {"sync", "draw", "idle"} => marked = {}

\* The line numbers are the places in the list.
LinesNumbered ==
  stage \in {"draw", "idle"} => \A i \in DOMAIN begin : line[begin[i]] = i - 1

\* n and the nodes above it, along the parents f, as far as these are in D.
UpTo(f, D, n) ==
  {a \in Node : \A A \in SUBSET Node :
     (n \in A /\ \A m \in A : f[m] \in D => f[m] \in A) => a \in A}

\* a comes before b in a list of c.
Elder(c, a, b) ==
  \E q \in Node : \E i, j \in DOMAIN c[q] : i < j /\ c[q][i] = a /\ c[q][j] = b

\* In a walk through the nodes of D, m comes before n: it is above n, or is, or is
\* below, an elder brother of n or of a node above n.
Precedes(f, c, D, m, n) ==
  \/ m # n /\ m \in UpTo(f, D, n)
  \/ \E a \in UpTo(f, D, m), b \in UpTo(f, D, n) : Elder(c, a, b)

\* When the list is printed the lines are in the order of the tree, those that an
\* update has kept and those that it has put between them.
LinesInOrder ==
  stage = "draw" =>
    \A i, j \in DOMAIN begin :
      i < j => Precedes(parent, child, priv, begin[i], begin[j])

\* The nodes at and below n, parents before children, brothers in list order.
Preorder(n) ==
  LET pre[m \in {q \in Node : ReachesRoot(q)}] ==
        <<m>> \o FlattenSeq([i \in DOMAIN child[m] |-> pre[child[m][i]]])
  IN  pre[n]

\* The branches in front of line i of the list as its lines alone tell: in the
\* column of a level a branch goes down to the next line that is on this level,
\* unless one further up comes before it.
Drawn(i) ==
  LET level(j) == Level(tree_root, begin[j])
      d == level(i)
      goes_on(k) == \E j \in i + 1 .. Len(begin) :
                      level(j) = k /\ \A m \in i + 1 .. j : level(m) >= k
      sign(k) == IF goes_on(k) THEN "|" ELSE IF k = d THEN "L" ELSE " "
  IN  IF d <= TreeDepth THEN Append([k \in 1 .. d |-> sign(k)], "-")
                        ELSE Append([k \in 1 .. TreeDepth |-> sign(k)], ".")

\* When the list is printed it is the preorder of the tree below the root, and
\* the branches in front of each line lead to its parent and to its brothers,
\* wherever these are in the list, down to the deepest level drawn.
TreeOrder ==
  stage = "draw" =>
    /\ begin = IF tree_root \notin Found THEN <<>>
               ELSE IF tree_root = 0 THEN Tail(Preorder(0)) ELSE Preorder(tree_root)
    /\ \A i \in DOMAIN begin : tree_string(tree_root, begin[i]) = Drawn(i)

\* The info line counts the lines, and its u32 counters do not wrap: a line is
\* counted out in the state it was counted in.  (Only init, whose letter
\* changes, may be counted under another letter.)
CountsMatch ==
  /\ pstat["nr"] = Cardinality(priv)
  /\ \A s \in States :
       pstat[s] - Cardinality({n \in priv \ {1} : state[n] = s})
         \in {0} \cup (IF 1 \in priv THEN {1} ELSE {})

\* Every printed line has its place below the root of the displayed tree.
NoCrash == stage # "broken"

\* After an update during which the kernel did not move the list shows the
\* descendants of the root, and of a root that is gone nothing.
KernelBelow(r) ==
  {p \in Alive : \A A \in SUBSET Node :
     (p \in A /\ \A m \in A \cap Alive : ppid[m] \in A) => r \in A}

ShowsProcesses ==
  stage = "draw" /\ ~dirty => Range(begin) = KernelBelow(tree_root)

\* Across an update the cursor stays on its process, if that keeps its line.
CursorFollowsProcess == stage = "draw" /\ sel # None => line[sel] = w.crsr

\* kill() is called for the process on the cursor line or not at all: never
\* with pid 0, which is the program's own process group.
SignalsSelected == sent # 0

\* The list is printed again after every key and tick that changes it.
UpdateShown == stage # "idle" ~> stage = "idle"
=============================================================================
