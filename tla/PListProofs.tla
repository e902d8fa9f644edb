----------------------------- MODULE PListProofs -----------------------------
(* Proofs about PList, for any tree, any kernel and any keys: the lines    *)
(* and the nodes own each other, the list is a client of the tree, its     *)
(* counters are right; its lines are those of the displayed tree, in its   *)
(* order, with their numbers, with the cursor where it belongs, and are    *)
(* drawn as that tree; and every update comes to its end.                  *)
EXTENDS PList, ProcTreeProofs, ScreenProofs, SequenceTheorems, FiniteSetTheorems

\* What else the step of synchronize() that inserts a line needs: its place is
\* within the list.
LineInv ==
  /\ begin \in Seq(priv \cup marked) /\ l \in Nat
  /\ stage = "sync" => l <= Len(begin)
  /\ LinesOwnNodes

-----------------------------------------------------------------------------
(* A line that is put into the list                                        *)

Put(s, k, p) == SubSeq(s, 1, k) \o <<p>> \o SubSeq(s, k + 1, Len(s))

LEMMA InsertProps ==
  ASSUME NEW A, NEW s \in Seq(A), NEW k \in 0 .. Len(s), NEW p \in A,
         IsInjective(s), p \notin Range(s)
  PROVE  /\ Put(s, k, p) \in Seq(A) /\ IsInjective(Put(s, k, p))
         /\ Range(Put(s, k, p)) = Range(s) \cup {p}
         /\ Len(Put(s, k, p)) = Len(s) + 1
         /\ \A i \in 1 .. Len(s) + 1 :
              Put(s, k, p)[i] = IF i <= k THEN s[i] ELSE IF i = k + 1 THEN p ELSE s[i - 1]
<1> DEFINE t == Put(s, k, p)
<1>1. Len(s) \in Nat /\ DOMAIN s = 1 .. Len(s) /\ k \in Nat /\ k <= Len(s)
      /\ \A i \in 1 .. Len(s) : s[i] \in A
  OBVIOUS
<1>2. /\ SubSeq(s, 1, k) \in Seq(A) /\ Len(SubSeq(s, 1, k)) = k
      /\ \A i \in 1 .. k : SubSeq(s, 1, k)[i] = s[i]
  BY <1>1
<1>3. /\ SubSeq(s, k + 1, Len(s)) \in Seq(A) /\ Len(SubSeq(s, k + 1, Len(s))) = Len(s) - k
      /\ \A i \in 1 .. Len(s) - k : SubSeq(s, k + 1, Len(s))[i] = s[k + i]
  <2>1. \A i \in k + 1 .. Len(s) : s[i] \in A
    BY <1>1
  <2>2. k + 1 \in Int /\ Len(s) \in Int
    BY <1>1
  <2> DEFINE b == SubSeq(s, k + 1, Len(s))
  <2>3. /\ b \in Seq(A)
        /\ Len(b) = IF k + 1 <= Len(s) THEN Len(s) - (k + 1) + 1 ELSE 0
        /\ \A i \in 1 .. Len(s) - (k + 1) + 1 : b[i] = s[k + 1 + i - 1]
    BY <2>1, <2>2, SubSeqProperties
  <2> HIDE DEF b
  <2>4. Len(b) = Len(s) - k
    <3>1. CASE k + 1 <= Len(s)
      <4>1. Len(b) = Len(s) - (k + 1) + 1
        BY <2>3, <3>1
      <4> QED BY <1>1, <4>1
    <3>2. CASE ~(k + 1 <= Len(s))
      <4>1. Len(b) = 0
        BY <2>3, <3>2
      <4>2. k = Len(s)
        <5>1. \A n, m \in Nat : m <= n /\ ~(m + 1 <= n) => m = n
          OBVIOUS
        <5>2. k \in Nat /\ k <= Len(s) /\ Len(s) \in Nat
          BY <1>1
        <5> QED BY <3>2, <5>1, <5>2, Zenon
      <4> QED BY <1>1, <4>1, <4>2
    <3> QED BY <3>1, <3>2
  <2>5. ASSUME NEW i \in 1 .. Len(s) - k PROVE b[i] = s[k + i]
    <3>1. i \in 1 .. Len(s) - (k + 1) + 1 /\ k + 1 + i - 1 = k + i
      BY <1>1
    <3> QED BY <2>3, <3>1
  <2> QED BY <2>3, <2>4, <2>5 DEF b
<1>4. /\ t \in Seq(A) /\ Len(t) = Len(s) + 1
      /\ \A i \in 1 .. Len(s) + 1 :
           t[i] = IF i <= k THEN s[i] ELSE IF i = k + 1 THEN p ELSE s[i - 1]
  <2> DEFINE a == SubSeq(s, 1, k)
             b == SubSeq(s, k + 1, Len(s))
  <2>1. a \in Seq(A) /\ Len(a) = k /\ \A i \in 1 .. k : a[i] = s[i]
    BY <1>2
  <2>2. b \in Seq(A) /\ Len(b) = Len(s) - k /\ \A i \in 1 .. Len(s) - k : b[i] = s[k + i]
    BY <1>3
  <2>3. t = a \o <<p>> \o b
    BY DEF Put
  <2> HIDE DEF a, b, t
  <2>4. /\ a \o <<p>> \in Seq(A) /\ Len(a \o <<p>>) = k + 1
        /\ \A i \in 1 .. k + 1 : (a \o <<p>>)[i] = IF i <= k THEN s[i] ELSE p
    BY <1>1, <2>1
  <2> DEFINE c == a \o <<p>>
  <2>5. /\ c \in Seq(A) /\ Len(c) = k + 1 /\ t = c \o b
        /\ \A i \in 1 .. k + 1 : c[i] = IF i <= k THEN s[i] ELSE p
    BY <2>3, <2>4
  <2> HIDE DEF c
  <2>6. t \in Seq(A) /\ Len(t) = Len(s) + 1
    BY <1>1, <2>2, <2>5
  <2>7. ASSUME NEW i \in 1 .. Len(s) + 1
        PROVE  t[i] = IF i <= k THEN s[i] ELSE IF i = k + 1 THEN p ELSE s[i - 1]
    <3>1. CASE i <= k + 1
      BY <1>1, <2>2, <2>5, <3>1
    <3>2. CASE i > k + 1
      <4>1. t[i] = b[i - (k + 1)]
        <5>1. i \in Len(c) + 1 .. Len(c) + Len(b)
          BY <1>1, <2>2, <2>5, <3>2
        <5>2. Len(c) = k + 1 /\ t = c \o b /\ c \in Seq(A) /\ b \in Seq(A)
          BY <2>2, <2>5
        <5>3. \A j \in 1 .. Len(c) + Len(b) :
                (c \o b)[j] = IF j <= Len(c) THEN c[j] ELSE b[j - Len(c)]
          BY <5>2, ConcatProperties
        <5> HIDE DEF t
        <5>4. i \in 1 .. Len(c) + Len(b) /\ ~(i <= Len(c))
          BY <1>1, <3>2, <5>1, <5>2
        <5> QED BY <5>2, <5>3, <5>4
      <4>2. i - (k + 1) \in 1 .. Len(s) - k /\ k + (i - (k + 1)) = i - 1
        BY <1>1, <3>2
      <4> QED BY <1>1, <2>2, <3>2, <4>1, <4>2
    <3> QED BY <1>1, <3>1, <3>2
  <2> QED BY <2>6, <2>7
<1> HIDE DEF t
<1>5. DOMAIN t = 1 .. Len(s) + 1
  BY <1>4
<1>6. IsInjective(t)
  <2> SUFFICES ASSUME NEW i \in 1 .. Len(s) + 1, NEW j \in 1 .. Len(s) + 1, t[i] = t[j]
               PROVE  i = j
    BY <1>5 DEF IsInjective
  <2>1. \A m \in 1 .. Len(s) : s[m] # p
    BY <1>1 DEF Range
  <2>2. \A m, n \in 1 .. Len(s) : s[m] = s[n] => m = n
    BY <1>1 DEF IsInjective
  <2> QED BY <1>1, <1>4, <2>1, <2>2
<1>7. Range(t) = Range(s) \cup {p}
  <2>1. ASSUME NEW i \in 1 .. Len(s) PROVE s[i] \in Range(t)
    <3>1. CASE i <= k
      BY <1>1, <1>4, <1>5, <3>1 DEF Range
    <3>2. CASE i > k
      <4>1. i + 1 \in 1 .. Len(s) + 1 /\ t[i + 1] = s[i]
        BY <1>1, <1>4, <3>2
      <4> QED BY <1>5, <4>1 DEF Range
    <3> QED BY <1>1, <3>1, <3>2
  <2>2. p \in Range(t)
    <3>1. k + 1 \in 1 .. Len(s) + 1 /\ t[k + 1] = p
      BY <1>1, <1>4
    <3> QED BY <1>5, <3>1 DEF Range
  <2>3. ASSUME NEW i \in 1 .. Len(s) + 1 PROVE t[i] \in Range(s) \cup {p}
    <3>1. t[i] = p \/ \E m \in 1 .. Len(s) : t[i] = s[m]
      BY <1>1, <1>4
    <3> QED BY <1>1, <3>1 DEF Range
  <2> QED BY <1>1, <1>5, <2>1, <2>2, <2>3 DEF Range
<1> QED BY <1>4, <1>6, <1>7 DEF t

-----------------------------------------------------------------------------
(* The steps                                                               *)

\* update_tree() only takes lines from nodes.
LEMMA ContinueTakes == ASSUME Continue PROVE priv' \subseteq priv
BY DEF Continue, ReadEntry, Reparent, EndScan, Reap, Free, EndUpdate, treeVars

\* The sequence type follows from the lines.
LEMMA Lines ==
  ASSUME NEW A, NEW s \in Seq(A) PROVE s \in Seq(Range(s))
BY DEF Range

LEMMA UpdateTreeLines == ASSUME LineInv, UpdateTree PROVE LineInv'
<1>1. /\ marked' = marked \cup (priv \ priv') /\ begin' = begin /\ l' = l
      /\ stage' \in {"delete", "tree"}
  BY DEF UpdateTree, Mark
<1>2. priv' \subseteq priv
  BY ContinueTakes DEF UpdateTree
<1>3. priv' \cup marked' = priv \cup marked
  BY <1>1, <1>2
<1> QED BY <1>1, <1>2, <1>3 DEF LineInv, LinesOwnNodes

LEMMA DeleteLines ==
  ASSUME LineInv, NEW n \in Node, DeleteLine(n) PROVE LineInv'
<1>1. /\ n \in marked /\ stage = "delete" /\ stage' = stage
      /\ begin' = ListDel(begin, n) /\ marked' = marked \ {n}
      /\ priv' = priv /\ l' = l
  BY DEF DeleteLine, ptVars, treeVars
<1>2. /\ begin \in Seq(priv \cup marked) /\ IsInjective(begin)
      /\ Range(begin) = priv \cup marked /\ priv \cap marked = {} /\ l \in Nat
  BY DEF LineInv, LinesOwnNodes
<1>3. /\ begin' \in Seq(priv \cup marked) /\ IsInjective(begin')
      /\ Range(begin') = Range(begin) \ {n}
  BY <1>1, <1>2, ListDelProps
<1>4. begin' \in Seq(Range(begin'))
  BY <1>3, Lines
<1>5. Range(begin') = priv' \cup marked' /\ priv' \cap marked' = {}
  BY <1>1, <1>2, <1>3
<1> QED BY <1>1, <1>2, <1>3, <1>4, <1>5 DEF LineInv, LinesOwnNodes

LEMMA SyncInsertLines == ASSUME LineInv, SyncInsert PROVE LineInv'
<1>1. /\ stage = "sync" /\ stage' = stage /\ proc \notin priv
      /\ begin' = SubSeq(begin, 1, l) \o <<proc>> \o SubSeq(begin, l + 1, Len(begin))
      /\ priv' = priv \cup {proc} /\ marked' = marked /\ l' = l + 1
  BY DEF SyncInsert, Inserted
<1>2. /\ begin \in Seq(priv) /\ IsInjective(begin) /\ Range(begin) = priv /\ marked = {}
      /\ l \in 0 .. Len(begin) /\ Len(begin) \in Nat
  <2>1. marked = {} /\ begin \in Seq(priv \cup marked) /\ l \in Nat /\ l <= Len(begin)
    BY <1>1 DEF LineInv, LinesOwnNodes
  <2>2. begin \in Seq(priv)
    BY <2>1, priv \cup {} = priv
  <2> QED BY <2>1, <2>2 DEF LineInv, LinesOwnNodes
<1>3. begin \in Seq(priv') /\ proc \in priv'
  BY <1>1, <1>2
<1>4. /\ begin' \in Seq(priv') /\ IsInjective(begin') /\ Range(begin') = Range(begin) \cup {proc}
      /\ Len(begin') = Len(begin) + 1
  <2>1. begin' = Put(begin, l, proc)
    BY <1>1 DEF Put
  <2>2. proc \notin Range(begin)
    BY <1>1, <1>2
  <2> QED BY <1>2, <1>3, <2>1, <2>2, InsertProps
<1>5. priv' \cup marked' = priv' /\ priv' \cap marked' = {} /\ marked' = {}
  BY <1>1, <1>2
<1>6. l' \in Nat /\ l' <= Len(begin')
  <2>1. l' = l + 1
    BY <1>1
  <2> QED BY <1>2, <1>4, <2>1
<1> QED BY <1>1, <1>2, <1>4, <1>5, <1>6 DEF LineInv, LinesOwnNodes

LEMMA HideLines == ASSUME LineInv, Hide PROVE LineInv'
<1>1. /\ stage = "idle" /\ stage' = stage /\ priv' = priv \ Range(begin)
      /\ begin' = <<>> /\ marked' = marked /\ l' = l
  BY DEF Hide, clear_list
<1>2. marked = {} /\ Range(begin) = priv \cup marked /\ l \in Nat
  BY <1>1 DEF LineInv, LinesOwnNodes
<1>3. priv' = {} /\ marked' = {}
  BY <1>1, <1>2
<1>4. <<>> \in Seq({}) /\ IsInjective(<<>>) /\ Range(<<>>) = {}
  BY DEF IsInjective, Range
<1> QED BY <1>1, <1>2, <1>3, <1>4 DEF LineInv, LinesOwnNodes

\* What leaves the lines alone.
LEMMA SameLines ==
  ASSUME LineInv, begin' = begin, marked' = marked, priv' = priv, l' \in Nat,
         stage' = "sync" => l' <= Len(begin),
         stage' \in {"sync", "draw", "idle"} => marked = {}
  PROVE  LineInv'
BY DEF LineInv, LinesOwnNodes

LEMMA UserLines == ASSUME LineInv, Tick \/ User PROVE LineInv'
<1>1. l \in Nat /\ (stage \in {"sync", "draw", "idle"} => marked = {})
  BY DEF LineInv, LinesOwnNodes
<1>2. ASSUME Periodic PROVE LineInv'
  BY <1>1, <1>2, SameLines DEF Periodic, StartUpdate, listVars
<1>3. CASE Tick
  BY <1>2, <1>3 DEF Tick
<1>4. CASE KeyT
  <2>1. ASSUME Unhide(1) PROVE LineInv'
    BY <1>2, <2>1 DEF Unhide
  <2>2. ASSUME stage = "idle", UNCHANGED <<ptVars, listVars, stage, l>> PROVE LineInv'
    BY <1>1, <2>2, SameLines DEF ptVars, treeVars, listVars
  <2> QED BY <1>2, <1>4, <2>1, <2>2 DEF KeyT
<1>5. CASE KeyEnter
  <2>1. ASSUME NEW r, Unhide(r) PROVE LineInv'
    BY <1>2, <2>1 DEF Unhide
  <2> QED BY <1>5, <2>1, HideLines DEF KeyEnter
<1>6. CASE KeyR
  BY <1>2, <1>6 DEF KeyR, Tick
<1>7. CASE KeyO
  BY <1>1, <1>7, SameLines DEF KeyO, ptVars, treeVars, listVars
<1>8. CASE KeySignal
  BY <1>2, <1>8 DEF KeySignal
<1>9. CASE KeySearch
  BY <1>1, <1>9, SameLines DEF KeySearch, ptVars, treeVars, listVars
<1>10. ASSUME NEW k, KeyCursor(k) PROVE LineInv'
  BY <1>1, <1>10, SameLines DEF KeyCursor, ptVars, treeVars, listVars
<1> QED BY <1>3, <1>4, <1>5, <1>6, <1>7, <1>8, <1>9, <1>10 DEF User

LEMMA WorkLines == ASSUME LineInv, Work PROVE LineInv'
<1>1. /\ l \in Nat /\ (stage \in {"sync", "draw", "idle"} => marked = {})
      /\ (stage = "sync" => l <= Len(begin)) /\ Len(begin) \in Nat
  BY DEF LineInv, LinesOwnNodes
<1>2. CASE StartSync
  BY <1>1, <1>2, SameLines DEF StartSync, ptVars, treeVars, listVars
<1>3. CASE SyncKeep
  <2>1. /\ stage = "sync" /\ begin' = begin /\ marked' = marked /\ priv' = priv
        /\ \/ l < Len(begin) /\ l' = l + 1
           \/ stage' = "broken" /\ l' = l
    BY <1>3 DEF SyncKeep, ptVars, treeVars
  <2> QED BY <1>1, <2>1, SameLines
<1>4. CASE EndSync
  BY <1>1, <1>4, SameLines DEF EndSync, ptVars, treeVars, listVars
<1>5. CASE Draw
  BY <1>1, <1>5, SameLines DEF Draw, ptVars, treeVars, listVars
<1> QED BY <1>2, <1>3, <1>4, <1>5, UpdateTreeLines, DeleteLines, SyncInsertLines DEF Work

-----------------------------------------------------------------------------
\* LineInv is inductive.
THEOREM LinesKept == Safe => []LineInv
<1>1. Init => LineInv
  <2>1. <<>> \in Seq({}) /\ IsInjective(<<>>) /\ Range(<<>>) = {}
    BY DEF IsInjective, Range
  <2> QED BY <2>1 DEF Init, PTInit, LineInv, LinesOwnNodes
<1>2. LineInv /\ [Next]_plVars => LineInv'
  <2> SUFFICES ASSUME LineInv, [Next]_plVars PROVE LineInv'
    OBVIOUS
  <2>1. l \in Nat /\ (stage \in {"sync", "draw", "idle"} => marked = {})
        /\ (stage = "sync" => l <= Len(begin))
    BY DEF LineInv, LinesOwnNodes
  <2>2. CASE KernelActs
    BY <2>1, <2>2, SameLines DEF KernelActs, KernelMoves, treeVars, listVars
  <2>3. CASE UNCHANGED plVars
    BY <2>1, <2>3, SameLines DEF plVars, ptVars, treeVars, listVars
  <2> QED BY <2>2, <2>3, UserLines, WorkLines DEF Next
<1> QED BY <1>1, <1>2, PTL DEF Safe

\* No two lines share a node, every node with a priv pointer has its line, and no
\* line without node outlives the update that marked it (mark_del(),
\* delete_tree_lines(), synchronize(), clear_list()).
THEOREM LinesOwned == Safe => []LinesOwnNodes
<1>1. LineInv => LinesOwnNodes
  BY DEF LineInv
<1> QED BY <1>1, LinesKept, PTL

-----------------------------------------------------------------------------
(* The walk through the tree                                               *)

\* The parent of a node below the root is there and below, or is, the root.
LEMMA UpReaches ==
  ASSUME TypeOK, NEW n \in Node, ReachesRoot(n), n # tree_root
  PROVE  parent[n] \in Node /\ ReachesRoot(parent[n])
<1>1. parent[n] \in Node \cup {None} /\ None \notin Node
  BY NodeFacts DEF TypeOK
<1>2. parent[n] # None
  <2> SUFFICES ASSUME parent[n] = None PROVE FALSE
    OBVIOUS
  <2>1. {n} \in SUBSET Node /\ \A m \in {n} : parent[m] # None => parent[m] \in {n}
    OBVIOUS
  <2>2. tree_root \in {n}
    BY <2>1 DEF ReachesRoot
  <2> QED BY <2>2
<1>3. ReachesRoot(parent[n])
  <2> SUFFICES ASSUME NEW A \in SUBSET Node, parent[n] \in A,
                      \A m \in A : parent[m] # None => parent[m] \in A
               PROVE  tree_root \in A
    BY DEF ReachesRoot
  <2>1. A \cup {n} \in SUBSET Node
        /\ \A m \in A \cup {n} : parent[m] # None => parent[m] \in A \cup {n}
    OBVIOUS
  <2>2. tree_root \in A \cup {n}
    BY <2>1 DEF ReachesRoot
  <2> QED BY <2>2
<1> QED BY <1>1, <1>2, <1>3

\* So is a child of such a node.
LEMMA DownReaches ==
  ASSUME NEW n \in Node, ReachesRoot(n), NEW m \in Node, parent[m] = n, n # None
  PROVE  ReachesRoot(m)
BY DEF ReachesRoot

LEMMA BrotherThere ==
  ASSUME TypeOK, LinksConsistent, NEW n \in Node, parent[n] # None, Brother(n) # None
  PROVE  Brother(n) \in Node /\ parent[Brother(n)] = parent[n]
<1> DEFINE s == child[parent[n]]
           i == CHOOSE j \in DOMAIN s : s[j] = n
<1>1. parent[n] \in Node
  BY DEF TypeOK
<1>2. s \in Seq(Node) /\ n \in Range(s)
  BY <1>1 DEF TypeOK, LinksConsistent
<1>3. i \in DOMAIN s
  BY <1>2 DEF Range
<1>4. Brother(n) = IF i < Len(s) THEN s[i + 1] ELSE None
  BY DEF Brother
<1> HIDE DEF i, s
<1>5. i < Len(s) /\ i + 1 \in DOMAIN s /\ Brother(n) = s[i + 1]
  BY <1>2, <1>3, <1>4
<1>6. Brother(n) \in Node /\ Brother(n) \in Range(s)
  BY <1>2, <1>5 DEF Range
<1> QED BY <1>1, <1>6 DEF LinksConsistent, s

\* climb of tree_next() is what its definition says: there is such a function.
LEMMA ClimbDefined ==
  ASSUME TypeOK
  PROVE  LET R == {q \in Node : ReachesRoot(q)}
         IN  \E f : f = [m \in R |-> IF m = tree_root THEN None
                                     ELSE IF Brother(m) # None THEN Brother(m)
                                     ELSE f[parent[m]]]
<1> DEFINE R == {q \in Node : ReachesRoot(q)}
           Stop(k) == k = tree_root \/ Brother(k) # None
           Way(m) == {k \in R : \A Q \in SUBSET R :
                        (m \in Q /\ \A j \in Q : ~Stop(j) => parent[j] \in Q) => k \in Q}
           Stops(m) == {k \in Way(m) : Stop(k)}
           Value(k) == IF k = tree_root THEN None ELSE Brother(k)
           g == [m \in R |-> Value(CHOOSE k : k \in Stops(m))]
<1>1. \A m \in R : ~Stop(m) => parent[m] \in R
  BY UpReaches
<1> HIDE DEF R
<1>2. ASSUME NEW m \in R, Stop(m) PROVE Stops(m) = {m}
  <2>1. {m} \in SUBSET R /\ \A j \in {m} : ~Stop(j) => parent[j] \in {m}
    BY <1>2
  <2>2. Way(m) \subseteq {m}
    BY <2>1
  <2>3. m \in Way(m)
    OBVIOUS
  <2> QED BY <1>2, <2>2, <2>3
<1>3. ASSUME NEW m \in R, ~Stop(m) PROVE Stops(m) = Stops(parent[m])
  <2>1. ASSUME NEW k \in Stops(m) PROVE k \in Stops(parent[m])
    <3>1. k \in R /\ Stop(k) /\ k # m
      BY <1>3
    <3>2. ASSUME NEW Q \in SUBSET R, parent[m] \in Q, \A j \in Q : ~Stop(j) => parent[j] \in Q
          PROVE  k \in Q
      <4>1. Q \cup {m} \in SUBSET R
            /\ \A j \in Q \cup {m} : ~Stop(j) => parent[j] \in Q \cup {m}
        BY <3>2
      <4>2. k \in Q \cup {m}
        BY <4>1
      <4> QED BY <3>1, <4>2
    <3> QED BY <3>1, <3>2
  <2>2. ASSUME NEW k \in Stops(parent[m]) PROVE k \in Stops(m)
    <3>1. k \in R /\ Stop(k)
      OBVIOUS
    <3>2. ASSUME NEW Q \in SUBSET R, m \in Q, \A j \in Q : ~Stop(j) => parent[j] \in Q
          PROVE  k \in Q
      BY <1>3, <3>2
    <3> QED BY <3>1, <3>2
  <2> QED BY <2>1, <2>2
<1>4. \A m \in R : g[m] = Value(CHOOSE k : k \in Stops(m))
  OBVIOUS
<1>5. g = [m \in R |-> g[m]]
  OBVIOUS
<1> HIDE DEF g, Stops
<1>6. ASSUME NEW m \in R
      PROVE  g[m] = IF m = tree_root THEN None
                    ELSE IF Brother(m) # None THEN Brother(m) ELSE g[parent[m]]
  <2>1. CASE Stop(m)
    <3>1. (CHOOSE k : k \in Stops(m)) = m
      BY <1>2, <2>1
    <3>2. g[m] = Value(m)
      BY <1>4, <3>1
    <3> QED BY <2>1, <3>2
  <2>2. CASE ~Stop(m)
    <3>1. Stops(m) = Stops(parent[m]) /\ parent[m] \in R
      BY <1>1, <1>3, <2>2
    <3>2. g[m] = g[parent[m]]
      <4> HIDE DEF Value
      <4> QED BY <1>4, <3>1
    <3> QED BY <2>2, <3>2
  <2> QED BY <2>1, <2>2
<1>7. g = [m \in R |-> IF m = tree_root THEN None
                       ELSE IF Brother(m) # None THEN Brother(m) ELSE g[parent[m]]]
  BY <1>5, <1>6
<1> QED BY <1>7 DEF R

\* From a node below the root tree_next() leads to such a node, or to the end.
LEMMA NextReaches ==
  ASSUME TypeOK, LinksConsistent, NEW n \in Node, ReachesRoot(n)
  PROVE  tree_next(n) # None => /\ tree_next(n) \in Node /\ ReachesRoot(tree_next(n))
                                /\ parent[tree_next(n)] # None
<1> DEFINE R == {q \in Node : ReachesRoot(q)}
           Eqn(f) == f = [m \in R |-> IF m = tree_root THEN None
                                      ELSE IF Brother(m) # None THEN Brother(m)
                                      ELSE f[parent[m]]]
           climb == CHOOSE f : Eqn(f)
           Good(m) == m = None \/ (m \in Node /\ ReachesRoot(m) /\ parent[m] # None)
<1>1. tree_next(n) = IF child[n] # <<>> THEN Head(child[n]) ELSE climb[n]
  BY DEF tree_next
<1>2. \E f : Eqn(f)
  BY ClimbDefined
<1> HIDE DEF Eqn
<1>3. Eqn(climb)
  BY <1>2
<1> HIDE DEF climb
<1>4. \A m \in R : climb[m] = IF m = tree_root THEN None
                              ELSE IF Brother(m) # None THEN Brother(m) ELSE climb[parent[m]]
  BY <1>3 DEF Eqn
<1>5. None \notin Node
  BY NodeFacts
<1>6. ASSUME NEW m \in R, m # tree_root
      PROVE  parent[m] \in R /\ (Brother(m) # None => Good(Brother(m)))
  <2>1. parent[m] \in R
    BY <1>6, UpReaches
  <2>2. Brother(m) # None => Brother(m) \in Node /\ parent[Brother(m)] = parent[m]
    BY <1>5, <2>1, BrotherThere
  <2> QED BY <1>5, <2>1, <2>2, DownReaches
<1>7. Good(climb[n])
  <2> SUFFICES ASSUME ~Good(climb[n]) PROVE FALSE
    OBVIOUS
  <2> DEFINE A == {m \in R : ~Good(climb[m])}
  <2>1. ASSUME NEW m \in A PROVE m # tree_root /\ parent[m] \in A
    <3>1. m \in R /\ ~Good(climb[m]) /\ Good(None)
      OBVIOUS
    <3>2. m # tree_root
      BY <1>4, <3>1
    <3>3. Brother(m) = None
      BY <1>4, <1>6, <3>1, <3>2
    <3>4. climb[m] = climb[parent[m]]
      BY <1>4, <3>1, <3>2, <3>3
    <3> QED BY <1>6, <3>1, <3>2, <3>4
  <2>2. n \in A /\ A \in SUBSET Node
    OBVIOUS
  <2> HIDE DEF A
  <2>3. tree_root \in A
    BY <2>1, <2>2 DEF ReachesRoot
  <2> QED BY <2>1, <2>3
<1>8. ASSUME child[n] # <<>> PROVE Good(Head(child[n]))
  <2>1. child[n] \in Seq(Node)
    BY DEF TypeOK
  <2>2. Head(child[n]) \in Node /\ Head(child[n]) \in Range(child[n])
    BY <1>8, <2>1 DEF Range
  <2>3. parent[Head(child[n])] = n
    BY <2>2 DEF LinksConsistent
  <2> QED BY <1>5, <2>2, <2>3, DownReaches
<1> QED BY <1>1, <1>7, <1>8

\* The list changes priv between two updates only, and gives no line to a freed
\* node: synchronize() is always at a node at or below the root.
WalkInv ==
  /\ stage # "tree" => phase = "idle"
  /\ stage = "sync" /\ proc # None => proc \in Found /\ ReachesRoot(proc)

LEMMA NextFound ==
  ASSUME IInv, NEW n \in Found, ReachesRoot(n), tree_next(n) # None
  PROVE  tree_next(n) \in Found /\ ReachesRoot(tree_next(n))
<1>1. n \in Node
  BY NodeFacts DEF IInv, TypeOK, Found
<1>2. tree_next(n) \in Node /\ ReachesRoot(tree_next(n)) /\ parent[tree_next(n)] # None
  BY <1>1, NextReaches DEF IInv
<1> QED BY <1>2 DEF IInv, LinksConsistent

\* Every step of the list is one that the tree allows its client, or none.
LEMMA StepOfTree ==
  ASSUME IInv, WalkInv, [Next]_plVars PROVE [PTNext]_ptVars /\ WalkInv'
<1> DEFINE Same == UNCHANGED ptVars
<1>1. CASE KernelActs
  BY <1>1 DEF KernelActs, KernelMoves, PTNext, WalkInv
<1>2. ASSUME Periodic PROVE [PTNext]_ptVars /\ WalkInv'
  BY <1>2 DEF Periodic, PTNext, WalkInv
<1>3. ASSUME stage = "idle", stage' \in {"idle", "draw"}, Same
      PROVE  [PTNext]_ptVars /\ WalkInv'
  BY <1>3 DEF WalkInv, ptVars, scanVars
<1>4. CASE Hide
  <2>1. phase = "idle" /\ priv' \in SUBSET Found
    BY <1>4 DEF Hide, clear_list, WalkInv, IInv, PrivLive
  <2>2. Client
    BY <1>4, <2>1 DEF Hide, Client
  <2> QED BY <1>4, <2>1, <2>2 DEF Hide, PTNext, WalkInv, scanVars
<1>5. CASE Tick \/ User
  <2>1. CASE Tick \/ KeyR \/ KeySignal
    BY <1>2, <2>1 DEF Tick, KeyR, KeySignal
  <2>2. CASE KeyT
    <3>1. CASE Unhide(1)
      BY <1>2, <3>1 DEF Unhide
    <3>2. CASE Periodic
      BY <1>2, <3>2
    <3>3. CASE stage' = stage /\ Same
      BY <1>3, <2>2, <3>3 DEF KeyT
    <3> QED BY <2>2, <3>1, <3>2, <3>3 DEF KeyT
  <2>3. CASE KeyEnter
    <3>1. ASSUME NEW r, Unhide(r) PROVE [PTNext]_ptVars /\ WalkInv'
      BY <1>2, <3>1 DEF Unhide
    <3> QED BY <1>4, <2>3, <3>1 DEF KeyEnter
  <2>4. CASE KeyO \/ KeySearch
    BY <1>3, <2>4 DEF KeyO, KeySearch
  <2>5. ASSUME NEW k, KeyCursor(k) PROVE [PTNext]_ptVars /\ WalkInv'
    BY <1>3, <2>5 DEF KeyCursor
  <2> QED BY <1>5, <2>1, <2>2, <2>3, <2>4, <2>5 DEF User
<1>6. CASE UpdateTree
  <2>1. Continue /\ stage' = IF phase' = "idle" THEN "delete" ELSE "tree"
    BY <1>6 DEF UpdateTree
  <2> QED BY <2>1 DEF PTNext, WalkInv
<1>7. ASSUME NEW n \in Node, DeleteLine(n) PROVE [PTNext]_ptVars /\ WalkInv'
  BY <1>7 DEF DeleteLine, WalkInv, ptVars, scanVars
<1>8. CASE StartSync
  <2>1. /\ Same /\ stage = "delete" /\ tree_root' = tree_root
        /\ proc' = IF tree_root \notin Found THEN None
                   ELSE IF tree_root = 0 THEN tree_next(0) ELSE tree_root
    BY <1>8 DEF StartSync, viewVars
  <2>2. phase' = "idle" /\ Found' = Found /\ parent' = parent
    BY <2>1 DEF WalkInv, ptVars, treeVars, scanVars, Found
  <2>3. ReachesRoot(tree_root)
    BY DEF ReachesRoot
  <2>4. proc' # None => proc' \in Found /\ ReachesRoot(proc')
    BY <2>1, <2>3, NextFound
  <2>5. \A m : ReachesRoot(m) => ReachesRoot(m)'
    BY <2>1, <2>2 DEF ReachesRoot
  <2> QED BY <2>1, <2>2, <2>4, <2>5 DEF WalkInv
<1>9. CASE SyncKeep
  <2>1. /\ Same /\ stage = "sync" /\ tree_root' = tree_root /\ proc # None
        /\ stage' = "sync" => proc' = tree_next(proc)
        /\ stage' \in {"sync", "broken"}
    BY <1>9 DEF SyncKeep, viewVars
  <2>2. phase' = phase /\ phase = "idle" /\ Found' = Found /\ parent' = parent
    BY <2>1 DEF WalkInv, ptVars, treeVars, scanVars, Found
  <2>3. stage' = "sync" /\ proc' # None => proc' \in Found /\ ReachesRoot(proc')
    BY <2>1, NextFound DEF WalkInv
  <2>4. \A m : ReachesRoot(m) => ReachesRoot(m)'
    BY <2>1, <2>2 DEF ReachesRoot
  <2> QED BY <2>1, <2>2, <2>3, <2>4 DEF WalkInv
<1>10. CASE SyncInsert
  <2>1. /\ stage = "sync" /\ stage' = stage /\ tree_root' = tree_root /\ proc # None
        /\ proc' = tree_next(proc) /\ priv' = priv \cup {proc}
        /\ UNCHANGED <<kernelVars, parent, child, state, hash_table, main_list,
                       old_list, scanVars>>
    BY <1>10 DEF SyncInsert, viewVars
  <2>2. phase' = phase /\ phase = "idle" /\ Found' = Found /\ parent' = parent
    BY <2>1 DEF WalkInv, scanVars, Found
  <2>3. proc' # None => proc' \in Found /\ ReachesRoot(proc')
    BY <2>1, NextFound DEF WalkInv
  <2>4. \A m : ReachesRoot(m) => ReachesRoot(m)'
    BY <2>1, <2>2 DEF ReachesRoot
  <2>5. Client
    <3>1. priv' \in SUBSET Found
      BY <2>1 DEF WalkInv, IInv, PrivLive
    <3> QED BY <2>1, <2>2, <3>1 DEF Client
  <2> QED BY <2>1, <2>2, <2>3, <2>4, <2>5 DEF WalkInv, PTNext
<1>11. CASE EndSync \/ Draw
  BY <1>11 DEF EndSync, Draw, WalkInv, ptVars, scanVars
<1>12. CASE UNCHANGED plVars
  BY <1>12 DEF plVars, ptVars, treeVars, scanVars, viewVars, WalkInv, Found, ReachesRoot
<1> QED BY <1>1, <1>5, <1>6, <1>7, <1>8, <1>9, <1>10, <1>11, <1>12 DEF Next, Work

\* The list implements the tree with a client of its own: so all that is proved of
\* PTSafe holds of the tree under the list (synchronize(), mark_del(), clear_list()).
THEOREM ListIsClient == Safe => PTSafe
<1>1. Init => PTInit /\ IInv /\ WalkInv
  BY InitIInv DEF Init, PTInit, WalkInv
<1>2. IInv /\ WalkInv /\ [Next]_plVars => [PTNext]_ptVars /\ IInv' /\ WalkInv'
  BY StepOfTree, NextIInv
<1> QED BY <1>1, <1>2, PTL DEF Safe, PTSafe

-----------------------------------------------------------------------------
(* The counters                                                            *)

\* "nr" is the name of a counter here, and of no state.
LettersOnly == "nr" \notin States

\* Init gets his line after his first reading only, which puts him under node 0,
\* and keeps it.
InitRead ==
  /\ \/ parent[1] = 0
     \/ phase = "idle" /\ stage \in {"idle", "draw", "broken"}
     \/ phase = "scan" /\ seen = 0
  /\ 1 \notin fresh /\ 0 \notin priv
  /\ 1 \in priv => parent[1] = 0
  /\ stage = "sync" /\ proc # None => proc # 0

LEMMA InitAlive == ASSUME IInv PROVE 1 \in Alive /\ ppid[1] = 0 /\ 1 \in Procs
<1>1. 1 \in Procs /\ 0 \in Node /\ None \notin Node
  BY NodeFacts
<1> QED BY <1>1 DEF IInv, KernelWellFormed, Alive

\* An update leaves init his line, once he is under node 0, and to whoever keeps
\* his line the state he was counted in.
LEMMA ContinueKeeps ==
  ASSUME IInv, InitRead, stage = "tree", Continue
  PROVE  /\ parent[1] = 0 => parent'[1] = 0
         /\ parent'[1] = 0 \/ (phase' = "scan" /\ seen' = 0)
         /\ 1 \in priv => 1 \in priv'
         /\ \A n \in priv' \ {1} : state'[n] = state[n]
<1>1. /\ 1 \in Alive /\ ppid[1] = 0 /\ 1 \in Procs /\ 1 \in Node /\ 0 \in Node
      /\ parent \in [Node -> Node \cup {None}] /\ state \in [Node -> States \cup {None}]
      /\ priv \subseteq hash_table \cup {0, 1} /\ 0 \notin priv /\ 1 \notin fresh
      /\ (1 \in priv => parent[1] = 0) /\ priv \subseteq Node
      /\ parent[1] = 0 \/ (phase = "scan" /\ seen = 0)
  BY InitAlive, NodeFacts DEF IInv, TypeOK, PrivLive, Found, InitRead
<1>2. ASSUME NEW p \in Procs, ReadEntry(p)
      PROVE  /\ parent[1] = 0 => parent'[1] = 0
             /\ parent'[1] = 0
             /\ 1 \in priv => 1 \in priv'
             /\ \A n \in priv' \ {1} : state'[n] = state[n]
  <2>1. priv' \subseteq priv
    BY <1>2 DEF ReadEntry, Reparent
  <2>2. ASSUME NEW n \in priv' \ {1} PROVE state'[n] = state[n]
    <3>1. n \in Node /\ n \in hash_table /\ n \notin {0, 1}
      BY <1>1, <2>1
    <3>2. state' = [m \in Node |->
                      IF m \in {p, ppid[p]} /\ (m \in {0, 1} \/ m \notin hash_table)
                      THEN kstate[p] ELSE state[m]]
      BY <1>2 DEF ReadEntry, Validate
    <3> QED BY <3>1, <3>2
  <2>3. CASE p = 1
    <3>1. parent'[1] = 0
      BY <1>1, <1>2, <2>3 DEF ReadEntry, Reparent
    <3>2. 1 \in priv => 1 \in priv'
      BY <1>1, <1>2, <2>3 DEF ReadEntry
    <3> QED BY <2>2, <3>1, <3>2
  <2>4. CASE p # 1
    <3>1. p \in Nat /\ p > 1 /\ p \in Node
      <4>1. p \in Pids /\ p \in Node /\ p \in Nat /\ p # 0
        BY <2>4, NodeFacts DEF Procs
      <4> QED BY <2>4, <4>1
    <3>2. parent[1] = 0
      <4>1. ~(seen < 1)
        BY <1>1, <1>2, <3>1 DEF ReadEntry, Passed
      <4> QED BY <1>1, <4>1
    <3>3. parent'[1] = 0
      BY <1>1, <1>2, <2>4, <3>2 DEF ReadEntry, Reparent
    <3>4. 1 \in priv => 1 \in priv'
      <4> SUFFICES ASSUME 1 \in priv PROVE 1 \notin Marked(p)
        BY <1>2 DEF ReadEntry, Reparent
      <4> DEFINE Q == Node \ {0, 1}
      <4>1. p \in Q /\ Q \in SUBSET Node /\ 1 \notin Q
        BY <3>1
      <4>2. ASSUME NEW n \in Q, NEW c \in Range(child[n]) \cap priv PROVE c \in Q
        <5>1. c \in Node /\ parent[c] = n
          BY <1>1 DEF IInv, LinksConsistent
        <5> QED BY <1>1, <3>2, <5>1
      <4> QED BY <4>1, <4>2 DEF Marked
    <3> QED BY <2>2, <3>2, <3>3, <3>4
  <2> QED BY <2>3, <2>4
<1>3. ASSUME NEW p \in Pids, Reap(p)
      PROVE  /\ parent'[1] = 0
             /\ 1 \in priv => 1 \in priv'
             /\ \A n \in priv' \ {1} : state'[n] = state[n]
  <2>1. /\ phase = "reap" /\ priv' = priv \ {p} /\ state' = [state EXCEPT ![p] = None]
        /\ parent' = [n \in Node |-> IF n = p THEN None
                                     ELSE IF parent[n] = p THEN 1 ELSE parent[n]]
        /\ p # 0 /\ p # 1
    BY <1>3, NodeFacts DEF Reap, Adopt, Free
  <2> QED BY <1>1, <2>1
<1>4. CASE EndScan
  <2>1. ~(1 > seen)
    BY <1>1, <1>4 DEF EndScan
  <2> QED BY <1>1, <1>4, <2>1 DEF EndScan, treeVars
<1>5. CASE EndUpdate
  BY <1>1, <1>5 DEF EndUpdate, treeVars
<1> QED BY <1>2, <1>3, <1>4, <1>5 DEF Continue

LEMMA InitReadNext ==
  ASSUME IInv, WalkInv, InitRead, [Next]_plVars PROVE InitRead'
<1>1. 1 \in Procs /\ ppid[1] = 0 /\ 0 # None
  BY InitAlive, NodeFacts DEF Node
<1>2. CASE KernelActs
  <2>1. 1 \notin fresh'
    BY <1>1, <1>2 DEF KernelActs, KernelMoves, InitRead
  <2> QED BY <1>2, <2>1 DEF KernelActs, KernelMoves, treeVars, InitRead
<1>3. ASSUME Periodic PROVE InitRead'
  BY <1>3 DEF Periodic, StartUpdate, InitRead
<1>4. ASSUME stage \in {"idle", "draw"}, stage' \in {"idle", "draw", "broken"},
             UNCHANGED ptVars
      PROVE  InitRead'
  BY <1>4 DEF InitRead, ptVars, treeVars, scanVars
<1>5. CASE Hide
  BY <1>5 DEF Hide, clear_list, InitRead, scanVars
<1>6. CASE Tick \/ User
  <2>1. CASE Tick \/ KeyR \/ KeySignal
    BY <1>3, <2>1 DEF Tick, KeyR, KeySignal
  <2>2. CASE KeyT
    <3>1. CASE Unhide(1)
      BY <1>3, <3>1 DEF Unhide
    <3>2. CASE Periodic
      BY <1>3, <3>2
    <3>3. CASE stage' = stage /\ UNCHANGED ptVars
      BY <1>4, <2>2, <3>3 DEF KeyT
    <3> QED BY <2>2, <3>1, <3>2, <3>3 DEF KeyT
  <2>3. CASE KeyEnter
    <3>1. ASSUME NEW r, Unhide(r) PROVE InitRead'
      BY <1>3, <3>1 DEF Unhide
    <3> QED BY <1>5, <2>3, <3>1 DEF KeyEnter
  <2>4. CASE KeyO \/ KeySearch
    BY <1>4, <2>4 DEF KeyO, KeySearch
  <2>5. ASSUME NEW k, KeyCursor(k) PROVE InitRead'
    BY <1>4, <2>5 DEF KeyCursor
  <2> QED BY <1>6, <2>1, <2>2, <2>3, <2>4, <2>5 DEF User
<1>7. CASE UpdateTree
  <2>1. /\ stage = "tree" /\ Continue /\ stage' \in {"delete", "tree"}
    BY <1>7 DEF UpdateTree
  <2>2. /\ parent[1] = 0 => parent'[1] = 0
        /\ parent'[1] = 0 \/ (phase' = "scan" /\ seen' = 0)
    BY <2>1, ContinueKeeps
  <2>3. priv' \subseteq priv
    BY <2>1, ContinueTakes
  <2>4. fresh' \subseteq fresh
    BY <2>1 DEF Continue, ReadEntry, EndScan, Reap, EndUpdate, scanVars
  <2> QED BY <2>1, <2>2, <2>3, <2>4 DEF InitRead
<1>8. ASSUME NEW n \in Node, DeleteLine(n) PROVE InitRead'
  BY <1>8 DEF DeleteLine, InitRead, ptVars, treeVars, scanVars
<1>9. ASSUME NEW n \in Node, ReachesRoot(n), tree_next(n) # None PROVE tree_next(n) # 0
  BY <1>9, NextReaches DEF IInv, TreeRoots
<1>10. Found \subseteq Node /\ 0 \in Node
  BY NodeFacts DEF Found, IInv, TypeOK
<1>11. CASE StartSync
  <2>1. /\ UNCHANGED ptVars /\ stage = "delete" /\ stage' = "sync"
        /\ proc' = IF tree_root \notin Found THEN None
                   ELSE IF tree_root = 0 THEN tree_next(0) ELSE tree_root
    BY <1>11 DEF StartSync
  <2>2. ReachesRoot(tree_root)
    BY DEF ReachesRoot
  <2>3. proc' # None => proc' # 0
    BY <1>9, <1>10, <2>1, <2>2
  <2> QED BY <2>1, <2>3 DEF InitRead, ptVars, treeVars, scanVars
<1>12. CASE SyncKeep \/ SyncInsert
  <2>1. /\ stage = "sync" /\ proc # None /\ proc # 0 /\ parent[1] = 0
    BY <1>12 DEF SyncKeep, SyncInsert, InitRead, WalkInv
  <2>2. /\ parent' = parent /\ fresh' = fresh /\ priv' \subseteq priv \cup {proc}
        /\ stage' = "sync" => proc' = tree_next(proc)
    BY <1>12 DEF SyncKeep, SyncInsert, ptVars, treeVars, scanVars
  <2>3. proc' # None /\ stage' = "sync" => proc' # 0
    BY <1>9, <1>10, <2>1, <2>2 DEF WalkInv
  <2> QED BY <2>1, <2>2, <2>3 DEF InitRead
<1>13. CASE EndSync \/ Draw
  BY <1>13 DEF EndSync, Draw, InitRead, ptVars, treeVars, scanVars
<1>14. CASE UNCHANGED plVars
  BY <1>14 DEF plVars, ptVars, treeVars, scanVars, InitRead
<1> QED BY <1>2, <1>6, <1>7, <1>8, <1>11, <1>12, <1>13, <1>14 DEF Next, Work

\* What pstat_update() does, counter by counter
LEMMA CountedProps ==
  ASSUME LettersOnly, pstat \in [States \cup {"nr"} -> Int], NEW D, IsFiniteSet(D),
         NEW n \in Int
  PROVE  /\ Counted(D, n) \in [States \cup {"nr"} -> Int]
         /\ Counted(D, n)["nr"] = pstat["nr"] + n * Cardinality(D)
         /\ \A s \in States :
              Counted(D, n)[s] = pstat[s] + n * Cardinality({d \in D : state[d] = s})
<1> DEFINE C(k) == Cardinality(IF k = "nr" THEN D ELSE {d \in D : state[d] = k})
<1>1. \A k : C(k) \in Nat
  BY FS_CardinalityType, FS_Subset
<1>2. \A s \in States : C(s) = Cardinality({d \in D : state[d] = s})
  BY DEF LettersOnly
<1>3. C("nr") = Cardinality(D)
  OBVIOUS
<1>4. Counted(D, n) = [k \in States \cup {"nr"} |-> pstat[k] + n * C(k)]
  BY DEF Counted
<1> HIDE DEF C
<1>5. \A k \in States \cup {"nr"} : pstat[k] + n * C(k) \in Int
  BY <1>1
<1> QED BY <1>2, <1>3, <1>4, <1>5

CountInv == pstat \in [States \cup {"nr"} -> Int] /\ CountsMatch

LEMMA PrivFinite == ASSUME IInv PROVE \A Q \in SUBSET priv : IsFiniteSet(Q)
<1>1. IsFiniteSet(Pids \cup {1} \cup {0})
  BY PidsAssumption, FS_AddElement
<1>2. priv \subseteq Pids \cup {1} \cup {0}
  BY DEF IInv, TypeOK, Node, Procs
<1> QED BY <1>1, <1>2, FS_Subset

\* Nodes other than init lose their lines.
LEMMA CountsLess ==
  ASSUME LettersOnly, IInv, CountInv, NEW D \in SUBSET priv, 1 \notin D,
         priv' = priv \ D, pstat' = Counted(D, -1),
         \A n \in priv' \ {1} : state'[n] = state[n]
  PROVE  CountInv'
<1>1. IsFiniteSet(priv) /\ IsFiniteSet(D) /\ IsFiniteSet(priv \ {1})
  BY PrivFinite
<1>2. /\ pstat' \in [States \cup {"nr"} -> Int]
      /\ pstat'["nr"] = pstat["nr"] + (-1) * Cardinality(D)
      /\ \A s \in States :
           pstat'[s] = pstat[s] + (-1) * Cardinality({d \in D : state[d] = s})
  <2>1. pstat \in [States \cup {"nr"} -> Int] /\ -1 \in Int
    BY DEF CountInv
  <2>2. /\ Counted(D, -1) \in [States \cup {"nr"} -> Int]
        /\ Counted(D, -1)["nr"] = pstat["nr"] + (-1) * Cardinality(D)
        /\ \A s \in States : Counted(D, -1)[s] =
             pstat[s] + (-1) * Cardinality({d \in D : state[d] = s})
    BY <1>1, <2>1, CountedProps, Zenon
  <2> QED BY <2>2, Zenon
<1>3. pstat'["nr"] = Cardinality(priv')
  <2>1. Cardinality(priv \ D) = Cardinality(priv) - Cardinality(priv \cap D)
    BY <1>1, FS_Difference
  <2>2. priv \cap D = D
    OBVIOUS
  <2>3. Cardinality(D) \in Nat /\ Cardinality(priv) \in Nat
    BY <1>1, FS_CardinalityType
  <2>4. pstat["nr"] = Cardinality(priv)
    BY DEF CountInv, CountsMatch
  <2>5. Cardinality(priv') = Cardinality(priv) - Cardinality(D)
    BY <2>1, <2>2
  <2>6. pstat'["nr"] = pstat["nr"] + (-1) * Cardinality(D)
    BY <1>2
  <2>7. \A a, b \in Nat : a + (-1) * b = a - b
    OBVIOUS
  <2> QED BY <2>3, <2>4, <2>5, <2>6, <2>7
<1>4. ASSUME NEW s \in States
      PROVE  pstat'[s] - Cardinality({n \in priv' \ {1} : state'[n] = s})
               \in {0} \cup (IF 1 \in priv' THEN {1} ELSE {})
  <2> DEFINE A == {n \in priv \ {1} : state[n] = s}
             B == {d \in D : state[d] = s}
             E == {n \in priv' \ {1} : state'[n] = s}
  <2>1. E = A \ B /\ A \cap B = B
    OBVIOUS
  <2>2. IsFiniteSet(A) /\ IsFiniteSet(B)
    BY PrivFinite
  <2>3. pstat[s] - Cardinality(A) \in {0} \cup (IF 1 \in priv THEN {1} ELSE {})
    BY DEF CountInv, CountsMatch
  <2>4. pstat'[s] = pstat[s] + (-1) * Cardinality(B) /\ pstat[s] \in Int
    BY <1>2 DEF CountInv
  <2>5. 1 \in priv' <=> 1 \in priv
    OBVIOUS
  <2> HIDE DEF A, B, E
  <2>6. Cardinality(E) = Cardinality(A) - Cardinality(B)
    BY <2>1, <2>2, FS_Difference
  <2>7. Cardinality(A) \in Nat /\ Cardinality(B) \in Nat
    BY <2>2, FS_CardinalityType
  <2>8. pstat'[s] - Cardinality(E) = pstat[s] - Cardinality(A)
    BY <2>4, <2>6, <2>7
  <2> QED BY <2>3, <2>5, <2>8 DEF E
<1> QED BY <1>2, <1>3, <1>4 DEF CountInv, CountsMatch

\* A node gets a line.
LEMMA CountsMore ==
  ASSUME LettersOnly, IInv, CountInv, proc \notin priv, priv' = priv \cup {proc},
         pstat' = Counted({proc}, 1), state' = state
  PROVE  CountInv'
<1>1. IsFiniteSet(priv) /\ IsFiniteSet({proc}) /\ Cardinality({proc}) = 1
  BY PrivFinite, FS_Singleton
<1>2. /\ pstat' \in [States \cup {"nr"} -> Int]
      /\ pstat'["nr"] = pstat["nr"] + 1 * Cardinality({proc})
      /\ \A s \in States :
           pstat'[s] = pstat[s] + 1 * Cardinality({d \in {proc} : state[d] = s})
  <2>1. pstat \in [States \cup {"nr"} -> Int] /\ 1 \in Int
    BY DEF CountInv
  <2>2. /\ Counted({proc}, 1) \in [States \cup {"nr"} -> Int]
        /\ Counted({proc}, 1)["nr"] = pstat["nr"] + 1 * Cardinality({proc})
        /\ \A s \in States : Counted({proc}, 1)[s] =
             pstat[s] + 1 * Cardinality({d \in {proc} : state[d] = s})
    BY <1>1, <2>1, CountedProps, Zenon
  <2> QED BY <2>2, Zenon
<1>3. pstat'["nr"] = Cardinality(priv')
  <2>1. Cardinality(priv \cup {proc}) = Cardinality(priv) + 1
    BY <1>1, FS_AddElement
  <2>2. pstat["nr"] = Cardinality(priv) /\ Cardinality(priv) \in Nat
    BY <1>1, FS_CardinalityType DEF CountInv, CountsMatch
  <2> QED BY <1>1, <1>2, <2>1, <2>2
<1>4. ASSUME NEW s \in States
      PROVE  pstat'[s] - Cardinality({n \in priv' \ {1} : state'[n] = s})
               \in {0} \cup (IF 1 \in priv' THEN {1} ELSE {})
  <2> DEFINE A == {n \in priv \ {1} : state[n] = s}
             B == {d \in {proc} : state[d] = s}
             E == {n \in priv' \ {1} : state'[n] = s}
  <2>1. pstat[s] - Cardinality(A) \in {0} \cup (IF 1 \in priv THEN {1} ELSE {})
    BY DEF CountInv, CountsMatch
  <2>2. pstat'[s] = pstat[s] + Cardinality(B) /\ pstat[s] \in Int
    <3>1. pstat'[s] = pstat[s] + 1 * Cardinality(B) /\ pstat[s] \in Int
      BY <1>2 DEF CountInv
    <3>2. Cardinality(B) \in Nat
      <4>1. IsFiniteSet(B)
        BY <1>1, FS_Subset
      <4> HIDE DEF B
      <4> QED BY <4>1, FS_CardinalityType
    <3> HIDE DEF B
    <3> QED BY <3>1, <3>2
  <2>3. IsFiniteSet(A)
    BY PrivFinite
  <2>4. B = (IF state[proc] = s THEN {proc} ELSE {})
    OBVIOUS
  <2>5. Cardinality(B) = IF state[proc] = s THEN 1 ELSE 0
    BY <1>1, <2>4, FS_EmptySet
  <2>6. CASE proc = 1
    <3>1. E = A /\ 1 \notin priv /\ 1 \in priv'
      BY <2>6
    <3> HIDE DEF A, B, E
    <3>2. Cardinality(A) \in Nat
      BY <2>3, FS_CardinalityType
    <3>3. pstat[s] - Cardinality(A) = 0
      BY <2>1, <3>1
    <3>4. pstat'[s] - Cardinality(E) \in {0, 1}
      BY <2>2, <2>5, <3>1, <3>2, <3>3
    <3> QED BY <3>1, <3>4 DEF E
  <2>7. CASE proc # 1
    <3>1. E = (IF state[proc] = s THEN A \cup {proc} ELSE A) /\ proc \notin A
      BY <2>7
    <3>2. 1 \in priv' <=> 1 \in priv
      BY <2>7
    <3> HIDE DEF A, B, E
    <3>3. Cardinality(A) \in Nat
      BY <2>3, FS_CardinalityType
    <3>4. Cardinality(E) = IF state[proc] = s THEN Cardinality(A) + 1 ELSE Cardinality(A)
      BY <2>3, <3>1, FS_AddElement
    <3>5. pstat'[s] - Cardinality(E) = pstat[s] - Cardinality(A)
      BY <2>2, <2>5, <3>3, <3>4
    <3> QED BY <2>1, <3>2, <3>5 DEF E
  <2> QED BY <2>6, <2>7
<1> QED BY <1>2, <1>3, <1>4 DEF CountInv, CountsMatch

LEMMA CountsKept ==
  ASSUME LettersOnly, IInv, WalkInv, InitRead, LineInv, CountInv, [Next]_plVars
  PROVE  CountInv'
<1>1. ASSUME UNCHANGED <<priv, state, pstat>> PROVE CountInv'
  BY <1>1 DEF CountInv, CountsMatch
<1>2. CASE Hide
  <2>1. priv' = {} /\ pstat' = [k \in DOMAIN pstat |-> 0]
    BY <1>2 DEF Hide, clear_list, LineInv, LinesOwnNodes
  <2>2. pstat' = [k \in States \cup {"nr"} |-> 0]
    BY <2>1 DEF CountInv
  <2>3. \A s : {n \in priv' \ {1} : state'[n] = s} = {}
    BY <2>1
  <2> QED BY <2>1, <2>2, <2>3, FS_EmptySet DEF CountInv, CountsMatch
<1>3. CASE UpdateTree
  <2>1. /\ stage = "tree" /\ Continue /\ pstat' = Counted(priv \ priv', -1)
    BY <1>3 DEF UpdateTree, Mark
  <2>2. priv' \subseteq priv
    BY <2>1, ContinueTakes
  <2>3. (1 \in priv => 1 \in priv') /\ \A n \in priv' \ {1} : state'[n] = state[n]
    BY <2>1, ContinueKeeps
  <2> DEFINE D == priv \ priv'
  <2>4. D \in SUBSET priv /\ 1 \notin D /\ priv' = priv \ D /\ pstat' = Counted(D, -1)
    BY <2>1, <2>2, <2>3
  <2> HIDE DEF D
  <2> QED BY <2>3, <2>4, CountsLess
<1>4. CASE SyncInsert
  <2>1. /\ proc \notin priv /\ priv' = priv \cup {proc} /\ pstat' = Counted({proc}, 1)
        /\ state' = state
    BY <1>4 DEF SyncInsert
  <2> QED BY <2>1, CountsMore
<1>5. ASSUME Periodic PROVE CountInv'
  BY <1>1, <1>5 DEF Periodic, StartUpdate, listVars
<1>6. CASE Tick \/ User
  <2>1. CASE Tick \/ KeyR \/ KeySignal
    BY <1>5, <2>1 DEF Tick, KeyR, KeySignal
  <2>2. CASE KeyT
    <3>1. CASE Unhide(1)
      BY <1>5, <3>1 DEF Unhide
    <3>2. CASE UNCHANGED <<ptVars, listVars>>
      BY <1>1, <3>2 DEF ptVars, treeVars, listVars
    <3> QED BY <1>5, <2>2, <3>1, <3>2 DEF KeyT
  <2>3. CASE KeyEnter
    <3>1. ASSUME NEW r, Unhide(r) PROVE CountInv'
      BY <1>5, <3>1 DEF Unhide
    <3> QED BY <1>2, <2>3, <3>1 DEF KeyEnter
  <2>4. CASE KeyO \/ KeySearch
    BY <1>1, <2>4 DEF KeyO, KeySearch, ptVars, treeVars, listVars
  <2>5. ASSUME NEW k, KeyCursor(k) PROVE CountInv'
    BY <1>1, <2>5 DEF KeyCursor, ptVars, treeVars, listVars
  <2> QED BY <1>6, <2>1, <2>2, <2>3, <2>4, <2>5 DEF User
<1>7. CASE KernelActs
  BY <1>1, <1>7 DEF KernelActs, KernelMoves, treeVars, listVars
<1>8. ASSUME NEW n \in Node, DeleteLine(n) PROVE CountInv'
  BY <1>1, <1>8 DEF DeleteLine, ptVars, treeVars
<1>9. CASE StartSync \/ SyncKeep \/ EndSync \/ Draw
  BY <1>1, <1>9 DEF StartSync, SyncKeep, EndSync, Draw, ptVars, treeVars, listVars
<1>10. CASE UNCHANGED plVars
  BY <1>1, <1>10 DEF plVars, ptVars, treeVars, listVars
<1> QED BY <1>3, <1>4, <1>6, <1>7, <1>8, <1>9, <1>10 DEF Next, Work

\* The info line counts the processes that have lines, each in the state it was
\* counted in, whatever comes and goes in the middle of an update (pstat_update()).
THEOREM ProcessesCounted == ASSUME LettersOnly PROVE Safe => []CountsMatch
<1> DEFINE Inv == IInv /\ WalkInv /\ InitRead /\ CountInv
<1>1. Init => Inv
  <2> SUFFICES ASSUME Init PROVE Inv
    OBVIOUS
  <2>1. PTInit /\ priv = {} /\ pstat = [k \in States \cup {"nr"} |-> 0]
    BY DEF Init, PTInit
  <2>2. \A s : {n \in priv \ {1} : state[n] = s} = {}
    BY <2>1
  <2>3. CountInv
    BY <2>1, <2>2, FS_EmptySet DEF CountInv, CountsMatch
  <2>4. InitRead /\ WalkInv
    BY DEF Init, PTInit, InitRead, WalkInv
  <2> QED BY <2>1, <2>3, <2>4, InitIInv
<1>2. LineInv /\ Inv /\ [Next]_plVars => Inv'
  <2> SUFFICES ASSUME LineInv, Inv, [Next]_plVars PROVE Inv'
    OBVIOUS
  <2>1. [PTNext]_ptVars /\ WalkInv'
    BY StepOfTree
  <2> QED BY <2>1, NextIInv, InitReadNext, CountsKept
<1>3. Inv => CountsMatch
  BY DEF CountInv
<1> HIDE DEF Inv
<1> QED BY <1>1, <1>2, <1>3, LinesKept, PTL DEF Safe

-----------------------------------------------------------------------------
(* The order of the tree: who is above whom, and whose line is first       *)

\* A node is at or above itself, and what is at or above it is in every set that is
\* closed upwards.
LEMMA UpProps ==
  ASSUME NEW f, NEW D \in SUBSET Node, NEW n \in Node
  PROVE  /\ n \in UpTo(f, D, n) /\ UpTo(f, D, n) \subseteq Node
         /\ \A a \in UpTo(f, D, n) : f[a] \in D => f[a] \in UpTo(f, D, n)
         /\ \A A \in SUBSET Node :
              (n \in A /\ \A m \in A : f[m] \in D => f[m] \in A) => UpTo(f, D, n) \subseteq A
BY DEF UpTo

\* At or above n is n and, if the parent of n is in D, what is at or above that.
LEMMA UpSteps ==
  ASSUME NEW f, NEW D \in SUBSET Node, NEW n \in Node
  PROVE  /\ UpTo(f, D, n) \subseteq {n} \cup D
         /\ f[n] \notin D => UpTo(f, D, n) = {n}
         /\ f[n] \in D => UpTo(f, D, n) = {n} \cup UpTo(f, D, f[n])
         /\ \A a \in UpTo(f, D, n) : UpTo(f, D, a) \subseteq UpTo(f, D, n)
<1> DEFINE Closed(A) == \A m \in A : f[m] \in D => f[m] \in A
           V == UpTo(f, D, n)
<1>1. /\ n \in V /\ V \subseteq Node /\ Closed(V)
      /\ \A A \in SUBSET Node : n \in A /\ Closed(A) => V \subseteq A
  BY UpProps
<1> HIDE DEF V
<1>2. V \subseteq {n} \cup D
  <2>1. {n} \cup D \in SUBSET Node /\ Closed({n} \cup D)
    OBVIOUS
  <2> QED BY <1>1, <2>1
<1>3. ASSUME f[n] \notin D PROVE V = {n}
  <2>1. {n} \in SUBSET Node /\ Closed({n})
    BY <1>3
  <2> QED BY <1>1, <2>1
<1>4. ASSUME NEW a \in V PROVE UpTo(f, D, a) \subseteq V
  <2>1. a \in Node /\ V \in SUBSET Node
    BY <1>1
  <2> QED BY <1>1, <2>1, UpProps
<1>5. ASSUME f[n] \in D PROVE V = {n} \cup UpTo(f, D, f[n])
  <2> DEFINE W == UpTo(f, D, f[n])
  <2>1. f[n] \in Node
    BY <1>5
  <2>2. f[n] \in W /\ W \subseteq Node /\ Closed(W)
    BY <2>1, UpProps
  <2>3. W \subseteq V
    BY <1>1, <1>4, <1>5
  <2> HIDE DEF W
  <2>4. {n} \cup W \in SUBSET Node /\ Closed({n} \cup W)
    BY <2>2
  <2>5. V \subseteq {n} \cup W
    BY <1>1, <2>4
  <2> QED BY <1>1, <2>3, <2>5 DEF W
<1> QED BY <1>2, <1>3, <1>4, <1>5 DEF V

\* Further up one gets in a larger set.
LEMMA UpMore ==
  ASSUME NEW f, NEW D \in SUBSET Node, NEW E \in SUBSET D, NEW n \in Node
  PROVE  UpTo(f, E, n) \subseteq UpTo(f, D, n)
BY DEF UpTo

\* No node at or above n has n for its parent.
LEMMA UpNoCycle ==
  ASSUME NEW f, NEW D \in SUBSET Node, Grounded(f, D), NEW n \in D,
         NEW a \in UpTo(f, D, n), f[a] = n
  PROVE  FALSE
<1> DEFINE V(x) == UpTo(f, D, x)
           A == {x \in V(n) : n \in V(x)}
<1>1. n \in Node /\ n \in V(n) /\ V(n) \subseteq D
  BY UpProps, UpSteps
<1>2. ASSUME NEW x \in D, x # n, n \in V(x) PROVE f[x] \in D /\ n \in V(f[x])
  <2>1. x \in Node
    OBVIOUS
  <2>2. V(x) = {x} \/ (f[x] \in D /\ V(x) = {x} \cup V(f[x]))
    BY <2>1, UpSteps
  <2> HIDE DEF V
  <2> QED BY <1>2, <2>2
<1>3. f[n] \in D /\ n \in V(f[n])
  <2>1. CASE a = n
    BY <1>1, <2>1
  <2>2. CASE a # n
    <3>1. V(n) = {n} \/ (f[n] \in D /\ V(n) = {n} \cup V(f[n]))
      BY <1>1, UpSteps
    <3>2. f[n] \in D /\ a \in V(f[n])
      <4> HIDE DEF V
      <4>1. a \in V(n)
        BY DEF V
      <4> QED BY <2>2, <3>1, <4>1
    <3>3. f[n] \in Node
      BY <3>2
    <3>4. f[a] \in V(f[n])
      BY <3>2, <3>3, UpProps
    <3> QED BY <3>2, <3>4
  <2> QED BY <2>1, <2>2
<1>4. ASSUME NEW x \in A PROVE f[x] \in A
  <2>1. x \in V(n) /\ n \in V(x) /\ x \in D
    BY <1>1
  <2>2. f[x] \in D /\ n \in V(f[x])
    <3> HIDE DEF V
    <3> QED BY <1>2, <1>3, <2>1
  <2>3. f[x] \in V(n)
    BY <1>1, <2>1, <2>2, UpProps
  <2> QED BY <2>2, <2>3
<1>5. n \in A /\ A \in SUBSET D
  BY <1>1
<1> HIDE DEF A
<1> QED BY <1>4, <1>5 DEF Grounded

\* Every node above n has a child at or above n.
LEMMA UpChild ==
  ASSUME NEW f, NEW D \in SUBSET Node, NEW n \in Node, NEW q \in UpTo(f, D, n), q # n
  PROVE  q \in D /\ \E b \in UpTo(f, D, n) : f[b] = q
<1> DEFINE V == UpTo(f, D, n)
<1>1. /\ n \in V /\ V \subseteq Node /\ q \in V /\ V \subseteq {n} \cup D
      /\ \A a \in V : f[a] \in D => f[a] \in V
      /\ \A A \in SUBSET Node :
           (n \in A /\ \A m \in A : f[m] \in D => f[m] \in A) => V \subseteq A
  BY UpProps, UpSteps
<1> HIDE DEF V
<1>2. V \ {q} \in SUBSET Node /\ n \in V \ {q} /\ ~(V \subseteq V \ {q})
  BY <1>1
<1>3. ~ \A m \in V \ {q} : f[m] \in D => f[m] \in V \ {q}
  BY <1>1, <1>2
<1> QED BY <1>1, <1>3 DEF V

\* Two nodes above n do not have the same parent.
LEMMA UpUnique ==
  ASSUME NEW f, NEW D \in SUBSET Node, Grounded(f, D), NEW n \in D,
         NEW a \in UpTo(f, D, n), NEW b \in UpTo(f, D, n), f[a] = f[b], f[a] \in D
  PROVE  a = b
<1> SUFFICES ASSUME a # b PROVE FALSE
  OBVIOUS
<1> DEFINE V(x) == UpTo(f, D, x)
           A == {x \in V(n) : a \in V(x) /\ b \in V(x)}
<1>1. n \in Node /\ n \in V(n) /\ V(n) \subseteq D
  BY UpProps, UpSteps
<1>2. ASSUME NEW x \in D, NEW y \in V(x), y # x PROVE f[x] \in D /\ y \in V(f[x])
  <2>1. x \in Node
    OBVIOUS
  <2>2. V(x) = {x} \/ (f[x] \in D /\ V(x) = {x} \cup V(f[x]))
    BY <2>1, UpSteps
  <2> HIDE DEF V
  <2> QED BY <1>2, <2>2
<1>3. ASSUME NEW x \in D, NEW y \in V(x), f[y] = f[x], f[x] \in D PROVE y = x
  <2> SUFFICES ASSUME y # x PROVE FALSE
    OBVIOUS
  <2>1. y \in V(f[x])
    BY <1>2, <1>3
  <2> QED BY <1>3, <2>1, UpNoCycle
<1>4. ASSUME NEW x \in A PROVE f[x] \in A
  <2>1. x \in V(n) /\ a \in V(x) /\ b \in V(x) /\ x \in D
    BY <1>1
  <2>2. x # a /\ x # b
    <3>1. x = a => b = x
      <4> HIDE DEF V
      <4> QED BY <1>3, <2>1
    <3>2. x = b => a = x
      <4> HIDE DEF V
      <4> QED BY <1>3, <2>1
    <3> QED BY <3>1, <3>2
  <2>3. f[x] \in D /\ a \in V(f[x]) /\ b \in V(f[x])
    <3> HIDE DEF V
    <3> QED BY <1>2, <2>1, <2>2
  <2>4. f[x] \in V(n)
    BY <1>1, <2>1, <2>3, UpProps
  <2> QED BY <2>3, <2>4
<1>5. n \in A /\ A \in SUBSET D
  BY <1>1
<1> HIDE DEF A
<1> QED BY <1>4, <1>5 DEF Grounded

\* Brothers have the same parent, and one is the elder.
LEMMA ElderProps ==
  ASSUME TypeOK, LinksConsistent
  PROVE  /\ \A a, b : Elder(child, a, b) =>
              a \in Node /\ b \in Node /\ a # b /\ parent[a] = parent[b] /\ parent[a] \in Node
         /\ \A a, b, d : Elder(child, a, b) /\ Elder(child, b, d) => Elder(child, a, d)
         /\ \A a, b \in Node : a # b /\ parent[a] = parent[b] /\ parent[a] \in Node =>
              Elder(child, a, b) \/ Elder(child, b, a)
<1>1. /\ \A q \in Node : child[q] \in Seq(Node) /\ IsInjective(child[q])
      /\ \A q, m \in Node : m \in Range(child[q]) <=> parent[m] = q
  BY DEF TypeOK, LinksConsistent
<1>2. ASSUME NEW a, NEW b, NEW q \in Node, NEW i \in DOMAIN child[q], NEW j \in DOMAIN child[q],
             i < j, child[q][i] = a, child[q][j] = b
      PROVE  a \in Node /\ b \in Node /\ a # b /\ parent[a] = q /\ parent[b] = q
  <2>1. child[q] \in Seq(Node) /\ a \in Range(child[q]) /\ b \in Range(child[q])
    BY <1>1, <1>2 DEF Range
  <2>2. a \in Node /\ b \in Node
    BY <1>2, <2>1
  <2>3. i # j /\ (child[q][i] = child[q][j] => i = j)
    BY <1>1, <1>2, <2>1 DEF IsInjective
  <2> QED BY <1>1, <1>2, <2>1, <2>2, <2>3
<1>3. ASSUME NEW a, NEW b, Elder(child, a, b)
      PROVE  a \in Node /\ b \in Node /\ a # b /\ parent[a] = parent[b] /\ parent[a] \in Node
  BY <1>2, <1>3 DEF Elder
<1>4. ASSUME NEW a, NEW b, NEW d, Elder(child, a, b), Elder(child, b, d) PROVE Elder(child, a, d)
  <2>1. PICK q \in Node : \E i, j \in DOMAIN child[q] : i < j /\ child[q][i] = a /\ child[q][j] = b
    BY <1>4 DEF Elder
  <2>2. PICK i \in DOMAIN child[q], j \in DOMAIN child[q] : i < j /\ child[q][i] = a /\ child[q][j] = b
    BY <2>1
  <2>3. PICK r \in Node : \E k, h \in DOMAIN child[r] : k < h /\ child[r][k] = b /\ child[r][h] = d
    BY <1>4 DEF Elder
  <2>4. PICK k \in DOMAIN child[r], h \in DOMAIN child[r] : k < h /\ child[r][k] = b /\ child[r][h] = d
    BY <2>3
  <2>5. r = q
    <3>1. parent[b] = q
      BY <1>2, <2>2
    <3>2. parent[b] = r
      BY <1>2, <2>4
    <3> QED BY <3>1, <3>2
  <2>6. j = k
    BY <1>1, <2>2, <2>4, <2>5 DEF IsInjective
  <2>7. DOMAIN child[q] \subseteq Int
    BY <1>1
  <2>8. i < h
    BY <2>2, <2>4, <2>5, <2>6, <2>7
  <2> QED BY <2>2, <2>4, <2>5, <2>8 DEF Elder
<1>5. ASSUME NEW a \in Node, NEW b \in Node, a # b, parent[a] = parent[b], parent[a] \in Node
      PROVE  Elder(child, a, b) \/ Elder(child, b, a)
  <2> DEFINE q == parent[a]
  <2>1. a \in Range(child[q]) /\ b \in Range(child[q])
    BY <1>1, <1>5
  <2>2. PICK i \in DOMAIN child[q], j \in DOMAIN child[q] : child[q][i] = a /\ child[q][j] = b
    BY <2>1 DEF Range
  <2>3. DOMAIN child[q] \subseteq Int /\ i # j
    BY <1>1, <1>5, <2>2
  <2>4. i < j \/ j < i
    BY <2>3
  <2> QED BY <1>5, <2>2, <2>4 DEF Elder
<1> QED BY <1>3, <1>4, <1>5

\* Brother() is the next in the list.
LEMMA BrotherProps ==
  ASSUME TypeOK, LinksConsistent, NEW m \in Node, parent[m] \in Node
  PROVE  /\ Brother(m) # None =>
              /\ Brother(m) \in Node /\ parent[Brother(m)] = parent[m]
              /\ Elder(child, m, Brother(m))
              /\ \A a : Elder(child, a, Brother(m)) => a = m \/ Elder(child, a, m)
         /\ Brother(m) = None =>
              \A b \in Node : b # m /\ parent[b] = parent[m] => Elder(child, b, m)
<1> DEFINE q == parent[m]
           s == child[q]
           i == CHOOSE j \in DOMAIN s : s[j] = m
<1>1. /\ s \in Seq(Node) /\ IsInjective(s) /\ m \in Range(s)
      /\ \A x \in Node : x \in Range(s) <=> parent[x] = q
      /\ None \notin Node
  BY NodeFacts DEF TypeOK, LinksConsistent
<1>2. i \in DOMAIN s /\ s[i] = m
  BY <1>1 DEF Range
<1>3. Brother(m) = IF i < Len(s) THEN s[i + 1] ELSE None
  BY DEF Brother
<1> HIDE DEF i, s
<1>4. Len(s) \in Nat /\ DOMAIN s = 1 .. Len(s) /\ \A j \in 1 .. Len(s) : s[j] \in Node
  BY <1>1
<1>5. ASSUME Brother(m) # None
      PROVE  /\ Brother(m) \in Node /\ parent[Brother(m)] = q
             /\ Elder(child, m, Brother(m))
             /\ \A a : Elder(child, a, Brother(m)) => a = m \/ Elder(child, a, m)
  <2>1. i < Len(s) /\ i + 1 \in DOMAIN s /\ Brother(m) = s[i + 1] /\ i \in Nat
    BY <1>2, <1>3, <1>4, <1>5
  <2>2. Brother(m) \in Node /\ Brother(m) \in Range(s)
    BY <1>4, <2>1 DEF Range
  <2>3. Elder(child, m, Brother(m))
    <3>1. i < i + 1
      BY <2>1
    <3> QED BY <1>2, <2>1, <3>1 DEF Elder, s
  <2>4. ASSUME NEW a, Elder(child, a, Brother(m)) PROVE a = m \/ Elder(child, a, m)
    <3>1. PICK r \in Node : \E k, h \in DOMAIN child[r] :
                              k < h /\ child[r][k] = a /\ child[r][h] = Brother(m)
      BY <2>4 DEF Elder
    <3>2. r = q
      <4>1. Brother(m) \in Range(child[r])
        BY <3>1 DEF Range
      <4>2. parent[Brother(m)] = r
        BY <2>2, <3>1, <4>1 DEF LinksConsistent
      <4> QED BY <1>1, <2>2, <4>2
    <3>3. PICK k \in DOMAIN s, h \in DOMAIN s : k < h /\ s[k] = a /\ s[h] = Brother(m)
      BY <3>1, <3>2 DEF s
    <3>4. h = i + 1
      BY <1>1, <2>1, <3>3 DEF IsInjective
    <3>5. k = i \/ k < i
      BY <1>4, <2>1, <3>3, <3>4
    <3>6. k < i => Elder(child, a, m)
      BY <1>2, <3>3 DEF Elder, s
    <3> QED BY <1>2, <3>3, <3>5, <3>6
  <2> QED BY <1>1, <2>2, <2>3, <2>4
<1>6. ASSUME Brother(m) = None, NEW b \in Node, b # m, parent[b] = q PROVE Elder(child, b, m)
  <2>1. ~(i < Len(s))
    <3> SUFFICES ASSUME i < Len(s) PROVE FALSE
      OBVIOUS
    <3>1. i + 1 \in 1 .. Len(s)
      BY <1>2, <1>4
    <3> QED BY <1>1, <1>3, <1>4, <1>6, <3>1
  <2>2. PICK k \in DOMAIN s : s[k] = b
    BY <1>1, <1>6 DEF Range
  <2>3. k < i
    BY <1>2, <1>4, <1>6, <2>1, <2>2
  <2> QED BY <1>2, <2>2, <2>3 DEF Elder, s
<1> QED BY <1>5, <1>6

-----------------------------------------------------------------------------
\* The nodes at and below the root of the displayed tree
Reach == {n \in Node : ReachesRoot(n)}
Up(n) == UpTo(parent, Reach, n)
TreeInv == TypeOK /\ LinksConsistent /\ TreeRoots /\ Grounded(parent, Node) /\ tree_root \in Node

\* From every node of the displayed tree one comes to its root, and to no parent of it.
LEMMA ReachProps ==
  ASSUME TreeInv
  PROVE  /\ Reach \in SUBSET Node /\ tree_root \in Reach /\ Grounded(parent, Reach)
         /\ \A n \in Reach : n # tree_root => parent[n] \in Reach
         /\ \A n \in Node : parent[n] \in Reach => n \in Reach
         /\ parent[tree_root] \notin Reach
<1>1. Reach \in SUBSET Node /\ tree_root \in Reach
  BY DEF Reach, TreeInv, ReachesRoot
<1>2. Grounded(parent, Reach)
  BY <1>1 DEF TreeInv, Grounded
<1>3. ASSUME NEW n \in Reach, n # tree_root PROVE parent[n] \in Reach
  BY <1>3, UpReaches DEF Reach, TreeInv
<1>4. ASSUME NEW n \in Node, parent[n] \in Reach PROVE n \in Reach
  <2>1. None \notin Node
    BY NodeFacts
  <2> QED BY <1>4, <2>1, DownReaches DEF Reach
<1>5. parent[tree_root] \notin Reach
  <2> SUFFICES ASSUME parent[tree_root] \in Reach PROVE FALSE
    OBVIOUS
  <2>1. \A n \in Reach : parent[n] \in Reach
    BY <1>3
  <2> QED BY <1>1, <1>2, <2>1 DEF Grounded
<1> QED BY <1>1, <1>2, <1>3, <1>4, <1>5

\* The nodes above a node of the displayed tree
LEMMA UpFacts ==
  ASSUME TreeInv, NEW n \in Reach
  PROVE  /\ n \in Up(n) /\ Up(n) \subseteq Reach /\ tree_root \in Up(n)
         /\ \A a \in Up(n) : a # tree_root => parent[a] \in Up(n)
         /\ n = tree_root => Up(n) = {n}
         /\ n # tree_root => Up(n) = {n} \cup Up(parent[n])
         /\ \A a \in Up(n) : parent[a] # n /\ Up(a) \subseteq Up(n)
         /\ \A a, b \in Up(n) : parent[a] = parent[b] /\ parent[a] \in Reach => a = b
         /\ \A q \in Up(n) : q # n => \E b \in Up(n) : parent[b] = q
<1>1. /\ Reach \in SUBSET Node /\ tree_root \in Reach /\ Grounded(parent, Reach)
      /\ \A m \in Reach : m # tree_root => parent[m] \in Reach
      /\ parent[tree_root] \notin Reach
  BY ReachProps
<1> HIDE DEF Reach
<1>2. n \in Node
  BY <1>1
<1>3. /\ n \in Up(n) /\ \A a \in Up(n) : parent[a] \in Reach => parent[a] \in Up(n)
  BY <1>1, <1>2, UpProps DEF Up
<1>4. /\ Up(n) \subseteq Reach /\ \A a \in Up(n) : Up(a) \subseteq Up(n)
      /\ n = tree_root => Up(n) = {n}
      /\ n # tree_root => Up(n) = {n} \cup Up(parent[n])
  BY <1>1, <1>2, UpSteps DEF Up
<1>5. ASSUME NEW a \in Up(n), parent[a] = n PROVE FALSE
  BY <1>1, <1>5, UpNoCycle DEF Up
<1>6. ASSUME NEW a \in Up(n), NEW b \in Up(n), parent[a] = parent[b], parent[a] \in Reach
      PROVE  a = b
  BY <1>1, <1>6, UpUnique DEF Up
<1>7. ASSUME NEW q \in Up(n), q # n PROVE \E b \in Up(n) : parent[b] = q
  BY <1>1, <1>2, <1>7, UpChild DEF Up
<1>8. tree_root \in Up(n)
  <2> SUFFICES ASSUME tree_root \notin Up(n) PROVE FALSE
    OBVIOUS
  <2>1. \A a \in Up(n) : parent[a] \in Up(n)
    BY <1>1, <1>3, <1>4
  <2> QED BY <1>1, <1>3, <1>4, <2>1 DEF Grounded
<1> QED BY <1>1, <1>3, <1>4, <1>5, <1>6, <1>7, <1>8

\* In the walk through the tree m comes before n.
Earlier(m, n) == Precedes(parent, child, Reach, m, n)

\* The same with the names used here
LEMMA EarlierDef ==
  ASSUME NEW m, NEW n
  PROVE  Earlier(m, n) <=> \/ m # n /\ m \in Up(n)
                           \/ \E a \in Up(m), b \in Up(n) : Elder(child, a, b)
BY DEF Earlier, Precedes, Up

\* No node comes before itself, and of two nodes one comes before the other.
LEMMA EarlierTotal ==
  ASSUME TreeInv, NEW m \in Reach, NEW n \in Reach
  PROVE  ~Earlier(m, m) /\ (m # n => Earlier(m, n) \/ Earlier(n, m))
<1> USE EarlierDef
<1>1. /\ \A a, b : Elder(child, a, b) => a \in Node /\ b \in Node /\ a # b /\ parent[a] = parent[b]
      /\ \A a, b \in Node : a # b /\ parent[a] = parent[b] /\ parent[a] \in Node =>
              Elder(child, a, b) \/ Elder(child, b, a)
  BY ElderProps DEF TreeInv
<1>2. /\ Reach \subseteq Node /\ \A x \in Reach : x # tree_root => parent[x] \in Reach
      /\ Grounded(parent, Reach) /\ parent[tree_root] \notin Reach
  BY ReachProps
<1> HIDE DEF Reach
<1>3. ~Earlier(m, m)
  <2> SUFFICES ASSUME NEW a \in Up(m), NEW b \in Up(m), Elder(child, a, b) PROVE FALSE
    OBVIOUS
  <2>1. a # b /\ parent[a] = parent[b]
    BY <1>1
  <2>2. a \in Reach /\ b \in Reach
    BY UpFacts
  <2>3. parent[a] \in Reach
    BY <1>2, <2>1, <2>2
  <2> QED BY <2>1, <2>3, UpFacts
<1>4. ASSUME m \notin Up(n), n \notin Up(m) PROVE Earlier(m, n) \/ Earlier(n, m)
  <2> DEFINE A == {a \in Up(m) : a \notin Up(n)}
  <2>1. m \in A /\ A \in SUBSET Reach
    BY <1>4, UpFacts
  <2>2. PICK a \in A : parent[a] \notin A
    <3> HIDE DEF A
    <3> QED BY <1>2, <2>1 DEF Grounded
  <2>3. a \in Reach /\ a # tree_root /\ parent[a] \in Up(m) /\ parent[a] \in Up(n)
    <3>1. a # tree_root
      BY UpFacts
    <3> QED BY <2>1, <2>2, <3>1, UpFacts
  <2>4. parent[a] # n
    BY <1>4, <2>3
  <2>5. PICK b \in Up(n) : parent[b] = parent[a]
    BY <2>3, <2>4, UpFacts
  <2>6. a \in Node /\ b \in Node /\ a # b /\ parent[a] \in Node
    BY <1>2, <2>1, <2>3, <2>5, UpFacts
  <2> QED BY <1>1, <2>5, <2>6
<1> QED BY <1>3, <1>4

\* What comes before n, and what is at or below it
Before(n) == {m \in Reach : Earlier(m, n)}
Under(n) == {m \in Reach : n \in Up(m)}

\* The walk begins with the root, and all of the tree is below it.
LEMMA RootFirst ==
  ASSUME TreeInv PROVE Before(tree_root) = {} /\ Under(tree_root) = Reach
<1>1. tree_root \in Reach /\ Up(tree_root) = {tree_root} /\ parent[tree_root] \notin Reach
  BY ReachProps, UpFacts
<1>2. \A m \in Reach : tree_root \in Up(m) /\ Up(m) \subseteq Reach
  BY UpFacts
<1>3. \A n \in Reach : n # tree_root => parent[n] \in Reach
  BY ReachProps
<1> HIDE DEF Reach
<1>4. ASSUME NEW m \in Reach, Earlier(m, tree_root) PROVE FALSE
  <2>1. PICK a \in Up(m) : Elder(child, a, tree_root)
    BY <1>1, <1>4, EarlierDef
  <2>2. a # tree_root /\ parent[a] = parent[tree_root]
    BY <2>1, ElderProps DEF TreeInv
  <2>3. a \in Reach
    BY <1>2
  <2> QED BY <1>1, <1>3, <2>2, <2>3
<1> QED BY <1>2, <1>4 DEF Before, Under

\* The first child comes next.
LEMMA ChildNext ==
  ASSUME TreeInv, NEW p \in Reach, child[p] # <<>>
  PROVE  Head(child[p]) \in Reach /\ Before(Head(child[p])) = Before(p) \cup {p}
<1> DEFINE n == Head(child[p])
<1>1. /\ Reach \subseteq Node /\ \A m \in Node : parent[m] \in Reach => m \in Reach
      /\ parent[tree_root] \notin Reach
  BY ReachProps
<1> HIDE DEF Reach
<1>2. n \in Node /\ n \in Range(child[p]) /\ n = child[p][1] /\ 1 \in DOMAIN child[p]
      /\ DOMAIN child[p] \subseteq Nat \ {0}
  <2>1. child[p] \in Seq(Node)
    BY <1>1 DEF TreeInv, TypeOK
  <2> QED BY <2>1 DEF Range
<1>3. parent[n] = p
  BY <1>1, <1>2 DEF TreeInv, LinksConsistent
<1> HIDE DEF n
<1>4. n \in Reach /\ n # tree_root
  BY <1>1, <1>2, <1>3
<1>5. Up(n) = {n} \cup Up(p) /\ n \notin Up(p) /\ p \in Up(p)
  BY <1>3, <1>4, UpFacts
<1>6. \A a : ~Elder(child, a, n)
  <2> SUFFICES ASSUME NEW q \in Node, NEW i \in DOMAIN child[q], NEW j \in DOMAIN child[q],
                      i < j, child[q][j] = n
               PROVE  FALSE
    BY DEF Elder
  <2>1. n \in Range(child[q])
    BY DEF Range
  <2>2. q = p
    BY <1>2, <1>3, <2>1 DEF TreeInv, LinksConsistent
  <2>3. j = 1
    BY <1>1, <1>2, <2>2 DEF TreeInv, LinksConsistent, IsInjective, n
  <2>4. i \in Nat \ {0}
    BY <1>2, <2>2
  <2> QED BY <2>3, <2>4
<1>7. ASSUME NEW m \in Reach PROVE Earlier(m, n) <=> Earlier(m, p) \/ m = p
  BY <1>5, <1>6, EarlierDef
<1> QED BY <1>4, <1>7 DEF Before, n

\* After all that is at or below m comes its next brother.
LEMMA BrotherNext ==
  ASSUME TreeInv, NEW m \in Reach, m # tree_root, Brother(m) # None
  PROVE  Brother(m) \in Reach /\ Before(Brother(m)) = Before(m) \cup Under(m)
<1> DEFINE n == Brother(m)
           q == parent[m]
<1>1. /\ Reach \subseteq Node /\ \A k \in Node : parent[k] \in Reach => k \in Reach
      /\ parent[tree_root] \notin Reach /\ q \in Reach
  BY ReachProps
<1> HIDE DEF Reach
<1>2. /\ n \in Node /\ parent[n] = q /\ Elder(child, m, n)
      /\ \A a : Elder(child, a, n) => a = m \/ Elder(child, a, m)
  <2>1. TypeOK /\ LinksConsistent /\ m \in Node /\ parent[m] \in Node
    BY <1>1 DEF TreeInv
  <2> QED BY <2>1, BrotherProps
<1> HIDE DEF n
<1>3. n \in Reach /\ n # tree_root
  BY <1>1, <1>2
<1>4. /\ Up(n) = {n} \cup Up(q) /\ n \notin Up(q) /\ Up(m) = {m} \cup Up(q) /\ m \notin Up(q)
  BY <1>1, <1>2, <1>3, UpFacts
<1>5. \A a, b, d : Elder(child, a, b) /\ Elder(child, b, d) => Elder(child, a, d)
  BY ElderProps DEF TreeInv
<1>6. ASSUME NEW x \in Reach PROVE Earlier(x, n) <=> Earlier(x, m) \/ m \in Up(x)
  <2>1. ASSUME Earlier(x, m) PROVE Earlier(x, n)
    <3>1. CASE x # m /\ x \in Up(m)
      BY <1>4, <3>1, EarlierDef
    <3>2. CASE \E a \in Up(x), b \in Up(m) : Elder(child, a, b)
      BY <1>2, <1>4, <1>5, <3>2, EarlierDef
    <3> QED BY <2>1, <3>1, <3>2, EarlierDef
  <2>2. ASSUME m \in Up(x) PROVE Earlier(x, n)
    BY <1>2, <1>4, <2>2, EarlierDef
  <2>3. ASSUME Earlier(x, n) PROVE Earlier(x, m) \/ m \in Up(x)
    <3>1. CASE x # n /\ x \in Up(n)
      BY <1>4, <3>1, EarlierDef
    <3>2. CASE \E a \in Up(x), b \in Up(n) : Elder(child, a, b)
      BY <1>2, <1>4, <3>2, EarlierDef
    <3> QED BY <2>3, <3>1, <3>2, EarlierDef
  <2> QED BY <2>1, <2>2, <2>3
<1> QED BY <1>3, <1>6 DEF Before, Under, n

\* After the last brother comes what comes after his parent.
LEMMA LastBrother ==
  ASSUME TreeInv, NEW m \in Reach, m # tree_root, Brother(m) = None
  PROVE  Before(m) \cup Under(m) = Before(parent[m]) \cup Under(parent[m])
<1> DEFINE q == parent[m]
<1>1. Reach \subseteq Node /\ q \in Reach
  BY ReachProps
<1> HIDE DEF Reach
<1>2. \A b \in Node : b # m /\ parent[b] = q => Elder(child, b, m)
  <2>1. TypeOK /\ LinksConsistent /\ m \in Node /\ parent[m] \in Node
    BY <1>1 DEF TreeInv
  <2> QED BY <2>1, BrotherProps
<1>3. Up(m) = {m} \cup Up(q) /\ m \notin Up(q) /\ q \in Up(q)
  BY <1>1, UpFacts
<1>4. \A a, b : Elder(child, a, b) => parent[a] = parent[b]
  BY ElderProps DEF TreeInv
<1>5. ASSUME NEW x \in Reach
      PROVE  Earlier(x, m) \/ m \in Up(x) <=> Earlier(x, q) \/ q \in Up(x)
  <2>1. Up(x) \subseteq Reach /\ x \in Up(x) /\ \A a \in Up(x) : Up(a) \subseteq Up(x)
    BY UpFacts
  <2>2. m \in Up(x) => q \in Up(x)
    BY UpFacts
  <2>3. ASSUME Earlier(x, m) PROVE Earlier(x, q) \/ q \in Up(x)
    <3>1. CASE x # m /\ x \in Up(m)
      BY <1>3, <2>1, <3>1, EarlierDef
    <3>2. ASSUME NEW a \in Up(x), NEW b \in Up(m), Elder(child, a, b)
          PROVE  Earlier(x, q) \/ q \in Up(x)
      <4>1. CASE b = m
        <5>1. parent[a] = q
          BY <1>4, <3>2, <4>1
        <5>2. a # tree_root
          BY <1>1, <5>1, ReachProps
        <5>3. parent[a] \in Up(x)
          BY <5>2, UpFacts
        <5> QED BY <5>1, <5>3
      <4>2. CASE b \in Up(q)
        BY <3>2, <4>2, EarlierDef
      <4> QED BY <1>3, <4>1, <4>2
    <3> QED BY <2>3, <3>1, <3>2, EarlierDef
  <2>4. ASSUME Earlier(x, q) PROVE Earlier(x, m)
    BY <1>3, <2>4, EarlierDef
  <2>5. ASSUME q \in Up(x) PROVE Earlier(x, m) \/ m \in Up(x)
    <3>1. CASE x = q
      <4>1. q \in Up(m) /\ q # m
        BY <1>3
      <4> QED BY <3>1, <4>1, EarlierDef
    <3>2. CASE x # q
      <4>1. PICK b \in Up(x) : parent[b] = q
        BY <2>5, <3>2, UpFacts
      <4>2. b \in Node
        BY <1>1, <2>1
      <4>3. CASE b = m
        BY <4>3
      <4>4. CASE b # m
        <5>1. Elder(child, b, m)
          BY <1>2, <4>1, <4>2, <4>4
        <5> QED BY <1>3, <5>1, EarlierDef
      <4> QED BY <4>3, <4>4
    <3> QED BY <3>1, <3>2
  <2> QED BY <2>2, <2>3, <2>4, <2>5
<1> QED BY <1>1, <1>5 DEF Before, Under

\* Below a node without children there is no other.
LEMMA LeafUnder ==
  ASSUME TreeInv, NEW p \in Reach, child[p] = <<>> PROVE Under(p) = {p}
<1>1. p \in Up(p) /\ Reach \subseteq Node
  BY UpFacts, ReachProps
<1> HIDE DEF Reach
<1>2. ASSUME NEW x \in Reach, p \in Up(x), x # p PROVE FALSE
  <2>1. PICK b \in Up(x) : parent[b] = p
    BY <1>2, UpFacts
  <2>2. b \in Node /\ p \in Node
    BY <1>1, UpFacts
  <2>3. b \in Range(child[p])
    BY <2>1, <2>2 DEF TreeInv, LinksConsistent
  <2> QED BY <2>3 DEF Range
<1> QED BY <1>1, <1>2 DEF Under

\* tree_next() goes to the node that comes next, and ends after the last one.
LEMMA NextInOrder ==
  ASSUME TreeInv, NEW p \in Reach
  PROVE  IF tree_next(p) = None THEN Reach = Before(p) \cup {p}
         ELSE tree_next(p) \in Reach /\ Before(tree_next(p)) = Before(p) \cup {p}
<1> DEFINE R == {q \in Node : ReachesRoot(q)}
           Eqn(f) == f = [m \in R |-> IF m = tree_root THEN None
                                      ELSE IF Brother(m) # None THEN Brother(m)
                                      ELSE f[parent[m]]]
           climb == CHOOSE f : Eqn(f)
           Good(v, m) == IF v = None THEN Reach = Before(m) \cup Under(m)
                         ELSE v \in Reach /\ Before(v) = Before(m) \cup Under(m)
<1>1. tree_next(p) = IF child[p] # <<>> THEN Head(child[p]) ELSE climb[p]
  BY DEF tree_next
<1>2. \E f : Eqn(f)
  BY ClimbDefined DEF TreeInv
<1> HIDE DEF Eqn
<1>3. Eqn(climb)
  BY <1>2
<1> HIDE DEF climb
<1>4. \A m \in Reach : climb[m] = IF m = tree_root THEN None
                                  ELSE IF Brother(m) # None THEN Brother(m)
                                  ELSE climb[parent[m]]
  BY <1>3 DEF Eqn, Reach
<1> HIDE DEF R
<1>5. /\ Reach \subseteq Node /\ None \notin Node /\ Grounded(parent, Reach)
      /\ \A m \in Reach : m # tree_root => parent[m] \in Reach
  BY ReachProps, NodeFacts
<1> HIDE DEF Reach
<1>6. Good(climb[p], p)
  <2> SUFFICES ASSUME ~Good(climb[p], p) PROVE FALSE
    OBVIOUS
  <2> DEFINE A == {m \in Reach : ~Good(climb[m], m)}
  <2>1. ASSUME NEW m \in A PROVE parent[m] \in A
    <3>1. m \in Reach /\ ~Good(climb[m], m)
      OBVIOUS
    <3>2. m # tree_root
      <4> SUFFICES ASSUME m = tree_root PROVE FALSE
        OBVIOUS
      <4>1. climb[m] = None
        BY <1>4
      <4>2. Reach = Before(m) \cup Under(m)
        BY RootFirst
      <4> QED BY <3>1, <4>1, <4>2
    <3>3. Brother(m) = None
      <4> SUFFICES ASSUME Brother(m) # None PROVE FALSE
        OBVIOUS
      <4>1. climb[m] = Brother(m)
        BY <1>4, <3>2
      <4>2. Brother(m) \in Reach /\ Before(Brother(m)) = Before(m) \cup Under(m)
        BY <3>2, BrotherNext
      <4> QED BY <3>1, <4>1, <4>2
    <3>4. climb[m] = climb[parent[m]] /\ parent[m] \in Reach
      BY <1>4, <1>5, <3>2, <3>3
    <3>5. Before(m) \cup Under(m) = Before(parent[m]) \cup Under(parent[m])
      BY <3>2, <3>3, LastBrother
    <3> QED BY <3>1, <3>4, <3>5
  <2>2. p \in A /\ A \in SUBSET Reach
    OBVIOUS
  <2> HIDE DEF A
  <2> QED BY <1>5, <2>1, <2>2 DEF Grounded
<1>7. CASE child[p] # <<>>
  <2>1. tree_next(p) = Head(child[p]) /\ Head(child[p]) \in Reach
        /\ Before(Head(child[p])) = Before(p) \cup {p}
    BY <1>1, <1>7, ChildNext
  <2> QED BY <1>5, <2>1
<1>8. CASE child[p] = <<>>
  <2>1. tree_next(p) = climb[p] /\ Under(p) = {p}
    BY <1>1, <1>8, LeafUnder
  <2> QED BY <1>6, <2>1
<1> QED BY <1>7, <1>8

-----------------------------------------------------------------------------
(* What an update leaves of the order                                      *)

\* The nodes that keep their lines: once the scan is over, none of those to be freed
Kept == IF phase = "reap" THEN priv \ old_list ELSE priv

\* The order of the nodes of E is that in a set that held the nodes above them.
LEMMA OrderOfLess ==
  ASSUME NEW f, NEW g, NEW c, NEW d, NEW D \in SUBSET Node, NEW E \in SUBSET D,
         \A n \in E : g[n] = f[n] /\ (f[n] \in D => f[n] \in E),
         \A a \in E, b \in E : Elder(c, a, b) => Elder(d, a, b),
         NEW m \in E, NEW n \in E, Precedes(f, c, D, m, n)
  PROVE  Precedes(g, d, E, m, n)
<1>1. ASSUME NEW x \in E PROVE UpTo(f, D, x) \subseteq E /\ UpTo(f, D, x) \subseteq UpTo(g, E, x)
  <2>1. x \in Node
    OBVIOUS
  <2>2. \A A \in SUBSET Node :
          (x \in A /\ \A k \in A : f[k] \in D => f[k] \in A) => UpTo(f, D, x) \subseteq A
    BY <2>1, UpProps
  <2>3. UpTo(f, D, x) \subseteq E
    BY <2>2
  <2>4. ASSUME NEW A \in SUBSET Node, x \in A, \A k \in A : g[k] \in E => g[k] \in A
        PROVE  UpTo(f, D, x) \subseteq A
    <3>1. A \cap E \in SUBSET Node /\ x \in A \cap E
          /\ \A k \in A \cap E : f[k] \in D => f[k] \in A \cap E
      BY <2>4
    <3> QED BY <2>2, <3>1
  <2>5. UpTo(f, D, x) \subseteq UpTo(g, E, x)
    <3> SUFFICES ASSUME NEW a \in UpTo(f, D, x) PROVE a \in UpTo(g, E, x)
      OBVIOUS
    <3>1. a \in Node
      BY <2>3
    <3> QED BY <2>4, <3>1 DEF UpTo
  <2> QED BY <2>3, <2>5
<1>2. CASE m # n /\ m \in UpTo(f, D, n)
  BY <1>1, <1>2 DEF Precedes
<1>3. CASE \E a \in UpTo(f, D, m), b \in UpTo(f, D, n) : Elder(c, a, b)
  BY <1>1, <1>3 DEF Precedes
<1> QED BY <1>2, <1>3 DEF Precedes

\* Places in a list that another list takes over
Ahead(s, a, b) == \E i, j \in DOMAIN s : i < j /\ s[i] = a /\ s[j] = b

\* One element more at the head
LEMMA AheadAdd ==
  ASSUME NEW s \in Seq(Node), NEW p \in Node, NEW a, NEW b, Ahead(s, a, b)
  PROVE  Ahead(ListAdd(s, p), a, b)
<1>1. PICK i \in DOMAIN s, j \in DOMAIN s : i < j /\ s[i] = a /\ s[j] = b
  BY DEF Ahead
<1> DEFINE t == <<p>> \o s
<1>2. \A k \in DOMAIN s : k \in Int /\ k + 1 \in DOMAIN t /\ t[k + 1] = s[k]
  OBVIOUS
<1> HIDE DEF t
<1>3. i + 1 < j + 1
  BY <1>1, <1>2
<1> QED BY <1>1, <1>2, <1>3 DEF Ahead, ListAdd, t

\* Two lists in a row
LEMMA AheadJoin ==
  ASSUME NEW s \in Seq(Node), NEW t \in Seq(Node), NEW a, NEW b, Ahead(s, a, b)
  PROVE  Ahead(t \o s, a, b)
<1>1. PICK i \in DOMAIN s, j \in DOMAIN s : i < j /\ s[i] = a /\ s[j] = b
  BY DEF Ahead
<1> DEFINE u == t \o s
<1>2. \A k \in DOMAIN s : k \in Int /\ Len(t) + k \in DOMAIN u /\ u[Len(t) + k] = s[k]
  OBVIOUS
<1>3. Len(t) \in Int
  OBVIOUS
<1> HIDE DEF u
<1>4. Len(t) + i < Len(t) + j
  BY <1>1, <1>2, <1>3
<1> QED BY <1>1, <1>2, <1>4 DEF Ahead, u

\* One element less
LEMMA AheadDel ==
  ASSUME NEW A, NEW s \in Seq(A), NEW p \in Range(s), NEW a, NEW b,
         a # p, b # p, Ahead(s, a, b)
  PROVE  Ahead(ListDel(s, p), a, b)
<1> DEFINE at == CHOOSE i \in DOMAIN s : s[i] = p
           t == ListDel(s, p)
<1>1. PICK i \in DOMAIN s, j \in DOMAIN s : i < j /\ s[i] = a /\ s[j] = b
  BY DEF Ahead
<1>2. at \in DOMAIN s /\ s[at] = p
  BY DEF Range
<1>3. t = [k \in 1 .. Len(s) - 1 |-> IF k < at THEN s[k] ELSE s[k + 1]]
  BY DEF ListDel
<1> HIDE DEF at, t
<1>4. Len(s) \in Nat /\ DOMAIN s = 1 .. Len(s)
  OBVIOUS
<1> DEFINE To(k) == IF k < at THEN k ELSE k - 1
<1>5. ASSUME NEW k \in DOMAIN s, k # at PROVE To(k) \in DOMAIN t /\ t[To(k)] = s[k]
  <2>1. CASE k < at
    <3>1. k \in 1 .. Len(s) - 1
      BY <1>2, <1>4, <2>1
    <3> QED BY <1>3, <2>1, <3>1
  <2>2. CASE ~(k < at)
    <3>1. k - 1 \in 1 .. Len(s) - 1 /\ ~(k - 1 < at) /\ k - 1 + 1 = k
      BY <1>2, <1>4, <1>5, <2>2
    <3> QED BY <1>3, <2>2, <3>1
  <2> QED BY <2>1, <2>2
<1>6. i # at /\ j # at
  BY <1>1, <1>2
<1>7. To(i) < To(j)
  BY <1>1, <1>2, <1>4, <1>6
<1> HIDE DEF To
<1>8. To(i) \in DOMAIN t /\ To(j) \in DOMAIN t /\ t[To(i)] = a /\ t[To(j)] = b
  BY <1>1, <1>5, <1>6
<1> QED BY <1>7, <1>8 DEF Ahead, t

\* The child lists without p
LEMMA AheadUnlinked ==
  ASSUME TypeOK, LinksConsistent, NEW p \in Node, NEW q \in Node, NEW a, NEW b, a # p, b # p,
         Ahead(child[q], a, b)
  PROVE  Ahead(Unlinked(p)[q], a, b)
<1>1. child[q] \in Seq(Node)
  BY DEF TypeOK
<1>2. CASE parent[p] = q
  <2>1. p \in Range(child[q])
    BY <1>2 DEF LinksConsistent
  <2>2. Unlinked(p)[q] = ListDel(child[q], p)
    BY <1>2 DEF Unlinked
  <2> QED BY <1>1, <2>1, <2>2, AheadDel
<1>3. CASE parent[p] # q
  BY <1>3 DEF Unlinked
<1> QED BY <1>2, <1>3

\* change_parent() leaves all brothers but p in their order.
LEMMA ReparentOrder ==
  ASSUME TypeOK, LinksConsistent, NEW p \in Node, NEW q \in Node,
         child' = [Unlinked(p) EXCEPT ![q] = ListAdd(@, p)],
         NEW a, NEW b, a # p, b # p, Elder(child, a, b)
  PROVE  Elder(child', a, b)
<1>1. PICK x \in Node : Ahead(child[x], a, b)
  BY DEF Elder, Ahead
<1>2. Ahead(Unlinked(p)[x], a, b)
  BY <1>1, AheadUnlinked
<1>3. Unlinked(p) \in [Node -> Seq(Node)]
  BY UnlinkedProps
<1>4. Ahead(child'[x], a, b)
  <2>1. CASE x = q
    <3>1. child'[x] = ListAdd(Unlinked(p)[x], p) /\ Unlinked(p)[x] \in Seq(Node)
      BY <1>3, <2>1
    <3> QED BY <1>2, <3>1, AheadAdd
  <2>2. CASE x # q
    <3>1. child'[x] = Unlinked(p)[x]
      BY <1>3, <2>2
    <3> QED BY <1>2, <3>1
  <2> QED BY <2>1, <2>2
<1> QED BY <1>4 DEF Elder, Ahead

\* The adoption by init leaves the brothers that were not children of p in theirs.
LEMMA AdoptOrder ==
  ASSUME TypeOK, LinksConsistent, NEW p \in Node, Adopt(p), p # 1,
         NEW a \in Node, NEW b, a # p, b # p, parent[a] # p, Elder(child, a, b)
  PROVE  Elder(child', a, b)
<1>1. PICK x \in Node : Ahead(child[x], a, b)
  BY DEF Elder, Ahead
<1>2. Ahead(Unlinked(p)[x], a, b)
  BY <1>1, AheadUnlinked
<1>3. Unlinked(p)[x] \in Seq(Node) /\ child[p] \in Seq(Node) /\ IsInjective(child[p])
  BY UnlinkedProps DEF TypeOK, LinksConsistent
<1>4. x # p
  <2>1. a \in Range(child[x])
    BY <1>1 DEF Ahead, Range
  <2> QED BY <2>1 DEF LinksConsistent
<1>5. child'[x] = IF x = 1 THEN Reversed(child[p]) \o Unlinked(p)[x] ELSE Unlinked(p)[x]
  BY <1>4 DEF Adopt
<1>6. Reversed(child[p]) \in Seq(Node)
  BY <1>3, ReversedProps
<1>7. Ahead(child'[x], a, b)
  BY <1>2, <1>3, <1>5, <1>6, AheadJoin
<1> QED BY <1>7 DEF Elder, Ahead

-----------------------------------------------------------------------------
(* The way up to init                                                      *)

\* Pids that ascend for ever: what is known of the nodes a scan has passed.
Read == (main_list \ fresh) \cup {1}

ScanWay ==
  /\ \A n \in hash_table : n <= lastpid
  /\ phase = "scan" =>
       /\ \A n \in main_list \ fresh : parent[n] \in Read \cup {0}
       /\ \A p \in Alive \ fresh : (p <= seen => p \in Read) /\ ppid[p] \notin fresh
       /\ priv \cap fresh = {}

\* The processes of D are in the tree of init: in the process table, and in what the
\* program has read of it.
OfInit(D) == \A p \in (D \cap Alive) \ {1} : ppid[p] \in D
ReadOfInit(D) == \A n \in D \ {1} : parent[n] # None => parent[n] \in D

\* From every node of T one comes to init or to node 0, through nodes that stay.
Rooted(T) ==
  /\ 1 \in T /\ T \subseteq main_list \cup {1} /\ priv \ old_list \subseteq T
  /\ \A t \in T \ {1} : parent[t] \in T \cup {0}
  /\ Grounded(parent, T)

\* The parents that are read are those of the process table or init.
LEMMA ReadOfInitNext ==
  ASSUME IInv, NEW D \in SUBSET Node, OfInit(D), ReadOfInit(D), 1 \in D, [PTNext]_ptVars PROVE ReadOfInit(D)'
<1>1. parent \in [Node -> Node \cup {None}] /\ Pids \subseteq Node /\ Procs \subseteq Node
  BY NodeFacts DEF IInv, TypeOK
<1>2. ASSUME UNCHANGED parent PROVE ReadOfInit(D)'
  BY <1>2 DEF ReadOfInit
<1>3. ASSUME NEW p \in Procs, ReadEntry(p) PROVE ReadOfInit(D)'
  <2>1. p \in Alive /\ (parent' = parent \/ parent' = [parent EXCEPT ![p] = ppid[p]])
    BY <1>3 DEF ReadEntry, Reparent
  <2>2. CASE parent' = parent
    BY <1>2, <2>2
  <2>3. CASE parent' = [parent EXCEPT ![p] = ppid[p]]
    <3>1. ASSUME NEW n \in D \ {1}, parent'[n] # None PROVE parent'[n] \in D
      <4>1. CASE n = p
        BY <1>1, <2>1, <2>3, <4>1 DEF OfInit
      <4>2. CASE n # p
        <5>1. parent'[n] = parent[n]
          BY <1>1, <2>3, <4>2
        <5> QED BY <3>1, <5>1 DEF ReadOfInit
      <4> QED BY <4>1, <4>2
    <3> QED BY <3>1 DEF ReadOfInit
  <2> QED BY <2>1, <2>2, <2>3
<1>4. ASSUME NEW p \in Pids, Reap(p) PROVE ReadOfInit(D)'
  <2>1. parent' = [n \in Node |-> IF n = p THEN None
                                   ELSE IF parent[n] = p THEN 1 ELSE parent[n]]
    BY <1>4 DEF Reap, Adopt
  <2> QED BY <1>1, <2>1 DEF ReadOfInit
<1> QED BY <1>2, <1>3, <1>4 DEF PTNext, Continue, KernelMoves, StartUpdate, EndScan, EndUpdate,
                          Client, ptVars, treeVars

\* What the kernel does during a scan does not change what has been read.
LEMMA ScanWayKernel ==
  ASSUME ~PidsWrap, IInv, Ascending, 1 \notin fresh, ScanWay, KernelMoves PROVE ScanWay'
<1>1. /\ ppid \in [Procs -> Node \cup {None}] /\ None \notin Node /\ Procs \subseteq Nat
      /\ 0 \notin Procs /\ 1 \in Procs /\ Pids \subseteq Procs /\ lastpid \in Nat
      /\ hash_table \subseteq Pids /\ main_list \subseteq hash_table
      /\ priv \subseteq hash_table \cup {0, 1} /\ 1 \notin Pids /\ 0 \notin Pids
      /\ seen \in Nat
  BY NodeFacts DEF IInv, TypeOK, KernelTypeOK, ListsPartition, PrivLive, Found
<1>2. /\ UNCHANGED <<parent, hash_table, main_list, priv, phase, seen>>
      /\ phase # "idle" => fresh' = fresh \cup {p \in Procs : ppid[p] = None /\ ppid'[p] # None}
      /\ KernelStep
  BY DEF KernelMoves, treeVars
<1>3. ASSUME NEW q \in Node, NEW c \in Pids, Fork(q, c) PROVE ScanWay'
  <2>1. /\ ppid' = [ppid EXCEPT ![c] = q] /\ c > lastpid /\ lastpid' = c /\ c \in Procs
        /\ c \notin Alive
    BY <1>1, <1>3 DEF Fork
  <2>2. c \in Nat /\ c \notin hash_table /\ Alive' = Alive \cup {c} /\ c # 1
    BY <1>1, <2>1 DEF ScanWay, Alive
  <2>3. phase # "idle" => fresh' = fresh \cup {c}
    <3>1. {p \in Procs : ppid[p] = None /\ ppid'[p] # None} = {c}
      BY <1>1, <2>1 DEF Alive
    <3> QED BY <1>2, <3>1
  <2>4. \A n \in hash_table' : n <= lastpid'
    BY <1>1, <1>2, <2>1, <2>2 DEF ScanWay
  <2>5. ASSUME phase' = "scan"
        PROVE  /\ \A n \in main_list' \ fresh' : parent'[n] \in Read' \cup {0}
               /\ \A p \in Alive' \ fresh' : (p <= seen' => p \in Read') /\ ppid'[p] \notin fresh'
               /\ priv' \cap fresh' = {}
    <3>1. phase = "scan" /\ fresh' = fresh \cup {c} /\ Read' = Read
      BY <1>1, <1>2, <2>2, <2>3, <2>5 DEF Read
    <3>2. priv \cap fresh' = {}
      BY <1>1, <2>2, <3>1 DEF ScanWay
    <3>3. ASSUME NEW p \in Alive' \ fresh'
          PROVE  (p <= seen => p \in Read) /\ ppid'[p] \notin fresh'
      <4>1. p \in Alive \ fresh /\ p # c /\ ppid'[p] = ppid[p]
        BY <1>1, <2>1, <2>2, <3>1 DEF Alive
      <4>2. ppid[p] # c
        <5>1. ppid[p] \in Alive \cup {0}
          BY <4>1 DEF IInv, KernelWellFormed
        <5> QED BY <1>1, <2>1, <5>1
      <4> QED BY <3>1, <4>1, <4>2 DEF ScanWay
    <3> QED BY <1>2, <3>1, <3>2, <3>3 DEF ScanWay
  <2> QED BY <2>4, <2>5 DEF ScanWay
<1>4. ASSUME phase # "idle" => fresh' = fresh, lastpid' = lastpid, Alive' \subseteq Alive,
             \A p \in Alive' : ppid'[p] \in {ppid[p], 1}
      PROVE  ScanWay'
  <2>1. phase = "scan" => Read' = Read
    BY <1>2, <1>4 DEF Read
  <2>2. ASSUME NEW p \in Alive' \ fresh', phase = "scan"
        PROVE  (p <= seen => p \in Read) /\ ppid'[p] \notin fresh'
    BY <1>4, <2>2 DEF ScanWay
  <2> QED BY <1>2, <1>4, <2>1, <2>2 DEF ScanWay
<1>5. ASSUME NEW p \in Pids, Exit(p) PROVE ScanWay'
  <2>1. /\ \A n \in Procs : ppid'[n] = IF n = p THEN None
                                        ELSE IF ppid[n] = p THEN 1 ELSE ppid[n]
        /\ lastpid' = lastpid /\ p # None
    <3>1. p \in Procs /\ p # None
      BY NodeFacts
    <3> QED BY <1>5, <3>1 DEF Exit
  <2>2. Alive' \subseteq Alive /\ \A n \in Alive' : ppid'[n] \in {ppid[n], 1}
    BY <2>1 DEF Alive
  <2>3. {n \in Procs : ppid[n] = None /\ ppid'[n] # None} = {}
    BY <2>1
  <2> QED BY <1>2, <1>4, <2>1, <2>2, <2>3
<1>6. ASSUME UNCHANGED <<ppid, lastpid>> PROVE ScanWay'
  <2>1. Alive' = Alive /\ {n \in Procs : ppid[n] = None /\ ppid'[n] # None} = {}
    BY <1>6 DEF Alive
  <2> QED BY <1>2, <1>4, <1>6, <2>1
<1> QED BY <1>2, <1>3, <1>5, <1>6 DEF KernelStep, ChangeState

\* A process that is read has a parent that has been read, or is init.
LEMMA ScanWayRead ==
  ASSUME ~PidsWrap, IInv, Ascending, 1 \notin fresh, ScanWay,
         NEW p \in Procs, ReadEntry(p)
  PROVE  ScanWay'
<1> DEFINE q == ppid[p]
<1>1. /\ p \in Alive /\ p > seen /\ Passed(p) /\ seen' = p /\ phase = "scan" /\ phase' = phase
      /\ ppid' = ppid /\ lastpid' = lastpid /\ fresh' = fresh
      /\ hash_table' = hash_table \cup ({p, q} \ {0, 1})
      /\ main_list' = main_list \cup ({p, q} \ {0, 1})
      /\ priv' \subseteq priv
      /\ parent' = [parent EXCEPT ![p] = q]
  <2>1. parent \in [Node -> Node \cup {None}]
    BY DEF IInv, TypeOK
  <2>2. parent' = [parent EXCEPT ![p] = q]
    <3>1. CASE parent[p] = q
      BY <2>1, <3>1 DEF ReadEntry
    <3>2. CASE parent[p] # q
      BY <3>2 DEF ReadEntry, Reparent
    <3> QED BY <3>1, <3>2
  <2> QED BY <2>2 DEF ReadEntry, Validate, Reparent, kernelVars
<1>2. /\ Node \subseteq Nat /\ p \in Node /\ p # 0 /\ parent \in [Node -> Node \cup {None}]
      /\ seen \in Nat /\ main_list \subseteq Node /\ 1 \in Node /\ Alive \subseteq Node
      /\ Alive' = Alive /\ 0 \notin Alive
  BY <1>1, NodeFacts DEF IInv, TypeOK, Alive
<1>3. q \in Alive \cup {0} /\ q < p /\ (p = 1 => q = 0)
  BY <1>1 DEF IInv, KernelWellFormed, Ascending
<1> HIDE DEF q
\* Whoever was there when the scan started and has a lower pid has been read.
<1>4. \A x \in Alive \ fresh : x < p => x \in Read
  BY <1>1, <1>2 DEF ScanWay, Passed
<1>5. p \notin fresh => q \in Read \cup {0}
  <2> SUFFICES ASSUME p \notin fresh, q # 0 PROVE q \in Read
    OBVIOUS
  <2>1. q \in Alive /\ q \notin fresh
    BY <1>1, <1>3 DEF ScanWay, q
  <2> QED BY <1>3, <1>4, <2>1
<1>6. Read' = Read \cup ({p} \ fresh)
  <2>1. q \notin fresh /\ q \notin {0, 1} => q \in Read
    BY <1>3, <1>4
  <2>2. 1 \notin fresh
    OBVIOUS
  <2> QED BY <1>1, <1>2, <2>1, <2>2 DEF Read
<1>7. ASSUME NEW n \in main_list' \ fresh' PROVE parent'[n] \in Read' \cup {0}
  <2>1. n \in Read' /\ n # 1
    <3>1. 1 \notin main_list'
      BY <1>1, NodeFacts DEF IInv, TypeOK
    <3> QED BY <3>1 DEF Read
  <2>2. CASE n = p
    BY <1>1, <1>2, <1>5, <1>6, <1>7, <2>1, <2>2
  <2>3. CASE n # p
    <3>1. n \in main_list \ fresh
      BY <1>6, <2>1, <2>3 DEF Read
    <3>2. parent'[n] = parent[n]
      BY <1>1, <1>2, <2>3, <3>1
    <3> QED BY <1>1, <1>6, <3>1, <3>2 DEF ScanWay
  <2> QED BY <2>2, <2>3
<1>8. ASSUME NEW x \in Alive' \ fresh'
      PROVE  (x <= seen' => x \in Read') /\ ppid'[x] \notin fresh'
  <2>1. x <= p => x = p \/ x < p
    BY <1>2
  <2> QED BY <1>1, <1>2, <1>4, <1>6, <2>1 DEF ScanWay
<1>9. \A n \in hash_table' : n <= lastpid'
  BY <1>1, <1>3 DEF ScanWay, Ascending
<1> QED BY <1>1, <1>7, <1>8, <1>9 DEF ScanWay

\* So at every step.
LEMMA ScanWayNext ==
  ASSUME ~PidsWrap, IInv, Ascending, 1 \notin fresh, ScanWay,
         [PTNext]_ptVars
  PROVE  ScanWay'
<1>1. CASE StartUpdate
  <2>1. /\ phase' = "scan" /\ seen' = 0 /\ fresh' = {} /\ main_list' = {}
        /\ UNCHANGED <<ppid, lastpid, hash_table, priv>>
    BY <1>1 DEF StartUpdate, kernelVars
  <2>2. \A p \in Alive' : ~(p <= 0)
    <3>1. Alive' \subseteq Nat \ {0}
      BY NodeFacts DEF Alive
    <3> QED BY <3>1
  <2> QED BY <2>1, <2>2 DEF ScanWay
<1>2. ASSUME phase' # "scan", lastpid' = lastpid, hash_table' \subseteq hash_table PROVE ScanWay'
  BY <1>2 DEF ScanWay
<1>3. CASE EndScan \/ EndUpdate \/ Client
  BY <1>2, <1>3 DEF EndScan, EndUpdate, Client, kernelVars, treeVars, scanVars
<1>4. ASSUME NEW p \in Pids, Reap(p) PROVE ScanWay'
  BY <1>2, <1>4 DEF Reap, Free, kernelVars, scanVars
<1>5. CASE UNCHANGED ptVars
  BY <1>5 DEF ptVars, kernelVars, treeVars, scanVars, ScanWay, Read, Alive
<1> QED BY <1>1, <1>3, <1>4, <1>5, ScanWayKernel, ScanWayRead DEF PTNext, Continue

\* While lines are deleted, and before, what keeps its line has a way up to init.
WayInv ==
  /\ ~PidsWrap => Ascending /\ ScanWay
  /\ ~Live => Unlooped
  /\ phase = "reap" \/ stage = "delete" => \E T \in SUBSET Node : Rooted(T)

\* What the end of a scan leaves of a displayed node is on a way up that stays.
LEMMA EndScanRooted ==
  ASSUME ~Live \/ ~PidsWrap, IInv, InitRead, WayInv, EndScan
  PROVE  \E T \in SUBSET Node : Rooted(T)
<1>1. /\ priv \subseteq main_list \cup old_list \cup {1} /\ main_list \subseteq Node /\ 1 \in Node
      /\ 1 \in Alive /\ Alive \subseteq Node /\ phase = "scan"
  BY InitAlive, NodeFacts DEF IInv, TypeOK, PrivLive, Found, ListsPartition, InitRead, EndScan, Alive
<1>2. CASE ~PidsWrap
  <2>1. Read \in SUBSET Node /\ 1 \in Read /\ Read \subseteq main_list \cup {1}
    BY <1>1 DEF Read
  <2>2. priv \ old_list \subseteq Read /\ \A t \in Read \ {1} : parent[t] \in Read \cup {0}
    BY <1>1, <1>2 DEF WayInv, ScanWay, Read
  <2>3. Grounded(parent, Read)
    <3>1. Grounded(parent, Node)
      BY <1>2, AscendingGrounded DEF WayInv
    <3> QED BY <2>1, <3>1, GroundedLess
  <2> QED BY <2>1, <2>2, <2>3 DEF Rooted
<1>3. CASE ~Live
  <2>1. ~dirty
    BY <1>1, <1>3 DEF IInv, QuietUpdate
  <2>2. /\ main_list \subseteq Alive
        /\ \A p \in Alive : parent[p] = ppid[p] /\ p \in main_list \cup {1}
    <3>1. fresh = {} /\ main_list \subseteq Alive
          /\ \A p \in Alive : p <= seen => parent[p] = ppid[p] /\ p \in main_list \cup {1}
      BY <1>1, <2>1 DEF IInv, ScanProgress
    <3>2. \A p \in Alive : ~(p > seen)
      BY <3>1 DEF EndScan
    <3>3. \A p \in Alive : p \in Nat /\ seen \in Nat
      BY <1>1, NodeFacts DEF IInv, TypeOK
    <3>4. \A p \in Alive : p <= seen
      BY <3>2, <3>3
    <3> QED BY <3>1, <3>4
  <2>3. \A t \in Alive \ {1} : parent[t] \in Alive \cup {0}
    BY <2>2 DEF IInv, KernelWellFormed
  <2>4. Grounded(parent, Alive)
    <3>1. Grounded(ppid, Alive)
      BY <1>3 DEF WayInv, Unlooped
    <3> QED BY <2>2, <3>1, GroundedLess
  <2>5. Alive \in SUBSET Node /\ priv \ old_list \subseteq Alive /\ Alive \subseteq main_list \cup {1}
    BY <1>1, <2>2
  <2> QED BY <1>1, <2>3, <2>4, <2>5 DEF Rooted
<1> QED BY <1>2, <1>3

\* The freeing of the old nodes leaves that way as it is.
LEMMA ReapRooted ==
  ASSUME IInv, parent[1] = 0, NEW p \in Pids, Reap(p), NEW T \in SUBSET Node, Rooted(T)
  PROVE  Rooted(T)' /\ p \notin T
<1>1. /\ p \in old_list /\ main_list' = main_list /\ old_list' = old_list \ {p}
      /\ priv' = priv \ {p}
      /\ parent' = [n \in Node |-> IF n = p THEN None
                                   ELSE IF parent[n] = p THEN 1 ELSE parent[n]]
  BY DEF Reap, Adopt, Free
<1>2. p # 1 /\ p # 0 /\ p \notin main_list
  BY <1>1, NodeFacts DEF IInv, ListsPartition
<1>3. p \notin T /\ \A t \in T : parent[t] # p
  BY <1>2 DEF Rooted
<1>4. \A t \in T : parent'[t] = parent[t]
  BY <1>1, <1>3
<1>5. Grounded(parent', T)
  BY <1>4, GroundedLess DEF Rooted
<1> QED BY <1>1, <1>3, <1>4, <1>5 DEF Rooted

\* Each step keeps the way up.
LEMMA WayInvNext ==
  ASSUME ~Live \/ ~PidsWrap, IInv, WalkInv, InitRead, WayInv, [Next]_plVars
  PROVE  WayInv'
<1>1. [PTNext]_ptVars
  BY StepOfTree
<1>3. ~PidsWrap => Ascending' /\ ScanWay'
  BY <1>1, AscendingNext, ScanWayNext DEF WayInv, InitRead
<1>4. ~Live => Unlooped'
  BY <1>1, UnloopedNext DEF WayInv
<1> DEFINE On == phase = "reap" \/ stage = "delete"
           Has == \E T \in SUBSET Node : Rooted(T)
<1>5. ASSUME On' PROVE Has'
  <2>1. ASSUME On, parent' = parent, priv' = priv, old_list' = old_list, main_list' = main_list
        PROVE  Has'
    BY <2>1 DEF WayInv, Rooted
  <2>2. CASE UpdateTree
    <3>1. stage = "tree" /\ Continue /\ (stage' = "delete" => phase' = "idle")
          /\ stage' = (IF phase' = "idle" THEN "delete" ELSE "tree")
      BY <2>2 DEF UpdateTree
    <3>2. CASE EndScan
      <4>1. Has
        BY <3>2, EndScanRooted
      <4> QED BY <3>2, <4>1 DEF EndScan, treeVars, Rooted
    <3>3. ASSUME NEW p \in Pids, Reap(p) PROVE Has'
      <4>1. phase = "reap" /\ parent[1] = 0
        BY <3>1, <3>3 DEF Reap, InitRead
      <4> QED BY <3>3, <4>1, ReapRooted DEF WayInv
    <3>4. CASE EndUpdate
      BY <2>1, <3>4 DEF EndUpdate, treeVars
    <3>5. ASSUME NEW p \in Procs, ReadEntry(p) PROVE FALSE
      <4>1. phase' = "scan"
        BY <3>5 DEF ReadEntry
      <4> QED BY <1>5, <3>1, <4>1
    <3> QED BY <3>1, <3>2, <3>3, <3>4, <3>5 DEF Continue
  <2>3. ASSUME UNCHANGED <<parent, priv, old_list, main_list, phase, stage>> PROVE Has'
    BY <1>5, <2>1, <2>3
  <2>4. CASE KernelActs
    BY <2>3, <2>4 DEF KernelActs, KernelMoves, treeVars
  <2>5. ASSUME Periodic PROVE FALSE
    BY <1>5, <2>5 DEF Periodic, StartUpdate
  <2>6. ASSUME stage' # "delete", phase' = phase, phase = "idle" PROVE FALSE
    BY <1>5, <2>6
  <2>7. CASE Tick \/ User
    <3>1. stage = "idle" => phase = "idle"
      BY DEF WalkInv
    <3>2. CASE Tick \/ KeyR \/ KeySignal
      BY <2>5, <3>2 DEF Tick, KeyR, KeySignal
    <3>3. CASE KeyT
      BY <2>5, <2>6, <3>1, <3>3 DEF KeyT, Unhide, ptVars, scanVars
    <3>4. CASE KeyEnter
      BY <2>5, <2>6, <3>1, <3>4 DEF KeyEnter, Unhide, Hide, scanVars
    <3>5. CASE KeyO \/ KeySearch
      BY <2>6, <3>1, <3>5 DEF KeyO, KeySearch, ptVars, scanVars
    <3>6. ASSUME NEW k, KeyCursor(k) PROVE FALSE
      BY <2>6, <3>1, <3>6 DEF KeyCursor, ptVars, scanVars
    <3> QED BY <2>7, <3>2, <3>3, <3>4, <3>5, <3>6 DEF User
  <2>8. ASSUME NEW n \in Node, DeleteLine(n) PROVE Has'
    BY <2>3, <2>8 DEF DeleteLine, ptVars, treeVars, scanVars
  <2>9. CASE StartSync \/ SyncKeep \/ SyncInsert \/ EndSync \/ Draw
    <3>1. stage # "tree" /\ stage' # "delete" /\ phase' = phase
      BY <2>9 DEF StartSync, SyncKeep, SyncInsert, EndSync, Draw, ptVars, scanVars
    <3> QED BY <2>6, <3>1 DEF WalkInv
  <2>10. CASE UNCHANGED plVars
    BY <2>3, <2>10 DEF plVars, ptVars, treeVars, scanVars
  <2> QED BY <2>2, <2>4, <2>7, <2>8, <2>9, <2>10 DEF Next, Work
<1> QED BY <1>3, <1>4, <1>5 DEF WayInv

\* A step of the update leaves the nodes that keep their lines under their
\* parents, and the parents that had lines with theirs, and in their order.
LEMMA KeptStep ==
  ASSUME ~Live \/ ~PidsWrap, IInv, InitRead, WayInv, Continue, stage = "tree"
  PROVE  /\ Kept' \subseteq Kept /\ Kept \subseteq Node
         /\ \A n \in Kept' : parent'[n] = parent[n] /\ (parent[n] \in Kept => parent[n] \in Kept')
         /\ \A a \in Kept', b \in Kept' : Elder(child, a, b) => Elder(child', a, b)
<1>1. /\ priv \subseteq Node /\ Kept \subseteq Node /\ parent \in [Node -> Node \cup {None}]
      /\ None \notin Node /\ TypeOK /\ LinksConsistent /\ 1 \in Node /\ 0 \notin priv
      /\ main_list \cap old_list = {} /\ 1 \notin old_list /\ 0 \notin old_list
  BY NodeFacts DEF IInv, TypeOK, Kept, InitRead, ListsPartition
<1>2. ASSUME NEW p \in Procs, ReadEntry(p)
      PROVE  /\ Kept' \subseteq Kept
             /\ \A n \in Kept' : parent'[n] = parent[n] /\ (parent[n] \in Kept => parent[n] \in Kept')
             /\ \A a \in Kept', b \in Kept' : Elder(child, a, b) => Elder(child', a, b)
  <2>1. Kept = priv /\ Kept' = priv'
    BY <1>2 DEF ReadEntry, Kept
  <2>2. p \in Node /\ ppid[p] \in Node
    <3>1. p \in Alive /\ p \in Node
      BY <1>2, NodeFacts DEF ReadEntry
    <3> QED BY <3>1, NodeFacts DEF IInv, KernelWellFormed, Alive
  <2>3. CASE UNCHANGED <<priv, child, parent>>
    BY <2>1, <2>3
  <2>4. CASE Reparent(p, ppid[p])
    <3>1. /\ priv' = IF p \in priv THEN priv \ Marked(p) ELSE priv
          /\ child' = [Unlinked(p) EXCEPT ![ppid[p]] = ListAdd(@, p)]
          /\ parent' = [parent EXCEPT ![p] = ppid[p]]
      BY <2>4 DEF Reparent
    <3>2. p \in Marked(p) /\ \A n \in Marked(p) : Range(child[n]) \cap priv \subseteq Marked(p)
      BY <1>1, <2>2 DEF Marked
    <3>3. p \notin priv' /\ priv' \subseteq priv
      BY <3>1, <3>2
    <3>4. ASSUME NEW n \in priv', parent[n] \in priv PROVE parent[n] \in priv'
      <4>1. n \in Range(child[parent[n]]) \cap priv /\ parent[n] \in Node
        BY <1>1, <3>3, <3>4 DEF LinksConsistent
      <4> QED BY <3>1, <3>2, <3>4, <4>1
    <3>5. \A n \in priv' : parent'[n] = parent[n]
      BY <1>1, <3>1, <3>3
    <3>6. \A a \in priv', b \in priv' : Elder(child, a, b) => Elder(child', a, b)
      BY <1>1, <2>2, <3>1, <3>3, ReparentOrder
    <3> QED BY <2>1, <3>3, <3>4, <3>5, <3>6
  <2> QED BY <1>2, <2>3, <2>4 DEF ReadEntry
<1>3. CASE EndScan
  <2>1. Kept = priv /\ Kept' = priv \ old_list /\ UNCHANGED <<parent, child>>
    BY <1>3 DEF EndScan, Kept, treeVars
  <2>3. PICK T \in SUBSET Node : Rooted(T)
    BY <1>3, EndScanRooted
  <2>4. ASSUME NEW n \in priv \ old_list, parent[n] \in priv PROVE parent[n] \notin old_list
    <3>1. n # 1
      BY <1>1, <2>4 DEF IInv, TreeRoots
    <3>2. parent[n] \in main_list \cup {0, 1}
      BY <2>3, <3>1 DEF Rooted
    <3> QED BY <1>1, <3>2
  <2> QED BY <1>1, <2>1, <2>4
<1>4. ASSUME NEW p \in Pids, Reap(p)
      PROVE  /\ Kept' \subseteq Kept
             /\ \A n \in Kept' : parent'[n] = parent[n] /\ (parent[n] \in Kept => parent[n] \in Kept')
             /\ \A a \in Kept', b \in Kept' : Elder(child, a, b) => Elder(child', a, b)
  <2>1. phase = "reap" /\ phase' = phase /\ p \in old_list /\ p # 1 /\ p # 0 /\ p \in Node
    BY <1>4, NodeFacts DEF Reap, scanVars
  <2>2. /\ Kept = priv \ old_list /\ Kept' = Kept
        /\ Adopt(p)
        /\ parent' = [n \in Node |-> IF n = p THEN None
                                     ELSE IF parent[n] = p THEN 1 ELSE parent[n]]
    BY <1>4, <2>1 DEF Kept, Reap, Free, Adopt
  <2>3. PICK T \in SUBSET Node : Rooted(T)
    BY <2>1 DEF WayInv
  <2>4. \A n \in Kept : n # p /\ parent[n] # p
    <3>1. p \notin T /\ p # 0
      BY <1>1, <2>1, <2>3 DEF Rooted
    <3>2. parent[1] # p
      BY <2>1, NodeFacts DEF IInv, TreeRoots, TypeOK
    <3> QED BY <2>2, <2>3, <3>1, <3>2 DEF Rooted
  <2>5. \A n \in Kept : parent'[n] = parent[n]
    BY <1>1, <2>2, <2>4
  <2>6. \A a \in Kept, b \in Kept : Elder(child, a, b) => Elder(child', a, b)
    BY <1>1, <2>1, <2>2, <2>4, AdoptOrder
  <2> QED BY <2>2, <2>5, <2>6
<1>5. CASE EndUpdate
  <2>1. Kept = priv /\ Kept' = priv /\ UNCHANGED <<parent, child>>
    BY <1>5 DEF EndUpdate, Kept, treeVars
  <2> QED BY <1>1, <2>1
<1> QED BY <1>1, <1>2, <1>3, <1>4, <1>5 DEF Continue

-----------------------------------------------------------------------------
(* The list: its root, its order, its numbers and its cursor               *)

\* What the list shows once it is synchronized
Shown == IF tree_root \in Found THEN Reach ELSE {}

\* The types of what is not in LineInv and CountInv
FieldsOK ==
  /\ w \in IntWidget /\ line \in [Node -> Nat] /\ marked \subseteq Node
  /\ tree_root \in Roots \cup {1} /\ visible \in BOOLEAN
  /\ pkey \in {"none", "t", "Enter"}
  /\ unhide \in BOOLEAN /\ proc \in Node \cup {None}
  /\ sel \in Node \cup {None} /\ sent \in Node \cup {None}

\* Between two updates a list on the screen shows what it has to, and a hidden one
\* is empty.
ViewInv ==
  /\ stage \in {"idle", "tree", "delete", "sync", "draw"}
  /\ stage # "idle" => visible
  /\ stage = "idle" /\ ~visible => priv = {}
  /\ stage = "draw" \/ (stage = "idle" /\ visible) => priv = Shown
  /\ unhide => sel = None /\ stage \in {"tree", "delete", "sync"}

\* The nodes that keep their lines form one tree: that of the root of the list, or,
\* if the list goes over to the tree of init, that of the root it had.
TopAt(r) ==
  /\ r = tree_root \/ (tree_root = 1 /\ sel = None)
  /\ \A n \in Kept \ {r} : parent[n] \in Kept
OneTop == stage \in {"tree", "delete"} => \E r \in Roots \cup {1} : TopAt(r)

\* Their lines are in the order of this tree.
OrderInv ==
  stage # "sync" =>
    \A i, j \in DOMAIN begin :
      i < j /\ begin[i] \in Kept /\ begin[j] \in Kept =>
        Precedes(parent, child, Kept, begin[i], begin[j])

\* The nodes synchronize() has passed: their lines are the first l of the list, and
\* the lines further down come later in the tree.
Walked == IF proc = None THEN Shown ELSE Before(proc)
SyncInv ==
  stage = "sync" =>
    /\ priv \subseteq Shown /\ Walked \subseteq priv /\ (proc # None => tree_root \in Found)
    /\ \A i \in DOMAIN begin : i <= l <=> begin[i] \in Walked
    /\ \A i \in DOMAIN begin : i <= l => line[begin[i]] = i - 1
    /\ \A i, j \in DOMAIN begin : i < j => Earlier(begin[i], begin[j])

NumInv == stage # "sync" => \A i \in DOMAIN begin : line[begin[i]] = i - 1

\* The cursor is on the line of the process it was put on.
SelInv ==
  sel # None => /\ w.crsr + 1 \in DOMAIN begin /\ begin[w.crsr + 1] = sel /\ sel \in priv
                /\ stage = "sync" => tree_root \in priv

ListInv == FieldsOK /\ ViewInv /\ OneTop /\ OrderInv /\ SyncInv /\ NumInv /\ SelInv

\* What is known before a step
Known ==
  /\ IInv /\ LineInv /\ WalkInv /\ InitRead /\ WayInv /\ ListInv
  /\ ~Live \/ ~PidsWrap
  /\ 0 \notin Roots

\* Between two updates the tree is one.
LEMMA TreeThere == ASSUME Known, phase = "idle" PROVE TreeInv
<1>1. Grounded(parent, Node)
  BY AscendingGrounded DEF Known, WayInv, Unlooped
<1>2. tree_root \in Node
  BY RootsAssumption, NodeFacts DEF Known, ListInv, FieldsOK
<1> QED BY <1>1, <1>2 DEF TreeInv, Known, IInv

\* What the displayed tree depends on
LEMMA SameTree ==
  ASSUME parent' = parent, child' = child, tree_root' = tree_root, hash_table' = hash_table
  PROVE  /\ Reach' = Reach /\ Shown' = Shown
         /\ \A m, n : Precedes(parent', child', Reach', m, n) <=> Earlier(m, n)
<1>1. Reach' = Reach
  BY DEF Reach, ReachesRoot
<1>2. Shown' = Shown
  BY <1>1 DEF Shown, Found
<1>3. \A m, n : Precedes(parent', child', Reach', m, n) <=> Earlier(m, n)
  BY <1>1 DEF Earlier
<1> QED BY <1>1, <1>2, <1>3

\* An update begins with what is shown.
LEMMA StartsWithShown ==
  ASSUME Known, Periodic, visible, visible' = TRUE, FieldsOK', sel' \in {sel, None},
         tree_root' = tree_root \/ (tree_root' = 1 /\ sel' = None),
         unhide' = unhide \/ (unhide' = TRUE /\ sel' = None)
  PROVE  ListInv'
<1>1. /\ stage = "idle" /\ stage' = "tree" /\ phase' = "scan" /\ phase = "idle"
      /\ UNCHANGED <<parent, child, priv, begin, line, w>>
  BY DEF Periodic, StartUpdate, listVars
<1>2. Kept = priv /\ Kept' = priv
  BY <1>1 DEF Kept
<1>3. priv = Shown /\ ~unhide /\ tree_root \in Roots \cup {1}
  BY <1>1, TreeThere DEF Known, ListInv, ViewInv, FieldsOK, TreeInv
<1>4. \A n \in priv \ {tree_root} : parent[n] \in priv
  BY <1>1, <1>3, TreeThere, ReachProps DEF Shown
<1>5. OneTop'
  <2>1. TopAt(tree_root)
    BY <1>2, <1>4 DEF TopAt
  <2>2. (tree_root = tree_root' \/ (tree_root' = 1 /\ sel' = None))
        /\ \A n \in Kept' \ {tree_root} : parent'[n] \in Kept'
    BY <1>1, <1>2, <1>4
  <2> QED BY <1>3, <2>2 DEF OneTop, TopAt
<1>6. OrderInv' /\ NumInv' /\ SyncInv'
  BY <1>1, <1>2 DEF Known, ListInv, OrderInv, NumInv, SyncInv
<1>7. SelInv' /\ ViewInv'
  BY <1>1, <1>3 DEF Known, ListInv, SelInv, ViewInv
<1> QED BY <1>5, <1>6, <1>7 DEF ListInv

\* Or with the empty list.
LEMMA StartsEmpty ==
  ASSUME Known, Periodic, ~visible, visible' = TRUE, FieldsOK', sel' = None
  PROVE  ListInv'
<1>1. /\ stage = "idle" /\ stage' = "tree" /\ phase' = "scan" /\ phase = "idle"
      /\ UNCHANGED <<parent, child, priv, begin, line, w>>
  BY DEF Periodic, StartUpdate, listVars
<1>2. priv = {} /\ Kept' = {}
  BY <1>1 DEF Known, ListInv, ViewInv, Kept
<1>3. tree_root' \in Roots \cup {1}
  BY DEF FieldsOK
<1>4. OneTop'
  BY <1>2, <1>3 DEF OneTop, TopAt
<1>5. OrderInv' /\ NumInv' /\ SyncInv' /\ SelInv' /\ ViewInv'
  BY <1>1, <1>2 DEF Known, ListInv, OrderInv, NumInv, SyncInv, SelInv, ViewInv
<1> QED BY <1>4, <1>5 DEF ListInv

\* What the user does to a list that is not updated
LEMMA IdleStep ==
  ASSUME Known, stage = "idle", stage' \in {"idle", "draw"}, stage' = "draw" => visible,
         UNCHANGED <<parent, child, hash_table, priv, old_list, phase, begin, line, tree_root,
                     visible, unhide>>,
         FieldsOK', SelInv'
  PROVE  ListInv'
<1>1. Kept' = Kept /\ Shown' = Shown
  BY SameTree DEF Kept
<1>2. OneTop' /\ NumInv' /\ SyncInv'
  BY DEF Known, ListInv, OneTop, NumInv, SyncInv
<1>3. OrderInv'
  BY <1>1 DEF Known, ListInv, OrderInv
<1>4. ViewInv'
  BY <1>1 DEF Known, ListInv, ViewInv
<1> QED BY <1>2, <1>3, <1>4 DEF ListInv

\* The process on a line, by its number.
LEMMA SelectedProps ==
  ASSUME LineInv, NumInv, stage \in {"idle", "draw"}, FieldsOK, NEW c, priv \subseteq Node
  PROVE  /\ crsr_pid(c) \in Node
         /\ Selected(c) # None =>
              c + 1 \in DOMAIN begin /\ begin[c + 1] = Selected(c) /\ Selected(c) \in priv
         /\ Selected(c) \in Node \cup {None}
<1>1. /\ crsr_pid(c) \in priv \cup {0}
      /\ (crsr_pid(c) \in priv /\ line[crsr_pid(c)] = c) \/ ~\E n \in priv : line[n] = c
  BY DEF crsr_pid
<1>2. ASSUME \E n \in priv : line[n] = c
      PROVE  c + 1 \in DOMAIN begin /\ begin[c + 1] = crsr_pid(c) /\ crsr_pid(c) \in priv
  <2> DEFINE p == crsr_pid(c)
  <2>1. p \in priv /\ line[p] = c
    BY <1>1, <1>2
  <2> HIDE DEF p
  <2>2. PICK i \in DOMAIN begin : begin[i] = p
    BY <2>1 DEF LineInv, LinesOwnNodes, Range
  <2>3. c = i - 1 /\ i \in Int
    <3>1. begin \in Seq(priv \cup marked)
      BY DEF LineInv
    <3> QED BY <2>1, <2>2, <3>1 DEF NumInv
  <2>4. c + 1 = i
    BY <2>3
  <2> QED BY <2>1, <2>2, <2>4 DEF p
<1>3. 0 \in Node
  BY NodeFacts
<1>4. CASE \E n \in priv : line[n] = c
  <2>1. Selected(c) = crsr_pid(c)
    BY <1>4 DEF Selected
  <2>2. crsr_pid(c) \in priv /\ crsr_pid(c) \in Node
    BY <1>2, <1>4
  <2>3. c + 1 \in DOMAIN begin /\ begin[c + 1] = crsr_pid(c)
    BY <1>2, <1>4
  <2> QED BY <2>1, <2>2, <2>3
<1>5. CASE ~\E n \in priv : line[n] = c
  <2>1. Selected(c) = None
    BY <1>5 DEF Selected
  <2>2. crsr_pid(c) \in Node
    BY <1>1, <1>3
  <2> QED BY <2>1, <2>2
<1> QED BY <1>4, <1>5

\* The list is emptied.
LEMMA HideList ==
  ASSUME Known, Hide, pkey' \in {"none", "t", "Enter"} PROVE ListInv'
<1>1. /\ stage = "idle" /\ stage' = stage /\ begin' = <<>> /\ line' = [n \in Node |-> 0]
      /\ priv' = priv \ Range(begin) /\ visible' = FALSE /\ sel' = None
      /\ UNCHANGED <<tree_root, w, unhide, proc, sent, marked>>
  BY DEF Hide, clear_list
<1>2. priv' = {} /\ DOMAIN begin' = {}
  BY <1>1 DEF Known, LineInv, LinesOwnNodes
<1>4. FieldsOK' => ListInv'
  BY <1>1, <1>2 DEF Known, ListInv, ViewInv, OneTop, OrderInv, NumInv, SyncInv, SelInv
<1>5. line' \in [Node -> Nat]
  BY <1>1
<1>6. /\ FieldsOK
      /\ pkey' \in {"none", "t", "Enter"} => FieldsOK'
  BY <1>1, <1>5 DEF Known, ListInv, FieldsOK
<1> QED BY <1>4, <1>6

\* The kernel changes nothing of the program.
LEMMA KernelList == ASSUME Known, KernelActs PROVE ListInv'
<1>1. /\ stage \in {"idle", "tree"}
      /\ UNCHANGED <<parent, child, hash_table, priv, old_list, phase, listVars, viewVars, w, stage,
                     unhide, proc, sel, sent>>
  BY DEF KernelActs, KernelMoves, treeVars
<1>2. Kept' = Kept /\ Shown' = Shown
  BY <1>1, SameTree DEF Kept, viewVars
<1> QED BY <1>1, <1>2 DEF Known, ListInv, ViewInv, OneTop, TopAt, OrderInv, NumInv, SyncInv,
           SelInv, FieldsOK, listVars, viewVars

\* Nothing happens.
LEMMA StutterList == ASSUME Known, UNCHANGED plVars PROVE ListInv'
<1>1. UNCHANGED <<parent, child, hash_table, priv, old_list, phase, listVars, viewVars, w, stage,
                  unhide, proc, l, sel, sent>>
  BY DEF plVars, ptVars, treeVars, scanVars
<1>2. /\ Kept' = Kept /\ Shown' = Shown /\ Found' = Found
      /\ \A m, n : Precedes(parent', child', Reach', m, n) <=> Earlier(m, n)
  BY <1>1, SameTree DEF Kept, viewVars, Found
<1>3. Walked' = Walked
  BY <1>1, <1>2, SameTree DEF Walked, Before, Earlier, viewVars
<1>4. FieldsOK' /\ ViewInv' /\ OneTop' /\ NumInv' /\ SelInv'
  BY <1>1, <1>2 DEF Known, ListInv, ViewInv, OneTop, TopAt, NumInv, SelInv, FieldsOK,
                    listVars, viewVars
<1>5. OrderInv'
  BY <1>1, <1>2 DEF Known, ListInv, OrderInv, listVars
<1>6. SyncInv'
  <2> SUFFICES ASSUME stage = "sync"
               PROVE  /\ priv' \subseteq Shown' /\ Walked' \subseteq priv'
                      /\ proc' # None => tree_root' \in Found'
                      /\ \A i \in DOMAIN begin' : i <= l' <=> begin'[i] \in Walked'
                      /\ \A i \in DOMAIN begin' : i <= l' => line'[begin'[i]] = i - 1
                      /\ \A i, j \in DOMAIN begin' : i < j =>
                           Precedes(parent', child', Reach', begin'[i], begin'[j])
    BY <1>1 DEF SyncInv, Earlier
  <2>1. /\ begin' = begin /\ line' = line /\ priv' = priv /\ l' = l /\ proc' = proc
        /\ tree_root' = tree_root
    BY <1>1 DEF listVars, viewVars
  <2>2. SyncInv
    BY DEF Known, ListInv
  <2>3. \A i, j \in DOMAIN begin : i < j => Precedes(parent', child', Reach', begin[i], begin[j])
    BY <1>2, <2>2 DEF SyncInv
  <2> QED BY <1>2, <1>3, <2>1, <2>2, <2>3 DEF SyncInv
<1> QED BY <1>4, <1>5, <1>6 DEF ListInv

\* The timer and the keys
LEMMA UserList == ASSUME Known, Tick \/ User PROVE ListInv'
<1>1. /\ FieldsOK /\ ViewInv /\ NumInv /\ SelInv /\ LineInv /\ priv \subseteq Node
  BY DEF Known, ListInv, IInv, TypeOK
<1>2. ASSUME NEW c, stage = "idle"
      PROVE  /\ crsr_pid(c) \in Node /\ Selected(c) \in Node \cup {None}
             /\ Selected(c) # None =>
                  c + 1 \in DOMAIN begin /\ begin[c + 1] = Selected(c) /\ Selected(c) \in priv
  BY <1>1, <1>2, SelectedProps
<1>3. Periodic => stage = "idle" /\ UNCHANGED <<w, line, proc, begin, marked>>
  BY DEF Periodic, listVars
<1>4. CASE Tick \/ KeyR
  <2>1. visible /\ Periodic /\ UNCHANGED <<viewVars, unhide, sel, sent>>
    BY <1>4 DEF Tick, KeyR
  <2>2. FieldsOK' /\ visible' = TRUE
    BY <1>1, <1>3, <2>1 DEF FieldsOK, viewVars
  <2> QED BY <2>1, <2>2, StartsWithShown DEF viewVars
<1>5. CASE KeySignal
  <2>1. visible /\ Periodic /\ UNCHANGED <<viewVars, unhide, sel>>
        /\ sent' = IF crsr_pid(w.crsr) = 1 THEN None ELSE crsr_pid(w.crsr)
    BY <1>5 DEF KeySignal
  <2>2. FieldsOK' /\ visible' = TRUE
    BY <1>1, <1>2, <1>3, <2>1 DEF FieldsOK, viewVars
  <2> QED BY <2>1, <2>2, StartsWithShown DEF viewVars
<1>6. ASSUME NEW r \in Roots \cup {1}, Unhide(r), ~visible, pkey' \in {"t", "Enter"} PROVE ListInv'
  <2>1. Periodic /\ tree_root' = r /\ visible' = TRUE /\ unhide' = TRUE /\ sel' = None /\ sent' = sent
    BY <1>6 DEF Unhide
  <2>2. FieldsOK'
    BY <1>1, <1>3, <1>6, <2>1 DEF FieldsOK
  <2> QED BY <1>6, <2>1, <2>2, StartsEmpty
<1>7. CASE KeyT
  <2>1. CASE ~visible /\ Unhide(1)
    BY <1>6, <1>7, <2>1 DEF KeyT
  <2>2. CASE visible /\ tree_root' = 1 /\ Periodic /\ sel' = None /\ UNCHANGED <<visible, unhide, sent>>
    <3>1. FieldsOK' /\ visible' = TRUE
      BY <1>1, <1>3, <1>7, <2>2 DEF FieldsOK, KeyT
    <3> QED BY <2>2, <3>1, StartsWithShown
  <2>3. CASE UNCHANGED <<ptVars, listVars, tree_root, visible, w, stage, unhide, proc, l, sel, sent>>
    <3>1. FieldsOK' /\ SelInv'
      BY <1>1, <1>7, <2>3 DEF FieldsOK, KeyT, SelInv, listVars, ptVars, treeVars
    <3>2. stage = "idle"
      BY <1>7 DEF KeyT
    <3> QED BY <2>3, <3>1, <3>2, IdleStep DEF listVars, ptVars, treeVars, scanVars
  <2> QED BY <1>7, <2>1, <2>2, <2>3 DEF KeyT
<1>8. CASE KeyEnter
  BY <1>6, <1>8, HideList DEF KeyEnter
<1>9. CASE KeyO
  <2>1. /\ visible /\ stage = "idle" /\ stage' = "draw"
        /\ UNCHANGED <<ptVars, listVars, viewVars, w, unhide, proc, l, sel, sent>>
    BY <1>9 DEF KeyO
  <2>2. FieldsOK' /\ SelInv'
    BY <1>1, <2>1 DEF FieldsOK, SelInv, listVars, viewVars, ptVars, treeVars
  <2> QED BY <2>1, <2>2, IdleStep DEF listVars, viewVars, ptVars, treeVars, scanVars
<1>10. ASSUME stage = "idle", w' \in IntWidget, sel' = Selected(w'.crsr),
              UNCHANGED <<ptVars, listVars, viewVars, stage, unhide, proc, l, sent>>
       PROVE  ListInv'
  <2>1. FieldsOK' /\ SelInv'
    BY <1>1, <1>2, <1>10 DEF FieldsOK, SelInv, listVars, viewVars, ptVars, treeVars
  <2> QED BY <1>10, <2>1, IdleStep DEF listVars, viewVars, ptVars, treeVars, scanVars
<1>11. ASSUME NEW k \in Keys \cap ScreenKeys, KeyCursor(k) PROVE ListInv'
  <2>1. w' = Key(k, w) /\ w \in IntWidget /\ k \in ScreenKeys
    BY <1>1, <1>11 DEF KeyCursor, FieldsOK
  <2>2. w' \in IntWidget
    BY <2>1, KeyInt
  <2> QED BY <1>10, <1>11, <2>2 DEF KeyCursor
<1>12. CASE KeySearch
  <2>1. PICK hits \in SUBSET priv, t \in 0 .. 2 :
          LET at == getprocbyname(hits, t)
          IN  at # {} /\ w' = CrsrJmp(w, CHOOSE i \in at : \A j \in at : i <= j)
    BY <1>12 DEF KeySearch
  <2> DEFINE at == getprocbyname(hits, t)
  <2>2. at \in SUBSET Nat
    BY <1>1 DEF getprocbyname, FieldsOK
  <2>3. at # {} /\ w' = CrsrJmp(w, CHOOSE i \in at : \A j \in at : i <= j)
    BY <2>1
  <2> HIDE DEF at
  <2>4. \E i \in at : \A j \in at : i <= j
    BY <2>2, <2>3, LeastPid
  <2> DEFINE n == CHOOSE i \in at : \A j \in at : i <= j
  <2>5. n \in at /\ w' = CrsrJmp(w, n)
    BY <2>3, <2>4
  <2> HIDE DEF n
  <2>6. w' \in IntWidget
    BY <1>1, <2>2, <2>5, JumpInt DEF FieldsOK
  <2> QED BY <1>10, <1>12, <2>6 DEF KeySearch
<1> QED BY <1>4, <1>5, <1>7, <1>8, <1>9, <1>11, <1>12 DEF User

\* What is marked loses its line, and the rest keeps its place.
LEMMA UpdateTreeList == ASSUME Known, UpdateTree PROVE ListInv'
<1>1. /\ stage = "tree" /\ Continue /\ stage' \in {"tree", "delete"}
      /\ sel' = IF sel \in priv \ priv' THEN None ELSE sel
      /\ marked' = marked \cup (priv \ priv')
      /\ UNCHANGED <<begin, line, viewVars, w, unhide, proc, l, sent>>
  BY DEF UpdateTree, Mark
<1>2. /\ Kept' \subseteq Kept /\ Kept \subseteq Node
      /\ \A n \in Kept' : parent'[n] = parent[n] /\ (parent[n] \in Kept => parent[n] \in Kept')
      /\ \A a \in Kept', b \in Kept' : Elder(child, a, b) => Elder(child', a, b)
  BY <1>1, KeptStep DEF Known
<1>3. OneTop'
  <2>1. PICK r \in Roots \cup {1} : TopAt(r)
    BY <1>1 DEF Known, ListInv, OneTop
  <2>2. TopAt(r)'
    BY <1>1, <1>2, <2>1 DEF TopAt, viewVars
  <2> QED BY <2>2 DEF OneTop
<1>4. OrderInv'
  <2> SUFFICES ASSUME NEW i \in DOMAIN begin, NEW j \in DOMAIN begin, i < j,
                      begin[i] \in Kept', begin[j] \in Kept'
               PROVE  Precedes(parent', child', Kept', begin[i], begin[j])
    BY <1>1 DEF OrderInv
  <2>1. Precedes(parent, child, Kept, begin[i], begin[j])
    BY <1>1, <1>2 DEF Known, ListInv, OrderInv
  <2> HIDE DEF Kept
  <2> DEFINE m == begin[i]
             n == begin[j]
             D == Kept
             X == Kept'
             f == parent
             g == parent'
             c == child
             d == child'
  <2>2. /\ D \in SUBSET Node /\ X \in SUBSET D
        /\ \A x \in X : g[x] = f[x] /\ (f[x] \in D => f[x] \in X)
        /\ \A a \in X, b \in X : Elder(c, a, b) => Elder(d, a, b)
        /\ m \in X /\ n \in X /\ Precedes(f, c, D, m, n)
    BY <1>2, <2>1
  <2> HIDE DEF m, n, D, X, f, g, c, d
  <2>3. Precedes(g, d, X, m, n)
    BY <2>2, OrderOfLess
  <2> QED BY <2>3 DEF m, n, D, X, f, g, c, d
<1>5. NumInv' /\ SyncInv' /\ SelInv' /\ ViewInv' /\ FieldsOK'
  <2>1. sel' # None => sel' = sel /\ sel \in priv'
    BY <1>1 DEF Known, ListInv, SelInv
  <2>2. priv \subseteq Node
    BY DEF Known, IInv, TypeOK
  <2>3. FieldsOK'
    BY <1>1, <2>1, <2>2 DEF Known, ListInv, FieldsOK, viewVars
  <2> QED BY <1>1, <2>1, <2>3 DEF Known, ListInv, NumInv, SyncInv, SelInv, ViewInv, FieldsOK, viewVars
<1> QED BY <1>3, <1>4, <1>5 DEF ListInv

\* The places in a list from which an element has been taken
LEMMA DelPlaces ==
  ASSUME NEW A, NEW s \in Seq(A), IsInjective(s), NEW k \in DOMAIN s
  PROVE  LET t == ListDel(s, s[k])
         IN  /\ DOMAIN t = 1 .. Len(s) - 1
             /\ \A i \in DOMAIN t : t[i] = IF i < k THEN s[i] ELSE s[i + 1]
<1> DEFINE at == CHOOSE i \in DOMAIN s : s[i] = s[k]
<1>1. at = k
  BY DEF IsInjective
<1>2. ListDel(s, s[k]) = [i \in 1 .. Len(s) - 1 |-> IF i < at THEN s[i] ELSE s[i + 1]]
  BY DEF ListDel
<1> HIDE DEF at
<1> QED BY <1>1, <1>2

\* The first marked line is deleted: the numbers of those below it go down by one.
LEMMA DeleteLineList == ASSUME Known, NEW n \in Node, DeleteLine(n) PROVE ListInv'
<1>1. /\ stage = "delete" /\ stage' = stage /\ n \in marked /\ w' = LDeleted(w, line[n])
      /\ begin' = ListDel(begin, n) /\ line' = MovedUp(n)
      /\ marked' = marked \ {n}
      /\ UNCHANGED <<parent, child, priv, old_list, phase, viewVars, unhide, proc, sel, sent>>
  BY DEF DeleteLine, ptVars, treeVars, scanVars
<1>2. /\ begin \in Seq(priv \cup marked) /\ IsInjective(begin) /\ priv \cap marked = {}
      /\ Range(begin) = priv \cup marked /\ priv \subseteq Node /\ Kept' = Kept
      /\ FieldsOK /\ NumInv /\ SelInv /\ ViewInv
  BY <1>1 DEF Known, LineInv, LinesOwnNodes, ListInv, IInv, TypeOK, Kept
<1>3. PICK k \in DOMAIN begin : begin[k] = n
  BY <1>1, <1>2 DEF Range
<1>4. DOMAIN begin = 1 .. Len(begin) /\ Len(begin) \in Nat /\ k \in 1 .. Len(begin)
  BY <1>2, <1>3
<1>5. /\ DOMAIN begin' = 1 .. Len(begin) - 1
      /\ \A i \in DOMAIN begin' : begin'[i] = IF i < k THEN begin[i] ELSE begin[i + 1]
  BY <1>1, <1>2, <1>3, DelPlaces
<1> DEFINE Old(i) == IF i < k THEN i ELSE i + 1
<1>6. /\ \A i \in DOMAIN begin' : Old(i) \in DOMAIN begin /\ begin'[i] = begin[Old(i)] /\ Old(i) # k
      /\ \A i, j \in DOMAIN begin' : i < j => Old(i) < Old(j)
  BY <1>4, <1>5
<1>7. line[n] = k - 1 /\ \A i \in DOMAIN begin : line[begin[i]] = i - 1
  BY <1>1, <1>2, <1>3 DEF NumInv
<1>8. \A i, j \in DOMAIN begin : begin[i] = begin[j] => i = j
  BY <1>2 DEF IsInjective
\* The numbers
<1> DEFINE below == {m \in Node : \E i, j \in DOMAIN begin : begin[i] = n /\ begin[j] = m /\ i < j}
<1>9. line' = [m \in Node |-> IF m = n THEN 0 ELSE IF m \in below THEN line[m] - 1 ELSE line[m]]
  BY <1>1 DEF MovedUp
<1>10. \A j \in DOMAIN begin : begin[j] \in Node => (begin[j] \in below <=> k < j)
  BY <1>3, <1>8
<1>11. line' \in [Node -> Nat]
  <2>1. ASSUME NEW m \in below PROVE line[m] - 1 \in Nat
    <3>1. PICK j \in DOMAIN begin : begin[j] = m
      OBVIOUS
    <3>2. k < j
      BY <1>10, <3>1
    <3>3. line[m] = j - 1
      BY <1>7, <3>1
    <3> QED BY <1>4, <3>2, <3>3
  <2> HIDE DEF below
  <2>2. \A m \in Node : line[m] \in Nat
    BY <1>2 DEF FieldsOK
  <2> QED BY <1>9, <2>1, <2>2
<1>12. NumInv'
  <2> SUFFICES ASSUME NEW i \in DOMAIN begin' PROVE line'[begin'[i]] = i - 1
    BY DEF NumInv
  <2>1. begin'[i] = begin[Old(i)] /\ Old(i) \in DOMAIN begin /\ Old(i) # k
    BY <1>6
  <2>2. begin'[i] \in Node /\ begin'[i] # n
    <3>1. begin[Old(i)] \in priv \cup marked
      BY <1>2, <2>1 DEF Range
    <3>2. marked \subseteq Node
      BY <1>2 DEF FieldsOK
    <3> QED BY <1>2, <1>3, <1>8, <2>1, <3>1, <3>2
  <2>3. begin'[i] \in below <=> k < Old(i)
    BY <1>10, <2>1, <2>2
  <2>4. line[begin'[i]] = Old(i) - 1
    BY <1>7, <2>1
  <2>5. line'[begin'[i]] = IF k < Old(i) THEN Old(i) - 1 - 1 ELSE Old(i) - 1
    <3> HIDE DEF below, Old
    <3> QED BY <1>9, <2>2, <2>3, <2>4
  <2>6. i \in Nat
    BY <1>5
  <2> QED BY <1>4, <2>5, <2>6
\* The order
<1>13. OrderInv'
  <2> SUFFICES ASSUME NEW i \in DOMAIN begin', NEW j \in DOMAIN begin', i < j,
                      begin'[i] \in Kept, begin'[j] \in Kept
               PROVE  Precedes(parent, child, Kept, begin'[i], begin'[j])
    BY <1>1, <1>2 DEF OrderInv
  <2>1. OrderInv
    BY DEF Known, ListInv
  <2> HIDE DEF Old
  <2> QED BY <1>1, <1>6, <2>1 DEF OrderInv
\* The cursor
<1>14. w' \in IntWidget /\ w'.crsr = IF k - 1 >= w.crsr THEN w.crsr ELSE w.crsr - 1
  <2>1. w \in IntWidget /\ k - 1 \in Int
    BY <1>2, <1>4 DEF FieldsOK
  <2> QED BY <1>1, <1>7, <2>1, DeletedInt
<1>15. SelInv'
  <2> SUFFICES ASSUME sel # None
               PROVE  w'.crsr + 1 \in DOMAIN begin' /\ begin'[w'.crsr + 1] = sel /\ sel \in priv
    BY <1>1 DEF SelInv
  <2> DEFINE c == w.crsr
             d == w'.crsr
  <2>1. c + 1 \in DOMAIN begin /\ begin[c + 1] = sel /\ sel \in priv
    BY <1>2 DEF SelInv
  <2>2. c \in Int /\ d = IF k - 1 >= c THEN c ELSE c - 1
    BY <1>2, <1>14 DEF FieldsOK, IntWidget
  <2> HIDE DEF c, d
  <2>3. k # c + 1
    BY <1>1, <1>2, <1>3, <2>1
  <2>4. d + 1 \in 1 .. Len(begin) - 1 /\ Old(d + 1) = c + 1
    BY <1>4, <2>1, <2>2, <2>3
  <2>5. begin'[d + 1] = begin[c + 1]
    BY <1>5, <1>6, <2>4
  <2> QED BY <1>5, <2>1, <2>4, <2>5 DEF d
<1>16. OneTop' /\ SyncInv' /\ ViewInv' /\ FieldsOK'
  BY <1>1, <1>2, <1>11, <1>14 DEF Known, ListInv, OneTop, TopAt, SyncInv, ViewInv, FieldsOK, viewVars
<1> QED BY <1>12, <1>13, <1>15, <1>16 DEF ListInv

\* The root of what keeps its lines is among it, and above all of it.
LEMMA TopAbove ==
  ASSUME NEW r \in Node, NEW D \in SUBSET Node, None \notin Node, Grounded(parent, D),
         \A n \in D \ {r} : parent[n] \in D,
         NEW x \in D, NEW A \in SUBSET Node, x \in A, \A m \in A : parent[m] # None => parent[m] \in A
  PROVE  r \in A \cap D
<1>1. PICK a \in A \cap D : parent[a] \notin A \cap D
  BY DEF Grounded
<1>2. a = r
  BY <1>1
<1> QED BY <1>2

\* The roots are nodes.
LEMMA RootsNodes == Roots \cup {1} \subseteq Node
BY RootsAssumption, NodeFacts

\* All lines that are left belong to the tree that is to be shown, in its order, so the
\* walk of synchronize() can meet them one after the other.
LEMMA StartSyncList ==
  ASSUME NEW D \in SUBSET Procs, Roots \cup {1} \subseteq D, ReadOfInit(D), Known, StartSync
  PROVE  ListInv'
<1>1. /\ stage = "delete" /\ marked = {} /\ stage' = "sync" /\ l' = 0
      /\ proc' = IF tree_root \notin Found THEN None
                 ELSE IF tree_root = 0 THEN tree_next(0) ELSE tree_root
      /\ UNCHANGED <<parent, child, hash_table, priv, begin, line, marked, viewVars, w, unhide, sel, sent>>
      /\ phase = "idle"
  BY DEF StartSync, ptVars, treeVars, listVars, Known, WalkInv
<1>2. TreeInv /\ None \notin Node /\ old_list = {} /\ priv \subseteq Found /\ Kept = priv
  BY <1>1, TreeThere, NodeFacts DEF Known, IInv, ListsPartition, PrivLive, Kept
<1>3. tree_root # 0 /\ tree_root \in Node /\ 1 \in Found /\ priv \subseteq Node
      /\ Found \subseteq Node
  BY NodeFacts, RootsAssumption DEF Known, ListInv, FieldsOK, Found, IInv, TypeOK
<1>4. Grounded(parent, priv)
  BY <1>2, <1>3, GroundedLess DEF TreeInv
<1>5. /\ begin \in Seq(priv) /\ Range(begin) = priv /\ LineInv
      /\ FieldsOK /\ ViewInv /\ OneTop /\ OrderInv /\ NumInv /\ SelInv
  <2>1. begin \in Seq(priv \cup marked) /\ Range(begin) = priv \cup marked
    BY DEF Known, LineInv, LinesOwnNodes
  <2>2. priv \cup marked = priv
    BY <1>1
  <2> QED BY <2>1, <2>2 DEF Known, ListInv
<1>6. PICK r \in Roots \cup {1} : TopAt(r)
  BY <1>1, <1>5 DEF OneTop
<1>7. \A n \in priv \ {r} : parent[n] \in priv
  BY <1>2, <1>6 DEF TopAt
<1>8. priv \subseteq Shown /\ (sel # None => tree_root \in priv)
  <2>1. CASE r = tree_root
    <3>1. ASSUME NEW n \in priv PROVE ReachesRoot(n) /\ tree_root \in priv
      <4>1. ASSUME NEW A \in SUBSET Node, n \in A, \A m \in A : parent[m] # None => parent[m] \in A
            PROVE  tree_root \in A \cap priv
        BY <1>2, <1>3, <1>4, <1>7, <2>1, <4>1, TopAbove
      <4>2. Node \in SUBSET Node /\ n \in Node /\ \A m \in Node : parent[m] # None => parent[m] \in Node
        BY <1>2, <1>3 DEF TreeInv, TypeOK
      <4> QED BY <4>1, <4>2 DEF ReachesRoot
    <3> QED BY <1>2, <1>3, <1>5, <3>1 DEF Shown, Reach, SelInv
  <2>2. CASE tree_root = 1 /\ sel = None
    <3>1. PICK T \in SUBSET Node : Rooted(T)
      BY <1>1 DEF Known, WayInv
    <3>2. /\ Grounded(parent, T) /\ 1 \in T /\ priv \subseteq T
          /\ \A n \in T \ {1} : parent[n] \in T \cup {0}
      BY <1>2, <3>1 DEF Rooted
    <3> DEFINE X == T \cap D
    <3>3. /\ X \in SUBSET Node /\ 1 \in X /\ Grounded(parent, X)
          /\ \A n \in X \ {1} : parent[n] \in X
      <4>1. X \in SUBSET Node /\ 1 \in X /\ X \subseteq T /\ 0 \notin D /\ 0 \in Node
        BY <3>2, NodeFacts
      <4>2. \A n \in X \ {1} : parent[n] \in X
        BY <1>2, <3>2, <4>1 DEF ReadOfInit
      <4>3. Grounded(parent, X)
        BY <3>2, <4>1, GroundedLess
      <4> QED BY <4>1, <4>2, <4>3
    <3> HIDE DEF X
    <3>4. ASSUME NEW n \in priv, NEW A \in SUBSET Node, n \in A,
                 \A m \in A : parent[m] # None => parent[m] \in A
          PROVE  1 \in A
      <4>1. r \in A \cap priv
        BY <1>2, <1>3, <1>4, <1>7, <3>4, RootsNodes, TopAbove
      <4>2. r \in X
        BY <3>2, <3>3, <4>1 DEF X
      <4> QED BY <1>2, <3>3, <3>4, <4>1, <4>2, TopAbove
    <3>5. ASSUME NEW n \in priv PROVE ReachesRoot(n)
      BY <2>2, <3>4 DEF ReachesRoot
    <3> QED BY <1>3, <2>2, <3>5 DEF Shown, Reach
  <2> QED BY <1>6, <2>1, <2>2 DEF TopAt
<1>9. Reach' = Reach /\ Shown' = Shown /\ Found' = Found
      /\ \A m, n : Precedes(parent', child', Reach', m, n) <=> Earlier(m, n)
  BY <1>1, SameTree DEF viewVars, Found
<1>10. Walked' = {}
  <2>1. CASE tree_root \in Found
    <3>1. proc' = tree_root /\ proc' # None
      BY <1>1, <1>2, <1>3, <2>1
    <3>2. Walked' = {m \in Reach : Earlier(m, tree_root)}
      BY <1>9, <3>1 DEF Walked, Before, Earlier
    <3> QED BY <1>2, <3>2, RootFirst DEF Before
  <2>2. CASE tree_root \notin Found
    <3>1. proc' = None /\ Shown = {}
      BY <1>1, <2>2 DEF Shown
    <3> QED BY <1>9, <3>1 DEF Walked
  <2> QED BY <2>1, <2>2
<1>11. \A i, j \in DOMAIN begin : i < j => Earlier(begin[i], begin[j])
  <2> SUFFICES ASSUME NEW i \in DOMAIN begin, NEW j \in DOMAIN begin, i < j
               PROVE  Earlier(begin[i], begin[j])
    OBVIOUS
  <2>1. begin[i] \in priv /\ begin[j] \in priv
    BY <1>5
  <2>2. Precedes(parent, child, priv, begin[i], begin[j])
    BY <1>1, <1>2, <1>5, <2>1 DEF OrderInv
  <2>3. priv \subseteq Reach /\ Reach \in SUBSET Node
    BY <1>2, <1>8, ReachProps DEF Shown
  <2> DEFINE m == begin[i]
             n == begin[j]
  <2>4. m \in Node /\ n \in Node /\ Precedes(parent, child, priv, m, n)
    BY <1>3, <2>1, <2>2
  <2> HIDE DEF m, n, Reach
  <2>5. UpTo(parent, priv, m) \subseteq UpTo(parent, Reach, m)
        /\ UpTo(parent, priv, n) \subseteq UpTo(parent, Reach, n)
    BY <2>3, <2>4, UpMore
  <2>6. Earlier(m, n)
    BY <2>4, <2>5 DEF Precedes, Earlier
  <2> QED BY <2>6 DEF m, n
<1>12. SyncInv'
  <2>1. \A i \in DOMAIN begin : ~(i <= 0)
    BY <1>5
  <2>2. proc' # None => tree_root' \in Found'
    BY <1>1, <1>9 DEF viewVars
  <2>3. \A i, j \in DOMAIN begin : i < j => Precedes(parent', child', Reach', begin[i], begin[j])
    BY <1>9, <1>11
  <2> QED BY <1>1, <1>8, <1>9, <1>10, <2>1, <2>2, <2>3 DEF SyncInv, Earlier
<1>13. FieldsOK'
  <2>1. proc' \in Node \cup {None}
    BY <1>1, <1>3
  <2> QED BY <1>1, <1>5, <2>1 DEF FieldsOK, viewVars
<1>14. ViewInv' /\ OneTop' /\ OrderInv' /\ NumInv' /\ SelInv'
  BY <1>1, <1>5, <1>8 DEF ViewInv, OneTop, OrderInv, NumInv, SelInv, viewVars
<1> QED BY <1>12, <1>13, <1>14 DEF ListInv

\* synchronize() goes on: what it has passed is that and the node it was at.
LEMMA PassedOn ==
  ASSUME Known, stage = "sync", proc # None, phase = "idle",
         UNCHANGED <<parent, child, hash_table, tree_root>>, proc' = tree_next(proc)
  PROVE  /\ TreeInv /\ proc \in Reach /\ tree_root \in Found /\ Reach \subseteq Node
         /\ Walked = Before(proc) /\ proc \notin Walked /\ Walked \subseteq Reach
         /\ Walked' = Walked \cup {proc} /\ proc' \in Node \cup {None}
<1>1. TreeInv /\ proc \in Reach /\ tree_root \in Found /\ proc \in Found /\ Found \subseteq Node
  BY TreeThere, NodeFacts DEF Known, ListInv, SyncInv, WalkInv, Reach, Found, IInv, TypeOK
<1>2. /\ Walked = Before(proc) /\ Walked \subseteq Reach /\ Reach \subseteq Node
      /\ Shown = Reach
  BY <1>1, ReachProps DEF Walked, Before, Shown
<1>3. proc \notin Walked
  BY <1>1, <1>2, EarlierTotal DEF Before
<1>4. Reach' = Reach /\ Shown' = Shown
      /\ \A m, n : Precedes(parent', child', Reach', m, n) <=> Earlier(m, n)
  BY SameTree
<1>5. Walked' = IF proc' = None THEN Shown ELSE {m \in Reach : Earlier(m, proc')}
  BY <1>4 DEF Walked, Before, Earlier
<1>6. IF tree_next(proc) = None THEN Reach = Before(proc) \cup {proc}
      ELSE tree_next(proc) \in Reach /\ Before(tree_next(proc)) = Before(proc) \cup {proc}
  BY <1>1, NextInOrder
<1> HIDE DEF Reach, Shown
<1>7. CASE tree_next(proc) = None
  BY <1>1, <1>2, <1>3, <1>5, <1>6, <1>7
<1>8. CASE tree_next(proc) # None
  <2> DEFINE q == tree_next(proc)
  <2>1. q \in Reach /\ Before(q) = Before(proc) \cup {proc} /\ proc' = q /\ q # None
    BY <1>6, <1>8
  <2> HIDE DEF q
  <2>2. Walked' = Before(q)
    BY <1>5, <2>1 DEF Before
  <2> QED BY <1>1, <1>2, <1>3, <2>1, <2>2
<1> QED BY <1>7, <1>8

\* The node at hand has a line, which is the line at hand.
LEMMA SyncKeepList == ASSUME Known, SyncKeep PROVE ListInv'
<1>1. /\ stage = "sync" /\ proc # None /\ proc \in priv
      /\ UNCHANGED <<parent, child, hash_table, priv, begin, marked, viewVars, w, unhide, sel, sent>>
      /\ phase = "idle"
      /\ IF l < Len(begin)
         THEN /\ line' = [line EXCEPT ![begin[l + 1]] = l]
              /\ l' = l + 1 /\ proc' = tree_next(proc) /\ stage' = stage
         ELSE stage' = "broken" /\ UNCHANGED <<line, l, proc>>
  BY DEF SyncKeep, ptVars, treeVars, Known, WalkInv
<1>2. /\ begin \in Seq(priv) /\ Range(begin) = priv /\ IsInjective(begin) /\ priv \subseteq Node
      /\ l \in Nat /\ SyncInv /\ FieldsOK /\ ViewInv /\ SelInv /\ priv \subseteq Shown
  <2>1. /\ begin \in Seq(priv \cup marked) /\ Range(begin) = priv \cup marked /\ marked = {}
        /\ IsInjective(begin)
    BY <1>1 DEF Known, LineInv, LinesOwnNodes
  <2>2. priv \cup marked = priv
    BY <2>1
  <2> QED BY <1>1, <2>1, <2>2 DEF Known, ListInv, LineInv, IInv, TypeOK, SyncInv
<1>3. DOMAIN begin = 1 .. Len(begin) /\ Len(begin) \in Nat /\ \A i \in 1 .. Len(begin) : begin[i] \in priv
  BY <1>2
<1> DEFINE V == Walked
<1>4. proc \notin V /\ proc \in Reach /\ V = Before(proc)
  <2>1. TreeInv /\ proc \in Reach
    BY <1>1, TreeThere DEF Known, WalkInv, Reach, Found, IInv, TypeOK, ListInv, FieldsOK
  <2>2. V = Before(proc)
    BY <1>1 DEF Walked
  <2> QED BY <2>1, <2>2, EarlierTotal DEF Before
<1>5. PICK j \in DOMAIN begin : begin[j] = proc
  BY <1>1, <1>2 DEF Range
\* The line at hand is its own.
<1>6. j = l + 1
  <2>1. /\ \A i \in DOMAIN begin : i <= l <=> begin[i] \in V
        /\ \A i, k \in DOMAIN begin : i < k => Earlier(begin[i], begin[k])
    BY <1>1, <1>2 DEF SyncInv
  <2> HIDE DEF V
  <2>2. ~(j <= l)
    BY <1>4, <1>5, <2>1
  <2>3. CASE j > l + 1
    <3>1. l + 1 \in DOMAIN begin /\ l + 1 < j /\ ~(l + 1 <= l)
      BY <1>2, <1>3, <2>3
    <3>2. Earlier(begin[l + 1], proc) /\ begin[l + 1] \notin V
      BY <1>5, <2>1, <3>1
    <3>3. begin[l + 1] \in Reach
      BY <1>2, <1>3, <3>1 DEF Shown
    <3> QED BY <1>4, <3>2, <3>3 DEF Before
  <2> QED BY <1>2, <1>3, <2>2, <2>3
<1>7. l < Len(begin)
  BY <1>2, <1>3, <1>6
<1>8. /\ line' = [line EXCEPT ![proc] = l] /\ l' = l + 1 /\ proc' = tree_next(proc) /\ stage' = stage
  BY <1>1, <1>5, <1>6, <1>7
<1>9. tree_root' = tree_root
  BY <1>1 DEF viewVars
<1>10. Walked' = Walked \cup {proc} /\ proc' \in Node \cup {None} /\ tree_root \in Found
  BY <1>1, <1>8, <1>9, PassedOn
<1>11. Reach' = Reach /\ Shown' = Shown /\ Found' = Found
       /\ \A m, n : Precedes(parent', child', Reach', m, n) <=> Earlier(m, n)
  BY <1>1, <1>9, SameTree DEF Found
<1>12. SyncInv'
  <2>1. priv' \subseteq Shown' /\ Walked' \subseteq priv' /\ tree_root' \in Found'
    BY <1>1, <1>2, <1>9, <1>10, <1>11 DEF SyncInv
  <2>2. ASSUME NEW i \in DOMAIN begin
        PROVE  (i <= l + 1 <=> begin[i] \in Walked') /\ (i <= l + 1 => line'[begin[i]] = i - 1)
    <3>1. i <= l <=> begin[i] \in Walked
      BY <1>1, <1>2 DEF SyncInv
    <3>2. i <= l => line[begin[i]] = i - 1
      BY <1>1, <1>2 DEF SyncInv
    <3>3. i = l + 1 <=> begin[i] = proc
      BY <1>2, <1>5, <1>6 DEF IsInjective
    <3>4. i <= l + 1 <=> i <= l \/ i = l + 1
      BY <1>2, <1>3
    <3>5. begin[i] \in Node /\ proc \in Node /\ line \in [Node -> Nat]
      BY <1>1, <1>2, <1>3 DEF FieldsOK
    <3>6. line'[begin[i]] = IF begin[i] = proc THEN l ELSE line[begin[i]]
      BY <1>8, <3>5
    <3>7. i = l + 1 => l = i - 1
      BY <1>2
    <3> HIDE DEF Walked
    <3>8. i <= l + 1 => line'[begin[i]] = i - 1
      BY <3>2, <3>3, <3>4, <3>6, <3>7
    <3> QED BY <1>10, <3>1, <3>3, <3>4, <3>8
  <2>3. \A i, k \in DOMAIN begin : i < k => Precedes(parent', child', Reach', begin[i], begin[k])
    BY <1>1, <1>2, <1>11 DEF SyncInv
  <2> QED BY <1>1, <1>8, <2>1, <2>2, <2>3 DEF SyncInv, Earlier
<1>13. FieldsOK'
  <2>1. line' \in [Node -> Nat]
    BY <1>2, <1>8 DEF FieldsOK
  <2> QED BY <1>1, <1>2, <1>10, <2>1 DEF FieldsOK, viewVars
<1>14. ViewInv' /\ OneTop' /\ OrderInv' /\ NumInv' /\ SelInv'
  BY <1>1, <1>2, <1>8 DEF ViewInv, OneTop, OrderInv, NumInv, SelInv, viewVars
<1> QED BY <1>12, <1>13, <1>14 DEF ListInv

\* What an insertion does to the cursor
LEMMA InsertedInt ==
  ASSUME NEW v \in IntWidget, NEW n \in Int
  PROVE  /\ LInserted(v, n) \in IntWidget
         /\ LInserted(v, n).crsr = IF (v.vy = 0 /\ v.crsr = 0) \/ n > v.crsr THEN v.crsr
                                   ELSE v.crsr + 1
<1>1. v.crsr \in Int /\ v.crsr + 1 \in Int /\ 1 \in Int
  BY DEF IntWidget
<1> DEFINE u == Move(v, v.crsr + 1)
<1>2. u \in IntWidget /\ u.crsr = v.crsr + 1
  BY <1>1, MoveInt
<1> HIDE DEF u
<1>3. Scroll(u, 1) \in IntWidget /\ Scroll(u, 1).crsr = v.crsr + 1
  BY <1>1, <1>2, ScrollInt
<1> QED BY <1>3 DEF LInserted, u

\* The first node of the walk is the root.
LEMMA OnlyRootFirst ==
  ASSUME TreeInv, NEW p \in Reach, Before(p) = {} PROVE p = tree_root
<1> SUFFICES ASSUME p # tree_root PROVE FALSE
  OBVIOUS
<1>1. tree_root \in Up(p) /\ tree_root \in Reach
  BY UpFacts, ReachProps
<1>2. Earlier(tree_root, p)
  BY <1>1, EarlierDef
<1> QED BY <1>1, <1>2 DEF Before

\* The node at hand gets a line, in its place.
LEMMA SyncInsertList == ASSUME Known, SyncInsert PROVE ListInv'
<1>1. /\ stage = "sync" /\ stage' = stage /\ proc # None /\ proc \notin priv
      /\ UNCHANGED <<parent, child, hash_table, marked, viewVars, unhide, sel, sent>>
      /\ phase = "idle"
      /\ w' = LInserted(w, l) /\ line' = [line EXCEPT ![proc] = l] /\ priv' = priv \cup {proc}
      /\ l' = l + 1 /\ proc' = tree_next(proc)
  BY DEF SyncInsert, Known, WalkInv
<1>2. /\ begin \in Seq(priv) /\ Range(begin) = priv /\ IsInjective(begin) /\ priv \subseteq Node
      /\ l \in Nat /\ l <= Len(begin) /\ SyncInv /\ FieldsOK /\ ViewInv /\ SelInv
      /\ priv \subseteq Shown
  <2>1. /\ begin \in Seq(priv \cup marked) /\ Range(begin) = priv \cup marked /\ marked = {}
        /\ IsInjective(begin) /\ l <= Len(begin)
    BY <1>1 DEF Known, LineInv, LinesOwnNodes
  <2>2. priv \cup marked = priv
    BY <2>1
  <2> QED BY <1>1, <2>1, <2>2 DEF Known, ListInv, LineInv, IInv, TypeOK, SyncInv
<1>3. DOMAIN begin = 1 .. Len(begin) /\ Len(begin) \in Nat /\ \A i \in 1 .. Len(begin) : begin[i] \in priv
  BY <1>2
<1>4. tree_root' = tree_root
  BY <1>1 DEF viewVars
<1>5. /\ TreeInv /\ proc \in Reach /\ tree_root \in Found /\ Reach \subseteq Node
      /\ Walked = Before(proc) /\ proc \notin Walked /\ Walked \subseteq Reach
      /\ Walked' = Walked \cup {proc} /\ proc' \in Node \cup {None}
  BY <1>1, <1>4, PassedOn
<1>6. /\ Len(begin') = Len(begin) + 1 /\ begin' \in Seq(Node)
      /\ \A i \in 1 .. Len(begin) + 1 :
           begin'[i] = IF i <= l THEN begin[i] ELSE IF i = l + 1 THEN proc ELSE begin[i - 1]
  <2>1. begin' = Put(begin, l, proc)
    BY DEF SyncInsert, Inserted, Put
  <2>2. begin \in Seq(Node) /\ l \in 0 .. Len(begin) /\ proc \in Node /\ proc \notin Range(begin)
    BY <1>1, <1>2, <1>3, <1>5
  <2> QED BY <1>2, <2>1, <2>2, InsertProps
<1>7. DOMAIN begin' = 1 .. Len(begin) + 1
  BY <1>6
\* Where a line was
<1> DEFINE Old(i) == IF i <= l THEN i ELSE i - 1
<1>8. ASSUME NEW i \in DOMAIN begin'
      PROVE  /\ i \in Nat
             /\ i = l + 1 => begin'[i] = proc
             /\ i # l + 1 => /\ Old(i) \in DOMAIN begin /\ begin'[i] = begin[Old(i)]
                             /\ i <= l + 1 <=> Old(i) <= l
                             /\ i <= l + 1 => Old(i) = i
                             /\ begin[Old(i)] \in priv
  <2>1. i \in 1 .. Len(begin) + 1 /\ l \in Nat /\ l <= Len(begin) /\ Len(begin) \in Nat
    BY <1>2, <1>3, <1>7
  <2>2. CASE i <= l
    <3>1. i \in 1 .. Len(begin) /\ i # l + 1 /\ i <= l + 1
      BY <2>1, <2>2
    <3> QED BY <1>3, <1>6, <2>1, <2>2, <3>1
  <2>3. CASE i = l + 1
    BY <1>6, <2>1, <2>3
  <2>4. CASE i > l + 1
    <3>1. i - 1 \in 1 .. Len(begin) /\ i # l + 1 /\ ~(i <= l + 1) /\ ~(i <= l) /\ ~(i - 1 <= l)
      BY <2>1, <2>4
    <3> QED BY <1>3, <1>6, <2>1, <3>1
  <2> QED BY <2>1, <2>2, <2>3, <2>4
<1>9. ASSUME NEW i \in DOMAIN begin', NEW j \in DOMAIN begin', i < j
      PROVE  /\ i = l + 1 => j # l + 1 /\ ~(Old(j) <= l)
             /\ j = l + 1 => i # l + 1 /\ Old(i) <= l
             /\ i # l + 1 /\ j # l + 1 => Old(i) < Old(j)
  BY <1>2, <1>3, <1>7, <1>9
<1> HIDE DEF Old
<1>10. Reach' = Reach /\ Shown' = Shown /\ Found' = Found /\ Shown = Reach
       /\ \A m, n : Precedes(parent', child', Reach', m, n) <=> Earlier(m, n)
  BY <1>1, <1>4, <1>5, SameTree DEF Found, Shown
<1>11. /\ Walked \subseteq priv
       /\ \A i \in DOMAIN begin : i <= l <=> begin[i] \in Walked
       /\ \A i \in DOMAIN begin : i <= l => line[begin[i]] = i - 1
       /\ \A i, k \in DOMAIN begin : i < k => Earlier(begin[i], begin[k])
  BY <1>1, <1>2 DEF SyncInv
<1>12. SyncInv'
  <2>1. priv' \subseteq Shown' /\ Walked' \subseteq priv' /\ tree_root' \in Found'
    BY <1>1, <1>2, <1>4, <1>5, <1>10, <1>11
  <2>2. ASSUME NEW i \in DOMAIN begin' PROVE i <= l + 1 <=> begin'[i] \in Walked'
    <3>1. CASE i = l + 1
      BY <1>2, <1>5, <1>8, <3>1
    <3>2. CASE i # l + 1
      <4>1. begin'[i] # proc
        BY <1>1, <1>8, <3>2
      <4> QED BY <1>5, <1>8, <1>11, <3>2, <4>1
    <3> QED BY <3>1, <3>2
  <2>3. ASSUME NEW i \in DOMAIN begin', i <= l + 1 PROVE line'[begin'[i]] = i - 1
    <3>1. line \in [Node -> Nat] /\ proc \in Node
      BY <1>2, <1>5 DEF FieldsOK
    <3>2. CASE i = l + 1
      <4>1. line'[proc] = l /\ l = i - 1
        BY <1>1, <1>2, <3>1, <3>2
      <4> QED BY <1>8, <3>2, <4>1
    <3>3. CASE i # l + 1
      <4>1. begin'[i] = begin[i] /\ i \in DOMAIN begin /\ i <= l /\ begin[i] \in priv
        BY <1>8, <2>3, <3>3
      <4>2. begin[i] # proc /\ begin[i] \in Node
        BY <1>1, <1>2, <4>1
      <4> QED BY <1>1, <1>11, <3>1, <4>1, <4>2
    <3> QED BY <3>2, <3>3
  <2>4. ASSUME NEW i \in DOMAIN begin', NEW j \in DOMAIN begin', i < j
        PROVE  Earlier(begin'[i], begin'[j])
    <3>1. CASE i = l + 1
      <4>1. begin'[i] = proc /\ j # l + 1 /\ ~(Old(j) <= l) /\ Old(j) \in DOMAIN begin
            /\ begin'[j] = begin[Old(j)] /\ begin[Old(j)] \in priv
        BY <1>8, <1>9, <2>4, <3>1
      <4> DEFINE b == begin[Old(j)]
      <4>2. b \in Reach /\ b \notin Before(proc) /\ b # proc
        BY <1>1, <1>2, <1>5, <1>10, <1>11, <4>1
      <4>3. ~Earlier(b, proc)
        BY <4>2 DEF Before
      <4>4. Earlier(proc, b)
        BY <1>5, <4>2, <4>3, EarlierTotal
      <4> QED BY <4>1, <4>4
    <3>2. CASE j = l + 1
      <4>1. begin'[j] = proc /\ i # l + 1 /\ Old(i) <= l /\ Old(i) \in DOMAIN begin
            /\ begin'[i] = begin[Old(i)]
        BY <1>8, <1>9, <2>4, <3>2
      <4>2. begin[Old(i)] \in Before(proc)
        BY <1>5, <1>11, <4>1
      <4> QED BY <4>1, <4>2 DEF Before
    <3>3. CASE i # l + 1 /\ j # l + 1
      <4>1. /\ Old(i) \in DOMAIN begin /\ begin'[i] = begin[Old(i)]
            /\ Old(j) \in DOMAIN begin /\ begin'[j] = begin[Old(j)] /\ Old(i) < Old(j)
        BY <1>8, <1>9, <2>4, <3>3
      <4> QED BY <1>11, <4>1
    <3> QED BY <3>1, <3>2, <3>3
  <2>5. \A i, j \in DOMAIN begin' : i < j => Precedes(parent', child', Reach', begin'[i], begin'[j])
    BY <1>10, <2>4
  <2> QED BY <1>1, <2>1, <2>2, <2>3, <2>5 DEF SyncInv, Earlier
<1>13. w' \in IntWidget /\ w'.crsr = IF (w.vy = 0 /\ w.crsr = 0) \/ l > w.crsr THEN w.crsr ELSE w.crsr + 1
  <2>1. w \in IntWidget /\ l \in Int
    BY <1>2 DEF FieldsOK
  <2> QED BY <1>1, <2>1, InsertedInt
<1>14. FieldsOK'
  <2>1. line' \in [Node -> Nat]
    BY <1>1, <1>2 DEF FieldsOK
  <2> QED BY <1>1, <1>2, <1>5, <1>13, <2>1 DEF FieldsOK, viewVars
<1>15. SelInv'
  <2> SUFFICES ASSUME sel # None
               PROVE  /\ w'.crsr + 1 \in DOMAIN begin' /\ begin'[w'.crsr + 1] = sel
                      /\ sel \in priv' /\ tree_root \in priv'
    BY <1>1, <1>4 DEF SelInv
  <2> DEFINE c == w.crsr
             d == w'.crsr
  <2>1. c + 1 \in DOMAIN begin /\ begin[c + 1] = sel /\ sel \in priv /\ tree_root \in priv
    BY <1>1, <1>2 DEF SelInv
  <2>2. c \in Int
    BY <1>2 DEF FieldsOK, IntWidget
  \* The root has its line, so that a line is never put in front of all.
  <2>3. l # 0
    <3> SUFFICES ASSUME l = 0 PROVE FALSE
      OBVIOUS
    <3>1. \A i \in DOMAIN begin : begin[i] \notin Walked
      BY <1>3, <1>11
    <3>2. Walked = {}
      BY <1>2, <1>11, <3>1 DEF Range
    <3> QED BY <1>1, <1>5, <2>1, <3>2, OnlyRootFirst
  <2>4. d = IF l > c THEN c ELSE c + 1
    <3>1. c = 0 => l > c
      BY <1>2, <2>3
    <3> HIDE DEF c, d
    <3>2. d = IF (w.vy = 0 /\ c = 0) \/ l > c THEN c ELSE c + 1
      BY <1>13 DEF c, d
    <3> QED BY <3>1, <3>2
  <2> DEFINE e == d + 1
  <2>5. d \in Int /\ e = d + 1 /\ c + 1 \in 1 .. Len(begin)
    BY <1>3, <2>1, <2>2, <2>4
  <2> HIDE DEF c, d, e
  <2>6. /\ e \in 1 .. Len(begin) + 1
        /\ e <= l => e = c + 1
        /\ ~(e <= l) => e # l + 1 /\ e - 1 = c + 1
    BY <1>2, <1>3, <2>2, <2>4, <2>5
  <2>7. begin'[e] = begin[c + 1]
    BY <1>6, <2>6
  <2> QED BY <1>1, <1>7, <2>1, <2>6, <2>7 DEF d, e
<1>16. ViewInv' /\ OneTop' /\ OrderInv' /\ NumInv'
  BY <1>1, <1>2 DEF ViewInv, OneTop, OrderInv, NumInv, viewVars
<1> QED BY <1>12, <1>14, <1>15, <1>16 DEF ListInv

\* After the last node of the walk there is no line left.
LEMMA EndSyncList == ASSUME Known, EndSync PROVE ListInv'
<1>1. /\ stage = "sync" /\ proc = None /\ stage' = "draw" /\ unhide' = FALSE /\ l' = 0
      /\ w' = IF unhide THEN [w EXCEPT !.vy = 0, !.crsr = 0] ELSE w
      /\ UNCHANGED <<parent, child, hash_table, priv, old_list, phase, begin, line, marked, viewVars,
                     proc, sel, sent>>
      /\ phase = "idle"
  BY DEF EndSync, ptVars, treeVars, scanVars, listVars, Known, WalkInv
<1>2. SyncInv /\ FieldsOK /\ ViewInv /\ SelInv /\ Range(begin) = priv
  BY <1>1 DEF Known, ListInv, LineInv, LinesOwnNodes
<1>3. priv = Shown /\ Walked = priv /\ Kept' = priv
  BY <1>1, <1>2 DEF SyncInv, Walked, Kept
<1>4. Reach' = Reach /\ Shown' = Shown
      /\ \A m, n : Precedes(parent', child', Reach', m, n) <=> Earlier(m, n)
  BY <1>1, SameTree DEF viewVars
<1>5. \A i \in DOMAIN begin : begin[i] \in priv
  BY <1>2 DEF Range
<1>6. NumInv'
  BY <1>1, <1>2, <1>3, <1>5 DEF NumInv, SyncInv
<1>7. OrderInv'
  <2> SUFFICES ASSUME NEW i \in DOMAIN begin, NEW j \in DOMAIN begin, i < j
               PROVE  Precedes(parent', child', Kept', begin[i], begin[j])
    BY <1>1 DEF OrderInv
  <2>1. Kept' = Reach
    BY <1>3, <1>5 DEF Shown
  <2>2. Earlier(begin[i], begin[j])
    BY <1>1, <1>2 DEF SyncInv
  <2> QED BY <1>1, <2>1, <2>2 DEF Earlier
<1>8. FieldsOK' /\ SelInv'
  <2>1. w' \in IntWidget
    <3>1. w \in IntWidget
      BY <1>2 DEF FieldsOK
    <3>2. [w EXCEPT !.vy = 0, !.crsr = 0] \in IntWidget
      BY <3>1, HomeInt DEF KbdHome
    <3> QED BY <1>1, <3>1, <3>2
  <2>2. sel # None => w' = w
    BY <1>1, <1>2 DEF ViewInv
  <2> QED BY <1>1, <1>2, <2>1, <2>2 DEF FieldsOK, SelInv, viewVars
<1>9. ViewInv' /\ OneTop' /\ SyncInv'
  BY <1>1, <1>2, <1>3, <1>4 DEF ViewInv, OneTop, SyncInv, viewVars
<1> QED BY <1>6, <1>7, <1>8, <1>9 DEF ListInv

\* Every line has its way to the root, and the cursor is on a line.
LEMMA DrawList == ASSUME Known, Draw PROVE ListInv'
<1>1. /\ stage = "draw"
      /\ UNCHANGED <<parent, child, hash_table, priv, old_list, phase, begin, line, marked, viewVars,
                     unhide, proc, sent>>
      /\ phase = "idle"
  BY DEF Draw, ptVars, treeVars, scanVars, listVars, Known, WalkInv
<1>2. /\ FieldsOK /\ ViewInv /\ SelInv /\ LineInv /\ NumInv /\ OrderInv /\ priv = Shown
      /\ priv \subseteq Node
  BY <1>1 DEF Known, ListInv, ViewInv, IInv, TypeOK
<1>3. ~ \E n \in priv : ~ReachesRoot(n)
  BY <1>2 DEF Shown, Reach
<1>4. /\ stage' = "idle" /\ sel' = Selected(w'.crsr)
      /\ w' = IF begin = <<>> THEN Printed(w, 1) ELSE OutputEnd(Printed(w, Len(begin)))
  BY <1>3 DEF Draw
<1>5. w' \in IntWidget
  <2>1. w \in IntWidget /\ Len(begin) \in Nat
    BY <1>2 DEF FieldsOK, LineInv
  <2>2. OutputEnd(Printed(w, Len(begin))) \in IntWidget
    BY <2>1, OutputInt
  <2>3. Printed(w, 1) \in IntWidget
    BY <2>1 DEF Printed, IntWidget
  <2> QED BY <1>4, <2>2, <2>3
<1> DEFINE c == w'.crsr
<1>6. /\ Selected(c) # None =>
           c + 1 \in DOMAIN begin /\ begin[c + 1] = Selected(c) /\ Selected(c) \in priv
      /\ Selected(c) \in Node \cup {None}
  <2> HIDE DEF c
  <2> QED BY <1>1, <1>2, SelectedProps
<1>7. FieldsOK' /\ SelInv'
  BY <1>1, <1>2, <1>4, <1>5, <1>6 DEF FieldsOK, SelInv, viewVars
<1>8. Kept' = Kept /\ Shown' = Shown
  BY <1>1, SameTree DEF Kept, viewVars
<1>9. ViewInv' /\ OneTop' /\ SyncInv' /\ OrderInv' /\ NumInv'
  BY <1>1, <1>2, <1>4, <1>8 DEF ViewInv, OneTop, SyncInv, OrderInv, NumInv, viewVars
<1> QED BY <1>7, <1>9 DEF ListInv

-----------------------------------------------------------------------------
(* What follows for every run of the program                               *)

\* The whole invariant
AllInv == IInv /\ LineInv /\ WalkInv /\ InitRead /\ WayInv /\ ListInv

\* Every step keeps ListInv.
LEMMA ListInvNext ==
  ASSUME NEW D \in SUBSET Procs, Roots \cup {1} \subseteq D, ReadOfInit(D), Known, [Next]_plVars
  PROVE  ListInv'
<1>1. CASE KernelActs
  BY <1>1, KernelList
<1>2. CASE Tick \/ User
  BY <1>2, UserList
<1>3. CASE Work
  BY <1>3, UpdateTreeList, DeleteLineList, StartSyncList, SyncKeepList, SyncInsertList,
     EndSyncList, DrawList DEF Work
<1>4. CASE UNCHANGED plVars
  BY <1>4, StutterList
<1> QED BY <1>1, <1>2, <1>3, <1>4 DEF Next

\* The invariant holds at the start.
LEMMA InitAll == ASSUME Init PROVE AllInv
<1>1. IInv /\ PTInit
  BY InitIInv DEF Init
<1>2. /\ priv = {} /\ stage = "idle" /\ ~visible /\ begin = <<>> /\ sel = None /\ ~unhide
      /\ phase = "idle"
      /\ parent = [n \in Node |-> None] /\ hash_table = {} /\ lastpid = 1
      /\ ppid = [p \in Procs |-> IF p = 1 THEN 0 ELSE None]
  BY DEF Init, PTInit, KernelInit
<1>3. WalkInv /\ InitRead
  BY DEF Init, PTInit, WalkInv, InitRead
<1>4. LineInv
  <2>1. <<>> \in Seq({}) /\ IsInjective(<<>>) /\ Range(<<>>) = {}
    BY DEF IsInjective, Range
  <2> QED BY <2>1 DEF Init, PTInit, LineInv, LinesOwnNodes
<1>5. WayInv
  <2>1. Alive = {1} /\ 1 \in Procs /\ 0 \in Node /\ None \notin Node
    BY <1>2, NodeFacts DEF Alive
  <2>3. Ascending /\ ScanWay
    BY <1>2, <2>1 DEF Ascending, ScanWay
  <2>4. Unlooped
    BY <1>2, <2>1 DEF Unlooped, Grounded
  <2> QED BY <1>2, <2>3, <2>4 DEF WayInv
<1>6. FieldsOK
  <2>1. w \in IntWidget
    BY TopYAssumption, YSizeAssumption DEF Init, IntWidget
  <2>2. line \in [Node -> Nat]
    BY DEF Init
  <2>3. marked \subseteq Node /\ tree_root \in Roots \cup {1} /\ visible \in BOOLEAN
        /\ pkey \in {"none", "t", "Enter"} /\ unhide \in BOOLEAN
    BY DEF Init
  <2>4. proc \in Node \cup {None} /\ sel \in Node \cup {None} /\ sent \in Node \cup {None}
    BY DEF Init
  <2> QED BY <2>1, <2>2, <2>3, <2>4 DEF FieldsOK
<1>7. ViewInv /\ OneTop /\ OrderInv /\ SyncInv /\ NumInv /\ SelInv
  BY <1>2 DEF ViewInv, OneTop, OrderInv, SyncInv, NumInv, SelInv
<1> QED BY <1>1, <1>3, <1>4, <1>5, <1>6, <1>7 DEF AllInv, ListInv

\* D holds the processes that the list may begin with, and no node but processes.
Ours(D) == D \subseteq Procs /\ Roots \cup {1} \subseteq D

\* Every step keeps it, if the users' processes are in the tree of init.
LEMMA AllNext ==
  ASSUME NEW D, Ours(D), ~Live \/ ~PidsWrap, OfInit(D), ReadOfInit(D), AllInv, LineInv',
         [Next]_plVars
  PROVE  AllInv' /\ ReadOfInit(D)'
<1>1. Known /\ D \in SUBSET Procs /\ D \in SUBSET Node /\ Roots \cup {1} \subseteq D
  BY NodeFacts DEF AllInv, Known, Ours
<1>2. ListInv'
  BY <1>1, ListInvNext
<1>3. [PTNext]_ptVars /\ WalkInv'
  BY StepOfTree DEF AllInv
<1>4. IInv' /\ InitRead'
  BY <1>3, NextIInv, InitReadNext DEF AllInv
<1>5. WayInv'
  BY WayInvNext DEF AllInv
<1>6. ReadOfInit(D)'
  BY <1>1, <1>3, ReadOfInitNext DEF AllInv
<1> QED BY <1>2, <1>3, <1>4, <1>5, <1>6 DEF AllInv

\* While the kernel does not move the tree that is shown is that of the kernel.
LEMMA ShownIsKernel ==
  ASSUME TreeInv, IInv, phase = "idle", ~dirty, tree_root # 0 PROVE Shown = KernelBelow(tree_root)
<1>1. /\ hash_table = Alive \ {1} /\ \A p \in Alive : parent[p] = ppid[p]
      /\ Alive \subseteq Node /\ 1 \in Alive /\ 0 \notin Alive /\ None \notin Node /\ 0 \in Node
      /\ \A p \in Alive : ppid[p] \in Alive \cup {0}
      /\ tree_root \in Node
  BY InitAlive, NodeFacts DEF IInv, TreeIsKernel, KernelWellFormed, Alive, TreeInv
<1>2. parent[0] = None /\ \A n \in Node : parent[n] # None => n \in Alive
  <2>1. parent[0] = None
    BY DEF TreeInv, TreeRoots
  <2>2. \A n \in Node : parent[n] # None => n \in Found
    BY DEF TreeInv, LinksConsistent
  <2> QED BY <1>1, <2>1, <2>2 DEF Found
<1>3. tree_root \in Found <=> tree_root \in Alive
  BY <1>1 DEF Found
<1>4. ASSUME NEW n \in Alive PROVE ReachesRoot(n) <=> n \in KernelBelow(tree_root)
  <2>1. ASSUME ReachesRoot(n), NEW A \in SUBSET Node, n \in A, \A m \in A \cap Alive : ppid[m] \in A
        PROVE  tree_root \in A
    <3>1. \A m \in A : parent[m] # None => parent[m] \in A
      BY <1>1, <1>2, <2>1
    <3> QED BY <2>1, <3>1 DEF ReachesRoot
  <2>2. ASSUME n \in KernelBelow(tree_root), NEW A \in SUBSET Node, n \in A,
               \A m \in A : parent[m] # None => parent[m] \in A
        PROVE  tree_root \in A
    <3>1. \A m \in A \cap Alive : ppid[m] \in A
      BY <1>1, <2>2
    <3> QED BY <2>2, <3>1 DEF KernelBelow
  <2> QED BY <2>1, <2>2 DEF KernelBelow, ReachesRoot
<1>5. ASSUME NEW n \in Reach, tree_root \in Alive PROVE n \in Alive
  <2> SUFFICES ASSUME n \notin Alive PROVE FALSE
    OBVIOUS
  <2>1. n \in Node /\ ReachesRoot(n) /\ parent[n] = None
    BY <1>2 DEF Reach
  <2>2. {n} \in SUBSET Node /\ \A m \in {n} : parent[m] # None => parent[m] \in {n}
    BY <2>1
  <2>3. tree_root \in {n}
    BY <2>1, <2>2 DEF ReachesRoot
  <2> QED BY <1>5, <2>3
<1>6. ASSUME NEW n \in KernelBelow(tree_root) PROVE n \in Alive /\ tree_root \in Alive
  <2>1. n \in Alive
    BY DEF KernelBelow
  <2>2. Alive \cup {0} \in SUBSET Node /\ \A m \in (Alive \cup {0}) \cap Alive : ppid[m] \in Alive \cup {0}
    BY <1>1
  <2>3. tree_root \in Alive \cup {0}
    BY <2>1, <2>2 DEF KernelBelow
  <2> QED BY <2>1, <2>3
<1>7. Reach \subseteq Node
  BY DEF Reach
<1> QED BY <1>1, <1>3, <1>4, <1>5, <1>6, <1>7 DEF Shown, Reach

\* The theorems from here on have two conditions.  OfInit(D): the processes
\* that the list may begin with are in the tree of init.  ~Live \/ ~PidsWrap: either the
\* kernel stands still during scans, or every new process has a higher pid than all before
\* it, for ever, so that a process that stays is read before those below it.  Once the
\* counter of pids has wrapped around a live scan can take a displayed node for the parent
\* of another one and lose it as a process: the reaping then moves it to init without a
\* call of mark_del(), and the order is lost.

\* On these conditions the inductive invariant of the process list holds in every state,
\* for every process table and every sequence of keys.
THEOREM AllKept ==
  ASSUME NEW D, Ours(D), ~Live \/ ~PidsWrap PROVE Safe /\ []OfInit(D) => []AllInv
<1> DEFINE Inv == AllInv /\ ReadOfInit(D)
<1>1. Init => Inv
  <2> SUFFICES ASSUME Init PROVE ReadOfInit(D)
    BY InitAll
  <2> QED BY NodeFacts DEF Init, PTInit, ReadOfInit, Ours
<1>2. LineInv' /\ OfInit(D) /\ Inv /\ [Next]_plVars => Inv'
  BY AllNext
<1>3. Inv => AllInv
  OBVIOUS
<1> HIDE DEF Inv
<1> QED BY <1>1, <1>2, <1>3, LinesKept, PTL DEF Safe

\* On the same conditions, after every update and every key, the number of a line is its
\* place in the list.
THEOREM LinesAreNumbered ==
  ASSUME NEW D, Ours(D), ~Live \/ ~PidsWrap
  PROVE  Safe /\ []OfInit(D) => []LinesNumbered
<1>1. AllInv => LinesNumbered
  BY DEF AllInv, ListInv, NumInv, LinesNumbered
<1> HIDE DEF AllInv
<1> QED BY <1>1, AllKept, PTL

\* On the same conditions synchronize() and draw_tree() find a line, and the root above it,
\* for every node they come to: they follow no null pointer.
THEOREM NeverBroken ==
  ASSUME NEW D, Ours(D), ~Live \/ ~PidsWrap
  PROVE  Safe /\ []OfInit(D) => []NoCrash
<1>1. AllInv => NoCrash
  BY DEF AllInv, ListInv, ViewInv, NoCrash
<1> HIDE DEF AllInv
<1> QED BY <1>1, AllKept, PTL

\* When the list is printed it has a line for every node of the displayed tree.
LEMMA DrawnIsShown ==
  ASSUME NEW D, Ours(D), ~Live \/ ~PidsWrap, AllInv, stage = "draw"
  PROVE TreeInv /\ phase = "idle" /\ priv = Shown /\ Kept = priv /\ Range(begin) = priv
        /\ DOMAIN begin = 1 .. Len(begin) /\ Len(begin) \in Nat
<1>1. phase = "idle"
  BY DEF AllInv, WalkInv
<1>2. TreeInv
  BY <1>1, TreeThere, NodeFacts DEF Ours, AllInv, Known
<1>3. priv = Shown /\ Kept = priv
  BY <1>1 DEF AllInv, ListInv, ViewInv, Kept
<1>4. marked = {} /\ Range(begin) = priv \cup marked /\ begin \in Seq(priv \cup marked)
  BY DEF AllInv, LineInv, LinesOwnNodes
<1> QED BY <1>1, <1>2, <1>3, <1>4

\* The lines that an update has kept and those that synchronize() has put between them
\* are in the order of the tree, wherever processes were moved, came or went, on the same
\* conditions.
THEOREM OrderOfTree ==
  ASSUME NEW D, Ours(D), ~Live \/ ~PidsWrap
  PROVE  Safe /\ []OfInit(D) => []LinesInOrder
<1>1. AllInv => LinesInOrder
  <2> SUFFICES ASSUME AllInv, stage = "draw", NEW i \in DOMAIN begin, NEW j \in DOMAIN begin, i < j
               PROVE  Precedes(parent, child, priv, begin[i], begin[j])
    BY DEF LinesInOrder
  <2>1. Kept = priv /\ begin[i] \in priv /\ begin[j] \in priv
    BY DrawnIsShown DEF Range
  <2> QED BY <2>1 DEF AllInv, ListInv, OrderInv
<1> HIDE DEF AllInv
<1> QED BY <1>1, AllKept, PTL

\* After an update in which the kernel did not move, the list shows the processes below
\* its root, all of them and no others, whatever it showed before, on the same conditions.
THEOREM ProcessesAreShown ==
  ASSUME NEW D, Ours(D), ~Live \/ ~PidsWrap
  PROVE  Safe /\ []OfInit(D) => []ShowsProcesses
<1>1. AllInv => ShowsProcesses
  <2> SUFFICES ASSUME AllInv, stage = "draw", ~dirty PROVE Range(begin) = KernelBelow(tree_root)
    BY DEF ShowsProcesses
  <2>1. tree_root # 0
    BY NodeFacts DEF Ours, AllInv, ListInv, FieldsOK
  <2> QED BY <2>1, DrawnIsShown, ShownIsKernel DEF AllInv
<1> HIDE DEF AllInv
<1> QED BY <1>1, AllKept, PTL

\* The cursor stays on its process while the lines above it are deleted and inserted, on
\* the same conditions.
THEOREM CursorOnItsProcess ==
  ASSUME NEW D, Ours(D), ~Live \/ ~PidsWrap
  PROVE  Safe /\ []OfInit(D) => []CursorFollowsProcess
<1>1. AllInv => CursorFollowsProcess
  <2> SUFFICES ASSUME AllInv, stage = "draw", sel # None PROVE line[sel] = w.crsr
    BY DEF CursorFollowsProcess
  <2>1. w.crsr + 1 \in DOMAIN begin /\ begin[w.crsr + 1] = sel
    BY DEF AllInv, ListInv, SelInv
  <2>2. w.crsr \in Int
    BY DEF AllInv, ListInv, FieldsOK, IntWidget
  <2> DEFINE i == w.crsr + 1
  <2>3. i \in DOMAIN begin /\ begin[i] = sel
    BY <2>1
  <2>4. i - 1 = w.crsr
    BY <2>2
  <2> HIDE DEF i
  <2>5. line[begin[i]] = i - 1
    BY <2>3 DEF AllInv, ListInv, NumInv
  <2> QED BY <2>3, <2>4, <2>5
<1> HIDE DEF AllInv
<1> QED BY <1>1, AllKept, PTL

\* The lines are nodes, their numbers and the counters of the info line are no less than
\* 0, and the root is one that the user may choose, on the same conditions.
THEOREM TypesOfList ==
  ASSUME NEW D, Ours(D), ~Live \/ ~PidsWrap, LettersOnly
  PROVE  Safe /\ []OfInit(D) => []PLTypeOK
<1> DEFINE Inv == AllInv /\ ReadOfInit(D) /\ CountInv
<1>1. Init => Inv
  <2> SUFFICES ASSUME Init PROVE ReadOfInit(D) /\ CountInv
    BY InitAll
  <2>1. priv = {} /\ pstat = [k \in States \cup {"nr"} |-> 0]
    BY DEF Init, PTInit
  <2>2. \A s : {n \in priv \ {1} : state[n] = s} = {}
    BY <2>1
  <2>3. ReadOfInit(D)
    BY NodeFacts DEF Init, PTInit, ReadOfInit, Ours
  <2> QED BY <2>1, <2>2, <2>3, FS_EmptySet DEF CountInv, CountsMatch
<1>2. LineInv' /\ OfInit(D) /\ Inv /\ [Next]_plVars => Inv'
  <2> SUFFICES ASSUME LineInv', OfInit(D), AllInv, ReadOfInit(D), CountInv, [Next]_plVars
               PROVE  AllInv' /\ ReadOfInit(D)' /\ CountInv'
    OBVIOUS
  <2>1. AllInv' /\ ReadOfInit(D)'
    BY AllNext
  <2> QED BY <2>1, CountsKept DEF AllInv
<1>3. Inv => PLTypeOK
  <2> SUFFICES ASSUME AllInv, CountInv PROVE PLTypeOK
    OBVIOUS
  <2>1. priv \subseteq Node /\ marked \subseteq Node
    BY DEF AllInv, IInv, TypeOK, ListInv, FieldsOK
  <2>2. begin \in Seq(Node) /\ l \in Nat
    <3>1. begin \in Seq(priv \cup marked) /\ l \in Nat
      BY DEF AllInv, LineInv
    <3> QED BY <2>1, <3>1
  <2>3. pstat \in [States \cup {"nr"} -> Nat]
    <3>1. pstat \in [States \cup {"nr"} -> Int]
      BY DEF CountInv
    <3>2. pstat["nr"] \in Nat
      BY PrivFinite, FS_CardinalityType DEF AllInv, CountInv, CountsMatch
    <3>3. ASSUME NEW s \in States PROVE pstat[s] \in Nat
      <4> DEFINE A == {n \in priv \ {1} : state[n] = s}
      <4>1. IsFiniteSet(A)
        BY PrivFinite DEF AllInv
      <4>2. pstat[s] - Cardinality(A) \in {0, 1} /\ pstat[s] \in Int
        BY <3>1 DEF CountInv, CountsMatch
      <4> HIDE DEF A
      <4>3. Cardinality(A) \in Nat
        BY <4>1, FS_CardinalityType
      <4> QED BY <4>2, <4>3
    <3>4. \A k \in States \cup {"nr"} : pstat[k] \in Nat
      BY <3>2, <3>3
    <3> QED BY <3>1, <3>4
  <2>4. stage \in {"idle", "tree", "delete", "sync", "draw", "broken"}
    BY DEF AllInv, ListInv, ViewInv
  <2> QED BY <2>1, <2>2, <2>3, <2>4 DEF PLTypeOK, AllInv, ListInv, FieldsOK
<1> HIDE DEF Inv
<1> QED BY <1>1, <1>2, <1>3, LinesKept, PTL DEF Safe

\* Without a process that the idle task starts all are in the tree of init.
LEMMA OfInitNext ==
  ASSUME ~ZeroForks, IInv, OfInit(Procs), [PTNext]_ptVars PROVE OfInit(Procs)'
<1>1. /\ ppid \in [Procs -> Node \cup {None}] /\ None \notin Node
      /\ 0 \notin Procs /\ 1 \in Procs /\ 0 \in Node
  BY NodeFacts DEF IInv, TypeOK, KernelTypeOK
<1>2. ASSUME NEW q \in Node, NEW c \in Pids, Fork(q, c) PROVE OfInit(Procs)'
  <2>1. /\ ppid' = [ppid EXCEPT ![c] = q] /\ q \in Alive /\ c \in Procs
    BY <1>2, NodeFacts DEF Fork
  <2> QED BY <1>1, <2>1 DEF OfInit, Alive
<1>3. ASSUME NEW p \in Pids, Exit(p) PROVE OfInit(Procs)'
  BY <1>1, <1>3 DEF Exit, OfInit, Alive
<1>4. ASSUME UNCHANGED ppid PROVE OfInit(Procs)'
  BY <1>4 DEF OfInit, Alive
<1>5. CASE KernelMoves
  BY <1>2, <1>3, <1>4, <1>5 DEF KernelMoves, KernelStep, ChangeState
<1> QED BY <1>4, <1>5 DEF PTNext, Continue, StartUpdate, ReadEntry, EndScan, Reap, EndUpdate,
                          Client, ptVars, kernelVars

\* On a system on which no process but init has the idle task for a parent every
\* process is in the tree of init.
THEOREM AllFromInit == ASSUME ~ZeroForks PROVE Safe => []OfInit(Procs)
<1> DEFINE Inv == IInv /\ WalkInv /\ InitRead /\ OfInit(Procs)
<1>1. Init => Inv
  <2> SUFFICES ASSUME Init PROVE Inv
    OBVIOUS
  <2>1. OfInit(Procs)
    BY DEF Init, PTInit, KernelInit, OfInit, Alive
  <2>2. InitRead /\ WalkInv
    BY DEF Init, PTInit, InitRead, WalkInv
  <2> QED BY <2>1, <2>2, InitIInv DEF Init
<1>2. LineInv /\ Inv /\ [Next]_plVars => Inv'
  <2> SUFFICES ASSUME LineInv, Inv, [Next]_plVars PROVE Inv'
    OBVIOUS
  <2>1. [PTNext]_ptVars /\ WalkInv'
    BY StepOfTree
  <2>2. OfInit(Procs)'
    BY <2>1, OfInitNext
  <2> QED BY <2>1, <2>2, NextIInv, InitReadNext
<1>3. Inv => OfInit(Procs)
  OBVIOUS
<1> HIDE DEF Inv
<1> QED BY <1>1, <1>2, <1>3, LinesKept, PTL DEF Safe

-----------------------------------------------------------------------------
(* The printed tree                                                        *)

\* Of two nodes at or above n one is at or above the other, and no two are above each other.
LEMMA UpChain ==
  ASSUME TreeInv, NEW n \in Reach, NEW x \in Up(n), NEW y \in Up(n)
  PROVE  /\ x \in Up(y) \/ y \in Up(x)
         /\ x \in Up(y) /\ y \in Up(x) => x = y
<1>1. /\ Grounded(parent, Reach) /\ \A m \in Reach : m # tree_root => parent[m] \in Reach
  BY ReachProps
<1> HIDE DEF Reach
<1>2. \A m \in Reach : /\ m \in Up(m) /\ Up(m) \subseteq Reach
                       /\ m = tree_root => Up(m) = {m}
                       /\ m # tree_root => Up(m) = {m} \cup Up(parent[m])
  BY UpFacts
<1>3. ASSUME x \in Up(y), y \in Up(x), x # y PROVE FALSE
  <2>1. x \in Reach /\ y \in Reach
    BY <1>2
  <2>2. PICK b \in Up(x) : parent[b] = y
    BY <1>3, <2>1, UpFacts
  <2>3. b \in Up(y)
    BY <1>3, <2>1, UpFacts
  <2> QED BY <2>1, <2>2, <2>3, UpFacts
<1> HIDE DEF Up
<1> DEFINE Chain(m) == \A a, b \in Up(m) : a \in Up(b) \/ b \in Up(a)
           A == {m \in Reach : ~Chain(m)}
<1>4. A = {}
  <2> SUFFICES ASSUME A # {} PROVE FALSE
    OBVIOUS
  <2>1. PICK m \in A : parent[m] \notin A
    <3>1. A \in SUBSET Reach
      OBVIOUS
    <3> HIDE DEF A
    <3> QED BY <1>1, <3>1 DEF Grounded
  <2>2. PICK a \in Up(m), b \in Up(m) : a \notin Up(b) /\ b \notin Up(a)
    BY <2>1
  <2>3. m \in Reach /\ m # tree_root /\ a # b
    BY <1>2, <2>1, <2>2
  <2>4. parent[m] \in Reach /\ Chain(parent[m]) /\ Up(m) = {m} \cup Up(parent[m])
    BY <1>1, <1>2, <2>1, <2>3
  <2>5. a # m /\ b # m
    BY <2>2
  <2> QED BY <2>2, <2>4, <2>5
<1> QED BY <1>3, <1>4

\* Of two nodes only one comes before the other.
LEMMA EarlierOnce ==
  ASSUME TreeInv, NEW m \in Reach, NEW n \in Reach, Earlier(m, n) PROVE ~Earlier(n, m)
<1> SUFFICES ASSUME Earlier(n, m) PROVE FALSE
  OBVIOUS
<1>1. /\ \A a, b : Elder(child, a, b) =>
            a \in Node /\ b \in Node /\ a # b /\ parent[a] = parent[b] /\ parent[a] \in Node
      /\ \A a, b, d : Elder(child, a, b) /\ Elder(child, b, d) => Elder(child, a, d)
  BY ElderProps DEF TreeInv
<1>2. \A x \in Reach : x # tree_root => parent[x] \in Reach
  BY ReachProps
<1>3. parent[tree_root] \notin Reach
  BY ReachProps
<1> HIDE DEF Reach
<1>4. \A x \in Reach : /\ x \in Up(x) /\ Up(x) \subseteq Reach /\ tree_root \in Up(x)
                       /\ \A a \in Up(x) : a # tree_root => parent[a] \in Up(x)
                       /\ \A a \in Up(x) : Up(a) \subseteq Up(x)
                       /\ \A a, b \in Up(x) : parent[a] = parent[b] /\ parent[a] \in Reach => a = b
                       /\ \A q \in Up(x) : q # x => \E b \in Up(x) : parent[b] = q
  BY UpFacts
<1> HIDE DEF Up
\* Elder brothers at or above m and n: of neither are both above the same node.
<1>5. ASSUME NEW x \in Reach, NEW y \in Reach, NEW a \in Up(x), NEW b \in Up(y), Elder(child, a, b)
      PROVE  /\ parent[a] \in Up(x) /\ parent[a] \in Up(y) /\ parent[a] \in Reach
             /\ parent[b] = parent[a] /\ a \notin Up(y) /\ b \notin Up(x) /\ a # b
  <2>1. a # b /\ parent[a] = parent[b] /\ a \in Reach /\ b \in Reach
    BY <1>1, <1>4, <1>5
  <2>2. a # tree_root \/ b # tree_root
    BY <2>1
  <2>3. parent[a] \in Reach
    BY <1>2, <2>1, <2>2
  <2>4. a # tree_root /\ b # tree_root
    BY <1>3, <2>1, <2>3
  <2> QED BY <1>4, <2>1, <2>3, <2>4
<1>6. m # n
  BY EarlierTotal
<1>7. CASE m \in Up(n) /\ n \in Up(m)
  BY <1>4, <1>6, <1>7, UpChain
<1>8. ASSUME NEW x \in Reach, NEW y \in Reach, x \in Up(y), NEW a \in Up(x), NEW b \in Up(y),
             Elder(child, a, b) \/ Elder(child, b, a)
      PROVE FALSE
  <2>1. a \in Up(y)
    BY <1>4, <1>8
  <2> QED BY <1>5, <1>8, <2>1
<1>9. ASSUME NEW a \in Up(m), NEW b \in Up(n), Elder(child, a, b),
             NEW c \in Up(n), NEW e \in Up(m), Elder(child, c, e)
      PROVE FALSE
  <2> DEFINE p == parent[a]
             q == parent[c]
  <2>1. /\ p \in Up(m) /\ p \in Up(n) /\ p \in Reach /\ parent[b] = p
        /\ a \notin Up(n) /\ b \notin Up(m)
    BY <1>5, <1>9
  <2>2. /\ q \in Up(m) /\ q \in Up(n) /\ q \in Reach /\ parent[e] = q
        /\ c \notin Up(m) /\ e \notin Up(n)
    BY <1>5, <1>9
  <2>3. ASSUME p = q PROVE FALSE
    <3>1. a = e /\ b = c
      BY <1>4, <2>1, <2>2, <2>3
    <3> QED BY <1>1, <1>9, <3>1
  <2> HIDE DEF p, q
  <2>4. ASSUME q \in Up(p), p # q PROVE FALSE
    <3>1. PICK d \in Up(p) : parent[d] = q
      BY <1>4, <2>1, <2>4
    <3>2. d \in Up(m) /\ d \in Up(n)
      BY <1>4, <2>1, <3>1
    <3>3. d = c
      BY <1>4, <1>9, <2>2, <3>1, <3>2 DEF q
    <3> QED BY <2>2, <3>2, <3>3
  <2>5. ASSUME p \in Up(q), p # q PROVE FALSE
    <3>1. PICK d \in Up(q) : parent[d] = p
      BY <1>4, <2>2, <2>5
    <3>2. d \in Up(m) /\ d \in Up(n)
      BY <1>4, <2>2, <3>1
    <3>3. d = a
      BY <1>4, <1>9, <2>1, <3>1, <3>2 DEF p
    <3> QED BY <2>1, <3>2, <3>3
  <2> QED BY <2>1, <2>2, <2>3, <2>4, <2>5, UpChain
<1>10. /\ m \in Up(n) \/ \E a \in Up(m), b \in Up(n) : Elder(child, a, b)
       /\ n \in Up(m) \/ \E a \in Up(n), b \in Up(m) : Elder(child, a, b)
  BY EarlierDef
<1> QED BY <1>7, <1>8, <1>9, <1>10

\* How many nodes are above n.
Depth(n) == Cardinality(Up(n)) - 1

\* One more than above its parent; and no two nodes above n have the same number.
LEMMA DepthProps ==
  ASSUME TreeInv
  PROVE  /\ Depth(tree_root) = 0 /\ \A n \in Reach : Depth(n) \in Nat
         /\ \A n \in Reach : n # tree_root => Depth(n) = 1 + Depth(parent[n])
         /\ \A n \in Reach : \A a \in Up(n) : a # n => Depth(a) < Depth(n)
         /\ \A n \in Reach : \A a, b \in Up(n) : Depth(a) = Depth(b) => a = b
<1>1. /\ Reach \in SUBSET Node /\ tree_root \in Reach
      /\ \A m \in Reach : m # tree_root => parent[m] \in Reach
  BY ReachProps
<1>2. IsFiniteSet(Node)
  BY PidsAssumption, FS_AddElement DEF Node, Procs
<1> HIDE DEF Reach
<1>3. \A m \in Reach : /\ m \in Up(m) /\ Up(m) \subseteq Reach
                       /\ m = tree_root => Up(m) = {m}
                       /\ m # tree_root => Up(m) = {m} \cup Up(parent[m])
                       /\ \A a \in Up(m) : Up(a) \subseteq Up(m) /\ parent[a] # m
                       /\ \A q \in Up(m) : q # m => \E b \in Up(m) : parent[b] = q
  BY UpFacts
<1> HIDE DEF Up
<1>4. \A m \in Reach : IsFiniteSet(Up(m)) /\ Cardinality(Up(m)) \in Nat
  BY <1>1, <1>2, <1>3, FS_Subset, FS_CardinalityType
<1>5. Depth(tree_root) = 0
  BY <1>1, <1>3, FS_Singleton DEF Depth
<1>6. ASSUME NEW n \in Reach, n # tree_root PROVE Depth(n) = 1 + Depth(parent[n])
  <2>1. parent[n] \in Reach /\ Up(n) = {n} \cup Up(parent[n])
    BY <1>1, <1>3, <1>6
  <2>2. n \notin Up(parent[n])
    <3> SUFFICES ASSUME n \in Up(parent[n]), parent[n] # n PROVE FALSE
      BY <1>3
    <3>1. PICK b \in Up(parent[n]) : parent[b] = n
      BY <1>3, <2>1
    <3> QED BY <1>3, <2>1, <3>1
  <2>3. Cardinality(Up(parent[n]) \cup {n}) = Cardinality(Up(parent[n])) + 1
    BY <1>4, <2>1, <2>2, FS_AddElement
  <2>4. Up(n) = Up(parent[n]) \cup {n}
    BY <2>1
  <2>5. Cardinality(Up(n)) = Cardinality(Up(parent[n])) + 1
    BY <2>3, <2>4, Zenon
  <2>6. Cardinality(Up(parent[n])) \in Nat
    BY <1>4, <2>1
  <2> QED BY <2>5, <2>6 DEF Depth
<1>7. ASSUME NEW n \in Reach PROVE Depth(n) \in Nat
  <2>1. Cardinality(Up(n)) # 0
    BY <1>3, <1>4, FS_EmptySet
  <2> QED BY <1>4, <2>1 DEF Depth
<1>8. ASSUME NEW n \in Reach, NEW a \in Up(n), a # n PROVE Depth(a) < Depth(n)
  <2>1. n \notin Up(a) /\ Up(a) \subseteq Up(n) /\ a \in Reach
    BY <1>3, <1>8, UpChain
  <2>2. Cardinality(Up(a)) < Cardinality(Up(n))
    <3>1. Up(a) # Up(n)
      BY <1>3, <2>1
    <3> QED BY <1>4, <2>1, <3>1, FS_Subset
  <2> QED BY <1>4, <2>1, <2>2 DEF Depth
<1>9. ASSUME NEW n \in Reach, NEW a \in Up(n), NEW b \in Up(n), Depth(a) = Depth(b) PROVE a = b
  <2>1. a \in Reach /\ b \in Reach
    BY <1>3
  <2>2. a \in Up(b) \/ b \in Up(a)
    BY UpChain
  <2>3. Depth(a) \in Nat /\ Depth(b) \in Nat
    BY <1>7, <2>1
  <2> HIDE DEF Depth
  <2> QED BY <1>8, <1>9, <2>1, <2>2, <2>3
<1> HIDE DEF Depth
<1> QED BY <1>5, <1>6, <1>7, <1>8, <1>9

\* That is what Level() computes.
LEMMA LevelIs ==
  ASSUME TreeInv, tree_root # 0, NEW n \in Reach PROVE Level(tree_root, n) = Depth(n)
<1> DEFINE Eqn(f) == f = [m \in Reach |-> IF m = tree_root THEN 0 ELSE 1 + f[parent[m]]]
           up == CHOOSE f : Eqn(f)
<1>1. Level(tree_root, n) = up[n]
  BY DEF Level, Reach
<1>2. /\ Reach \in SUBSET Node /\ tree_root \in Reach /\ Grounded(parent, Reach)
      /\ \A m \in Reach : m # tree_root => parent[m] \in Reach
  BY ReachProps
<1>3. /\ Depth(tree_root) = 0
      /\ \A m \in Reach : m # tree_root => Depth(m) = 1 + Depth(parent[m])
  BY DepthProps
<1> HIDE DEF Reach, Depth
<1>4. Eqn([m \in Reach |-> Depth(m)])
  BY <1>2, <1>3
<1>5. Eqn(up)
  <2> HIDE DEF Eqn
  <2> QED BY <1>4
<1> HIDE DEF up
<1>6. \A m \in Reach : up[m] = IF m = tree_root THEN 0 ELSE 1 + up[parent[m]]
  BY <1>5
<1> DEFINE A == {m \in Reach : up[m] # Depth(m)}
<1>7. A = {}
  <2> SUFFICES ASSUME A # {} PROVE FALSE
    OBVIOUS
  <2>1. PICK m \in A : parent[m] \notin A
    <3>1. A \in SUBSET Reach
      OBVIOUS
    <3> HIDE DEF A
    <3> QED BY <1>2, <3>1 DEF Grounded
  <2> QED BY <1>2, <1>3, <1>6, <2>1
<1> QED BY <1>1, <1>7

\* The ancestor of n that tree_string() looks at for column k
LEMMA AboveIs ==
  ASSUME TreeInv, NEW n \in Reach, NEW k \in 0 .. Depth(n)
  PROVE  Above(n, k) \in Up(n) /\ Depth(Above(n, k)) = Depth(n) - k
<1> DEFINE Eqn(f) == f = [i \in 0 .. k |-> IF i = 0 THEN n ELSE parent[f[i - 1]]]
           up == CHOOSE f : Eqn(f)
           At(i, a) == a \in Up(n) /\ Depth(a) = Depth(n) - i
<1>1. Above(n, k) = up[k]
  BY DEF Above
<1>2. /\ Depth(tree_root) = 0 /\ Depth(n) \in Nat
      /\ \A m \in Reach : m # tree_root => Depth(m) = 1 + Depth(parent[m])
      /\ \A m \in Reach : Depth(m) \in Nat
      /\ \A a, b \in Up(n) : Depth(a) = Depth(b) => a = b
  BY DepthProps
<1>3. n \in Up(n) /\ Up(n) \subseteq Reach /\ \A a \in Up(n) : a # tree_root => parent[a] \in Up(n)
  BY UpFacts
<1> HIDE DEF Reach, Depth, Up
<1>4. ASSUME NEW i \in 0 .. k, i # 0, NEW a, At(i - 1, a) PROVE At(i, parent[a])
  <2>1. a \in Reach /\ Depth(a) = Depth(n) - (i - 1) /\ a # tree_root
    BY <1>2, <1>3, <1>4
  <2>2. parent[a] \in Up(n) /\ Depth(a) = 1 + Depth(parent[a]) /\ parent[a] \in Reach
    BY <1>2, <1>3, <1>4, <2>1
  <2>3. Depth(parent[a]) \in Nat
    BY <1>2, <2>2
  <2> QED BY <1>2, <2>1, <2>2, <2>3
<1>5. At(0, n)
  BY <1>2, <1>3
<1>6. 0 .. k \subseteq Nat /\ \A i \in 0 .. k : i # 0 => i - 1 \in 0 .. k /\ i - 1 < i
  BY <1>2
<1> HIDE DEF At
<1>8. \A i \in 0 .. k : \E a : At(i, a)
  <2> DEFINE A == {i \in 0 .. k : ~\E a : At(i, a)}
  <2> SUFFICES ASSUME A # {} PROVE FALSE
    OBVIOUS
  <2>1. PICK i \in A : \A j \in A : i <= j
    <3>1. A \in SUBSET Nat
      BY <1>6
    <3> HIDE DEF A
    <3> QED BY <3>1, LeastPid
  <2>2. i \in 0 .. k /\ i # 0
    BY <1>5, <2>1
  <2>3. i - 1 \in 0 .. k /\ i - 1 \notin A
    BY <1>6, <2>1, <2>2
  <2> QED BY <1>4, <2>1, <2>2, <2>3
<1>9. \A i, a, b : At(i, a) /\ At(i, b) => a = b
  BY <1>2 DEF At
<1> DEFINE g == [i \in 0 .. k |-> CHOOSE a : At(i, a)]
<1>10. \A i \in 0 .. k : At(i, g[i])
  BY <1>8
<1>11. Eqn(g)
  <2>1. ASSUME NEW i \in 0 .. k PROVE g[i] = IF i = 0 THEN n ELSE parent[g[i - 1]]
    BY <1>4, <1>5, <1>6, <1>9, <1>10
  <2>2. g = [i \in 0 .. k |-> g[i]]
    OBVIOUS
  <2> HIDE DEF g
  <2> QED BY <2>1, <2>2
<1>12. Eqn(up)
  <2> HIDE DEF Eqn
  <2> QED BY <1>11
<1> HIDE DEF up, g
<1>13. \A i \in 0 .. k : up[i] = IF i = 0 THEN n ELSE parent[up[i - 1]]
  BY <1>12
<1>14. \A i \in 0 .. k : At(i, up[i])
  <2> DEFINE A == {i \in 0 .. k : ~At(i, up[i])}
  <2> SUFFICES ASSUME A # {} PROVE FALSE
    OBVIOUS
  <2>1. PICK i \in A : \A j \in A : i <= j
    <3>1. A \in SUBSET Nat
      BY <1>6
    <3> HIDE DEF A
    <3> QED BY <3>1, LeastPid
  <2>2. i \in 0 .. k /\ i # 0
    BY <1>5, <1>13, <2>1
  <2>3. i - 1 \in 0 .. k /\ i - 1 \notin A
    BY <1>6, <2>1, <2>2
  <2> QED BY <1>4, <1>13, <2>1, <2>2, <2>3
<1>15. k \in 0 .. k
  BY <1>2
<1> QED BY <1>1, <1>14, <1>15 DEF At

\* What is printed for a root that is there: its tree, in the order of the walk.
Drawing ==
  /\ TreeInv /\ tree_root # 0
  /\ begin \in Seq(Reach) /\ Range(begin) = Reach /\ IsInjective(begin)
  /\ \A i, j \in DOMAIN begin : i < j => Earlier(begin[i], begin[j])

\* The lines are in the order of the walk, and only in that.
LEMMA DrawingProps ==
  ASSUME Drawing
  PROVE  /\ TreeInv /\ Len(begin) \in Nat /\ DOMAIN begin = 1 .. Len(begin)
         /\ \A i \in DOMAIN begin : begin[i] \in Reach
         /\ \A n \in Reach : \E i \in DOMAIN begin : begin[i] = n
         /\ \A i, j \in DOMAIN begin : begin[i] = begin[j] => i = j
         /\ \A i, j \in DOMAIN begin : i < j <=> Earlier(begin[i], begin[j])
<1> HIDE DEF Reach
<1>1. /\ TreeInv /\ Len(begin) \in Nat /\ DOMAIN begin = 1 .. Len(begin)
      /\ \A i \in DOMAIN begin : begin[i] \in Reach
  BY DEF Drawing
<1>2. \A n \in Reach : \E i \in DOMAIN begin : begin[i] = n
  BY DEF Drawing, Range
<1>3. \A i, j \in DOMAIN begin : begin[i] = begin[j] => i = j
  BY DEF Drawing, IsInjective
<1>4. ASSUME NEW i \in DOMAIN begin, NEW j \in DOMAIN begin, Earlier(begin[i], begin[j]) PROVE i < j
  <2>1. i # j
    BY <1>1, <1>4, EarlierTotal
  <2>2. ~(j < i)
    BY <1>1, <1>4, EarlierOnce DEF Drawing
  <2> QED BY <1>1, <2>1, <2>2
<1> QED BY <1>1, <1>2, <1>3, <1>4 DEF Drawing

\* What comes between q and a node below q is below q.
LEMMA UnderBetween ==
  ASSUME TreeInv, NEW q \in Reach, NEW n \in Reach, NEW y \in Under(q),
         Earlier(q, n), Earlier(n, y)
  PROVE  n \in Under(q)
<1> SUFFICES ASSUME q \notin Up(n) PROVE FALSE
  BY DEF Under
<1>1. y \in Reach /\ q \in Up(y) /\ Up(q) \subseteq Up(y)
  BY UpFacts DEF Under
<1>2. PICK a \in Up(q), b \in Up(n) : Elder(child, a, b)
  BY EarlierDef
<1>3. Earlier(y, n)
  BY <1>1, <1>2, EarlierDef
<1> QED BY <1>1, <1>3, EarlierOnce

\* A branch goes down from the ancestor of n at a level if and only if a line further
\* down, with none of a higher level in front of it, is at this level.
LEMMA Branches ==
  ASSUME Drawing, NEW i \in DOMAIN begin, NEW k \in 1 .. Depth(begin[i])
  PROVE  (\E j \in i + 1 .. Len(begin) :
            Depth(begin[j]) = k /\ \A m \in i + 1 .. j : Depth(begin[m]) >= k)
         <=> Brother(Above(begin[i], Depth(begin[i]) - k)) # None
<1> DEFINE n == begin[i]
           a == Above(n, Depth(n) - k)
<1>1. /\ TreeInv /\ Len(begin) \in Nat /\ DOMAIN begin = 1 .. Len(begin)
      /\ \A j \in DOMAIN begin : begin[j] \in Reach
      /\ \A x \in Reach : \E j \in DOMAIN begin : begin[j] = x
      /\ \A p, q \in DOMAIN begin : begin[p] = begin[q] => p = q
      /\ \A p, q \in DOMAIN begin : p < q <=> Earlier(begin[p], begin[q])
  BY DrawingProps
<1> HIDE DEF Reach, Depth, Up
<1>2. /\ \A x \in Reach : Depth(x) \in Nat
      /\ Depth(tree_root) = 0
      /\ \A x \in Reach : x # tree_root => Depth(x) = 1 + Depth(parent[x])
      /\ \A x \in Reach : \A c \in Up(x) : c # x => Depth(c) < Depth(x)
      /\ \A x \in Reach : \A c, d \in Up(x) : Depth(c) = Depth(d) => c = d
  BY <1>1, DepthProps
<1>3. \A x \in Reach : /\ x \in Up(x) /\ Up(x) \subseteq Reach
                       /\ \A c \in Up(x) : c # tree_root => parent[c] \in Up(x)
                       /\ \A c \in Up(x) : Up(c) \subseteq Up(x)
  BY <1>1, UpFacts
<1>4. n \in Reach /\ k \in Nat /\ k >= 1 /\ k <= Depth(n) /\ Depth(n) - k \in 0 .. Depth(n)
  BY <1>1, <1>2
<1>5. a \in Up(n) /\ Depth(a) = k /\ a \in Reach /\ a # tree_root
  <2>1. a \in Up(n) /\ Depth(a) = Depth(n) - (Depth(n) - k)
    BY <1>1, <1>4, AboveIs
  <2>2. Depth(n) - (Depth(n) - k) = k
    BY <1>2, <1>4
  <2> HIDE DEF a
  <2> QED BY <1>2, <1>3, <1>4, <2>1, <2>2
<1> HIDE DEF n, a
<1>6. ASSUME NEW x \in Reach, Earlier(x, a) PROVE \A j \in DOMAIN begin : begin[j] = x => j < i
  <2>1. PICK q \in DOMAIN begin : begin[q] = a
    BY <1>1, <1>5
  <2>2. a = n \/ Earlier(a, n)
    BY <1>4, <1>5, EarlierDef
  <2>3. q <= i
    BY <1>1, <2>1, <2>2 DEF n
  <2> QED BY <1>1, <1>6, <2>1, <2>3
<1>7. ASSUME Brother(a) # None
      PROVE  \E j \in i + 1 .. Len(begin) :
               Depth(begin[j]) = k /\ \A m \in i + 1 .. j : Depth(begin[m]) >= k
  <2> DEFINE b == Brother(a)
  <2>1. b \in Reach /\ Before(b) = Before(a) \cup Under(a)
    BY <1>1, <1>5, <1>7, BrotherNext
  <2>2. parent[b] = parent[a] /\ parent[a] \in Reach /\ b # tree_root
    <3>1. /\ Reach \in SUBSET Node /\ parent[tree_root] \notin Reach
          /\ \A x \in Reach : x # tree_root => parent[x] \in Reach
      BY <1>1, ReachProps
    <3>2. parent[a] \in Reach /\ parent[a] \in Node /\ a \in Node
      BY <1>5, <3>1
    <3>3. parent[b] = parent[a]
      BY <1>1, <1>7, <3>2, BrotherProps DEF TreeInv
    <3> QED BY <3>1, <3>2, <3>3
  <2> HIDE DEF b
  <2>3. Depth(b) = k
    BY <1>2, <1>5, <2>1, <2>2
  <2>4. PICK j \in DOMAIN begin : begin[j] = b
    BY <1>1, <2>1
  <2>5. i < j
    <3>1. n \in Before(b)
      BY <1>4, <1>5, <2>1 DEF Under
    <3> QED BY <1>1, <2>4, <3>1 DEF Before, n
  <2>6. ASSUME NEW m \in i + 1 .. j PROVE Depth(begin[m]) >= k
    <3> DEFINE x == begin[m]
    <3>1. m \in DOMAIN begin /\ x \in Reach /\ i < m
      BY <1>1, <2>4, <2>5
    <3>2. CASE m = j
      BY <1>4, <2>3, <2>4, <3>2
    <3>3. CASE m # j
      <4>1. m < j
        BY <1>1, <3>3
      <4>2. x \in Before(a) \cup Under(a)
        BY <1>1, <2>1, <2>4, <3>1, <4>1 DEF Before
      <4>3. ~Earlier(x, a)
        BY <1>1, <1>6, <3>1
      <4>4. a \in Up(x)
        BY <4>2, <4>3 DEF Before, Under
      <4>5. Depth(a) <= Depth(x) /\ Depth(x) \in Nat
        BY <1>2, <3>1, <4>4, <1>5
      <4> QED BY <1>5, <4>5
    <3> QED BY <3>2, <3>3
  <2>7. j \in i + 1 .. Len(begin)
    BY <1>1, <2>5
  <2> QED BY <2>3, <2>4, <2>6, <2>7
<1>8. ASSUME NEW j \in i + 1 .. Len(begin), Depth(begin[j]) = k,
             \A m \in i + 1 .. j : Depth(begin[m]) >= k
      PROVE  Brother(a) # None
  <2> SUFFICES ASSUME Brother(a) = None PROVE FALSE
    OBVIOUS
  <2> DEFINE y == begin[j]
             p == parent[a]
             q == parent[y]
  <2>1. j \in DOMAIN begin /\ i < j /\ y \in Reach /\ Earlier(n, y)
    BY <1>1 DEF n
  <2>2. y # tree_root
    BY <1>2, <1>4, <1>8
  <2>3. p \in Reach /\ q \in Reach /\ p \in Up(n) /\ q \in Up(y) /\ q # y
    <3>1. \A x \in Reach : x # tree_root => parent[x] \in Reach
      BY <1>1, ReachProps
    <3>2. Depth(y) = 1 + Depth(q) /\ Depth(q) \in Nat
      BY <1>2, <2>1, <2>2, <3>1
    <3> QED BY <1>3, <1>4, <1>5, <2>1, <2>2, <3>1, <3>2
  <2>4. Depth(p) = k - 1 /\ Depth(q) = k - 1
    <3>1. Depth(a) = 1 + Depth(p) /\ Depth(y) = 1 + Depth(q)
      BY <1>2, <1>5, <2>1, <2>2
    <3> QED BY <1>2, <1>5, <1>8, <2>3, <3>1
  <2>5. Before(a) \cup Under(a) = Before(p) \cup Under(p)
    BY <1>1, <1>5, LastBrother
  <2>6. y \notin Before(a) \cup Under(a)
    <3>1. ~Earlier(y, a)
      BY <1>1, <1>6, <2>1
    <3>2. ASSUME a \in Up(y) PROVE FALSE
      <4>1. a = y
        BY <1>2, <1>3, <1>5, <1>8, <2>1, <3>2
      <4>2. a = n \/ Earlier(a, n)
        BY <1>4, <1>5, EarlierDef
      <4> QED BY <1>1, <2>1, <4>1, <4>2 DEF n
    <3> QED BY <3>1, <3>2 DEF Before, Under
  <2>7. PICK z \in DOMAIN begin : begin[z] = q
    BY <1>1, <2>3
  <2>8. z < j
    <3>1. Earlier(q, y)
      BY <2>3, EarlierDef
    <3> QED BY <1>1, <2>1, <2>7, <3>1
  <2>9. z <= i
    <3> SUFFICES ASSUME z > i PROVE FALSE
      BY <1>1
    <3>1. z \in i + 1 .. j
      BY <1>1, <2>8
    <3> QED BY <1>8, <2>4, <2>7, <3>1, <1>4
  <2>10. q # n
    BY <1>4, <2>4
  <2>11. Earlier(q, n)
    <3>1. z < i
      BY <1>1, <2>7, <2>9, <2>10 DEF n
    <3> QED BY <1>1, <2>7, <3>1 DEF n
  <2>12. n \in Under(q)
    <3>1. y \in Under(q)
      BY <2>1, <2>3 DEF Under
    <3> QED BY <1>1, <1>4, <2>1, <2>3, <2>11, <3>1, UnderBetween
  <2>13. p = q
    BY <1>2, <1>4, <2>3, <2>4, <2>12 DEF Under
  <2> QED BY <2>1, <2>3, <2>5, <2>6, <2>13 DEF Under
<1> QED BY <1>7, <1>8 DEF n, a

\* The branches that tree_string() draws are those that the lines ask for.
LEMMA StringIsDrawn ==
  ASSUME Drawing, NEW i \in DOMAIN begin
  PROVE  tree_string(tree_root, begin[i]) = Drawn(i)
<1> DEFINE n == begin[i]
           d == Depth(n)
           depth == IF d > TreeDepth THEN TreeDepth ELSE d
           branch(k) ==
             IF Brother(Above(n, d - k)) # None THEN "|" ELSE IF k = d THEN "L" ELSE " "
           goes_on(k) == \E j \in i + 1 .. Len(begin) :
                           Depth(begin[j]) = k /\ \A m \in i + 1 .. j : Depth(begin[m]) >= k
           sign(k) == IF goes_on(k) THEN "|" ELSE IF k = d THEN "L" ELSE " "
           level(j) == Level(tree_root, begin[j])
           goes_on2(k) == \E j \in i + 1 .. Len(begin) :
                            level(j) = k /\ \A m \in i + 1 .. j : level(m) >= k
           sign2(k) == IF goes_on2(k) THEN "|" ELSE IF k = d THEN "L" ELSE " "
<1>1. /\ TreeInv /\ tree_root # 0 /\ Len(begin) \in Nat /\ DOMAIN begin = 1 .. Len(begin)
      /\ \A j \in DOMAIN begin : begin[j] \in Reach
  BY DrawingProps DEF Drawing
<1> HIDE DEF Reach, Depth
<1>2. d \in Nat /\ TreeDepth \in Nat
  BY <1>1, DepthProps, TreeDepthAssumption
<1>3. \A j \in DOMAIN begin : level(j) = Depth(begin[j])
  BY <1>1, LevelIs
<1>4. ASSUME NEW k \in 1 .. d PROVE branch(k) = sign(k)
  BY Branches
<1>5. ASSUME NEW k PROVE goes_on2(k) <=> goes_on(k)
  <2>1. \A j \in i + 1 .. Len(begin) : j \in DOMAIN begin /\ \A m \in i + 1 .. j : m \in DOMAIN begin
    BY <1>1
  <2>2. \A j \in i + 1 .. Len(begin) : level(j) = Depth(begin[j])
                /\ \A m \in i + 1 .. j : level(m) = Depth(begin[m])
    BY <1>3, <2>1
  <2> HIDE DEF level
  <2> QED BY <2>2
<1>6. tree_string(tree_root, n) =
        Append([k \in 1 .. depth |-> branch(k)], IF d <= TreeDepth THEN "-" ELSE ".")
  BY <1>1, <1>3 DEF tree_string
<1>7. Drawn(i) = IF d <= TreeDepth THEN Append([k \in 1 .. d |-> sign2(k)], "-")
                 ELSE Append([k \in 1 .. TreeDepth |-> sign2(k)], ".")
  BY <1>3 DEF Drawn
<1> HIDE DEF goes_on, goes_on2
<1>8. \A k \in 1 .. d : branch(k) = sign2(k)
  BY <1>4, <1>5
<1> HIDE DEF branch, sign2, n, d
<1>9. CASE d <= TreeDepth
  <2>1. depth = d
    BY <1>2, <1>9
  <2>2. [k \in 1 .. d |-> branch(k)] = [k \in 1 .. d |-> sign2(k)]
    BY <1>8
  <2> QED BY <1>6, <1>7, <1>9, <2>1, <2>2 DEF n
<1>10. CASE ~(d <= TreeDepth)
  <2>1. depth = TreeDepth /\ \A k \in 1 .. TreeDepth : k \in 1 .. d
    BY <1>2, <1>10
  <2>2. [k \in 1 .. TreeDepth |-> branch(k)] = [k \in 1 .. TreeDepth |-> sign2(k)]
    BY <1>8, <2>1
  <2> QED BY <1>6, <1>7, <1>10, <2>1, <2>2 DEF n
<1> QED BY <1>9, <1>10

\* The lines of n and of the nodes below it: the first is that of n, the last one is e.
EndsAt(n, e) ==
  /\ e \in DOMAIN begin
  /\ \A i \in DOMAIN begin : begin[i] \in Before(n) \cup Under(n) <=> i <= e
FirstLine(n) == CHOOSE i \in DOMAIN begin : begin[i] = n
LastLine(n) == CHOOSE e : EndsAt(n, e)

\* Every node has these lines, and for the root they are the whole list.
LEMMA Parts ==
  ASSUME Drawing
  PROVE  /\ \A n \in Reach : /\ FirstLine(n) \in DOMAIN begin /\ begin[FirstLine(n)] = n
                             /\ EndsAt(n, LastLine(n)) /\ FirstLine(n) <= LastLine(n)
         /\ Reach # {} => FirstLine(tree_root) = 1 /\ LastLine(tree_root) = Len(begin)
<1>1. /\ TreeInv /\ Len(begin) \in Nat /\ DOMAIN begin = 1 .. Len(begin)
      /\ \A j \in DOMAIN begin : begin[j] \in Reach
      /\ \A x \in Reach : \E j \in DOMAIN begin : begin[j] = x
      /\ \A p, q \in DOMAIN begin : begin[p] = begin[q] => p = q
      /\ \A p, q \in DOMAIN begin : p < q <=> Earlier(begin[p], begin[q])
  BY DrawingProps
<1>2. /\ Grounded(parent, Reach) /\ tree_root \in Reach
      /\ \A x \in Reach : x # tree_root => parent[x] \in Reach
  BY <1>1, ReachProps
<1>3. Before(tree_root) = {} /\ Under(tree_root) = Reach
  BY <1>1, RootFirst
<1> HIDE DEF Reach
<1>4. \A n \in Reach : FirstLine(n) \in DOMAIN begin /\ begin[FirstLine(n)] = n
  BY <1>1 DEF FirstLine
<1>5. EndsAt(tree_root, Len(begin))
  <2>1. Len(begin) >= 1
    BY <1>1, <1>2
  <2> QED BY <1>1, <1>3, <2>1 DEF EndsAt
<1>6. ASSUME NEW n \in Reach, n # tree_root, Brother(n) # None PROVE \E e : EndsAt(n, e)
  <2>1. Brother(n) \in Reach /\ Before(Brother(n)) = Before(n) \cup Under(n)
    BY <1>1, <1>6, BrotherNext
  <2>2. PICK j \in DOMAIN begin : begin[j] = Brother(n)
    BY <1>1, <2>1
  <2>3. \A i \in DOMAIN begin : begin[i] \in Before(n) \cup Under(n) <=> i < j
    BY <1>1, <2>1, <2>2 DEF Before
  <2>4. n \in Under(n)
    BY <1>1, UpFacts DEF Under
  <2>5. FirstLine(n) < j
    BY <1>4, <2>3, <2>4
  <2>6. EndsAt(n, j - 1)
    BY <1>1, <1>4, <2>3, <2>5 DEF EndsAt
  <2> QED BY <2>6
<1> DEFINE A == {n \in Reach : ~\E e : EndsAt(n, e)}
<1>7. A = {}
  <2> SUFFICES ASSUME A # {} PROVE FALSE
    OBVIOUS
  <2>1. PICK m \in A : parent[m] \notin A
    <3>1. A \in SUBSET Reach
      OBVIOUS
    <3> HIDE DEF A
    <3> QED BY <1>2, <3>1 DEF Grounded
  <2>2. m \in Reach /\ m # tree_root /\ Brother(m) = None /\ parent[m] \in Reach
    BY <1>2, <1>5, <1>6, <2>1
  <2>3. Before(m) \cup Under(m) = Before(parent[m]) \cup Under(parent[m])
    BY <1>1, <2>2, LastBrother
  <2>4. PICK e : EndsAt(parent[m], e)
    BY <2>1, <2>2
  <2>5. EndsAt(m, e)
    BY <2>3, <2>4 DEF EndsAt
  <2> QED BY <2>1, <2>5
<1>8. ASSUME NEW n \in Reach PROVE EndsAt(n, LastLine(n)) /\ FirstLine(n) <= LastLine(n)
  <2>1. EndsAt(n, LastLine(n))
    BY <1>7 DEF LastLine
  <2>2. n \in Under(n)
    BY <1>1, UpFacts DEF Under
  <2> QED BY <1>4, <2>1, <2>2 DEF EndsAt
<1>9. \A n, e, f : EndsAt(n, e) /\ EndsAt(n, f) => e = f
  BY <1>1 DEF EndsAt
<1>10. LastLine(tree_root) = Len(begin)
  BY <1>2, <1>5, <1>8, <1>9
<1>11. FirstLine(tree_root) = 1
  <2> DEFINE r == FirstLine(tree_root)
  <2>1. r \in DOMAIN begin /\ begin[r] = tree_root
    BY <1>2, <1>4
  <2> HIDE DEF r
  <2>2. ~(1 < r)
    <3> SUFFICES ASSUME 1 < r PROVE FALSE
      OBVIOUS
    <3>1. 1 \in DOMAIN begin /\ begin[1] \in Reach
      BY <1>1, <2>1
    <3>2. Earlier(begin[1], tree_root)
      BY <1>1, <2>1, <3>1
    <3> QED BY <1>3, <3>1, <3>2 DEF Before
  <2>3. r = 1
    BY <1>1, <2>1, <2>2
  <2> QED BY <2>3 DEF r
<1> QED BY <1>4, <1>8, <1>10, <1>11

\* FlattenSeq() puts pieces of a sequence that follow one another together.
LEMMA Flattened ==
  ASSUME NEW T, NEW s \in Seq(T), NEW n \in Nat \ {0},
         NEW f \in [1 .. n -> 1 .. Len(s)], NEW e \in [1 .. n -> 1 .. Len(s)],
         \A i \in 1 .. n : f[i] <= e[i],
         \A i \in 2 .. n : f[i] = e[i - 1] + 1
  PROVE  FlattenSeq([i \in 1 .. n |-> SubSeq(s, f[i], e[i])]) = SubSeq(s, f[1], e[n])
<1> DEFINE p == [i \in 1 .. n |-> SubSeq(s, f[i], e[i])]
           Eqn(g) == g = [i \in 1 .. Len(p) |-> IF i = 1 THEN p[i] ELSE g[i - 1] \o p[i]]
           h == [i \in 1 .. n |-> SubSeq(s, f[1], e[i])]
           flatten == CHOOSE g : Eqn(g)
<1>1. Len(p) = n /\ \A i \in 1 .. n : p[i] = SubSeq(s, f[i], e[i])
  <2>1. \A i \in 1 .. n : SubSeq(s, f[i], e[i]) \in Seq(T)
    <3> SUFFICES ASSUME NEW i \in 1 .. n PROVE SubSeq(s, f[i], e[i]) \in Seq(T)
      OBVIOUS
    <3>1. f[i] \in 1 .. Len(s) /\ e[i] \in 1 .. Len(s)
      OBVIOUS
    <3> QED BY <3>1
  <2>2. p \in [1 .. n -> Seq(T)]
    BY <2>1
  <2>3. \A i \in 1 .. n : p[i] = SubSeq(s, f[i], e[i])
    OBVIOUS
  <2> HIDE DEF p
  <2> QED BY <2>2, <2>3, LenProperties
<1>2. FlattenSeq(p) = flatten[n]
  BY <1>1 DEF FlattenSeq
<1>3. 1 \in 1 .. n /\ n \in 1 .. n /\ \A i \in 1 .. n : i # 1 => i - 1 \in 1 .. n /\ i \in 2 .. n
  OBVIOUS
<1>4. \A i \in 1 .. n : f[1] <= e[i]
  <2> DEFINE A == {i \in 1 .. n : ~(f[1] <= e[i])}
  <2> SUFFICES ASSUME A # {} PROVE FALSE
    OBVIOUS
  <2>1. PICK i \in A : \A j \in A : i <= j
    <3>1. A \in SUBSET Nat
      OBVIOUS
    <3> HIDE DEF A
    <3> QED BY <3>1, LeastPid
  <2>2. i \in 1 .. n /\ i # 1 /\ i \in Nat
    BY <1>3, <2>1
  <2>3. i - 1 \in 1 .. n /\ i - 1 \notin A
    BY <1>3, <2>1, <2>2
  <2>4. f[1] <= e[i - 1] /\ f[i] = e[i - 1] + 1 /\ f[i] <= e[i]
    BY <1>3, <2>2, <2>3
  <2>5. f[1] \in 1 .. Len(s) /\ e[i - 1] \in 1 .. Len(s) /\ e[i] \in 1 .. Len(s)
    BY <1>3, <2>2, <2>3
  <2>6. f[1] <= e[i]
    <3> DEFINE a == f[1]
               b == e[i - 1]
               d == e[i]
    <3>1. a \in 1 .. Len(s) /\ b \in 1 .. Len(s) /\ d \in 1 .. Len(s) /\ a <= b /\ b + 1 <= d
      BY <2>4, <2>5
    <3> HIDE DEF a, b, d
    <3>2. a <= d
      BY <3>1
    <3> QED BY <3>2 DEF a, d
  <2> QED BY <2>1, <2>6
<1> HIDE DEF p
<1>5. ASSUME NEW i \in 1 .. n PROVE h[i] = IF i = 1 THEN p[i] ELSE h[i - 1] \o p[i]
  <2>1. CASE i = 1
    BY <1>1, <2>1
  <2>2. CASE i # 1
    <3>1. i - 1 \in 1 .. n /\ f[i] = e[i - 1] + 1 /\ f[1] <= e[i - 1] /\ f[i] <= e[i]
      BY <1>3, <1>4, <2>2
    <3>2. f[1] \in 1 .. Len(s) /\ e[i - 1] \in 1 .. Len(s) /\ e[i] \in 1 .. Len(s)
      BY <1>3, <3>1
    <3>3. e[i - 1] < e[i]
      BY <3>1, <3>2
    <3>4. SubSeq(s, f[1], e[i - 1]) \o SubSeq(s, e[i - 1] + 1, e[i]) = SubSeq(s, f[1], e[i])
      <4> DEFINE a == f[1]
                 b == e[i - 1]
                 d == e[i]
      <4>1. a \in 1 .. Len(s) + 1 /\ b \in a - 1 .. Len(s) /\ d \in b .. Len(s)
        BY <3>1, <3>2, <3>3
      <4> HIDE DEF a, b, d
      <4>2. SubSeq(s, a, b) \o SubSeq(s, b + 1, d) = SubSeq(s, a, d)
        BY <4>1, ConcatAdjacentSubSeq
      <4> QED BY <4>2 DEF a, b, d
    <3>5. p[i] = SubSeq(s, e[i - 1] + 1, e[i])
      BY <1>1, <3>1
    <3> QED BY <2>2, <3>1, <3>4, <3>5
  <2> QED BY <2>1, <2>2
<1>6. Eqn(h)
  <2>1. h = [i \in 1 .. n |-> h[i]]
    OBVIOUS
  <2> HIDE DEF h
  <2> QED BY <1>1, <1>5, <2>1
<1>7. Eqn(flatten)
  <2> HIDE DEF Eqn
  <2> QED BY <1>6
<1> HIDE DEF flatten
<1>8. \A i \in 1 .. n : flatten[i] = IF i = 1 THEN p[i] ELSE flatten[i - 1] \o p[i]
  BY <1>1, <1>7
<1>9. flatten[n] = h[n]
  <2> DEFINE A == {i \in 1 .. n : flatten[i] # h[i]}
  <2> SUFFICES ASSUME A # {} PROVE FALSE
    BY <1>3
  <2> HIDE DEF h
  <2>1. PICK i \in A : \A j \in A : i <= j
    <3>1. A \in SUBSET Nat
      OBVIOUS
    <3> HIDE DEF A
    <3> QED BY <3>1, LeastPid
  <2>2. i \in 1 .. n /\ i # 1 /\ i \in Nat
    BY <1>5, <1>8, <2>1
  <2>3. i - 1 \in 1 .. n /\ i - 1 \notin A
    BY <1>3, <2>1, <2>2
  <2> QED BY <1>5, <1>8, <2>1, <2>2, <2>3
<1> QED BY <1>2, <1>3, <1>9 DEF p

\* Where the parts of the children of n are
LEMMA ChildParts ==
  ASSUME Drawing, NEW n \in Reach
  PROVE  LET c == child[n]
         IN  /\ c \in Seq(Node) /\ \A i \in DOMAIN c : c[i] \in Reach
             /\ c = <<>> => LastLine(n) = FirstLine(n)
             /\ c # <<>> => FirstLine(c[1]) = FirstLine(n) + 1 /\ LastLine(c[Len(c)]) = LastLine(n)
             /\ \A i \in 2 .. Len(c) : FirstLine(c[i]) = LastLine(c[i - 1]) + 1
<1> DEFINE c == child[n]
           N == Len(begin)
           Is(x, p) == p \in 1 .. N /\ begin[p] = x
<1>1. /\ TreeInv /\ N \in Nat /\ DOMAIN begin = 1 .. N
      /\ \A j \in DOMAIN begin : begin[j] \in Reach
      /\ \A p, q \in DOMAIN begin : begin[p] = begin[q] => p = q
      /\ \A p, q \in DOMAIN begin : p < q <=> Earlier(begin[p], begin[q])
  BY DrawingProps
<1>2. /\ Reach \in SUBSET Node /\ parent[tree_root] \notin Reach
      /\ \A x \in Node : parent[x] \in Reach => x \in Reach
  BY <1>1, ReachProps
<1>3. /\ c \in Seq(Node) /\ IsInjective(c) /\ \A x \in Node : x \in Range(c) <=> parent[x] = n
      /\ None \notin Node
  BY <1>1, <1>2, NodeFacts DEF TreeInv, TypeOK, LinksConsistent
<1> HIDE DEF Reach, c, N
<1>4. ASSUME NEW i \in DOMAIN c
      PROVE  /\ c[i] \in Reach /\ c[i] # tree_root
             /\ Brother(c[i]) = IF i < Len(c) THEN c[i + 1] ELSE None
             /\ parent[c[i]] = n
  <2>1. c[i] \in Node /\ c[i] \in Range(c)
    BY <1>3 DEF Range
  <2>2. parent[c[i]] = n
    BY <1>3, <2>1
  <2>3. \A j \in DOMAIN c : c[j] = c[i] => j = i
    BY <1>3 DEF IsInjective
  <2>4. (CHOOSE j \in DOMAIN c : c[j] = c[i]) = i
    BY <2>3
  <2>5. Brother(c[i]) = IF i < Len(c) THEN c[i + 1] ELSE None
    <3> DEFINE m == c[i]
               s == child[parent[m]]
               j == CHOOSE k \in DOMAIN s : s[k] = m
    <3>1. Brother(m) = IF j < Len(s) THEN s[j + 1] ELSE None
      BY DEF Brother
    <3>2. s = c
      BY <2>2 DEF c
    <3>3. j = i
      BY <2>4, <3>2
    <3> QED BY <3>1, <3>2, <3>3
  <2> QED BY <1>2, <2>1, <2>2, <2>5
<1>5. \A x \in Reach : /\ FirstLine(x) \in 1 .. N /\ begin[FirstLine(x)] = x
                       /\ EndsAt(x, LastLine(x)) /\ FirstLine(x) <= LastLine(x) /\ LastLine(x) \in 1 .. N
  BY <1>1, Parts DEF EndsAt
<1>6. \A x \in Reach : \A i \in 1 .. N :
        /\ begin[i] \in Before(x) <=> i < FirstLine(x)
        /\ begin[i] \in Before(x) \cup Under(x) <=> i <= LastLine(x)
        /\ begin[i] = x <=> i = FirstLine(x)
  BY <1>1, <1>5 DEF EndsAt, Before
<1>7. \A p, q \in 1 .. N : (\A i \in 1 .. N : i <= p <=> i <= q) => p = q
  BY <1>1
<1>8. \A p, q \in 1 .. N : (\A i \in 1 .. N : i < p <=> i <= q) => p = q + 1
  BY <1>1
<1>9. ASSUME c = <<>> PROVE LastLine(n) = FirstLine(n)
  <2>1. Under(n) = {n}
    BY <1>1, <1>9, LeafUnder DEF c
  <2>2. \A i \in 1 .. N : i <= LastLine(n) <=> i <= FirstLine(n)
    BY <1>1, <1>5, <1>6, <2>1
  <2> QED BY <1>5, <1>7, <2>2
<1>10. ASSUME c # <<>> PROVE FirstLine(c[1]) = FirstLine(n) + 1 /\ LastLine(c[Len(c)]) = LastLine(n)
  <2>1. 1 \in DOMAIN c /\ Len(c) \in DOMAIN c /\ Head(c) = c[1]
    BY <1>3, <1>10
  <2>2. Before(c[1]) = Before(n) \cup {n}
    BY <1>1, <1>10, <2>1, ChildNext DEF c
  <2>3. \A i \in 1 .. N : i < FirstLine(c[1]) <=> i <= FirstLine(n)
    BY <1>1, <1>4, <1>5, <1>6, <2>1, <2>2
  <2>4. FirstLine(c[1]) = FirstLine(n) + 1
    BY <1>4, <1>5, <1>8, <2>1, <2>3
  <2>5. Brother(c[Len(c)]) = None
    BY <1>4, <2>1
  <2>6. Before(c[Len(c)]) \cup Under(c[Len(c)]) = Before(n) \cup Under(n)
    BY <1>1, <1>4, <2>1, <2>5, LastBrother
  <2>7. LastLine(c[Len(c)]) = LastLine(n)
    <3> DEFINE x == c[Len(c)]
    <3>1. x \in Reach /\ LastLine(x) \in 1 .. N /\ LastLine(n) \in 1 .. N
      BY <1>4, <1>5, <2>1
    <3> HIDE DEF x
    <3>2. \A i \in 1 .. N : i <= LastLine(x) <=> i <= LastLine(n)
      BY <1>6, <2>6, <3>1 DEF x
    <3> QED BY <1>7, <3>1, <3>2 DEF x
  <2> QED BY <2>4, <2>7
<1>11. ASSUME NEW i \in 2 .. Len(c) PROVE FirstLine(c[i]) = LastLine(c[i - 1]) + 1
  <2>1. i \in DOMAIN c /\ i - 1 \in DOMAIN c /\ i - 1 < Len(c) /\ (i - 1) + 1 = i
    BY <1>3
  <2>2. Brother(c[i - 1]) = c[i] /\ c[i] # None
    BY <1>2, <1>3, <1>4, <2>1
  <2>3. Before(c[i]) = Before(c[i - 1]) \cup Under(c[i - 1])
    BY <1>1, <1>4, <2>1, <2>2, BrotherNext
  <2> DEFINE x == c[i]
             y == c[i - 1]
  <2>4. x \in Reach /\ y \in Reach /\ FirstLine(x) \in 1 .. N /\ LastLine(y) \in 1 .. N
    BY <1>4, <1>5, <2>1
  <2> HIDE DEF x, y
  <2>5. \A j \in 1 .. N : j < FirstLine(x) <=> j <= LastLine(y)
    BY <1>6, <2>3, <2>4 DEF x, y
  <2> QED BY <1>8, <2>4, <2>5 DEF x, y
<1> QED BY <1>3, <1>4, <1>9, <1>10, <1>11 DEF c

\* The list is the preorder of the tree.
LEMMA ListIsPreorder == ASSUME Drawing PROVE begin = Preorder(tree_root)
<1> DEFINE N == Len(begin)
           Part(n) == SubSeq(begin, FirstLine(n), LastLine(n))
           Eqn(g) == g = [m \in Reach |-> <<m>> \o FlattenSeq([i \in DOMAIN child[m] |-> g[child[m][i]]])]
           pre == CHOOSE g : Eqn(g)
           h == [m \in Reach |-> Part(m)]
<1>1. /\ TreeInv /\ N \in Nat /\ DOMAIN begin = 1 .. N /\ begin \in Seq(Reach)
  BY DrawingProps DEF Drawing
<1>2. tree_root \in Reach
  BY <1>1, ReachProps
<1>3. Preorder(tree_root) = pre[tree_root]
  BY DEF Preorder, Reach
<1> HIDE DEF Reach
<1>4. \A x \in Reach : FirstLine(x) \in 1 .. N /\ begin[FirstLine(x)] = x
                       /\ FirstLine(x) <= LastLine(x) /\ LastLine(x) \in 1 .. N
  BY <1>1, Parts DEF EndsAt
<1>5. /\ \A n \in Reach : \A i \in DOMAIN child[n] : child[n][i] \in Reach
      /\ \A n \in Reach : child[n] \in Seq(Node)
  BY ChildParts
\* The parts of the list that belong to the children of a node make up, with the node,
\* the part that belongs to it.
<1>6. ASSUME NEW n \in Reach
      PROVE  Part(n) = <<n>> \o FlattenSeq([i \in DOMAIN child[n] |-> Part(child[n][i])])
  <2> DEFINE c == child[n]
             p == [i \in DOMAIN c |-> Part(c[i])]
  <2>1. /\ c \in Seq(Node) /\ \A i \in DOMAIN c : c[i] \in Reach
        /\ c = <<>> => LastLine(n) = FirstLine(n)
        /\ c # <<>> => FirstLine(c[1]) = FirstLine(n) + 1 /\ LastLine(c[Len(c)]) = LastLine(n)
        /\ \A i \in 2 .. Len(c) : FirstLine(c[i]) = LastLine(c[i - 1]) + 1
    BY ChildParts
  <2> HIDE DEF c
  <2>2. Part(n) = <<n>> \o SubSeq(begin, FirstLine(n) + 1, LastLine(n))
    <3> DEFINE a == FirstLine(n)
               b == LastLine(n)
    <3>1. a \in 1 .. N /\ b \in a .. N /\ begin[a] = n
      BY <1>1, <1>4
    <3> HIDE DEF a, b
    <3>2. SubSeq(begin, a, b) = <<begin[a]>> \o SubSeq(begin, a + 1, b)
      BY <1>1, <3>1, SubSeqRecursiveFirst
    <3> QED BY <3>1, <3>2 DEF a, b
  <2>3. CASE c = <<>>
    <3>1. SubSeq(begin, FirstLine(n) + 1, LastLine(n)) = <<>>
      <4> DEFINE a == FirstLine(n)
      <4>1. a \in Nat /\ LastLine(n) = a
        BY <1>1, <1>4, <2>1, <2>3
      <4> HIDE DEF a
      <4>2. SubSeq(begin, a + 1, a) = <<>>
        BY <4>1, SubSeqEmpty
      <4> QED BY <4>1, <4>2 DEF a
    <3>2. p = <<>>
      BY <2>3
    <3>3. FlattenSeq(p) = <<>>
      BY <3>2 DEF FlattenSeq
    <3> QED BY <2>2, <3>1, <3>3 DEF c
  <2>4. CASE c # <<>>
    <3> DEFINE k == Len(c)
               f == [i \in 1 .. k |-> FirstLine(c[i])]
               e == [i \in 1 .. k |-> LastLine(c[i])]
               q == [i \in 1 .. k |-> SubSeq(begin, f[i], e[i])]
    <3>1. k \in Nat \ {0} /\ DOMAIN c = 1 .. k /\ \A i \in 1 .. k : c[i] \in Reach
      BY <2>1, <2>4
    <3>2. f \in [1 .. k -> 1 .. N] /\ e \in [1 .. k -> 1 .. N]
      BY <1>4, <3>1
    <3>3. \A i \in 1 .. k : f[i] <= e[i]
      BY <1>4, <3>1
    <3>4. \A i \in 2 .. k : f[i] = e[i - 1] + 1
      <4> SUFFICES ASSUME NEW i \in 2 .. k PROVE f[i] = e[i - 1] + 1
        OBVIOUS
      <4>1. i \in 1 .. k /\ i - 1 \in 1 .. k
        BY <3>1
      <4> QED BY <2>1, <4>1
    <3>5. p = q
      BY <3>1
    <3>6. f[1] = FirstLine(n) + 1 /\ e[k] = LastLine(n)
      BY <2>1, <2>4, <3>1
    <3> HIDE DEF f, e, k, p
    <3>7. FlattenSeq(q) = SubSeq(begin, f[1], e[k])
      BY <1>1, <3>1, <3>2, <3>3, <3>4, Flattened
    <3> HIDE DEF q
    <3> QED BY <2>2, <3>5, <3>6, <3>7 DEF p, c
  <2> QED BY <2>3, <2>4
<1>7. Eqn(h)
  <2>1. ASSUME NEW m \in Reach
        PROVE  h[m] = <<m>> \o FlattenSeq([i \in DOMAIN child[m] |-> h[child[m][i]]])
    <3>1. [i \in DOMAIN child[m] |-> h[child[m][i]]] = [i \in DOMAIN child[m] |-> Part(child[m][i])]
      BY <1>5
    <3>2. h[m] = Part(m)
      OBVIOUS
    <3> HIDE DEF h, Part
    <3> QED BY <1>6, <3>1, <3>2
  <2>2. h = [m \in Reach |-> h[m]]
    OBVIOUS
  <2> HIDE DEF h
  <2> QED BY <2>1, <2>2
<1>8. Eqn(pre)
  <2> HIDE DEF Eqn
  <2> QED BY <1>7
<1> HIDE DEF pre, Part
<1>9. \A m \in Reach : pre[m] = <<m>> \o FlattenSeq([i \in DOMAIN child[m] |-> pre[child[m][i]]])
  BY <1>8
\* The node whose part is the last one to be wrong has children whose parts are right.
<1>10. pre[tree_root] = Part(tree_root)
  <2> DEFINE A == {m \in Reach : pre[m] # Part(m)}
             B == {N - FirstLine(m) : m \in A}
  <2> SUFFICES ASSUME A # {} PROVE FALSE
    BY <1>2
  <2>1. PICK m \in A : \A x \in A : FirstLine(x) <= FirstLine(m)
    <3>1. B \in SUBSET Nat /\ B # {}
      <4>1. ASSUME NEW x \in A PROVE N - FirstLine(x) \in Nat
        <5>1. FirstLine(x) \in 1 .. N
          BY <1>4
        <5> HIDE DEF N
        <5> QED BY <1>1, <5>1
      <4> QED BY <4>1
    <3>2. PICK b \in B : \A d \in B : b <= d
      <4> HIDE DEF B
      <4> QED BY <3>1, LeastPid
    <3>3. PICK m \in A : b = N - FirstLine(m)
      OBVIOUS
    <3>4. ASSUME NEW x \in A PROVE FirstLine(x) <= FirstLine(m)
      <4>1. N - FirstLine(m) <= N - FirstLine(x)
        BY <3>2, <3>3
      <4>2. FirstLine(x) \in 1 .. N /\ FirstLine(m) \in 1 .. N
        BY <1>4
      <4> QED BY <1>1, <4>1, <4>2
    <3> QED BY <3>4
  <2>2. m \in Reach
    OBVIOUS
  <2>3. ASSUME NEW i \in DOMAIN child[m] PROVE pre[child[m][i]] = Part(child[m][i])
    <3> DEFINE x == child[m][i]
    <3>1. x \in Reach /\ x \in Node /\ x \in Range(child[m]) /\ m \in Node
      <4>1. Reach \in SUBSET Node
        BY <1>1, ReachProps
      <4> QED BY <1>5, <2>2, <4>1 DEF Range
    <3>2. parent[x] = m
      BY <1>1, <3>1 DEF TreeInv, LinksConsistent
    <3>3. Earlier(m, x)
      <4>1. x # tree_root
        BY <1>1, <2>2, <3>2, ReachProps
      <4>2. x \in Up(x) /\ parent[x] \in Up(x) /\ parent[x] # x
        BY <1>1, <3>1, <4>1, UpFacts
      <4> QED BY <3>2, <4>2, EarlierDef
    <3>4. FirstLine(m) < FirstLine(x)
      BY <1>1, <1>4, <2>2, <3>1, <3>3, DrawingProps
    <3>5. ~(FirstLine(x) <= FirstLine(m))
      <4>1. FirstLine(x) \in 1 .. N /\ FirstLine(m) \in 1 .. N
        BY <1>4, <2>2, <3>1
      <4> HIDE DEF x, N
      <4> QED BY <1>1, <3>4, <4>1
    <3>6. x \notin A
      BY <2>1, <3>5
    <3> QED BY <3>1, <3>6
  <2>4. [i \in DOMAIN child[m] |-> pre[child[m][i]]] = [i \in DOMAIN child[m] |-> Part(child[m][i])]
    BY <2>3
  <2> QED BY <1>6, <1>9, <2>2, <2>4
<1>11. Part(tree_root) = begin
  <2>1. FirstLine(tree_root) = 1 /\ LastLine(tree_root) = Len(begin)
    BY <1>2, Parts
  <2> QED BY <1>1, <2>1, SubSeqFull DEF Part
<1> QED BY <1>3, <1>10, <1>11

\* What is printed is the tree: the lines are the preorder of the nodes below its root,
\* and the branches in front of each of them lead to its parent and to its brothers, on the
\* same conditions.
THEOREM TreeIsDrawn ==
  ASSUME NEW D, Ours(D), ~Live \/ ~PidsWrap
  PROVE  Safe /\ []OfInit(D) => []TreeOrder
<1>1. AllInv => TreeOrder
  <2> SUFFICES ASSUME AllInv, stage = "draw"
               PROVE  /\ begin = IF tree_root \notin Found THEN <<>>
                                 ELSE IF tree_root = 0 THEN Tail(Preorder(0)) ELSE Preorder(tree_root)
                      /\ \A i \in DOMAIN begin : tree_string(tree_root, begin[i]) = Drawn(i)
    BY DEF TreeOrder
  <2>1. /\ TreeInv /\ priv = Shown /\ Kept = priv /\ Range(begin) = priv
        /\ DOMAIN begin = 1 .. Len(begin) /\ Len(begin) \in Nat
    BY DrawnIsShown
  <2>2. tree_root # 0
    BY NodeFacts DEF Ours, AllInv, ListInv, FieldsOK
  <2>3. CASE tree_root \notin Found
    <3>1. begin = <<>>
      <4>1. Range(begin) = {}
        BY <2>1, <2>3 DEF Shown
      <4>2. ~(1 \in DOMAIN begin)
        BY <4>1 DEF Range
      <4>3. begin \in Seq(priv \cup marked)
        BY DEF AllInv, LineInv
      <4> QED BY <2>1, <4>2, <4>3
    <3> QED BY <2>3, <3>1
  <2>4. CASE tree_root \in Found
    <3>1. Drawing
      <4>1. priv = Reach
        BY <2>1, <2>4 DEF Shown
      <4>2. begin \in Seq(Reach) /\ IsInjective(begin)
        <5>1. begin \in Seq(priv \cup marked) /\ Range(begin) = priv \cup marked /\ IsInjective(begin)
          BY DEF AllInv, LineInv, LinesOwnNodes
        <5>2. priv \cup marked = Reach
          BY <2>1, <4>1, <5>1
        <5> QED BY <5>1, <5>2
      <4>3. ASSUME NEW i \in DOMAIN begin, NEW j \in DOMAIN begin, i < j
            PROVE  Earlier(begin[i], begin[j])
        <5>1. begin[i] \in Kept /\ begin[j] \in Kept
          BY <2>1 DEF Range
        <5>2. Precedes(parent, child, Kept, begin[i], begin[j])
          BY <4>3, <5>1 DEF AllInv, ListInv, OrderInv
        <5> QED BY <2>1, <4>1, <5>2 DEF Earlier
      <4> QED BY <2>1, <2>2, <4>1, <4>2, <4>3 DEF Drawing
    <3> QED BY <2>2, <2>4, <3>1, ListIsPreorder, StringIsDrawn
  <2> QED BY <2>3, <2>4
<1> HIDE DEF AllInv
<1> QED BY <1>1, AllKept, PTL

-----------------------------------------------------------------------------
(* The end of an update                                                    *)

\* The nodes that the walk of synchronize() has not passed yet.
ToWalk ==
  LET tree == {q \in Node : ReachesRoot(q)}
  IN  IF proc = None THEN {} ELSE {n \in tree : ~Precedes(parent, child, tree, n, proc)}

\* The processes that the scan has not come to
Unread == {p \in Procs : p > seen}

\* What is left is measured in rounds that are longer than any of the loops.
Round == Cardinality(Node) + 1

\* How much of a running update is left: processes to read, nodes to free, lines to
\* delete, nodes to walk through, the list to print.
Left ==
  CASE stage = "tree" /\ phase = "scan" -> 4 * Round + Cardinality(Unread)
    [] stage = "tree" /\ phase # "scan" -> 3 * Round + Cardinality(old_list)
    [] stage = "delete" -> 2 * Round + Cardinality(marked)
    [] stage = "sync" -> Round + Cardinality(ToWalk)
    [] stage = "draw" -> 1
    [] OTHER -> 0

\* Every step of an update brings it nearer to its end, and no move of the kernel takes
\* it away from that: not one of the loops of an update runs for ever, or more often
\* than there are pids, whatever the tree was and however it changes meanwhile.
UpdateEnds ==
  [][stage # "idle" => IF UNCHANGED kernelVars THEN Left' < Left ELSE Left' = Left]_plVars

\* A set of nodes is shorter than a round, and a smaller one is shorter still.
LEMMA RoundProps ==
  /\ Round \in Nat /\ Round > 1
  /\ \A A \in SUBSET Node : IsFiniteSet(A) /\ Cardinality(A) \in Nat /\ Cardinality(A) < Round
  /\ \A A \in SUBSET Node : \A B \in SUBSET A : B # A => Cardinality(B) < Cardinality(A)
<1>1. IsFiniteSet(Node)
  BY PidsAssumption, FS_AddElement DEF Node, Procs
<1>2. Cardinality(Node) \in Nat
  BY <1>1, FS_CardinalityType
<1>3. ASSUME NEW A \in SUBSET Node
      PROVE  IsFiniteSet(A) /\ Cardinality(A) \in Nat /\ Cardinality(A) <= Cardinality(Node)
  BY <1>1, FS_Subset, FS_CardinalityType
<1>4. Cardinality(Node) # 0
  <2>1. Node # {}
    BY NodeFacts
  <2> QED BY <1>1, <2>1, FS_EmptySet
<1>5. ASSUME NEW A \in SUBSET Node, NEW B \in SUBSET A, B # A PROVE Cardinality(B) < Cardinality(A)
  <2>1. IsFiniteSet(A) /\ Cardinality(A) \in Nat /\ Cardinality(B) \in Nat
    BY <1>3
  <2>2. Cardinality(B) <= Cardinality(A) /\ Cardinality(A) # Cardinality(B)
    BY <1>5, <2>1, FS_Subset
  <2> QED BY <2>1, <2>2
<1> QED BY <1>2, <1>3, <1>4, <1>5 DEF Round

LEMMA LeftIs ==
  /\ stage = "tree" /\ phase = "scan" => Left = 4 * Round + Cardinality(Unread)
  /\ stage = "tree" /\ phase # "scan" => Left = 3 * Round + Cardinality(old_list)
  /\ stage = "delete" => Left = 2 * Round + Cardinality(marked)
  /\ stage = "sync" => Left = Round + Cardinality(ToWalk)
  /\ stage = "draw" => Left = 1
  /\ stage \in {"idle", "broken"} => Left = 0
  /\ proc = None => ToWalk = {}
  /\ proc # None => ToWalk = Reach \ Before(proc)
<1>1. proc = None => ToWalk = {}
  BY DEF ToWalk
<1>2. proc # None => ToWalk = Reach \ Before(proc)
  BY DEF ToWalk, Reach, Before, Earlier
<1>3. stage = "sync" => Left = Round + Cardinality(ToWalk)
  BY DEF Left, Round
<1>4. /\ stage = "tree" /\ phase = "scan" => Left = 4 * Round + Cardinality(Unread)
      /\ stage = "tree" /\ phase # "scan" => Left = 3 * Round + Cardinality(old_list)
  BY DEF Left, Round, Unread
<1>5. /\ stage = "delete" => Left = 2 * Round + Cardinality(marked)
      /\ stage = "draw" => Left = 1
      /\ stage \in {"idle", "broken"} => Left = 0
  BY DEF Left, Round
<1> QED BY <1>1, <1>2, <1>3, <1>4, <1>5

\* The same after a step
LEMMA LeftAfter ==
  /\ stage' = "tree" /\ phase' = "scan" => Left' = 4 * Round + Cardinality(Unread')
  /\ stage' = "tree" /\ phase' # "scan" => Left' = 3 * Round + Cardinality(old_list')
  /\ stage' = "delete" => Left' = 2 * Round + Cardinality(marked')
  /\ stage' = "sync" => Left' = Round + Cardinality(ToWalk')
  /\ stage' = "draw" => Left' = 1
  /\ stage' \in {"idle", "broken"} => Left' = 0
  /\ proc' = None => ToWalk' = {}
  /\ proc' # None => ToWalk' \in SUBSET Reach'
<1>1. proc' = None => ToWalk' = {}
  BY DEF ToWalk
<1>2. proc' # None => ToWalk' \in SUBSET Reach'
  BY DEF ToWalk, Reach
<1>3. stage' = "sync" => Left' = Round + Cardinality(ToWalk')
  BY DEF Left, Round
<1>4. /\ stage' = "tree" /\ phase' = "scan" => Left' = 4 * Round + Cardinality(Unread')
      /\ stage' = "tree" /\ phase' # "scan" => Left' = 3 * Round + Cardinality(old_list')
  BY DEF Left, Round, Unread
<1>5. /\ stage' = "delete" => Left' = 2 * Round + Cardinality(marked')
      /\ stage' = "draw" => Left' = 1
      /\ stage' \in {"idle", "broken"} => Left' = 0
  BY DEF Left, Round
<1> QED BY <1>1, <1>2, <1>3, <1>4, <1>5

\* A move of the kernel is one.
LEMMA KernelMovesOn == ASSUME IInv, KernelStep PROVE ~UNCHANGED kernelVars
<1>1. /\ ppid \in [Procs -> Node \cup {None}] /\ kstate \in [Procs -> States \cup {None}]
      /\ None \notin Node /\ Pids \subseteq Procs
  BY NodeFacts DEF IInv, TypeOK, KernelTypeOK
<1>2. ASSUME NEW q \in Node, NEW c \in Pids, Fork(q, c) PROVE ppid' # ppid
  BY <1>1, <1>2 DEF Fork, Alive
<1>3. ASSUME NEW p \in Pids, Exit(p) PROVE ppid' # ppid
  BY <1>1, <1>3 DEF Exit, Alive
<1>4. ASSUME NEW p \in Procs, ChangeState(p) PROVE kstate' # kstate
  BY <1>1, <1>4 DEF ChangeState
<1> QED BY <1>2, <1>3, <1>4 DEF KernelStep, kernelVars

\* The walk leaves the node at hand behind.
LEMMA WalkedOn ==
  ASSUME Known, stage = "sync", proc # None, stage' = "sync", proc' = tree_next(proc),
         UNCHANGED <<parent, child, tree_root, hash_table, phase>>
  PROVE  Left' < Left
<1>1. TreeInv /\ proc \in Reach
  BY TreeThere DEF Known, WalkInv, Reach, Found, IInv, TypeOK, ListInv, FieldsOK
<1>2. Reach \in SUBSET Node
  BY DEF Reach
<1>3. ToWalk = Reach \ Before(proc) /\ Left = Round + Cardinality(ToWalk)
  BY LeftIs
<1>4. proc \in ToWalk
  BY <1>1, <1>3, EarlierTotal DEF Before
<1>5. ToWalk' \in SUBSET ToWalk /\ proc \notin ToWalk'
  <2>1. CASE proc' = None
    BY <2>1 DEF ToWalk
  <2>2. CASE proc' # None
    <3>1. proc' \in Reach /\ Before(proc') = Before(proc) \cup {proc}
      BY <1>1, <2>2, NextInOrder
    <3>2. Reach' = Reach /\ \A m, n : Precedes(parent', child', Reach', m, n) <=> Earlier(m, n)
      BY SameTree
    <3>3. ToWalk' = {n \in Reach' : ~Precedes(parent', child', Reach', n, proc')}
      BY <2>2 DEF ToWalk, Reach
    <3>4. ToWalk' = Reach \ Before(proc')
      BY <3>2, <3>3 DEF Before
    <3> QED BY <1>3, <3>1, <3>4
  <2> QED BY <2>1, <2>2
<1>6. Left' = Round + Cardinality(ToWalk')
  BY LeftAfter
<1>7. Cardinality(ToWalk') < Cardinality(ToWalk) /\ Cardinality(ToWalk') \in Nat /\ Cardinality(ToWalk) \in Nat
  <2>1. ToWalk \in SUBSET Node /\ ToWalk' \in SUBSET Node /\ ToWalk' # ToWalk
    BY <1>2, <1>3, <1>4, <1>5
  <2> HIDE DEF ToWalk
  <2> QED BY <1>5, <2>1, RoundProps
<1> QED BY <1>3, <1>6, <1>7, RoundProps

\* A step of update_tree()
LEMMA TreeOn ==
  ASSUME Known, FieldsOK', UpdateTree PROVE UNCHANGED kernelVars /\ Left' < Left
<1>1. /\ stage = "tree" /\ Continue
      /\ stage' = IF phase' = "idle" THEN "delete" ELSE "tree"
  BY DEF UpdateTree
<1>2. /\ Pids \subseteq Node /\ Procs \subseteq Node /\ Node \subseteq Nat
      /\ old_list \subseteq Pids /\ seen \in Nat /\ marked' \subseteq Node
  BY NodeFacts DEF Known, IInv, TypeOK, FieldsOK
<1>3. /\ Round \in Nat
      /\ \A A \in SUBSET Node : Cardinality(A) \in Nat /\ Cardinality(A) < Round
      /\ \A A \in SUBSET Node : \A B \in SUBSET A : B # A => Cardinality(B) < Cardinality(A)
  BY RoundProps
<1>4. Unread \in SUBSET Node /\ old_list \in SUBSET Node
  BY <1>2 DEF Unread
<1>5. ASSUME NEW p \in Procs, ReadEntry(p) PROVE UNCHANGED kernelVars /\ Left' < Left
  <2>1. phase = "scan" /\ phase' = "scan" /\ p > seen /\ seen' = p /\ UNCHANGED kernelVars
    BY <1>5 DEF ReadEntry
  <2>2. Left = 4 * Round + Cardinality(Unread) /\ Left' = 4 * Round + Cardinality(Unread')
    BY <1>1, <2>1, LeftIs, LeftAfter
  <2>3. Unread' \in SUBSET Unread /\ p \in Unread /\ p \notin Unread'
    <3>1. Unread = {q \in Procs : q > seen} /\ Unread' = {q \in Procs : q > p}
      BY <2>1 DEF Unread
    <3>2. p \in Nat /\ seen \in Nat /\ \A q \in Procs : q \in Nat
      BY <1>2
    <3> HIDE DEF Unread
    <3>3. p \in Unread /\ p \notin Unread'
      BY <2>1, <3>1, <3>2
    <3>4. ASSUME NEW q \in Unread' PROVE q \in Unread
      <4>1. q \in Procs /\ q > p
        BY <3>1, <3>4
      <4>2. q > seen
        BY <2>1, <3>2, <4>1
      <4> QED BY <3>1, <4>1, <4>2
    <3> QED BY <3>3, <3>4
  <2> HIDE DEF Unread
  <2>4. Cardinality(Unread') < Cardinality(Unread) /\ Cardinality(Unread') \in Nat /\ Cardinality(Unread) \in Nat
    BY <1>3, <1>4, <2>3
  <2> QED BY <1>3, <2>1, <2>2, <2>4
<1> HIDE DEF Unread
<1>6. CASE EndScan
  <2>1. phase = "scan" /\ phase' = "reap" /\ old_list' = old_list /\ UNCHANGED kernelVars
    BY <1>6 DEF EndScan, treeVars
  <2>2. Left = 4 * Round + Cardinality(Unread) /\ Left' = 3 * Round + Cardinality(old_list)
    BY <1>1, <2>1, LeftIs, LeftAfter
  <2>3. Cardinality(Unread) \in Nat /\ Cardinality(old_list) \in Nat /\ Cardinality(old_list) < Round
    BY <1>3, <1>4
  <2> QED BY <1>3, <2>1, <2>2, <2>3
<1>7. ASSUME NEW p \in Pids, Reap(p) PROVE UNCHANGED kernelVars /\ Left' < Left
  <2>1. /\ phase = "reap" /\ phase' = "reap" /\ p \in old_list /\ old_list' = old_list \ {p}
        /\ UNCHANGED kernelVars
    BY <1>7 DEF Reap, Free, scanVars
  <2>2. Left = 3 * Round + Cardinality(old_list) /\ Left' = 3 * Round + Cardinality(old_list \ {p})
    BY <1>1, <2>1, LeftIs, LeftAfter
  <2>3. /\ Cardinality(old_list \ {p}) < Cardinality(old_list)
        /\ Cardinality(old_list \ {p}) \in Nat /\ Cardinality(old_list) \in Nat
    BY <1>3, <1>4, <2>1
  <2> QED BY <1>3, <2>1, <2>2, <2>3
<1>8. CASE EndUpdate
  <2>1. phase = "reap" /\ phase' = "idle" /\ UNCHANGED kernelVars
    BY <1>8 DEF EndUpdate
  <2>2. Left = 3 * Round + Cardinality(old_list) /\ Left' = 2 * Round + Cardinality(marked')
    BY <1>1, <2>1, LeftIs, LeftAfter
  <2>3. /\ Cardinality(old_list) \in Nat /\ Cardinality(marked') \in Nat /\ Cardinality(marked') < Round
    BY <1>2, <1>3, <1>4
  <2> QED BY <1>3, <2>1, <2>2, <2>3
<1> QED BY <1>1, <1>5, <1>6, <1>7, <1>8 DEF Continue

\* What follows it
LEMMA ListOn ==
  ASSUME Known, Work, ~UpdateTree PROVE UNCHANGED kernelVars /\ Left' < Left
<1>1. /\ Round \in Nat /\ Round > 1
      /\ \A A \in SUBSET Node : Cardinality(A) \in Nat /\ Cardinality(A) < Round
      /\ \A A \in SUBSET Node : \A B \in SUBSET A : B # A => Cardinality(B) < Cardinality(A)
  BY RoundProps
<1>2. marked \in SUBSET Node /\ ToWalk \in SUBSET Node /\ ToWalk' \in SUBSET Node
  BY DEF Known, ListInv, FieldsOK, ToWalk
<1>3. Cardinality(marked) \in Nat /\ Cardinality(ToWalk) \in Nat
      /\ Cardinality(ToWalk') \in Nat /\ Cardinality(ToWalk') < Round
  BY <1>1, <1>2
<1>4. ASSUME NEW n \in Node, DeleteLine(n) PROVE UNCHANGED kernelVars /\ Left' < Left
  <2>1. /\ stage = "delete" /\ stage' = "delete" /\ n \in marked /\ marked' = marked \ {n}
        /\ UNCHANGED kernelVars
    BY <1>4 DEF DeleteLine, ptVars
  <2>2. Left = 2 * Round + Cardinality(marked) /\ Left' = 2 * Round + Cardinality(marked \ {n})
    BY <2>1, LeftIs, LeftAfter
  <2>3. /\ Cardinality(marked \ {n}) < Cardinality(marked) /\ Cardinality(marked \ {n}) \in Nat
    BY <1>1, <1>2, <2>1
  <2> QED BY <1>1, <1>3, <2>1, <2>2, <2>3
<1>5. CASE StartSync
  <2>1. stage = "delete" /\ stage' = "sync" /\ UNCHANGED kernelVars
    BY <1>5 DEF StartSync, ptVars
  <2>2. Left = 2 * Round + Cardinality(marked) /\ Left' = Round + Cardinality(ToWalk')
    BY <2>1, LeftIs, LeftAfter
  <2> QED BY <1>1, <1>3, <2>1, <2>2
<1>6. CASE SyncKeep
  <2>1. /\ stage = "sync" /\ proc # None /\ UNCHANGED kernelVars
        /\ UNCHANGED <<parent, child, tree_root, hash_table, phase>>
        /\ \/ stage' = "sync" /\ proc' = tree_next(proc)
           \/ stage' = "broken"
    BY <1>6 DEF SyncKeep, ptVars, treeVars, scanVars, viewVars
  <2>2. CASE stage' = "sync" /\ proc' = tree_next(proc)
    BY <2>1, <2>2, WalkedOn
  <2>3. CASE stage' = "broken"
    <3>1. Left = Round + Cardinality(ToWalk) /\ Left' = 0
      BY <2>1, <2>3, LeftIs, LeftAfter
    <3> QED BY <1>1, <1>3, <2>1, <3>1
  <2> QED BY <2>1, <2>2, <2>3
<1>7. CASE SyncInsert
  <2>1. /\ stage = "sync" /\ stage' = "sync" /\ proc # None /\ proc' = tree_next(proc)
        /\ UNCHANGED kernelVars
        /\ UNCHANGED <<parent, child, tree_root, hash_table, phase>>
    BY <1>7 DEF SyncInsert, scanVars, viewVars
  <2> QED BY <2>1, WalkedOn
<1>8. CASE EndSync
  <2>1. stage = "sync" /\ stage' = "draw" /\ UNCHANGED kernelVars
    BY <1>8 DEF EndSync, ptVars
  <2>2. Left = Round + Cardinality(ToWalk) /\ Left' = 1
    BY <2>1, LeftIs, LeftAfter
  <2> QED BY <1>1, <1>3, <2>1, <2>2
<1>9. CASE Draw
  <2>1. stage = "draw" /\ stage' \in {"idle", "broken"} /\ UNCHANGED kernelVars
    BY <1>9 DEF Draw, ptVars
  <2>2. Left = 1 /\ Left' = 0
    BY <2>1, LeftIs, LeftAfter
  <2> QED BY <2>1, <2>2
<1> QED BY <1>4, <1>5, <1>6, <1>7, <1>8, <1>9 DEF Work

\* What the kernel does, in a scan, does not set an update back.
LEMMA KernelLeft == ASSUME KernelActs PROVE Left' = Left
<1>1. /\ UNCHANGED <<stage, phase, seen, old_list, marked, proc, parent, child, tree_root>>
  BY DEF KernelActs, KernelMoves, treeVars, listVars, viewVars
<1>2. ToWalk' = ToWalk
  BY <1>1 DEF ToWalk, Precedes, UpTo, Elder, ReachesRoot
<1> QED BY <1>1, <1>2 DEF Left, Unread, Round

\* What is left is a number.
LEMMA LeftNat == ASSUME Known PROVE Left \in Nat
<1>1. /\ Round \in Nat
      /\ \A A \in SUBSET Node : Cardinality(A) \in Nat
  BY RoundProps
<1>2. /\ Unread \in SUBSET Node /\ old_list \in SUBSET Node
      /\ marked \in SUBSET Node /\ ToWalk \in SUBSET Node
  BY NodeFacts DEF Known, IInv, TypeOK, ListInv, FieldsOK, Unread, ToWalk
<1> HIDE DEF Unread, ToWalk
<1>3. /\ Cardinality(Unread) \in Nat /\ Cardinality(old_list) \in Nat
      /\ Cardinality(marked) \in Nat /\ Cardinality(ToWalk) \in Nat
  BY <1>1, <1>2
<1>4. stage \in {"idle", "tree", "delete", "sync", "draw", "broken"}
  BY DEF Known, ListInv, ViewInv
<1> QED BY <1>1, <1>3, <1>4, LeftIs

\* On the same conditions every update comes to its end, after fewer steps than five times
\* Round: none of update_tree(), mark_del(), delete_tree_lines() and synchronize() runs for
\* ever, whatever the kernel does while they run.
THEOREM UpdatesEnd ==
  ASSUME NEW D, Ours(D), ~Live \/ ~PidsWrap
  PROVE  Safe /\ []OfInit(D) => [](Left \in Nat) /\ UpdateEnds
<1> DEFINE Step == stage # "idle" => IF UNCHANGED kernelVars THEN Left' < Left ELSE Left' = Left
<1>1. AllInv /\ AllInv' /\ [Next]_plVars => [Step]_plVars
  <2> SUFFICES ASSUME AllInv, AllInv', Next, stage # "idle"
               PROVE  IF UNCHANGED kernelVars THEN Left' < Left ELSE Left' = Left
    OBVIOUS
  <2>1. Known /\ FieldsOK'
    BY NodeFacts DEF Ours, AllInv, Known, ListInv
  <2>2. CASE KernelActs
    <3>1. ~UNCHANGED kernelVars
      BY <2>1, <2>2, KernelMovesOn DEF KernelActs, KernelMoves, Known
    <3> QED BY <2>2, <3>1, KernelLeft
  <2>3. CASE Tick \/ User
    BY <2>3 DEF Tick, User, KeyT, KeyEnter, KeyR, KeyO, KeySignal, KeySearch, KeyCursor, Periodic, Tick
  <2>4. CASE Work
    BY <2>1, <2>4, TreeOn, ListOn
  <2> QED BY <2>2, <2>3, <2>4 DEF Next
<1>3. AllInv => Left \in Nat
  BY NodeFacts, LeftNat DEF Ours, AllInv, Known, ListInv
<1> HIDE DEF AllInv, Step
<1>2. (UpdateEnds <=> [][Step]_plVars)
  BY DEF UpdateEnds, Step
<1> QED BY <1>1, <1>2, <1>3, AllKept, PTL DEF Safe

=============================================================================
