--------------------------- MODULE ProcTreeProofs ---------------------------
(***************************************************************************)
(* Proofs about ProcTree, for any set of pids, any kernel behaviour and    *)
(* any client: the tree is well linked at every step, and an update during *)
(* which the kernel does not move makes it the kernel's process table.     *)
(***************************************************************************)
EXTENDS ProcTree, WellFoundedInduction, TLAPS

\* What the range of every pid variable contains: init and the idle task.
LEMMA NodeFacts ==
  /\ Node \subseteq Nat /\ None \notin Node
  /\ Pids \subseteq Procs /\ Procs \subseteq Node /\ 0 \in Node /\ 1 \in Procs
  /\ 0 \notin Procs /\ 1 \notin Pids /\ 0 \notin Pids
<1>1. Pids \subseteq Nat /\ 0 \notin Pids /\ 1 \notin Pids
  BY PidsAssumption
<1>2. Node \subseteq Nat
  BY <1>1 DEF Node, Procs
<1>3. None \notin Node
  <2>1. None \notin Nat
    BY NoneAssumption
  <2> QED BY <1>2, <2>1
<1>4. Pids \subseteq Procs /\ Procs \subseteq Node /\ 0 \in Node /\ 1 \in Procs
  BY DEF Node, Procs
<1>5. 0 \notin Procs
  BY <1>1 DEF Procs
<1> QED BY <1>1, <1>2, <1>3, <1>4, <1>5

-----------------------------------------------------------------------------
(* The list operations keep a list free of duplicates and do to its set of *)
(* elements what their names say.                                          *)

\* Insertion at the head adds one element and keeps a list injective.
LEMMA ListAddProps ==
  ASSUME NEW A, NEW s \in Seq(A), NEW p \in A, IsInjective(s), p \notin Range(s)
  PROVE  /\ ListAdd(s, p) \in Seq(A)
         /\ IsInjective(ListAdd(s, p))
         /\ Range(ListAdd(s, p)) = Range(s) \cup {p}
<1> DEFINE t == ListAdd(s, p)
<1>1. t \in Seq(A) /\ Len(t) = Len(s) + 1 /\ t[1] = p
  BY DEF ListAdd
<1>2. \A i \in 1 .. Len(s) : t[i + 1] = s[i]
  BY DEF ListAdd
<1>3. DOMAIN t = 1 .. Len(s) + 1 /\ DOMAIN s = 1 .. Len(s) /\ Len(s) \in Nat
  BY <1>1
<1>4. \A i \in DOMAIN t : i = 1 \/ (i - 1 \in DOMAIN s /\ t[i] = s[i - 1])
  BY <1>2, <1>3
<1>5. Range(t) = Range(s) \cup {p}
  <2>1. Range(t) \subseteq Range(s) \cup {p}
    BY <1>1, <1>4 DEF Range
  <2>2. p \in Range(t)
    BY <1>1, <1>3 DEF Range
  <2>3. ASSUME NEW i \in DOMAIN s PROVE s[i] \in Range(t)
    <3>1. i + 1 \in DOMAIN t
      BY <1>3
    <3> QED BY <1>2, <1>3, <3>1 DEF Range
  <2> QED BY <2>1, <2>2, <2>3 DEF Range
<1>6. IsInjective(t)
  <2> SUFFICES ASSUME NEW i \in DOMAIN t, NEW j \in DOMAIN t, t[i] = t[j] PROVE i = j
    BY DEF IsInjective
  <2>1. i = 1 => j = 1
    BY <1>1, <1>4 DEF Range
  <2>2. j = 1 => i = 1
    BY <1>1, <1>4 DEF Range
  <2>3. i # 1 /\ j # 1 => i - 1 = j - 1
    BY <1>4 DEF IsInjective
  <2> QED BY <2>1, <2>2, <2>3, <1>3
<1> HIDE DEF t
<1> QED BY <1>1, <1>5, <1>6 DEF t

\* Unlinking takes exactly one element out of an injective list.
LEMMA ListDelProps ==
  ASSUME NEW A, NEW s \in Seq(A), NEW p, IsInjective(s), p \in Range(s)
  PROVE  /\ ListDel(s, p) \in Seq(A)
         /\ IsInjective(ListDel(s, p))
         /\ Range(ListDel(s, p)) = Range(s) \ {p}
<1> DEFINE at == CHOOSE i \in DOMAIN s : s[i] = p
<1> DEFINE t == [i \in 1 .. Len(s) - 1 |-> IF i < at THEN s[i] ELSE s[i + 1]]
<1>0. ListDel(s, p) = t
  BY DEF ListDel
<1>1. at \in DOMAIN s /\ s[at] = p
  <2>1. \E i \in DOMAIN s : s[i] = p
    BY DEF Range
  <2> QED BY <2>1
<1> HIDE DEF at
<1>2. Len(s) \in Nat /\ DOMAIN s = 1 .. Len(s) /\ at \in 1 .. Len(s)
  BY <1>1
<1>3. t \in Seq(A) /\ DOMAIN t = 1 .. Len(s) - 1
  <2>1. Len(s) - 1 \in Nat
    BY <1>2
  <2>2. \A i \in 1 .. Len(s) - 1 : s[i] \in A /\ s[i + 1] \in A
    BY <1>2
  <2> QED BY <2>1, <2>2
<1>4. IsInjective(t)
  BY <1>2, <1>3 DEF IsInjective
<1>5. Range(t) = Range(s) \ {p}
  <2>1. ASSUME NEW i \in DOMAIN t PROVE t[i] \in Range(s) \ {p}
    <3>1. CASE i < at
      <4>1. i \in DOMAIN s /\ i # at /\ t[i] = s[i]
        BY <3>1, <1>2, <1>3
      <4> QED BY <4>1, <1>1 DEF IsInjective, Range
    <3>2. CASE ~(i < at)
      <4>1. i + 1 \in DOMAIN s /\ i + 1 # at /\ t[i] = s[i + 1]
        BY <3>2, <1>2, <1>3
      <4> QED BY <4>1, <1>1 DEF IsInjective, Range
    <3> QED BY <3>1, <3>2
  <2>2. ASSUME NEW i \in DOMAIN s, s[i] # p PROVE s[i] \in Range(t)
    <3>1. CASE i < at
      <4>1. i \in DOMAIN t /\ t[i] = s[i]
        BY <3>1, <1>2, <1>3
      <4> QED BY <4>1 DEF Range
    <3>2. CASE ~(i < at)
      <4>1. i # at
        BY <2>2, <1>1
      <4>2. i - 1 \in DOMAIN t /\ t[i - 1] = s[i]
        BY <3>2, <4>1, <1>2, <1>3
      <4> QED BY <4>2 DEF Range
    <3> QED BY <3>1, <3>2
  <2> HIDE DEF t
  <2> QED BY <2>1, <2>2 DEF Range
<1> HIDE DEF t
<1> QED BY <1>0, <1>3, <1>4, <1>5

\* Moving a whole list keeps its elements and its injectivity.
LEMMA ReversedProps ==
  ASSUME NEW A, NEW s \in Seq(A), IsInjective(s)
  PROVE  /\ Reversed(s) \in Seq(A)
         /\ IsInjective(Reversed(s))
         /\ Range(Reversed(s)) = Range(s)
<1> DEFINE t == Reversed(s)
<1>1. Len(s) \in Nat /\ DOMAIN s = 1 .. Len(s) /\ \A i \in DOMAIN s : s[i] \in A
  OBVIOUS
<1>2. DOMAIN t = 1 .. Len(s) /\ \A i \in 1 .. Len(s) : t[i] = s[Len(s) - i + 1]
  BY DEF Reversed
<1>3. \A i \in 1 .. Len(s) : Len(s) - i + 1 \in 1 .. Len(s)
  BY <1>1
<1>4. t \in Seq(A)
  BY <1>1, <1>3 DEF Reversed
<1>5. IsInjective(t)
  BY <1>1, <1>2, <1>3 DEF IsInjective
<1>6. Range(t) = Range(s)
  <2>1. \A i \in DOMAIN t : t[i] \in Range(s)
    BY <1>1, <1>2, <1>3 DEF Range
  <2>2. ASSUME NEW i \in DOMAIN s PROVE s[i] \in Range(t)
    <3>1. Len(s) - i + 1 \in DOMAIN t /\ t[Len(s) - i + 1] = s[i]
      BY <1>1, <1>2, <1>3
    <3> QED BY <3>1 DEF Range
  <2> QED BY <2>1, <2>2 DEF Range
<1> HIDE DEF t
<1> QED BY <1>4, <1>5, <1>6 DEF t

\* Two disjoint injective lists in a row are an injective list.
LEMMA JoinProps ==
  ASSUME NEW A, NEW s \in Seq(A), NEW t \in Seq(A),
         IsInjective(s), IsInjective(t), Range(s) \cap Range(t) = {}
  PROVE  /\ s \o t \in Seq(A)
         /\ IsInjective(s \o t)
         /\ Range(s \o t) = Range(s) \cup Range(t)
<1> DEFINE c == s \o t
<1>1. /\ c \in Seq(A) /\ Len(s) \in Nat /\ Len(t) \in Nat
      /\ DOMAIN s = 1 .. Len(s) /\ DOMAIN t = 1 .. Len(t)
      /\ DOMAIN c = 1 .. Len(s) + Len(t)
  OBVIOUS
<1>2. \A i \in DOMAIN s : i \in DOMAIN c /\ c[i] = s[i]
  BY <1>1
<1>3. \A i \in DOMAIN t : Len(s) + i \in DOMAIN c /\ c[Len(s) + i] = t[i]
  BY <1>1
<1>4. \A i \in DOMAIN c : \/ i \in DOMAIN s /\ c[i] = s[i]
                          \/ /\ i > Len(s) /\ i - Len(s) \in DOMAIN t
                             /\ c[i] = t[i - Len(s)]
  BY <1>1
<1>5. Range(c) = Range(s) \cup Range(t)
  <2>1. \A i \in DOMAIN c : c[i] \in Range(s) \cup Range(t)
    BY <1>4 DEF Range
  <2>2. \A i \in DOMAIN s : s[i] \in Range(c)
    BY <1>2 DEF Range
  <2>3. \A i \in DOMAIN t : t[i] \in Range(c)
    BY <1>3 DEF Range
  <2> HIDE DEF c
  <2> QED BY <2>1, <2>2, <2>3 DEF Range
<1>6. IsInjective(c)
  <2> HIDE DEF c
  <2> SUFFICES ASSUME NEW i \in DOMAIN c, NEW j \in DOMAIN c, c[i] = c[j] PROVE i = j
    BY DEF IsInjective
  <2>1. CASE i \in DOMAIN s /\ j \in DOMAIN s
    BY <2>1, <1>2 DEF IsInjective
  <2>2. CASE i \notin DOMAIN s /\ j \notin DOMAIN s
    <3>1. i - Len(s) = j - Len(s)
      BY <2>2, <1>4 DEF IsInjective
    <3> QED BY <3>1, <1>1
  <2>3. CASE (i \in DOMAIN s) # (j \in DOMAIN s)
    <3>1. \/ c[i] \in Range(s) /\ c[j] \in Range(t)
          \/ c[i] \in Range(t) /\ c[j] \in Range(s)
      BY <2>3, <1>2, <1>4 DEF Range
    <3> QED BY <3>1
  <2> QED BY <2>1, <2>2, <2>3
<1> HIDE DEF c
<1> QED BY <1>1, <1>5, <1>6 DEF c

-----------------------------------------------------------------------------
(* Taking a node off its list, and the two ways nodes move.                *)

\* change_parent() and remove_proc() unlink: p is on no child list afterwards,
\* and nothing else has moved.
LEMMA UnlinkedProps ==
  ASSUME TypeOK, LinksConsistent, NEW p \in Node
  PROVE  /\ Unlinked(p) \in [Node -> Seq(Node)]
         /\ \A n \in Node : IsInjective(Unlinked(p)[n])
         /\ \A n \in Node : Range(Unlinked(p)[n]) = Range(child[n]) \ {p}
<1> SUFFICES ASSUME NEW n \in Node
             PROVE  /\ Unlinked(p)[n] \in Seq(Node)
                    /\ IsInjective(Unlinked(p)[n])
                    /\ Range(Unlinked(p)[n]) = Range(child[n]) \ {p}
  BY DEF Unlinked
<1>1. child[n] \in Seq(Node) /\ IsInjective(child[n])
      /\ (p \in Range(child[n]) <=> parent[p] = n)
  BY DEF TypeOK, LinksConsistent
<1>2. CASE parent[p] = n
  <2>1. Unlinked(p)[n] = ListDel(child[n], p)
    BY <1>2 DEF Unlinked
  <2> QED BY <1>1, <1>2, <2>1, ListDelProps
<1>3. CASE parent[p] # n
  <2>1. Unlinked(p)[n] = child[n]
    BY <1>3 DEF Unlinked
  <2> QED BY <1>1, <1>3, <2>1
<1> QED BY <1>2, <1>3

\* change_parent(): child lists and parent pointers agree after p has moved.
LEMMA ReparentLinks ==
  ASSUME TypeOK, LinksConsistent, NEW p \in Procs, NEW q \in Node, parent[p] # q,
         p \in hash_table' \cup {1}, q \in hash_table' \cup {0, 1},
         hash_table \subseteq hash_table', Reparent(p, q)
  PROVE  /\ child' \in [Node -> Seq(Node)]
         /\ parent' \in [Node -> Node \cup {None}]
         /\ LinksConsistent'
<1>1. p \in Node /\ p # None /\ None \notin Node
  BY NodeFacts
<1>2. /\ Unlinked(p) \in [Node -> Seq(Node)]
      /\ \A n \in Node : IsInjective(Unlinked(p)[n])
      /\ \A n \in Node : Range(Unlinked(p)[n]) = Range(child[n]) \ {p}
  BY <1>1, UnlinkedProps
<1> DEFINE u == Unlinked(p)
<1>3. child' = [u EXCEPT ![q] = ListAdd(u[q], p)] /\ parent' = [parent EXCEPT ![p] = q]
  BY DEF Reparent
<1> HIDE DEF u
<1>4. /\ u \in [Node -> Seq(Node)]
      /\ \A n \in Node : IsInjective(u[n])
      /\ \A n \in Node : Range(u[n]) = Range(child[n]) \ {p}
  BY <1>2 DEF u
<1>5. /\ ListAdd(u[q], p) \in Seq(Node) /\ IsInjective(ListAdd(u[q], p))
      /\ Range(ListAdd(u[q], p)) = Range(u[q]) \cup {p}
  <2>1. u[q] \in Seq(Node) /\ IsInjective(u[q]) /\ p \notin Range(u[q])
    BY <1>4
  <2> QED BY <1>1, <2>1, ListAddProps
<1>6. child' \in [Node -> Seq(Node)] /\ \A n \in Node : IsInjective(child'[n])
  BY <1>3, <1>4, <1>5
<1>7. parent' \in [Node -> Node \cup {None}]
  BY <1>1, <1>3 DEF TypeOK
<1>8. \A n \in Node : Range(child'[n]) = (Range(child[n]) \ {p}) \cup (IF n = q THEN {p} ELSE {})
  BY <1>3, <1>4, <1>5
<1>9. \A m \in Node : parent'[m] = IF m = p THEN q ELSE parent[m]
  BY <1>3 DEF TypeOK
<1>10. \A n, m \in Node : m \in Range(child'[n]) <=> parent'[m] = n
  BY <1>8, <1>9 DEF LinksConsistent
<1>11. \A n \in Node : parent'[n] # None => n \in Found' /\ parent'[n] \in Found'
  BY <1>9 DEF LinksConsistent, Found
<1> QED BY <1>6, <1>7, <1>10, <1>11 DEF LinksConsistent

\* They agree after a node is freed, whose children init has adopted.
LEMMA ReapLinks ==
  ASSUME TypeOK, LinksConsistent, TreeRoots, NEW p \in Pids, Reap(p)
  PROVE  /\ child' \in [Node -> Seq(Node)]
         /\ parent' \in [Node -> Node \cup {None}]
         /\ LinksConsistent'
<1>1. p \in Node /\ p # 0 /\ p # 1 /\ 1 \in Node /\ None \notin Node
  BY NodeFacts
<1> DEFINE u == Unlinked(p)
<1>2. /\ u \in [Node -> Seq(Node)]
      /\ \A n \in Node : IsInjective(u[n])
      /\ \A n \in Node : Range(u[n]) = Range(child[n]) \ {p}
  BY <1>1, UnlinkedProps
<1> DEFINE r == Reversed(child[p])
<1>3. r \in Seq(Node) /\ IsInjective(r) /\ Range(r) = Range(child[p])
  BY <1>1, ReversedProps DEF TypeOK, LinksConsistent
<1>4. child' = [n \in Node |-> IF n = p THEN <<>> ELSE IF n = 1 THEN r \o u[1] ELSE u[n]]
  BY DEF Reap, Adopt, Free
<1>5. \A n \in Node : parent'[n] = IF n = p THEN None
                                   ELSE IF parent[n] = p THEN 1 ELSE parent[n]
  BY DEF Reap, Adopt, Free
<1> HIDE DEF u, r
<1>6. /\ r \o u[1] \in Seq(Node) /\ IsInjective(r \o u[1])
      /\ Range(r \o u[1]) = Range(r) \cup Range(u[1])
  <2>1. Range(r) \cap Range(u[1]) = {}
    <3>1. \A m \in Node : m \in Range(child[p]) => m \notin Range(child[1])
      BY <1>1 DEF LinksConsistent
    <3>2. Range(child[p]) \subseteq Node
      BY <1>1 DEF TypeOK, Range
    <3> QED BY <1>1, <1>2, <1>3, <3>1, <3>2
  <2>2. u[1] \in Seq(Node) /\ IsInjective(u[1])
    BY <1>1, <1>2
  <2> QED BY <1>3, <2>1, <2>2, JoinProps
<1>7. child' \in [Node -> Seq(Node)]
  BY <1>2, <1>4, <1>6
<1>8. parent' \in [Node -> Node \cup {None}]
  BY <1>1 DEF Reap, Adopt, Free, TypeOK
<1>9. \A n \in Node : IsInjective(child'[n])
  <2>1. IsInjective(<<>>)
    BY DEF IsInjective
  <2> QED BY <1>2, <1>4, <1>6, <2>1
<1>10. \A n \in Node : Range(child'[n]) =
         IF n = p THEN {}
         ELSE IF n = 1 THEN Range(child[p]) \cup (Range(child[1]) \ {p})
         ELSE Range(child[n]) \ {p}
  <2>1. Range(<<>>) = {}
    BY DEF Range
  <2> QED BY <1>1, <1>2, <1>3, <1>4, <1>6, <2>1
<1>11. ASSUME NEW n \in Node, NEW m \in Node
       PROVE  m \in Range(child'[n]) <=> parent'[m] = n
  <2>1. m \in Range(child[n]) <=> parent[m] = n
    BY DEF LinksConsistent
  <2>2. m \in Range(child[p]) <=> parent[m] = p
    BY <1>1 DEF LinksConsistent
  <2>3. parent[p] # p
    BY <1>1 DEF TreeRoots
  <2>4. CASE n = p
    BY <2>4, <1>1, <1>5, <1>10
  <2>5. CASE n = 1
    BY <2>5, <1>1, <1>5, <1>10, <2>1, <2>2, <2>3
  <2>6. CASE n # p /\ n # 1
    BY <2>6, <1>1, <1>5, <1>10, <2>1
  <2> QED BY <2>4, <2>5, <2>6
<1>12. \A n \in Node : parent'[n] # None => n \in Found' /\ parent'[n] \in Found'
  <2>1. Found' = Found \ {p}
    BY <1>1 DEF Reap, Adopt, Free, Found
  <2> QED BY <1>1, <1>5, <2>1 DEF LinksConsistent, Found
<1> QED BY <1>7, <1>8, <1>9, <1>11, <1>12 DEF LinksConsistent
-----------------------------------------------------------------------------
(* The kernel keeps its own table well formed.                             *)

\* A step of the kernel keeps its table typed and well formed.
LEMMA KernelKeeps ==
  ASSUME KernelTypeOK, KernelWellFormed, KernelStep
  PROVE  KernelTypeOK' /\ KernelWellFormed'
<1> USE NodeFacts
<1>1. ASSUME NEW q \in Node, NEW c \in Pids, Fork(q, c)
      PROVE  KernelTypeOK' /\ KernelWellFormed'
  <2>1. q \in Alive \cup {0} /\ c \notin Alive /\ ppid' = [ppid EXCEPT ![c] = q]
    BY <1>1 DEF Fork
  <2>2. KernelTypeOK'
    <3>1. ppid' \in [Procs -> Node \cup {None}]
      BY <2>1 DEF KernelTypeOK
    <3>2. kstate' \in [Procs -> States \cup {None}]
      BY <1>1 DEF Fork, KernelTypeOK
    <3>3. lastpid' \in Nat
      BY <1>1 DEF Fork, KernelTypeOK
    <3> QED BY <3>1, <3>2, <3>3 DEF KernelTypeOK
  <2>3. Alive' = Alive \cup {c}
    BY <2>1 DEF Alive, KernelTypeOK
  <2>4. \A p \in Procs : ppid'[p] = IF p = c THEN q ELSE ppid[p]
    BY <2>1 DEF KernelTypeOK
  <2>5. KernelWellFormed'
    <3>1. ppid'[1] = 0
      BY <2>4 DEF KernelWellFormed
    <3>2. ASSUME NEW p \in Alive' PROVE ppid'[p] \in Alive' \cup {0} /\ ppid'[p] # p
      <4>1. CASE p = c
        BY <4>1, <2>1, <2>3, <2>4
      <4>2. CASE p # c
        <5>1. p \in Alive /\ p \in Procs
          BY <4>2, <2>3 DEF Alive
        <5> QED BY <4>2, <5>1, <2>3, <2>4 DEF KernelWellFormed
      <4> QED BY <4>1, <4>2
    <3> QED BY <3>1, <3>2 DEF KernelWellFormed
  <2> QED BY <2>2, <2>5
<1>2. ASSUME NEW x \in Pids, Exit(x)
      PROVE  KernelTypeOK' /\ KernelWellFormed'
  <2>1. \A c \in Procs : ppid'[c] = IF c = x THEN None
                                    ELSE IF ppid[c] = x THEN 1 ELSE ppid[c]
    BY <1>2 DEF Exit
  <2>2. KernelTypeOK'
    <3>1. ppid' \in [Procs -> Node \cup {None}]
      BY <1>2 DEF Exit, KernelTypeOK
    <3>2. kstate' \in [Procs -> States \cup {None}] /\ lastpid' \in Nat
      BY <1>2 DEF Exit, KernelTypeOK
    <3> QED BY <3>1, <3>2 DEF KernelTypeOK
  <2>3. Alive' = Alive \ {x}
    BY <2>1 DEF Alive
  <2>4. KernelWellFormed'
    <3>1. ppid'[1] = 0
      BY <2>1 DEF KernelWellFormed
    <3>2. 1 \in Alive'
      BY <3>1 DEF Alive
    <3>3. ASSUME NEW p \in Alive' PROVE ppid'[p] \in Alive' \cup {0} /\ ppid'[p] # p
      <4>1. p \in Alive /\ p # x /\ p \in Procs
        BY <2>3 DEF Alive
      <4>2. CASE ppid[p] = x
        <5>1. ppid'[p] = 1
          BY <4>1, <4>2, <2>1
        <5>2. p # 1
          BY <4>2 DEF KernelWellFormed
        <5> QED BY <5>1, <5>2, <3>2
      <4>3. CASE ppid[p] # x
        BY <4>1, <4>3, <2>1, <2>3 DEF KernelWellFormed
      <4> QED BY <4>2, <4>3
    <3> QED BY <3>1, <3>3 DEF KernelWellFormed
  <2> QED BY <2>2, <2>4
<1>3. ASSUME NEW x \in Procs, ChangeState(x)
      PROVE  KernelTypeOK' /\ KernelWellFormed'
  BY <1>3 DEF ChangeState, KernelTypeOK, KernelWellFormed, Alive
<1> QED BY <1>1, <1>2, <1>3 DEF KernelStep

-----------------------------------------------------------------------------
(* The inductive invariant.                                                *)

\* The invariant holds when the program starts.
LEMMA InitIInv == PTInit => IInv
<1> SUFFICES ASSUME PTInit PROVE IInv
  OBVIOUS
<1> USE NodeFacts DEF PTInit
<1>1. KernelTypeOK /\ KernelWellFormed
  <2>1. \A p \in Procs : ppid[p] = IF p = 1 THEN 0 ELSE None
    BY DEF KernelInit
  <2>2. Alive = {1}
    BY <2>1 DEF Alive
  <2> QED BY <2>1, <2>2 DEF KernelInit, KernelTypeOK, KernelWellFormed
<1>2. TypeOK
  <2>1. child \in [Node -> Seq(Node)]
    OBVIOUS
  <2> QED BY <1>1, <2>1 DEF TypeOK
<1>3. ListsPartition /\ PrivLive /\ TreeRoots
  BY DEF ListsPartition, PrivLive, TreeRoots
<1>4. LinksConsistent
  <2>1. \A n \in Node : Range(child[n]) = {} /\ IsInjective(child[n])
    BY DEF Range, IsInjective
  <2> QED BY <2>1 DEF LinksConsistent
<1>5. ScanProgress /\ QuietUpdate /\ TreeIsKernel
  BY DEF ScanProgress, QuietUpdate, TreeIsKernel
<1> QED BY <1>1, <1>2, <1>3, <1>4, <1>5 DEF IInv

\* The kernel moves: the tree is untouched, and dirty says so.
LEMMA KernelMovesIInv == IInv /\ KernelMoves => IInv'
<1> SUFFICES ASSUME IInv, KernelMoves PROVE IInv'
  OBVIOUS
<1> USE DEF IInv
<1>0. /\ UNCHANGED <<parent, child, state, hash_table, main_list, old_list, priv, phase, seen>>
      /\ dirty' = TRUE /\ KernelStep
  BY DEF KernelMoves, treeVars
<1>1. KernelTypeOK' /\ KernelWellFormed'
  BY <1>0, KernelKeeps DEF TypeOK
<1>2. TypeOK'
  <2>1. fresh' \subseteq Procs
    BY DEF KernelMoves, TypeOK
  <2> QED BY <1>0, <1>1, <2>1 DEF TypeOK
<1>3. ListsPartition' /\ LinksConsistent' /\ PrivLive' /\ TreeRoots'
  BY <1>0 DEF ListsPartition, LinksConsistent, PrivLive, TreeRoots, Found
<1>4. ScanProgress' /\ TreeIsKernel'
  BY <1>0 DEF ScanProgress, TreeIsKernel
<1>5. QuietUpdate'
  BY <1>0 DEF QuietUpdate, KernelMoves
<1> QED BY <1>1, <1>2, <1>3, <1>4, <1>5

\* main_list becomes old_list.
LEMMA StartUpdateIInv == IInv /\ StartUpdate => IInv'
<1> SUFFICES ASSUME IInv, StartUpdate PROVE IInv'
  OBVIOUS
<1> USE DEF IInv
<1>0. /\ UNCHANGED <<ppid, kstate, lastpid, parent, child, state, hash_table, priv>>
      /\ phase = "idle" /\ old_list' = main_list /\ main_list' = {}
      /\ phase' = "scan" /\ seen' = 0 /\ fresh' = {} /\ dirty' = FALSE
  BY DEF StartUpdate, kernelVars
<1>1. TypeOK' /\ KernelWellFormed'
  BY <1>0 DEF TypeOK, KernelTypeOK, KernelWellFormed, Alive
<1>2. ListsPartition' /\ LinksConsistent' /\ PrivLive' /\ TreeRoots'
  BY <1>0 DEF ListsPartition, LinksConsistent, PrivLive, TreeRoots, Found
<1>3. ScanProgress'
  <2>1. \A p \in Alive : ~(p <= 0)
    <3>1. \A p \in Procs : p \in Nat /\ p # 0
      BY NodeFacts
    <3> QED BY <3>1 DEF Alive
  <2> QED BY <1>0, <2>1 DEF ScanProgress, Alive
<1>4. QuietUpdate' /\ TreeIsKernel'
  BY <1>0 DEF QuietUpdate, TreeIsKernel
<1> QED BY <1>1, <1>2, <1>3, <1>4

\* One /proc entry: its node and that of its parent are validated, in the
\* right place, so that ScanProgress reaches up to it.
LEMMA ReadEntryIInv == ASSUME NEW p \in Procs PROVE IInv /\ ReadEntry(p) => IInv'
<1> SUFFICES ASSUME IInv, ReadEntry(p) PROVE IInv'
  OBVIOUS
<1> USE NodeFacts DEF IInv
<1> DEFINE q == ppid[p]
<1>0. /\ UNCHANGED <<ppid, kstate, lastpid, phase, fresh, dirty>>
      /\ phase = "scan" /\ p \in Alive /\ p > seen /\ Passed(p) /\ seen' = p
      /\ Validate({p, q}, kstate[p])
      /\ IF parent[p] # q THEN Reparent(p, q) ELSE UNCHANGED <<priv, child, parent>>
  BY DEF ReadEntry, kernelVars
<1>1. q \in Node /\ q # p /\ q \in Alive \cup {0} /\ p \in Node
  <2>1. q # None /\ q \in Node \cup {None}
    BY <1>0 DEF Alive, TypeOK, KernelTypeOK
  <2> QED BY <1>0, <2>1 DEF KernelWellFormed
<1>2. /\ hash_table' = hash_table \cup ({p, q} \ {0, 1})
      /\ main_list' = main_list \cup ({p, q} \ {0, 1})
      /\ old_list' = old_list \ {p, q}
  BY <1>0 DEF Validate
<1> HIDE DEF q
<1>3. {p, q} \ {0, 1} \subseteq Pids
  BY <1>1 DEF Node, Procs
<1>4. Found' = Found \cup {p, q}
  BY <1>2 DEF Found
<1>5. KernelTypeOK' /\ KernelWellFormed' /\ Alive' = Alive
  BY <1>0 DEF TypeOK, KernelTypeOK, KernelWellFormed, Alive
<1>6. ListsPartition'
  <2>1. old_list \subseteq Pids /\ hash_table = main_list \cup old_list
        /\ main_list \cap old_list = {}
    BY DEF ListsPartition, TypeOK
  <2>2. old_list \cap {0, 1} = {}
    BY <2>1
  <2>3. hash_table' = main_list' \cup old_list' /\ main_list' \cap old_list' = {}
    BY <1>2, <2>1, <2>2
  <2> QED BY <1>0, <2>3 DEF ListsPartition
<1>7. /\ child' \in [Node -> Seq(Node)]
      /\ parent' \in [Node -> Node \cup {None}]
      /\ LinksConsistent'
  <2>1. CASE parent[p] # q
    <3>1. /\ p \in hash_table' \cup {1} /\ q \in hash_table' \cup {0, 1}
          /\ hash_table \subseteq hash_table'
      BY <1>1, <1>2
    <3> QED BY <1>0, <1>1, <2>1, <3>1, ReparentLinks
  <2>2. CASE parent[p] = q
    <3>1. UNCHANGED <<child, parent>>
      BY <1>0, <2>2
    <3> QED BY <3>1, <1>4 DEF LinksConsistent, TypeOK
  <2> QED BY <2>1, <2>2
<1>8. \A n \in Node : parent'[n] = IF n = p THEN q ELSE parent[n]
  <2>1. CASE parent[p] # q
    BY <1>0, <2>1 DEF Reparent, TypeOK
  <2>2. CASE parent[p] = q
    BY <1>0, <2>2
  <2> QED BY <2>1, <2>2
<1>9. priv' \subseteq priv
  BY <1>0 DEF Reparent
<1>10. TypeOK'
  <2>1. state' \in [Node -> States \cup {None}]
    BY <1>0, <1>1 DEF Validate, TypeOK, KernelTypeOK
  <2>2. /\ hash_table' \subseteq Pids /\ main_list' \subseteq Pids
        /\ old_list' \subseteq Pids /\ priv' \subseteq Node
    BY <1>2, <1>3, <1>9 DEF TypeOK
  <2>3. seen' \in Procs \cup {0} /\ phase' \in {"idle", "scan", "reap"}
        /\ fresh' \subseteq Procs /\ dirty' \in BOOLEAN
    BY <1>0 DEF TypeOK
  <2> QED BY <1>5, <1>7, <2>1, <2>2, <2>3 DEF TypeOK
<1>11. PrivLive'
  BY <1>4, <1>9 DEF PrivLive
<1>12. TreeRoots'
  <2>1. p = 1 => q = 0
    BY DEF KernelWellFormed, q
  <2> QED BY <1>1, <1>8, <2>1 DEF TreeRoots
<1>13. ScanProgress'
  <2> SUFFICES ASSUME ~dirty
               PROVE  /\ fresh' = {} /\ main_list' \subseteq Alive
                      /\ \A a \in Alive : a <= p => parent'[a] = ppid[a] /\ a \in main_list' \cup {1}
    BY <1>0, <1>5 DEF ScanProgress
  <2>1. fresh = {} /\ main_list \subseteq Alive
        /\ \A a \in Alive : a <= seen => parent[a] = ppid[a] /\ a \in main_list \cup {1}
    BY <1>0 DEF ScanProgress
  <2>2. main_list' \subseteq Alive
    BY <1>0, <1>1, <1>2, <2>1
  <2>3. ASSUME NEW a \in Alive, a <= p
        PROVE  parent'[a] = ppid[a] /\ a \in main_list' \cup {1}
    <3>1. a \in Procs /\ a \in Nat /\ p \in Nat /\ seen \in Nat /\ a \in Node
      BY DEF Alive, TypeOK
    <3>2. a <= seen \/ a = p
      BY <1>0, <2>1, <2>3, <3>1 DEF Passed
    <3>3. CASE a = p
      BY <3>1, <3>3, <1>2, <1>8 DEF q
    <3>4. CASE a # p /\ a <= seen
      BY <3>1, <3>4, <2>1, <1>2, <1>8
    <3> QED BY <3>2, <3>3, <3>4
  <2> QED BY <1>0, <2>1, <2>2, <2>3
<1>14. QuietUpdate' /\ TreeIsKernel'
  BY <1>0 DEF QuietUpdate, TreeIsKernel
<1> QED BY <1>5, <1>6, <1>7, <1>10, <1>11, <1>12, <1>13, <1>14

\* When all entries have been read, every process has been passed.
LEMMA EndScanIInv == IInv /\ EndScan => IInv'
<1> SUFFICES ASSUME IInv, EndScan PROVE IInv'
  OBVIOUS
<1> USE DEF IInv
<1>0. /\ UNCHANGED <<ppid, kstate, lastpid, parent, child, state, hash_table,
                     main_list, old_list, priv, seen, dirty>>
      /\ phase = "scan" /\ phase' = "reap" /\ fresh' = {}
      /\ \A q \in Alive : q > seen => q \in fresh
  BY DEF EndScan, kernelVars, treeVars
<1>1. TypeOK' /\ KernelWellFormed' /\ Alive' = Alive
  BY <1>0 DEF TypeOK, KernelTypeOK, KernelWellFormed, Alive
<1>2. ListsPartition' /\ LinksConsistent' /\ PrivLive' /\ TreeRoots'
  BY <1>0 DEF ListsPartition, LinksConsistent, PrivLive, TreeRoots, Found
<1>3. ScanProgress'
  <2> SUFFICES ASSUME ~dirty, NEW a \in Alive
               PROVE  parent[a] = ppid[a] /\ a \in main_list \cup {1}
    BY <1>0, <1>1 DEF ScanProgress
  <2>1. a <= seen
    <3>1. ~(a > seen)
      BY <1>0 DEF ScanProgress
    <3>2. a \in Nat /\ seen \in Nat
      BY NodeFacts DEF Alive, TypeOK
    <3> QED BY <3>1, <3>2
  <2> QED BY <1>0, <2>1 DEF ScanProgress
<1>4. QuietUpdate' /\ TreeIsKernel'
  BY <1>0 DEF QuietUpdate, TreeIsKernel
<1> QED BY <1>1, <1>2, <1>3, <1>4

\* One unseen node is freed; in a quiet update no process is under it.
LEMMA ReapIInv == ASSUME NEW p \in Pids PROVE IInv /\ Reap(p) => IInv'
<1> SUFFICES ASSUME IInv, Reap(p) PROVE IInv'
  OBVIOUS
<1> USE NodeFacts DEF IInv
<1>0. /\ UNCHANGED <<ppid, kstate, lastpid, main_list, phase, seen, fresh, dirty>>
      /\ phase = "reap" /\ p \in old_list /\ priv' = priv \ {p}
      /\ hash_table' = hash_table \ {p} /\ old_list' = old_list \ {p}
      /\ state' = [state EXCEPT ![p] = None]
  BY DEF Reap, Adopt, Free, kernelVars, scanVars
<1>1. KernelTypeOK' /\ KernelWellFormed' /\ Alive' = Alive
  BY <1>0 DEF TypeOK, KernelTypeOK, KernelWellFormed, Alive
<1>2. /\ child' \in [Node -> Seq(Node)]
      /\ parent' \in [Node -> Node \cup {None}]
      /\ LinksConsistent'
  BY ReapLinks
<1>3. TypeOK'
  <2>1. state' \in [Node -> States \cup {None}]
    BY <1>0 DEF TypeOK
  <2>2. /\ hash_table' \subseteq Pids /\ main_list' \subseteq Pids
        /\ old_list' \subseteq Pids /\ priv' \subseteq Node
    BY <1>0 DEF TypeOK
  <2>3. seen' \in Procs \cup {0} /\ phase' \in {"idle", "scan", "reap"}
        /\ fresh' \subseteq Procs /\ dirty' \in BOOLEAN
    BY <1>0 DEF TypeOK
  <2> QED BY <1>1, <1>2, <2>1, <2>2, <2>3 DEF TypeOK
<1>4. ListsPartition'
  <2>1. p \notin main_list
    BY <1>0 DEF ListsPartition
  <2> QED BY <1>0, <2>1 DEF ListsPartition
<1>5. PrivLive'
  BY <1>0 DEF PrivLive, Found
<1>6. \A n \in Node : parent'[n] = IF n = p THEN None
                                   ELSE IF parent[n] = p THEN 1 ELSE parent[n]
  BY DEF Reap, Adopt, Free
<1>7. TreeRoots'
  <2>1. parent'[0] = None
    BY <1>6 DEF TreeRoots
  <2>2. parent'[1] \in {None, 0}
    BY <1>6 DEF TreeRoots
  <2>3. ASSUME NEW n \in Node PROVE parent'[n] # n
    <3>1. parent[1] # p
      BY DEF TreeRoots
    <3> QED BY <3>1, <1>6 DEF TreeRoots
  <2> QED BY <2>1, <2>2, <2>3 DEF TreeRoots
<1>8. ScanProgress'
  <2> SUFFICES ASSUME ~dirty
               PROVE  \A a \in Alive : parent'[a] = ppid[a] /\ a \in main_list \cup {1}
    BY <1>0, <1>1 DEF ScanProgress
  <2>1. /\ main_list \subseteq Alive
        /\ \A a \in Alive : parent[a] = ppid[a] /\ a \in main_list \cup {1}
    BY <1>0 DEF ScanProgress
  <2>2. p \notin Alive
    BY <1>0, <2>1 DEF ListsPartition
  <2>3. ASSUME NEW a \in Alive PROVE parent'[a] = ppid[a]
    <3>1. a \in Node /\ a # p /\ ppid[a] # p
      BY <2>2 DEF Alive, KernelWellFormed
    <3> QED BY <3>1, <2>1, <1>6
  <2> QED BY <2>1, <2>3
<1>9. QuietUpdate' /\ TreeIsKernel'
  BY <1>0 DEF QuietUpdate, TreeIsKernel
<1> QED BY <1>1, <1>2, <1>3, <1>4, <1>5, <1>7, <1>8, <1>9

\* With old_list empty the tree is the table of the kernel.
LEMMA EndUpdateIInv == IInv /\ EndUpdate => IInv'
<1> SUFFICES ASSUME IInv, EndUpdate PROVE IInv'
  OBVIOUS
<1> USE DEF IInv
<1>0. /\ UNCHANGED <<ppid, kstate, lastpid, parent, child, state, hash_table,
                     main_list, old_list, priv, fresh, dirty>>
      /\ phase = "reap" /\ old_list = {} /\ phase' = "idle" /\ seen' = 0
  BY DEF EndUpdate, kernelVars, treeVars
<1>1. TypeOK' /\ KernelWellFormed' /\ Alive' = Alive
  BY <1>0 DEF TypeOK, KernelTypeOK, KernelWellFormed, Alive
<1>2. ListsPartition' /\ LinksConsistent' /\ PrivLive' /\ TreeRoots'
  BY <1>0 DEF ListsPartition, LinksConsistent, PrivLive, TreeRoots, Found
<1>3. ScanProgress' /\ QuietUpdate'
  BY <1>0 DEF ScanProgress, QuietUpdate
<1>4. TreeIsKernel'
  <2> SUFFICES ASSUME ~dirty
               PROVE  hash_table = Alive \ {1} /\ \A p \in Alive : parent[p] = ppid[p]
    BY <1>0, <1>1 DEF TreeIsKernel
  <2>1. /\ main_list \subseteq Alive
        /\ \A p \in Alive : parent[p] = ppid[p] /\ p \in main_list \cup {1}
    BY <1>0 DEF ScanProgress
  <2>2. hash_table = main_list /\ 1 \notin main_list
    BY <1>0, NodeFacts DEF ListsPartition, TypeOK
  <2> QED BY <2>1, <2>2
<1> QED BY <1>1, <1>2, <1>3, <1>4

\* The list attaches its lines to nodes that exist.
LEMMA ClientIInv == IInv /\ Client => IInv'
<1> SUFFICES ASSUME IInv, Client PROVE IInv'
  OBVIOUS
<1> USE DEF IInv
<1>0. /\ UNCHANGED <<ppid, kstate, lastpid, parent, child, state, hash_table,
                     main_list, old_list, phase, seen, fresh, dirty>>
      /\ priv' \subseteq Found
  BY DEF Client, kernelVars, scanVars
<1>1. Found \subseteq Node
  BY NodeFacts DEF Found, TypeOK
<1>2. TypeOK' /\ KernelWellFormed' /\ Alive' = Alive
  BY <1>0, <1>1 DEF TypeOK, KernelTypeOK, KernelWellFormed, Alive
<1>3. ListsPartition' /\ LinksConsistent' /\ PrivLive' /\ TreeRoots'
  BY <1>0 DEF ListsPartition, LinksConsistent, PrivLive, TreeRoots, Found
<1>4. ScanProgress' /\ QuietUpdate' /\ TreeIsKernel'
  BY <1>0, <1>2 DEF ScanProgress, QuietUpdate, TreeIsKernel
<1> QED BY <1>2, <1>3, <1>4

\* Nothing changes.
LEMMA StutterIInv == IInv /\ UNCHANGED ptVars => IInv'
<1> SUFFICES ASSUME IInv, UNCHANGED ptVars PROVE IInv'
  OBVIOUS
<1> USE DEF IInv, ptVars, kernelVars, treeVars, scanVars
<1>1. TypeOK' /\ KernelWellFormed' /\ Alive' = Alive
  BY DEF TypeOK, KernelTypeOK, KernelWellFormed, Alive
<1>2. ListsPartition' /\ LinksConsistent' /\ PrivLive' /\ TreeRoots'
  BY DEF ListsPartition, LinksConsistent, PrivLive, TreeRoots, Found
<1>3. ScanProgress' /\ QuietUpdate' /\ TreeIsKernel'
  BY <1>1 DEF ScanProgress, QuietUpdate, TreeIsKernel
<1> QED BY <1>1, <1>2, <1>3

\* All steps together.
LEMMA NextIInv == IInv /\ [PTNext]_ptVars => IInv'
  BY KernelMovesIInv, StartUpdateIInv, ReadEntryIInv, EndScanIInv, ReapIInv,
     EndUpdateIInv, ClientIInv, StutterIInv DEF PTNext, Continue

\* IInv holds in every reachable state of every update, with the kernel moving
\* during the scan and pids being reused or not.
THEOREM Invariant == PTSafe => []IInv
<1>1. PTInit => IInv
  BY InitIInv
<1>2. IInv /\ [PTNext]_ptVars => IInv'
  BY NextIInv
<1> QED BY <1>1, <1>2, PTL DEF PTSafe

\* Every variable stays in its type.
THEOREM TypeCorrect == PTSafe => []TypeOK
  BY Invariant, PTL DEF IInv

\* Every malloced node of proctree.c is on exactly one of the two lists.
THEOREM PartitionKept == PTSafe => []ListsPartition
  BY Invariant, PTL DEF IInv

\* Child lists and parent pointers agree, and no pointer leads to a freed node.
THEOREM LinksKept == PTSafe => []LinksConsistent
  BY Invariant, PTL DEF IInv

\* The client never keeps a pointer into a freed node.
THEOREM PrivKept == PTSafe => []PrivLive
  BY Invariant, PTL DEF IInv

\* An update during which the kernel does not move turns any tree, however
\* stale, into the kernel's process table.
THEOREM QuietUpdateExact == PTSafe => []TreeIsKernel
  BY Invariant, PTL DEF IInv

\* Where the kernel moves only between updates, update_tree() calls del for
\* every displayed node that it moves and keeps.
THEOREM MovesAreReported == ASSUME ~Live PROVE PTSafe => NoSilentMove
<1> DEFINE A == \A n \in priv \ old_list : parent'[n] # parent[n] => n \notin priv'
<1>1. IInv /\ [PTNext]_ptVars => [A]_ptVars
  <2> SUFFICES ASSUME IInv, PTNext, NEW n \in priv \ old_list, parent'[n] # parent[n]
               PROVE  n \notin priv'
    OBVIOUS
  <2> USE NodeFacts
  <2>0. n \in Node
    BY DEF IInv, TypeOK
  <2>1. CASE KernelMoves \/ StartUpdate \/ EndScan \/ EndUpdate \/ Client
    BY <2>1 DEF KernelMoves, StartUpdate, EndScan, EndUpdate, Client, treeVars
  <2>2. ASSUME NEW p \in Procs, ReadEntry(p) PROVE n \notin priv'
    <3>1. Reparent(p, ppid[p])
      BY <2>2 DEF ReadEntry
    <3>2. n = p
      BY <2>0, <3>1 DEF Reparent, IInv, TypeOK
    <3>3. p \in Marked(p)
      BY <2>2 DEF Marked
    <3> QED BY <3>1, <3>2, <3>3 DEF Reparent
  <2>3. ASSUME NEW p \in Pids, Reap(p) PROVE n \notin priv'
    <3>1. parent'[n] = IF n = p THEN None ELSE IF parent[n] = p THEN 1 ELSE parent[n]
      BY <2>0, <2>3 DEF Reap, Adopt, Free
    <3>2. CASE n = p
      BY <2>3, <3>2 DEF Reap, Adopt, Free
    <3>3. CASE n # p
      <4>1. parent[n] = p
        BY <3>1, <3>3
      <4>2. phase = "reap" /\ p \in old_list /\ ~dirty
        BY <2>3 DEF Reap, Adopt, Free, IInv, QuietUpdate
      <4>3. /\ main_list \subseteq Alive
            /\ \A a \in Alive : parent[a] = ppid[a] /\ a \in main_list \cup {1}
        BY <4>2 DEF IInv, ScanProgress
      <4>4. p \notin Alive
        BY <4>2, <4>3 DEF IInv, ListsPartition
      <4>5. n # 0 /\ n # 1
        BY <4>1 DEF IInv, TreeRoots
      <4>6. n \in main_list
        BY <4>5 DEF IInv, PrivLive, Found, ListsPartition
      <4>7. n \in Alive /\ parent[n] = ppid[n]
        BY <4>3, <4>6
      <4>8. p \in Alive \cup {0}
        BY <4>1, <4>7 DEF IInv, KernelWellFormed
      <4> QED BY <4>4, <4>8
    <3> QED BY <3>2, <3>3
  <2> QED BY <2>1, <2>2, <2>3 DEF PTNext, Continue
<1> QED BY <1>1, Invariant, PTL DEF PTSafe, NoSilentMove

-----------------------------------------------------------------------------
(* No cycles: with a kernel that stands still during scans, or with pids   *)
(* that ascend for ever.                                                   *)

\* Every set of nodes of D has one whose parent is outside of it, so that no way
\* along the parents comes back to where it began, or to another node twice.
Grounded(f, D) == \A A \in SUBSET D : A # {} => \E a \in A : f[a] \notin A

\* Then no node is below itself: without the one whose parent is not below n,
\* the nodes below n would still be closed under the child lists.
LEMMA NotBelowItself ==
  ASSUME LinksConsistent, NEW D \in SUBSET Node, Grounded(parent, D), NEW n \in D
  PROVE  n \notin Below(n, D)
<1> DEFINE B == Below(n, D)
           Closed(S) == \A m \in S \cup {n} : Range(child[m]) \cap D \subseteq S
<1>1. B \subseteq D
  BY DEF Below
<1>2. SUFFICES ASSUME n \in B PROVE FALSE
  OBVIOUS
<1>3. PICK a \in B : parent[a] \notin B
  BY <1>1, <1>2 DEF Grounded
<1>4. \A S \in SUBSET D : Closed(S) => B \subseteq S
  BY DEF Below
<1>5. \A d \in D : (\A S \in SUBSET D : Closed(S) => d \in S) => d \in B
  BY DEF Below
<1> HIDE DEF B
<1>6. Closed(B \ {a})
  <2> SUFFICES ASSUME NEW m \in (B \ {a}) \cup {n}, NEW c \in Range(child[m]) \cap D
               PROVE  c \in B \ {a}
    OBVIOUS
  <2>1. m \in B /\ m \in Node /\ c \in Node
    BY <1>1, <1>2
  <2>2. parent[c] = m
    BY <2>1 DEF LinksConsistent
  <2>3. ASSUME NEW S \in SUBSET D, Closed(S) PROVE c \in S
    BY <1>4, <2>1, <2>3
  <2>4. c \in B
    BY <1>5, <2>3
  <2> QED BY <1>3, <2>1, <2>2, <2>4
<1>7. B \ {a} \in SUBSET D
  BY <1>1
<1> HIDE DEF Closed
<1>8. B \subseteq B \ {a}
  BY <1>4, <1>6, <1>7
<1> QED BY <1>3, <1>8

\* A set of pids has a least one.
LEMMA LeastPid == ASSUME NEW A \in SUBSET Nat, A # {} PROVE \E a \in A : \A b \in A : a <= b
<1> DEFINE R == {ss \in Nat \X Nat : ss[1] < ss[2]}
<1>1. IsWellFoundedOn(R, Nat)
  BY NatLessThanWellFounded DEF OpToRel
<1> HIDE DEF R
<1>2. PICK a \in A : \A b \in A : <<b, a>> \notin R
  BY <1>1, WFMin
<1>3. ASSUME NEW b \in A PROVE a <= b
  <2>1. <<b, a>> \notin R /\ b \in Nat /\ a \in Nat
    BY <1>2
  <2> QED BY <2>1 DEF R
<1> QED BY <1>3

\* Where pids ascend for ever a process has a higher pid than its parent, and so
\* has every node.
Ascending ==
  /\ \A p \in Alive : p <= lastpid /\ ppid[p] < p
  /\ \A n \in Node : parent[n] # None => parent[n] < n

LEMMA AscendingGrounded == ASSUME IInv, Ascending PROVE Grounded(parent, Node)
<1> SUFFICES ASSUME NEW A \in SUBSET Node, A # {} PROVE \E a \in A : parent[a] \notin A
  BY DEF Grounded
<1>1. A \in SUBSET Nat /\ None \notin A
  BY NodeFacts
<1>2. PICK a \in A : \A b \in A : a <= b
  BY <1>1, LeastPid
<1>3. parent[a] \in A => parent[a] # None /\ parent[a] < a /\ a <= parent[a] /\ parent[a] \in Nat /\ a \in Nat
  BY <1>1, <1>2 DEF Ascending
<1>4. parent[a] \notin A
  BY <1>3
<1> QED BY <1>4

LEMMA AscendingNext == ASSUME ~PidsWrap, IInv, Ascending, [PTNext]_ptVars PROVE Ascending'
<1>0. /\ Node \subseteq Nat /\ None \notin Node /\ Alive \subseteq Node /\ 0 \in Node
      /\ lastpid \in Nat /\ ppid \in [Procs -> Node \cup {None}]
      /\ parent \in [Node -> Node \cup {None}]
  BY NodeFacts DEF IInv, TypeOK, KernelTypeOK, Alive
<1> USE <1>0
<1>1. CASE KernelMoves
  <2>1. parent' = parent
    BY <1>1 DEF KernelMoves, treeVars
  <2>2. ASSUME NEW q \in Node, NEW c \in Pids, Fork(q, c)
        PROVE  \A p \in Alive' : p <= lastpid' /\ ppid'[p] < p
    <3>1. /\ c > lastpid /\ lastpid' = c /\ ppid' = [ppid EXCEPT ![c] = q] /\ c \in Procs
          /\ c \in Nat /\ c # 0
      BY <2>2, NodeFacts DEF Fork
    <3>2. q < c
      <4>1. CASE q = 0
        BY <3>1, <4>1
      <4>2. CASE q # 0
        <5>1. q \in Alive /\ q \in Nat
          BY <2>2, <4>2 DEF Fork
        <5>2. q <= lastpid
          BY <5>1 DEF Ascending
        <5> QED BY <3>1, <5>1, <5>2
      <4> QED BY <4>1, <4>2
    <3>3. ASSUME NEW p \in Alive' PROVE p <= lastpid' /\ ppid'[p] < p
      <4>1. CASE p = c
        BY <3>1, <3>2, <4>1
      <4>2. CASE p # c
        <5>1. p \in Alive /\ ppid'[p] = ppid[p] /\ p \in Nat
          BY <3>1, <4>2, NodeFacts DEF Alive
        <5>2. p <= lastpid /\ ppid[p] < p
          BY <5>1 DEF Ascending
        <5> QED BY <3>1, <5>1, <5>2
      <4> QED BY <4>1, <4>2
    <3> QED BY <3>3
  <2>3. ASSUME NEW x \in Pids, Exit(x)
        PROVE  \A p \in Alive' : p <= lastpid' /\ ppid'[p] < p
    <3>1. /\ lastpid' = lastpid /\ x \in Nat /\ x > 1
          /\ \A p \in Procs : ppid'[p] = IF p = x THEN None
                                         ELSE IF ppid[p] = x THEN 1 ELSE ppid[p]
      <4>1. x \in Nat /\ x # 0 /\ x # 1
        BY NodeFacts
      <4> QED BY <2>3, <4>1 DEF Exit
    <3>2. ASSUME NEW p \in Alive' PROVE p <= lastpid' /\ ppid'[p] < p
      <4>1. p \in Procs /\ p \in Alive /\ p # x /\ p \in Nat
        BY <3>1, NodeFacts DEF Alive
      <4>2. p <= lastpid /\ ppid[p] < p
        BY <4>1 DEF Ascending
      <4> QED BY <3>1, <4>1, <4>2
    <3> QED BY <3>2
  <2>4. ASSUME NEW x \in Procs, ChangeState(x)
        PROVE  \A p \in Alive' : p <= lastpid' /\ ppid'[p] < p
    BY <2>4 DEF ChangeState, Alive, Ascending
  <2> QED BY <1>1, <2>1, <2>2, <2>3, <2>4 DEF KernelMoves, KernelStep, Ascending
<1>2. ASSUME NEW p \in Procs, ReadEntry(p) PROVE Ascending'
  <2>1. /\ p \in Alive /\ ppid' = ppid /\ lastpid' = lastpid
        /\ parent' = parent \/ parent' = [parent EXCEPT ![p] = ppid[p]]
    BY <1>2 DEF ReadEntry, Reparent, kernelVars
  <2> QED BY <2>1 DEF Ascending, Alive
<1>3. ASSUME NEW p \in Pids, Reap(p) PROVE Ascending'
  <2>1. /\ ppid' = ppid /\ lastpid' = lastpid /\ p \in Nat /\ p > 1
        /\ \A n \in Node : parent'[n] = IF n = p THEN None
                                        ELSE IF parent[n] = p THEN 1 ELSE parent[n]
    <3>1. p \in Nat /\ p # 0 /\ p # 1
      BY NodeFacts
    <3> QED BY <1>3, <3>1 DEF Reap, Adopt, kernelVars
  <2>2. ASSUME NEW n \in Node, parent'[n] # None PROVE parent'[n] < n
    <3>1. n \in Nat /\ n # p
      BY <2>1, <2>2
    <3>2. parent'[n] = IF parent[n] = p THEN 1 ELSE parent[n]
      BY <2>1, <3>1
    <3>3. parent[n] # None
      <4>1. p # None
        BY NodeFacts
      <4> QED BY <2>2, <3>2, <4>1
    <3>4. parent[n] < n
      BY <3>3 DEF Ascending
    <3> QED BY <2>1, <3>1, <3>2, <3>4
  <2> QED BY <2>1, <2>2 DEF Ascending, Alive
<1>4. CASE UNCHANGED <<ppid, lastpid, parent>>
  BY <1>4 DEF Ascending, Alive
<1> QED BY <1>1, <1>2, <1>3, <1>4
        DEF PTNext, Continue, StartUpdate, EndScan, EndUpdate, Client, ptVars, kernelVars,
            treeVars

\* Where the kernel does not move during a scan: what the scan finds has no
\* cycle, and it drops the line of a node, and those below, before it moves it.
Unlooped ==
  /\ Grounded(ppid, Alive) /\ Grounded(parent, priv)
  /\ phase = "idle" => Grounded(parent, Node)

\* Who leaves a set whose parent he is hands his children to init.
LEMMA HandedToInit ==
  ASSUME NEW f, NEW g, NEW D, NEW p, Grounded(f, D), p # 0, p # 1, p # None,
         g[1] \in {0, None}, 0 \in D => g[0] = None, None \notin D,
         \A n \in D \ {p} : g[n] = IF f[n] = p THEN 1 ELSE f[n]
  PROVE  Grounded(g, D \ {p})
<1> SUFFICES ASSUME NEW A \in SUBSET (D \ {p}), A # {} PROVE \E a \in A : g[a] \notin A
  BY DEF Grounded
<1>1. PICK a \in A : f[a] \notin A
  BY DEF Grounded
<1>2. CASE 1 \in A /\ g[1] \notin A
  BY <1>2
<1>3. CASE 1 \in A /\ g[1] \in A
  <2>1. 0 \in A /\ g[0] = None /\ None \notin A
    BY <1>3
  <2> QED BY <2>1
<1>4. CASE 1 \notin A
  BY <1>1, <1>4
<1> QED BY <1>2, <1>3, <1>4

LEMMA KernelUnlooped ==
  ASSUME IInv, Grounded(ppid, Alive), KernelStep PROVE Grounded(ppid', Alive')
<1>1. /\ ppid \in [Procs -> Node \cup {None}] /\ None \notin Node /\ 0 \notin Procs
      /\ Alive \subseteq Procs /\ Procs \subseteq Node /\ ppid[1] = 0 /\ 1 \in Procs
      /\ \A p \in Alive : ppid[p] \in Alive \cup {0}
  BY NodeFacts DEF IInv, TypeOK, KernelTypeOK, KernelWellFormed, Alive
<1>2. ASSUME NEW q \in Node, NEW c \in Pids, Fork(q, c) PROVE Grounded(ppid', Alive')
  <2>1. /\ c \in Procs /\ c \notin Alive /\ q \in Alive \cup {0}
        /\ ppid' = [ppid EXCEPT ![c] = q]
    BY <1>2, NodeFacts DEF Fork
  <2>2. Alive' = Alive \cup {c}
    BY <1>1, <2>1 DEF Alive
  <2>3. SUFFICES ASSUME NEW A \in SUBSET (Alive \cup {c}), A # {}
                 PROVE  \E a \in A : ppid'[a] \notin A
    BY <2>2 DEF Grounded
  <2>4. CASE A = {c}
    <3>1. ppid'[c] = q /\ q # c
      BY <1>1, <2>1
    <3> QED BY <2>4, <3>1
  <2>5. CASE A # {c}
    <3>1. A \ {c} \in SUBSET Alive /\ A \ {c} # {}
      BY <2>3, <2>5
    <3>2. PICK a \in A \ {c} : ppid[a] \notin A \ {c}
      BY <3>1 DEF Grounded
    <3>3. a \in Alive /\ ppid'[a] = ppid[a] /\ ppid[a] # c
      BY <1>1, <2>1, <3>1, <3>2
    <3> QED BY <3>2, <3>3
  <2> QED BY <2>4, <2>5
<1>3. ASSUME NEW p \in Pids, Exit(p) PROVE Grounded(ppid', Alive')
  <2>1. /\ p \in Procs /\ p # 0 /\ p # 1 /\ p # None
        /\ \A n \in Procs : ppid'[n] = IF n = p THEN None
                                        ELSE IF ppid[n] = p THEN 1 ELSE ppid[n]
    BY <1>3, NodeFacts DEF Exit
  <2>2. Alive' = Alive \ {p}
    <3>1. 1 # None
      BY <1>1
    <3> QED BY <1>1, <2>1, <3>1 DEF Alive
  <2>3. ppid'[1] \in {0, None} /\ 0 \notin Alive /\ None \notin Alive
    BY <1>1, <2>1
  <2>4. \A n \in Alive \ {p} : ppid'[n] = IF ppid[n] = p THEN 1 ELSE ppid[n]
    BY <1>1, <2>1
  <2>5. Grounded(ppid', Alive \ {p})
    BY <2>1, <2>3, <2>4, HandedToInit
  <2> QED BY <2>2, <2>5
<1>4. ASSUME NEW p \in Procs, ChangeState(p) PROVE Grounded(ppid', Alive')
  BY <1>4 DEF ChangeState, Alive, Grounded
<1> QED BY <1>2, <1>3, <1>4 DEF KernelStep

\* A smaller set, and nodes that have kept their parents
LEMMA GroundedLess ==
  ASSUME NEW f, NEW g, NEW D, NEW E \in SUBSET D, Grounded(f, D),
         \A n \in E : g[n] = f[n]
  PROVE  Grounded(g, E)
BY DEF Grounded

LEMMA UnloopedNext == ASSUME ~Live, IInv, Unlooped, [PTNext]_ptVars PROVE Unlooped'
<1>1. /\ Node \subseteq Nat /\ None \notin Node /\ priv \subseteq Node /\ 0 \in Node
      /\ parent \in [Node -> Node \cup {None}] /\ parent[0] = None
      /\ parent[1] \in {None, 0} /\ 1 \in Node
  BY NodeFacts DEF IInv, TypeOK, TreeRoots
<1>2. CASE KernelMoves
  <2>1. phase = "idle" /\ parent' = parent /\ priv' = priv /\ KernelStep
    BY <1>2 DEF KernelMoves, treeVars
  <2>2. Grounded(ppid', Alive')
    BY <2>1, KernelUnlooped DEF Unlooped
  <2> QED BY <2>1, <2>2 DEF Unlooped
<1>3. ASSUME NEW p \in Procs, ReadEntry(p) PROVE Unlooped'
  <2>1. phase' = "scan" /\ ppid' = ppid /\ p \in Node
    BY <1>3, NodeFacts DEF ReadEntry, kernelVars
  <2>2. priv' \subseteq priv /\ \A n \in priv' : parent'[n] = parent[n]
    <3>1. CASE Reparent(p, ppid[p])
      <4>1. p \in Marked(p)
        BY <2>1 DEF Marked
      <4>2. priv' \subseteq priv /\ p \notin priv'
        BY <3>1, <4>1 DEF Reparent
      <4>3. parent' = [parent EXCEPT ![p] = ppid[p]]
        BY <3>1 DEF Reparent
      <4> QED BY <1>1, <4>2, <4>3
    <3>2. CASE UNCHANGED <<priv, child, parent>>
      BY <3>2
    <3> QED BY <1>3, <3>1, <3>2 DEF ReadEntry
  <2>3. Grounded(parent', priv')
    BY <2>2, GroundedLess DEF Unlooped
  <2> QED BY <2>1, <2>3 DEF Unlooped, Alive
<1>4. ASSUME NEW p \in Pids, Reap(p) PROVE Unlooped'
  <2>1. /\ p \in Node /\ p # 0 /\ p # 1 /\ p # None /\ phase' = "reap" /\ ppid' = ppid
        /\ priv' = priv \ {p}
        /\ \A n \in Node : parent'[n] = IF n = p THEN None
                                        ELSE IF parent[n] = p THEN 1 ELSE parent[n]
    BY <1>4, NodeFacts DEF Reap, Adopt, Free, kernelVars, scanVars
  <2>2. parent'[1] \in {0, None} /\ parent'[0] = None /\ None \notin priv
    BY <1>1, <2>1
  <2>3. \A n \in priv \ {p} : parent'[n] = IF parent[n] = p THEN 1 ELSE parent[n]
    BY <1>1, <2>1
  <2>4. Grounded(parent', priv \ {p})
    BY <2>1, <2>2, <2>3, HandedToInit DEF Unlooped
  <2> QED BY <2>1, <2>4 DEF Unlooped, Alive
<1>5. CASE EndUpdate
  <2>1. /\ phase' = "idle" /\ ppid' = ppid /\ parent' = parent /\ priv' = priv
        /\ dirty' = dirty /\ hash_table' = hash_table /\ phase = "reap"
    BY <1>5 DEF EndUpdate, kernelVars, treeVars
  <2>2. hash_table' = Alive' \ {1} /\ \A p \in Alive' : parent'[p] = ppid'[p]
    <3>1. ~dirty'
      BY <2>1 DEF IInv, QuietUpdate
    <3>2. TreeIsKernel'
      BY <1>5, EndUpdateIInv DEF IInv
    <3> QED BY <2>1, <3>1, <3>2 DEF TreeIsKernel
  <2>3. \A n \in Node : parent[n] # None => n \in Alive
    <3>1. 1 \in Alive
      <4>1. 1 \in Procs /\ ppid[1] = 0
        BY NodeFacts DEF IInv, KernelWellFormed
      <4> QED BY <1>1, <4>1 DEF Alive
    <3>2. \A n \in Node : parent[n] # None => n \in hash_table \cup {0, 1}
      BY DEF IInv, LinksConsistent, Found
    <3>3. Alive' = Alive
      BY <2>1 DEF Alive
    <3> QED BY <1>1, <2>1, <2>2, <3>1, <3>2, <3>3
  <2>4. Grounded(parent, Node)
    <3> SUFFICES ASSUME NEW A \in SUBSET Node, A # {} PROVE \E a \in A : parent[a] \notin A
      BY DEF Grounded
    <3>1. CASE \E a \in A : parent[a] = None
      BY <1>1, <3>1
    <3>2. CASE \A a \in A : parent[a] # None
      <4>1. A \in SUBSET Alive
        BY <2>3, <3>2
      <4>2. PICK a \in A : ppid[a] \notin A
        BY <4>1 DEF Unlooped, Grounded
      <4>3. Alive' = Alive
        BY <2>1 DEF Alive
      <4>4. parent[a] = ppid[a]
        BY <2>1, <2>2, <4>1, <4>3
      <4> QED BY <4>2, <4>4
    <3> QED BY <3>1, <3>2
  <2> QED BY <2>1, <2>4 DEF Unlooped, Alive
<1>6. CASE Client
  <2>1. /\ phase = "idle" /\ phase' = phase /\ parent' = parent /\ ppid' = ppid
        /\ priv' \in SUBSET Found
    BY <1>6 DEF Client, kernelVars, scanVars
  <2>2. Found \subseteq Node
    BY NodeFacts DEF Found, IInv, TypeOK
  <2>3. Grounded(parent', priv')
    BY <2>1, <2>2, GroundedLess DEF Unlooped
  <2> QED BY <2>1, <2>3 DEF Unlooped, Alive
<1>7. CASE StartUpdate \/ EndScan
  <2>1. phase' # "idle" /\ UNCHANGED <<ppid, parent, priv>>
    BY <1>7 DEF StartUpdate, EndScan, kernelVars, treeVars
  <2> QED BY <2>1 DEF Unlooped, Alive
<1>8. CASE UNCHANGED ptVars
  BY <1>8 DEF Unlooped, Alive, ptVars, kernelVars, treeVars, scanVars
<1> QED BY <1>2, <1>3, <1>4, <1>5, <1>6, <1>7, <1>8 DEF PTNext, Continue

NoLoop ==
  Grounded(parent, priv) /\ (phase = "idle" => Grounded(parent, Node))

LEMMA NeverLoops == ASSUME ~Live \/ ~PidsWrap PROVE PTSafe => []NoLoop
<1>1. ASSUME PTInit PROVE Unlooped /\ Ascending
  <2>1. /\ \A n \in Node : parent[n] = None
        /\ priv = {} /\ ppid = [p \in Procs |-> IF p = 1 THEN 0 ELSE None] /\ lastpid = 1
    BY <1>1 DEF PTInit, KernelInit
  <2>2. /\ None \notin Node /\ 1 \in Procs /\ 0 # None /\ Alive = {1} /\ ppid[1] = 0
    <3>1. None \notin Node /\ 1 \in Procs /\ 0 \in Node
      BY NodeFacts
    <3> QED BY <2>1, <3>1 DEF Alive
  <2>3. Grounded(ppid, Alive)
    <3> SUFFICES ASSUME NEW A \in SUBSET {1}, A # {} PROVE \E a \in A : ppid[a] \notin A
      BY <2>2 DEF Grounded
    <3>1. PICK a \in A : TRUE
      OBVIOUS
    <3>2. a = 1 /\ 0 \notin A
      OBVIOUS
    <3> QED BY <2>2, <3>2
  <2>4. Grounded(parent, Node) /\ Grounded(parent, priv)
    BY <2>1, <2>2 DEF Grounded
  <2>5. Ascending
    BY <2>1, <2>2 DEF Ascending
  <2> QED BY <2>3, <2>4, <2>5 DEF Unlooped
<1> DEFINE Inv == (~Live => Unlooped) /\ (~PidsWrap => Ascending)
<1>2. PTInit => Inv
  BY <1>1
<1>3. IInv /\ Inv /\ [PTNext]_ptVars => Inv'
  BY UnloopedNext, AscendingNext
<1>4. IInv /\ Inv => NoLoop
  <2>1. CASE ~Live
    BY <2>1 DEF Unlooped, NoLoop
  <2>2. CASE ~PidsWrap
    <3>1. IInv => priv \subseteq Node
      BY DEF IInv, TypeOK
    <3> QED BY <2>2, <3>1, AscendingGrounded, GroundedLess DEF NoLoop
  <2> QED BY <2>1, <2>2
<1> HIDE DEF Inv
<1> QED BY <1>2, <1>3, <1>4, Invariant, PTL DEF PTSafe

\* tree_next() and tree_string() come to an end: between two updates no way
\* along the links of the tree comes back to where it began, if the kernel stands
\* still during scans or the counter of pids never wraps around.
THEOREM NoCycles == ASSUME ~Live \/ ~PidsWrap PROVE PTSafe => []Acyclic
<1>1. IInv /\ NoLoop => Acyclic
  BY NotBelowItself DEF IInv, Acyclic, NoLoop
<1> QED BY <1>1, NeverLoops, Invariant, PTL

\* On the same conditions the recursion of mark_del() through displayed nodes comes
\* to an end in the middle of every update.
THEOREM MarkingEnds == ASSUME ~Live \/ ~PidsWrap PROVE PTSafe => []MarkTerminates
<1>1. IInv /\ NoLoop => MarkTerminates
  <2>1. IInv => priv \in SUBSET Node /\ LinksConsistent
    BY DEF IInv, TypeOK
  <2> QED BY <2>1, NotBelowItself DEF MarkTerminates, NoLoop
<1> QED BY <1>1, NeverLoops, Invariant, PTL
=============================================================================
