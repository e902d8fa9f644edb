------------------------------ MODULE ProcTree ------------------------------
(***************************************************************************)
(* proctree.c: the program's copy of the process table, a tree of proc_t   *)
(* nodes rebuilt in place by update_tree().  A node is named by its pid;   *)
(* nodes 0 and 1 are the static proc_special, the others are malloced by   *)
(* new_proc() and freed by remove_proc().                                  *)
(*                                                                         *)
(* update_tree() reads /proc entry by entry (phase "scan") and then frees  *)
(* every node it has not seen (phase "reap").  It is given a callback del, *)
(* called with the priv pointer of a node whose parent changes or that is  *)
(* freed; the client (plist.c: mark_del) drops the line of that node and   *)
(* of its displayed descendants, so all their priv pointers become null.   *)
(*                                                                         *)
(* Live says whether the kernel may move between two reads of one scan; if *)
(* not, it moves only between two updates.                                 *)
(***************************************************************************)
EXTENDS Kernel, Sequences, Functions

CONSTANT Live

ASSUME LiveAssumption == Live \in BOOLEAN

VARIABLES
  parent,     \* proc_t.parent
  child,      \* child[n]: the broth list that starts at n->child
  state,      \* proc_t.state
  hash_table, \* the malloced nodes: num_proc = 1 + their number
  main_list,  \* nodes validated by the running or the last update
  old_list,   \* nodes of the previous update not validated so far
  priv,       \* nodes whose priv pointer is not null
  phase,      \* where update_tree() is
  seen,       \* the last pid read from /proc
  fresh,      \* pids born since the running scan started
  dirty       \* has the kernel moved since the last update started?

treeVars == <<parent, child, state, hash_table, main_list, old_list, priv>>
scanVars == <<phase, seen, fresh, dirty>>
ptVars == <<kernelVars, treeVars, scanVars>>

\* Nodes that find_by_pid() finds.
Found == hash_table \cup {0, 1}

-----------------------------------------------------------------------------
(* The intrusive lists: insertion at the head, unlinking of one element.   *)

ListAdd(s, p) == <<p>> \o s

ListDel(s, p) ==
  LET at == CHOOSE i \in DOMAIN s : s[i] = p
  IN  [i \in 1 .. Len(s) - 1 |-> IF i < at THEN s[i] ELSE s[i + 1]]

\* The children of p, moved one by one to the head of another list.
Reversed(s) == [i \in 1 .. Len(s) |-> s[Len(s) - i + 1]]

\* (Mutant of Unlinked: change_parent() forgets to take p off its old list.)
StillLinked(p) == child

\* The child lists once p is taken off the list it is on, if any.
Unlinked(p) ==
  [n \in Node |-> IF parent[p] = n THEN ListDel(child[n], p) ELSE child[n]]

\* (Mutants of Marked: the line of p itself is forgotten; the recursion is.)
MarkedChildren(p) == Range(child[p]) \cap priv
MarkedAlone(p) == {p}

\* What del(p->priv) marks: p and, recursively, its displayed children.
Marked(p) ==
  {d \in Node : \A S \in SUBSET Node :
     (p \in S /\ \A n \in S : Range(child[n]) \cap priv \subseteq S) => d \in S}

-----------------------------------------------------------------------------
PTInit ==
  /\ KernelInit
  /\ parent = [n \in Node |-> None]
  /\ child = [n \in Node |-> <<>>]
  /\ state = [n \in Node |-> None]
  /\ hash_table = {} /\ main_list = {} /\ old_list = {}
  /\ priv = {}
  /\ phase = "idle" /\ seen = 0 /\ fresh = {} /\ dirty = TRUE

\* The kernel moves.  Once the scan is over it makes no difference whether
\* it does so before or after the freeing of the old nodes.
KernelMoves ==
  /\ phase = "idle" \/ (Live /\ phase = "scan")
  /\ KernelStep
  /\ fresh' = IF phase = "idle" THEN {} ELSE fresh \cup {p \in Procs :
                  ppid[p] = None /\ ppid'[p] # None}
  /\ dirty' = TRUE
  /\ UNCHANGED <<treeVars, phase, seen>>

\* (Mutant of StartUpdate: main_list is not emptied.)
StartUpdateKeepsList ==
  /\ phase = "idle"
  /\ old_list' = main_list
  /\ phase' = "scan" /\ seen' = 0 /\ fresh' = {} /\ dirty' = FALSE
  /\ UNCHANGED <<kernelVars, parent, child, state, hash_table, main_list, priv>>

\* update_tree() is called: the nodes it knows become the old list.
StartUpdate ==
  /\ phase = "idle"
  /\ old_list' = main_list /\ main_list' = {}
  /\ phase' = "scan" /\ seen' = 0 /\ fresh' = {} /\ dirty' = FALSE
  /\ UNCHANGED <<kernelVars, parent, child, state, hash_table, priv>>

\* get_pinfo(): /proc lists pids in ascending order, in batches.  A process
\* that is gone when its entry is opened is skipped; one born after its batch
\* was filled is not listed.
Passed(p) == \A q \in Alive : seen < q /\ q < p => q \in fresh

\* (Mutant of Validate: the static nodes are put on main_list, too.)
ValidateSpecial(V, s) ==
  /\ hash_table' = hash_table \cup V
  /\ main_list' = main_list \cup V
  /\ old_list' = old_list \ V
  /\ state' = [n \in Node |-> IF n \in V \ hash_table THEN s ELSE state[n]]

\* validate_proc() for the pids of V: their nodes are put on main_list, new
\* ones if there are none.
Validate(V, s) ==
  /\ hash_table' = hash_table \cup (V \ {0, 1})
  /\ main_list' = main_list \cup (V \ {0, 1})
  /\ old_list' = old_list \ V
  /\ state' = [n \in Node |->
                 IF n \in V /\ (n \in {0, 1} \/ n \notin hash_table)
                 THEN s ELSE state[n]]

\* (Mutants of Reparent: without the call of del; for new nodes only.)
ReparentSilently(p, q) ==
  /\ child' = [Unlinked(p) EXCEPT ![q] = ListAdd(@, p)]
  /\ parent' = [parent EXCEPT ![p] = q]
  /\ UNCHANGED priv
ReparentOnce(p, q) ==
  IF parent[p] # None THEN UNCHANGED <<priv, child, parent>>
  ELSE /\ child' = [child EXCEPT ![q] = ListAdd(@, p)]
       /\ parent' = [parent EXCEPT ![p] = q]
       /\ UNCHANGED priv

\* p gets the parent q: del is called for what is displayed of it, then it is
\* moved to the head of q's children.
Reparent(p, q) ==
  /\ priv' = IF p \in priv THEN priv \ Marked(p) ELSE priv
  /\ child' = [Unlinked(p) EXCEPT ![q] = ListAdd(@, p)]
  /\ parent' = [parent EXCEPT ![p] = q]

\* One round of the scan loop.
ReadEntry(p) ==
  /\ phase = "scan"
  /\ p \in Alive /\ p > seen /\ Passed(p)
  /\ seen' = p
  /\ Validate({p, ppid[p]}, kstate[p])
  /\ IF parent[p] # ppid[p] THEN Reparent(p, ppid[p])
                            ELSE UNCHANGED <<priv, child, parent>>
  /\ UNCHANGED <<kernelVars, phase, fresh, dirty>>

EndScan ==
  /\ phase = "scan"
  /\ \A q \in Alive : q > seen => q \in fresh
  /\ phase' = "reap" /\ fresh' = {}
  /\ UNCHANGED <<kernelVars, treeVars, seen, dirty>>

\* (Mutant of Adopt: the adopted children keep their parent pointer.)
AdoptUnset(p) ==
  /\ child' = [n \in Node |->
       IF n = p THEN <<>>
       ELSE IF n = 1 THEN Reversed(child[p]) \o Unlinked(p)[1]
       ELSE Unlinked(p)[n]]
  /\ parent' = [parent EXCEPT ![p] = None]

\* The children of p go to init, without a call of del, and p is unlinked.
Adopt(p) ==
  /\ child' = [n \in Node |->
       IF n = p THEN <<>>
       ELSE IF n = 1 THEN Reversed(child[p]) \o Unlinked(p)[1]
       ELSE Unlinked(p)[n]]
  /\ parent' = [n \in Node |-> IF n = p THEN None
                               ELSE IF parent[n] = p THEN 1 ELSE parent[n]]

\* (Mutants of Free: del is not called; the node stays on old_list.)
FreeUnreported(p) ==
  /\ state' = [state EXCEPT ![p] = None]
  /\ hash_table' = hash_table \ {p} /\ old_list' = old_list \ {p}
  /\ UNCHANGED priv
FreeKeepsListed(p) ==
  /\ priv' = priv \ {p}
  /\ state' = [state EXCEPT ![p] = None]
  /\ hash_table' = hash_table \ {p}
  /\ UNCHANGED old_list

\* The client drops p, which has no child any more, and p is freed.
Free(p) ==
  /\ priv' = priv \ {p}
  /\ state' = [state EXCEPT ![p] = None]
  /\ hash_table' = hash_table \ {p} /\ old_list' = old_list \ {p}

\* One round of the loop over old_list.
Reap(p) ==
  /\ phase = "reap" /\ p \in old_list
  /\ Adopt(p) /\ Free(p)
  /\ UNCHANGED <<kernelVars, main_list, scanVars>>

EndUpdate ==
  /\ phase = "reap" /\ old_list = {}
  /\ phase' = "idle" /\ seen' = 0
  /\ UNCHANGED <<kernelVars, treeVars, fresh, dirty>>

\* Between two updates the client attaches data to nodes and detaches it.
Client ==
  /\ phase = "idle"
  /\ priv' \in SUBSET Found
  /\ UNCHANGED <<kernelVars, parent, child, state, hash_table, main_list,
                 old_list, scanVars>>

\* What a running update goes on with.
Continue ==
  \/ \E p \in Procs : ReadEntry(p)
  \/ EndScan
  \/ \E p \in Pids : Reap(p)
  \/ EndUpdate

PTNext == KernelMoves \/ StartUpdate \/ Continue \/ Client

\* The safety part, which a client that moves priv pointers must implement.
PTSafe == PTInit /\ [][PTNext]_ptVars

\* The program is one thread that does not block while it updates the tree.
PTSpec == PTSafe /\ WF_ptVars(Continue)

-----------------------------------------------------------------------------
TypeOK ==
  /\ KernelTypeOK
  /\ parent \in [Node -> Node \cup {None}]
  /\ child \in [Node -> Seq(Node)]
  /\ state \in [Node -> States \cup {None}]
  /\ hash_table \subseteq Pids /\ main_list \subseteq Pids
  /\ old_list \subseteq Pids /\ priv \subseteq Node
  /\ phase \in {"idle", "scan", "reap"}
  /\ seen \in Procs \cup {0} /\ fresh \subseteq Procs
  /\ dirty \in BOOLEAN

\* Every malloced node is on exactly one of the two lists: none is leaked,
\* none is freed twice, and no list holds a freed node.
ListsPartition ==
  /\ hash_table = main_list \cup old_list
  /\ main_list \cap old_list = {}
  /\ phase = "idle" => old_list = {}

\* The broth list of n holds exactly the nodes whose parent pointer is n,
\* each once, and nothing links to or from a freed node.
LinksConsistent ==
  /\ \A n, m \in Node : m \in Range(child[n]) <=> parent[m] = n
  /\ \A n \in Node : IsInjective(child[n])
  /\ \A n \in Node : parent[n] # None => n \in Found /\ parent[n] \in Found

\* The client holds no pointer into a freed node.
PrivLive == priv \subseteq Found

\* After an update during which the kernel did not move the nodes are the
\* processes, with their parents, whatever the tree was before (a process seen
\* only as a parent, a reused pid, ...).
TreeIsKernel ==
  phase = "idle" /\ ~dirty =>
    /\ hash_table = Alive \ {1}
    /\ \A p \in Alive : parent[p] = ppid[p]

\* What the proofs add: init's parent is 0, every other process has a living
\* parent, which is not itself.
KernelWellFormed ==
  /\ ppid[1] = 0
  /\ \A p \in Alive : ppid[p] \in Alive \cup {0} /\ ppid[p] # p

\* Node 0 has no parent, and node 1 none but 0, so that freeing a node never
\* moves one of them; no node is its own parent.
TreeRoots ==
  /\ parent[0] = None /\ parent[1] \in {None, 0}
  /\ \A n \in Node : parent[n] # n

\* As long as the kernel has not moved since the update started, every process
\* passed by the scan has its node validated and under the right parent.
ScanProgress ==
  phase # "idle" /\ ~dirty =>
    /\ fresh = {}
    /\ main_list \subseteq Alive
    /\ \A p \in Alive : p <= seen \/ phase = "reap" =>
         parent[p] = ppid[p] /\ p \in main_list \cup {1}

QuietUpdate == ~Live /\ phase # "idle" => ~dirty

IInv ==
  /\ TypeOK /\ KernelWellFormed /\ ListsPartition /\ LinksConsistent
  /\ PrivLive /\ TreeRoots /\ ScanProgress /\ QuietUpdate /\ TreeIsKernel

\* A displayed node that survives the update never changes its parent:
\* whoever moves it has called del for it, in the same step, so that no line
\* stays at its old place.
NoSilentMove ==
  [][\A n \in priv \ old_list : parent'[n] # parent[n] => n \notin priv']_ptVars

\* The nodes reached from n by child links, through nodes of D only.
Below(n, D) ==
  {d \in D : \A S \in SUBSET D :
     (\A m \in S \cup {n} : Range(child[m]) \cap D \subseteq S) => d \in S}

\* Between updates no node is below itself, so that tree_next() and
\* tree_string(), which follow child and parent pointers, terminate.
Acyclic == phase = "idle" => \A n \in Node : n \notin Below(n, Node)

\* Even in the middle of an update, when the tree is half old and half new
\* and may hold cycles, no displayed node is below itself through displayed
\* nodes: the recursion of mark_del() terminates.
MarkTerminates == \A n \in priv : n \notin Below(n, priv)
=============================================================================
