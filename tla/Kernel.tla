------------------------------- MODULE Kernel -------------------------------
(***************************************************************************)
(* The process table of the operating system, as /proc shows it.  It is    *)
(* not code of the program: proctree.c reads it through get_pinfo, one     *)
(* /proc/<pid>/stat at a time, and the table may change between two reads. *)
(*                                                                         *)
(* A process is its pid.  The idle task 0 is no process but is the parent  *)
(* of init (1) and, where ZeroForks holds, of processes whose parent lies  *)
(* outside of what /proc shows (kernel threads, processes injected into a  *)
(* pid name space).                                                        *)
(***************************************************************************)
EXTENDS Integers, FiniteSets

CONSTANTS
  Pids,       \* pids that processes other than init can have
  States,     \* the state letters of /proc/<pid>/stat
  None,       \* no process, no pointer, no state
  PidsWrap,   \* does the counter of pids wrap around?
  ZeroForks   \* may a process appear whose parent is pid 0?

ASSUME PidsAssumption == Pids \subseteq Nat \ {0, 1} /\ IsFiniteSet(Pids)
ASSUME NoneAssumption == None \notin Nat /\ None \notin States
ASSUME StatesAssumption == States # {}
ASSUME FlagsAssumption == PidsWrap \in BOOLEAN /\ ZeroForks \in BOOLEAN

Procs == Pids \cup {1}
Node == Procs \cup {0}

VARIABLES
  ppid,       \* ppid[p]: the parent of process p, None when there is no p
  kstate,     \* kstate[p]: the scheduling state of process p
  lastpid     \* the pid given last, when the counter does not wrap around

kernelVars == <<ppid, kstate, lastpid>>

Alive == {p \in Procs : ppid[p] # None}

KernelTypeOK ==
  /\ ppid \in [Procs -> Node \cup {None}]
  /\ kstate \in [Procs -> States \cup {None}]
  /\ lastpid \in Nat

\* Only init runs; what else there is when the program starts has been
\* forked before its first scan.
KernelInit ==
  /\ ppid = [p \in Procs |-> IF p = 1 THEN 0 ELSE None]
  /\ kstate \in {f \in [Procs -> States \cup {None}] :
                   \A p \in Procs : f[p] = None <=> p # 1}
  /\ lastpid = 1

\* Process q (or a task outside of /proc, q = 0) creates process c.  Without
\* PidsWrap every process has a higher pid than all before it, for ever; with it
\* the pid may be any that is free, also one given before.
Fork(q, c) ==
  /\ c \notin Alive
  /\ IF q = 0 THEN ZeroForks ELSE q \in Alive
  /\ IF PidsWrap THEN UNCHANGED lastpid ELSE c > lastpid /\ lastpid' = c
  /\ ppid' = [ppid EXCEPT ![c] = q]
  /\ \E s \in States : kstate' = [kstate EXCEPT ![c] = s]

\* Process p is gone; init inherits its children.
Exit(p) ==
  /\ p \in Alive
  /\ ppid' = [c \in Procs |-> IF c = p THEN None
                              ELSE IF ppid[c] = p THEN 1 ELSE ppid[c]]
  /\ kstate' = [kstate EXCEPT ![p] = None]
  /\ UNCHANGED lastpid

ChangeState(p) ==
  /\ p \in Alive
  /\ \E s \in States \ {kstate[p]} : kstate' = [kstate EXCEPT ![p] = s]
  /\ UNCHANGED <<ppid, lastpid>>

KernelStep ==
  \/ \E q \in Node, c \in Pids : Fork(q, c)
  \/ \E p \in Pids : Exit(p)
  \/ \E p \in Procs : ChangeState(p)
=============================================================================
