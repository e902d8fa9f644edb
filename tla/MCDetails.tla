----------------------------- MODULE MCDetails ------------------------------
(* Small instances of Details for TLC: texts that are shorter and longer   *)
(* than the box, and longer than the pad.                                  *)
EXTENDS Details

Proc(readable, status, fds) ==
  [start |-> TRUE, exe |-> readable, root |-> readable, cwd |-> readable,
   status |-> status, fds |-> fds]

\* Of the program's own user, of another one, one that is gone, one that has
\* many files open
SomeProcs ==
  {Proc(TRUE, 1, 0), Proc(TRUE, 2, 3), Proc(FALSE, 2, Unreadable), Proc(TRUE, 2, 30),
   [Proc(FALSE, Unreadable, Unreadable) EXCEPT !.start = FALSE]}

SomeSystems ==
  {[boot |-> TRUE, cpu |-> TRUE, mem |-> 2, open_files |-> TRUE, open_inodes |-> TRUE,
    max_files |-> TRUE, stat |-> 1, modules |-> m, filesystems |-> 1,
    partitions |-> Unreadable, devices |-> 1] : m \in {0, 1}}
=============================================================================
