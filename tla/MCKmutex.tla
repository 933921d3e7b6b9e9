------------------------------ MODULE MCKmutex ------------------------------
(* Instances of Kmutex for TLC. *)
EXTENDS Kmutex, TLC

CONSTANTS p1, p2, p3, p4,\* processes
          file, fs      \* the lock of an open file, the mutex of a file system

Procs3 == {p1, p2, p3}
Procs4 == {p1, p2, p3, p4}
Mutexes == {file, fs}

\* The order kernel/vfs follows: fd.c takes the file's lock, then calls into
\* ufs.c or tmpfs.c, which take theirs.
FileThenFs == {<<file, fs>>}

\* Callers without any discipline, as the misuse tests of ktest are.
AnyOrder == Mutexes \X Mutexes

Symmetry == Permutations(Procs4)
=============================================================================
