------------------------------ MODULE MCMemory ------------------------------
(* An instance of Memory for TLC. *)
EXTENDS Memory

\* A program executed in place, one read from a disk, and one that is too big.
MCImages == {[stage |-> 0, text |-> 0, data |-> 2], [stage |-> 2, text |-> 1, data |-> 1],
             [stage |-> 0, text |-> 0, data |-> 5]}

\* The processes but the first, which has an image to begin with.
MCSym == Permutations(Proc \ {CHOOSE p \in Proc : TRUE})
=============================================================================
