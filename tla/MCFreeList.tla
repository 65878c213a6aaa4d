----------------------------- MODULE MCFreeList ------------------------------
(* An instance of FreeList for TLC: a chain of three blocks with runs of      *)
(* different sizes, an entry without blocks and a block without entries.      *)
EXTENDS FreeList, TLC

ChainImage ==
    << << [start |-> 2, blocks |-> 2], [start |-> 7, blocks |-> 1] >>,
       << >>,
       << [start |-> 0, blocks |-> 0], [start |-> 4, blocks |-> 2] >> >>

Symmetry == Permutations(Threads)
=============================================================================
