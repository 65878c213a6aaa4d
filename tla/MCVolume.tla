------------------------------ MODULE MCVolume -------------------------------
(* Instances of Volume for TLC. *)
EXTENDS Volume, TLC

Symmetry == Permutations(Tasks)
=============================================================================
