-------------------------- MODULE MCLinkerActivity --------------------------
(* Instances of LinkerActivity for TLC: two linkers that may overlap. *)
EXTENDS LinkerActivity, TLC

Symmetry == Permutations(Linkers) \cup Permutations(Relations)
=============================================================================
