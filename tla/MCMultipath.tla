------------------------------ MODULE MCMultipath ------------------------------
(***************************************************************************)
(* Instances of Multipath for TLC.                                         *)
(***************************************************************************)
EXTENDS Multipath

\* The scheduler and its invariants treat the names of the paths alike.
PathSymmetry == Permutations(Paths)
=============================================================================
