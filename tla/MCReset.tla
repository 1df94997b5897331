------------------------------- MODULE MCReset -------------------------------
(* Instances of Reset for TLC: kernels and resets are interchangeable, and   *)
(* only invariants are checked, so that symmetry is sound.                   *)
EXTENDS Reset, TLC

Symmetry == Permutations(Kernels) \cup Permutations(Resets)
=============================================================================
