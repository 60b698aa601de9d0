------------------------------- MODULE MCZone -------------------------------
(* Zone for TLC: identities that are interchangeable may be permuted. *)
EXTENDS Zone, TLC

LoopSymmetry == Permutations(Loops)
Symmetry == Permutations(Loops) \cup Permutations(Callers)
=============================================================================
