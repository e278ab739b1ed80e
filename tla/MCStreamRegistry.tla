-------------------------- MODULE MCStreamRegistry --------------------------
(* StreamRegistry for TLC: no action tells one UID, or one container, from *)
(* another.                                                                *)
EXTENDS StreamRegistry, TLC

Symmetry == Permutations(Pods) \cup Permutations(Containers)
=============================================================================
