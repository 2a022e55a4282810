----------------------------- MODULE MCSpaceLine -----------------------------
(* Instances of SpaceLine for TLC. *)
EXTENDS SpaceLine, TLC

Symmetry == Permutations(Spaces) \cup Permutations(Loads)
==============================================================================
