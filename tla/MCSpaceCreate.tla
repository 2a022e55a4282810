---------------------------- MODULE MCSpaceCreate ----------------------------
(* Instances of SpaceCreate for TLC. *)
EXTENDS SpaceCreate, TLC

Symmetry == Permutations(Posts) \cup Permutations(Spaces)
==============================================================================
