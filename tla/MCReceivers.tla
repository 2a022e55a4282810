---------------------------- MODULE MCReceivers ----------------------------
(* Instances of Receivers for TLC. *)
EXTENDS Receivers, TLC

CONSTANTS me, ann, bob, eve, plain, face

\* Two people without an avatar of their own, one with.
SharedAvatars == [u \in Users |-> IF u \in {ann, bob} THEN plain ELSE face]

\* Everybody; ann has been deleted; nobody yet, not even the user.
SomeTables == {Users, Users \ {ann}, {}}

Symmetry == Permutations(Loads)
==============================================================================
