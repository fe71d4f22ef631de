---------------------------- MODULE MCVisibility ----------------------------
(* Instances of Visibility for TLC. *)
EXTENDS Visibility, TLC

Road == 0..2
Symmetry == Permutations(Players)
Origin == {1}
=============================================================================
