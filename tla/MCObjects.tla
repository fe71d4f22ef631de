----------------------------- MODULE MCObjects ------------------------------
(* Instances of Objects for TLC. *)
EXTENDS Objects, TLC

CONSTANTS chest, barrel, inn

Road == {0, 1}
AtHome == chest :> 0 @@ barrel :> 0
OneEach == [o \in Objects |-> 1]
Symmetry == Permutations(Players)
=============================================================================
