----------------------------- MODULE MCOwnership -----------------------------
(* Instances of Ownership for TLC. *)
EXTENDS OwnershipRefinement, TLC

CONSTANTS Load, Unload, Sweep, Roam, PartyMoves, Drop, Join, Kill

MCBudget == [load |-> Load, unload |-> Unload, sweep |-> Sweep, roam |-> Roam,
             party |-> PartyMoves, drop |-> Drop, join |-> Join, kill |-> Kill]

Interchangeable == Permutations(Players)
=============================================================================
