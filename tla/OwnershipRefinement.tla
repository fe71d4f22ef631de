------------------------ MODULE OwnershipRefinement -------------------------
(* Ownership implements OwnershipLease: the server's OwnerComponent is the  *)
(* lease, and a player's grants are the owner answers and transfers under   *)
(* way to him and the token of his LocalComponent.                          *)
EXTENDS Ownership

(* Is m, addressed to client c, the grant of the actor to him? *)
IsGrant(m, c) ==
  \/ m.type = "AssignCharacterResponse" /\ m.owner
  \/ m.type = "NotifyOwnershipTransfer" /\ m.owner = c

GrantsIn(q, c) == {Token(q[i]) : i \in {j \in DOMAIN q : IsGrant(q[j], c)}}
Underway(c) == GrantsIn(toClient[c], c)
Acting(c)   == IF client[c].loc = NoToken THEN {} ELSE {client[c].loc}

theLease == [id |-> actor.id, epoch |-> actor.epoch, owner |-> actor.owner]
grants   == [c \in Players |-> Underway(c) \cup Acting(c)]
holds    == [c \in Players |-> client[c].loc]

Lease == INSTANCE OwnershipLease WITH lease <- theLease, granted <- grants, held <- holds

(* Every behaviour of the protocol is one of the lease. *)
ImplementsLease == Lease!LeaseSpec
=============================================================================
