--------------------------- MODULE OwnershipLease ---------------------------
(***************************************************************************)
(* What the ownership protocol promises, without messages: a lease on the  *)
(* actor is held by one player under a token that only moves forward.  A   *)
(* grant of a token may be on its way to a player for any time, may be     *)
(* repeated while the lease lasts, and may get lost; a player acts on a    *)
(* grant he got.                                                           *)
(***************************************************************************)
EXTENDS Integers

CONSTANTS Players, NoPlayer

VARIABLES
  lease,    \* the lease: server id, epoch and owner; id 0 is no lease
  nextId,   \* id of the next lease
  granted,  \* per player, the tokens on their way to him or held by him
  held      \* per player, the token he acts under

leaseVars == <<lease, nextId, granted, held>>

NoLease    == [id |-> 0, epoch |-> 0, owner |-> NoPlayer]
NoGrant    == [id |-> 0, epoch |-> 0]
Leased(l)  == [id |-> l.id, epoch |-> l.epoch]
LeaseTokens == [id : Nat, epoch : Nat]

LeaseInit ==
  /\ lease = NoLease /\ nextId = 1
  /\ granted = [p \in Players |-> {}]
  /\ held = [p \in Players |-> NoGrant]

(* Nobody gets a grant but the owner of the lease, and what he gets is the *)
(* lease's token.                                                          *)
GrantOnly(l) ==
  /\ granted' \in [Players -> SUBSET LeaseTokens]
  /\ \A p \in Players : \A t \in granted'[p] : 
       t \in granted[p] \/ (l.id # 0 /\ l.owner = p /\ t = Leased(l))

(* A player acts under what he was granted, goes on as he did, or stops.   *)
HoldOnly ==
  /\ held' \in [Players -> LeaseTokens]
  /\ \A p \in Players : held'[p] # NoGrant => held'[p] \in granted[p] /\ held'[p] \in granted'[p]

Issue(p) ==
  /\ lease' = [id |-> nextId, epoch |-> 1, owner |-> p]
  /\ lease.id = 0
  /\ nextId' = nextId + 1

Pass(p) ==
  /\ lease.id # 0 /\ lease.owner # p
  /\ lease' = [id |-> lease.id, epoch |-> lease.epoch + 1, owner |-> p]
  /\ UNCHANGED nextId

Withdraw ==
  /\ lease' = NoLease
  /\ UNCHANGED nextId

Keep == UNCHANGED <<lease, nextId>>

LeaseNext ==
  /\ Withdraw \/ Keep \/ \E p \in Players : Issue(p) \/ Pass(p)
  /\ GrantOnly(lease')
  /\ HoldOnly

LeaseSpec == LeaseInit /\ [][LeaseNext]_leaseVars

-----------------------------------------------------------------------------
(* A token is granted to one player only, ever.                            *)
OneHolder ==
  \A p, q \in Players : granted[p] \cap granted[q] # {} => p = q

(* Nobody is granted a token the lease has not reached, and a grant of the *)
(* lease's own token is its owner's.                                       *)
NoneAhead ==
  \A p \in Players : \A t \in granted[p] :
    /\ t.id < nextId
    /\ t.id = lease.id => t.epoch < lease.epoch \/ (t.epoch = lease.epoch /\ p = lease.owner)
=============================================================================
