------------------------------ MODULE Ownership ------------------------------
(***************************************************************************)
(* Who simulates an NPC.  The server's CharacterService gives every actor  *)
(* an owning player and an ownership epoch; the clients' CharacterService  *)
(* runs the actor locally (LocalComponent) or mirrors it (RemoteComponent) *)
(* according to the grants it receives.  Requests and notifications travel *)
(* on one ordered, reliable connection per player.                         *)
(*                                                                         *)
(* The module follows ONE persistent reference of the game (an NPC placed  *)
(* in a cell, identified by the same form on every client).  Server ids of *)
(* the successive server entities made for it are 1, 2, ...; 0 is no       *)
(* entity.                                                                 *)
(*                                                                         *)
(* DeclineAsRelease, GrantToAsker, TransferredAlive, AnyOtherOwner,        *)
(* TransferToNobody, CanClaimAsAnyone and KeepOwned are mutated forms:     *)
(* plausible bugs of operators defined below, used by no specification.    *)
(***************************************************************************)
EXTENDS Integers, Sequences

CONSTANTS
  Players,       \* the players, by connection
  NoPlayer,      \* a null Player*
  IsMount,       \* is the actor a horse?
  EpochModulus,  \* 2^32 in the code: OwnershipEpoch is a uint32_t
  MaxEpoch,      \* bound: transfers of one server entity
  Budget         \* bound: how often each kind of spontaneous event happens

Kinds == {"load", "unload", "sweep", "roam", "party", "drop", "join", "kill"}

ASSUME PlayersAssumption == NoPlayer \notin Players
ASSUME MountAssumption   == IsMount \in BOOLEAN
ASSUME EpochAssumption   == /\ EpochModulus \in Nat /\ MaxEpoch \in Nat
                            /\ MaxEpoch < EpochModulus
ASSUME BudgetAssumption  == Budget \in [Kinds -> Nat]

VARIABLES
  up,        \* players in the server's PlayerManager
  near,      \* players whose cell is in range of the actor, as the server sees it
  party,     \* the party the actor's owners belong to: leader and members
  actor,     \* the server entity: OwnerComponent and death flag
  nextId,    \* id of the next server entity
  online,    \* clients that consider themselves connected
  client,    \* each client's ECS entity for the actor
  toServer,  \* requests in flight, per player, in order
  toClient,  \* notifications in flight, per player, in order
  left       \* what is left of Budget

netVars    == <<toServer, toClient>>
serverVars == <<near, party, actor, nextId>>
vars       == <<up, serverVars, online, client, netVars, left>>

-----------------------------------------------------------------------------
(* Data.  A token is a server id with an ownership epoch.                  *)

NoToken    == [id |-> 0, epoch |-> 0]
Token(x)   == [id |-> x.id, epoch |-> x.epoch]
NoActor    == [id |-> 0, epoch |-> 0, owner |-> NoPlayer, invalid |-> {}, dead |-> FALSE]
NewEntity  == [form |-> FALSE, loc |-> NoToken, rem |-> NoToken, wait |-> 0,
               cancelled |-> {}, seed |-> 1, dead |-> FALSE]
Parties    == {[leader |-> NoPlayer, members |-> {}]} \cup
              {pa \in [leader : Players, members : SUBSET Players] : pa.leader \in pa.members}

AssignRequest(e)   == [type |-> "AssignCharacterRequest", cookie |-> e.seed, dead |-> e.dead]
Claim(t)           == [type |-> "RequestOwnershipClaim", id |-> t.id, epoch |-> t.epoch]
MountRequest(t)    == [type |-> "MountRequest", id |-> t.id, epoch |-> t.epoch]
DeathRequest(t)    == [type |-> "RequestDeathStateChange", id |-> t.id, epoch |-> t.epoch]
Release(t, r, loc) == [type |-> "RequestOwnershipTransfer", id |-> t.id, epoch |-> t.epoch,
                       reason |-> r, located |-> loc]
Relinquish(t, loc) == Release(t, "Relinquish", loc)
DeclineAsRelease(t) == Release(t, "Relinquish", FALSE)
Decline(t)         == Release(t, "DeclineGrant", FALSE)

GrantToAsker(k, mine, a) == [type |-> "AssignCharacterResponse", cookie |-> k, owner |-> TRUE,
                             id |-> a.id, epoch |-> a.epoch, dead |-> a.dead]
TransferredAlive(a) == [type |-> "NotifyOwnershipTransfer", id |-> a.id, epoch |-> a.epoch,
                        owner |-> a.owner, dead |-> FALSE]

AssignResponse(k, mine, a) == [type |-> "AssignCharacterResponse", cookie |-> k, owner |-> mine,
                               id |-> a.id, epoch |-> a.epoch, dead |-> a.dead]
Spawn(a)           == [type |-> "CharacterSpawnRequest", id |-> a.id, epoch |-> a.epoch, dead |-> a.dead]
Transferred(a)     == [type |-> "NotifyOwnershipTransfer", id |-> a.id, epoch |-> a.epoch,
                       owner |-> a.owner, dead |-> a.dead]
Removed(a)         == [type |-> "NotifyRemoveCharacter", id |-> a.id]
Death(a)           == [type |-> "NotifyDeathStateChange", id |-> a.id, epoch |-> a.epoch]

(* OwnershipEpoch is bumped with uint32_t arithmetic, skipping 0. *)
NextEpoch(e) == IF (e + 1) % EpochModulus = 0 THEN 1 ELSE (e + 1) % EpochModulus

-----------------------------------------------------------------------------
(* Server: sending and the ownership operators, on an outcome [actor, ch]  *)
(* of the actor so far and the channels after the messages sent so far.    *)

(* A message to a connection either end has given up is lost. *)
Send(ch, S, m) == [c \in Players |-> IF c \in S \cap up \cap online THEN Append(ch[c], m) ELSE ch[c]]

Unchanged == [actor |-> actor, ch |-> toClient]

TransferOwnership(w, nr, p, reset) ==
  LET a == [w.actor EXCEPT !.owner = p, !.epoch = NextEpoch(@),
                           !.invalid = IF reset THEN {} ELSE @]
  IN  IF w.actor.owner = p THEN w
      ELSE [actor |-> a, ch |-> Send(w.ch, nr \cup {w.actor.owner}, Transferred(a))]

CharacterRemove(w) == [actor |-> NoActor, ch |-> Send(w.ch, up, Removed(w.actor))]

AnyOtherOwner(a, nr) == {p \in up \cap nr : p # a.owner}
NextOwners(a, nr) == {p \in up \cap nr : p # a.owner /\ p \notin a.invalid}

TransferToNobody(w, nr) ==
  {TransferOwnership(w, nr, p, FALSE) :
     p \in IF NextOwners(w.actor, nr) = {} THEN {NoPlayer} ELSE NextOwners(w.actor, nr)}

(* The players are tried in the PlayerManager's hash order: any of them.   *)
TransferToNextOwner(w, nr) ==
  IF NextOwners(w.actor, nr) = {}
  THEN {CharacterRemove(w)}
  ELSE {TransferOwnership(w, nr, p, FALSE) : p \in NextOwners(w.actor, nr)}

CanClaimAsAnyone(p, expected) ==
  actor.id # 0 /\ expected = actor.epoch /\ actor.owner # p /\ ~IsMount /\ p \in near

CanClaimOwnership(p, expected) ==
  /\ actor.id # 0
  /\ expected # 0 /\ expected = actor.epoch
  /\ actor.owner # p
  /\ ~IsMount
  /\ p \in near
  /\ p = party.leader
  /\ actor.owner \in party.members

IsCurrentOwner(p, m) == m.id = actor.id /\ m.epoch # 0 /\ m.epoch = actor.epoch /\ actor.owner = p

Becomes(w)   == actor' = w.actor /\ toClient' = w.ch
EpochsLeft   == actor.epoch < MaxEpoch
Receive(p, t) ==
  /\ toServer[p] # <<>> /\ Head(toServer[p]).type = t
  /\ toServer' = [toServer EXCEPT ![p] = Tail(@)]
  /\ UNCHANGED <<up, online, client, left, party>>

-----------------------------------------------------------------------------
(* Server: message handlers.                                               *)

(* The reference already has an entity: answer with its state, then hand   *)
(* it to the asker if he leads the owner's party.                          *)
OnAssignCharacterRequest(p) ==
  /\ Receive(p, "AssignCharacterRequest")
  /\ actor.id # 0 /\ EpochsLeft
  /\ LET r == AssignResponse(Head(toServer[p]).cookie, actor.owner = p, actor)
         w == [Unchanged EXCEPT !.ch = Send(@, {p}, r)]
     IN  Becomes(IF CanClaimOwnership(p, actor.epoch) THEN TransferOwnership(w, near, p, TRUE) ELSE w)
  /\ UNCHANGED <<near, nextId>>

CreateCharacter(p) ==
  /\ Receive(p, "AssignCharacterRequest")
  /\ actor.id = 0
  /\ LET m == Head(toServer[p])
         a == [id |-> nextId, epoch |-> 1, owner |-> p, invalid |-> {}, dead |-> m.dead]
     IN  Becomes([actor |-> a,
                  ch |-> Send(Send(toClient, {p}, AssignResponse(m.cookie, TRUE, a)),
                              near \ {p}, Spawn(a))])
  /\ nextId' = nextId + 1
  /\ UNCHANGED near

(* A release that carries the actor's place moves the entity there, which  *)
(* may bring other players into its range.                                 *)
OnOwnershipTransferRequest(p) ==
  /\ Receive(p, "RequestOwnershipTransfer")
  /\ LET m == Head(toServer[p])
         a == [actor EXCEPT !.invalid = (IF m.reason = "Relinquish" THEN {} ELSE @) \cup {p}]
     IN  IF actor.id = m.id /\ actor.owner = p /\ actor.epoch = m.epoch
         THEN /\ EpochsLeft
              /\ IF m.located THEN near' \in SUBSET up ELSE UNCHANGED near
              /\ \E w \in TransferToNextOwner([Unchanged EXCEPT !.actor = a], near') : Becomes(w)
         ELSE UNCHANGED <<near, actor, toClient>>
  /\ UNCHANGED nextId

OnOwnershipClaimRequest(p) ==
  /\ Receive(p, "RequestOwnershipClaim")
  /\ EpochsLeft
  /\ LET m == Head(toServer[p])
     IN  Becomes(IF m.id = actor.id /\ CanClaimOwnership(p, m.epoch)
                 THEN TransferOwnership(Unchanged, near, p, TRUE) ELSE Unchanged)
  /\ UNCHANGED <<near, nextId>>

(* The rider is the sender's own character, which he owns. *)
OnMountRequest(p) ==
  /\ Receive(p, "MountRequest")
  /\ EpochsLeft
  /\ LET m == Head(toServer[p])
     IN  Becomes(IF /\ IsMount /\ p \in near
                    /\ actor.id # 0 /\ m.id = actor.id /\ m.epoch = actor.epoch
                 THEN TransferOwnership(Unchanged, near, p, TRUE) ELSE Unchanged)
  /\ UNCHANGED <<near, nextId>>

(* A death is told to every player, in range or not. *)
OnDeathStateChange(p) ==
  /\ Receive(p, "RequestDeathStateChange")
  /\ Becomes(IF IsCurrentOwner(p, Head(toServer[p]))
             THEN [actor |-> [actor EXCEPT !.dead = TRUE], ch |-> Send(toClient, up \ {p}, Death(actor))]
             ELSE Unchanged)
  /\ UNCHANGED <<near, nextId>>

Spend(k) == left[k] > 0 /\ left' = [left EXCEPT ![k] = @ - 1]

(* The player's cell changes; on arrival in range he is told of the actor. *)
HandleGridCellShift(p) ==
  /\ p \in up
  /\ Spend("roam")
  /\ near' = IF p \in near THEN near \ {p} ELSE near \cup {p}
  /\ toClient' = IF p \notin near /\ actor.id # 0 /\ actor.owner # p
                 THEN Send(toClient, {p}, Spawn(actor)) ELSE toClient
  /\ UNCHANGED <<up, party, actor, nextId, online, client, toServer>>

PartyChange ==
  /\ Spend("party")
  /\ party' \in {pa \in Parties : pa.members \subseteq up}
  /\ UNCHANGED <<up, near, actor, nextId, online, client, netVars>>

(* What a leaving player owned is handed on, with a fresh search. *)
KeepOwned(p, nr) == {Unchanged}
HandOnOwned(p, nr) ==
  IF actor.owner = p THEN TransferToNextOwner([Unchanged EXCEPT !.actor.invalid = {}], nr)
  ELSE {Unchanged}

(* The server sees the connection end: the cell is cleared, the party left *)
(* and what the player owned is handed on.                                 *)
OnDisconnection(p) ==
  /\ p \in up
  /\ IF p \in online THEN Spend("drop") ELSE UNCHANGED left
  /\ EpochsLeft
  /\ up' = up \ {p}
  /\ near' = near \ {p}
  /\ party' \in {pa \in Parties : /\ pa.members = party.members \ {p}
                                  /\ party.leader # p => pa.leader = party.leader}
  /\ \E w \in HandOnOwned(p, near') :
       /\ actor' = w.actor
       /\ toClient' = [w.ch EXCEPT ![p] = <<>>]
  /\ toServer' = [toServer EXCEPT ![p] = <<>>]
  /\ UNCHANGED <<nextId, online, client>>

-----------------------------------------------------------------------------
(* Client: the entity the client keeps for the actor.  form is its         *)
(* FormIdComponent, loc and rem its Local- and RemoteComponent, wait the   *)
(* cookie it waits for, cancelled the cookies of entities given up while   *)
(* waiting, seed the next cookie, dead the state of the body.              *)

Say(c, ms) == toServer' = [toServer EXCEPT ![c] = IF c \in up \cap online THEN @ \o ms ELSE @]
Settle(c, e, ms) ==
  /\ client' = [client EXCEPT ![c] = e]
  /\ Say(c, ms)
  /\ UNCHANGED <<up, serverVars, online>>

(* What a client does on meeting an actor: claim a remote one if it leads  *)
(* its party (leads: what it last heard about that), else ask the server   *)
(* for an assignment unless one is held or awaited.                        *)
Wanted(e, leads) ==
  IF e.rem # NoToken THEN IF leads /\ ~IsMount THEN <<Claim(e.rem)>> ELSE <<>>
  ELSE IF e.loc # NoToken \/ e.wait # 0 THEN <<>> ELSE <<AssignRequest(e)>>

ProcessNewEntity(e) ==
  IF e.rem # NoToken \/ e.loc # NoToken \/ e.wait # 0 THEN e
  ELSE [e EXCEPT !.wait = e.seed, !.seed = @ + 1]

OnActorAdded(c) ==
  /\ ~client[c].form
  /\ Spend("load")
  /\ LET e == [client[c] EXCEPT !.form = TRUE]
     IN  \E leads \in BOOLEAN :
           IF c \in online THEN Settle(c, ProcessNewEntity(e), Wanted(e, leads)) ELSE Settle(c, e, <<>>)
  /\ UNCHANGED toClient

(* CancelServerAssignment: a mirrored actor is let go, an awaited answer is *)
(* marked, a local actor is given back.  An entity left without a form but *)
(* with a LocalComponent is inert and not followed further.                *)
OnActorRemoved(c) ==
  /\ client[c].form
  /\ Spend("unload")
  /\ LET e == client[c]
         waiting == e.rem = NoToken /\ e.wait # 0
         local   == e.rem = NoToken /\ e.wait = 0 /\ e.loc # NoToken
     IN  \E located \in BOOLEAN :
           Settle(c, [e EXCEPT !.form = FALSE, !.loc = NoToken, !.rem = NoToken, !.wait = 0,
                                 !.cancelled = IF waiting THEN @ \cup {e.wait} ELSE @],
                    IF local THEN <<Relinquish(e.loc, located)>> ELSE <<>>)
  /\ UNCHANGED toClient

(* The sweep over all forms when the client becomes party leader.          *)
OnPartyJoinedEvent(c) ==
  /\ client[c].form /\ c \in online
  /\ Spend("sweep")
  /\ Settle(c, ProcessNewEntity(client[c]), Wanted(client[c], TRUE))
  /\ UNCHANGED toClient

OnMountEvent(c) ==
  /\ IsMount /\ client[c].form /\ c \in online
  /\ Spend("sweep")
  /\ LET e == client[c]
         t == IF e.loc # NoToken THEN e.loc ELSE e.rem
     IN  t # NoToken /\ Settle(c, e, <<MountRequest(t)>>)
  /\ UNCHANGED toClient

(* The body dies on the client that simulates it. *)
RunDeathStateUpdates(c) ==
  /\ client[c].form /\ client[c].loc # NoToken /\ ~client[c].dead
  /\ Spend("kill")
  /\ Settle(c, [client[c] EXCEPT !.dead = TRUE], <<DeathRequest(client[c].loc)>>)
  /\ UNCHANGED toClient

Deliver(c, t) ==
  /\ c \in online
  /\ toClient[c] # <<>> /\ Head(toClient[c]).type = t
  /\ toClient' = [toClient EXCEPT ![c] = Tail(@)]
  /\ UNCHANGED left

(* The answer finds its entity by cookie.  The form may no longer resolve. *)
OnAssignCharacter(c) ==
  /\ Deliver(c, "AssignCharacterResponse")
  /\ LET m == Head(toClient[c])
         e == client[c]
         refuse == IF m.owner THEN <<Decline(Token(m))>> ELSE <<>>
     IN  \/ /\ m.cookie \in e.cancelled
            /\ Settle(c, [e EXCEPT !.cancelled = @ \ {m.cookie}], refuse)
         \/ /\ m.cookie = e.wait
            /\ \/ Settle(c, [e EXCEPT !.wait = 0, !.form = FALSE], refuse)
               \/ Settle(c, [e EXCEPT !.wait = 0, !.dead = m.dead,
                                        !.loc = IF m.owner THEN Token(m) ELSE @,
                                        !.rem = IF m.owner THEN @ ELSE Token(m)], <<>>)
         \/ /\ m.cookie \notin e.cancelled \cup {e.wait}
            /\ Settle(c, e, <<>>)

(* A spawn for a mirrored actor only repairs the body; an unknown one      *)
(* becomes mirrored unless an assignment is awaited.                       *)
OnCharacterSpawn(c) ==
  /\ Deliver(c, "CharacterSpawnRequest")
  /\ LET m == Head(toClient[c])
         e == client[c]
         mirrored == e.rem.id = m.id
     IN  IF mirrored /\ e.form THEN Settle(c, [e EXCEPT !.dead = m.dead], <<>>)
         ELSE IF e.wait # 0 THEN Settle(c, e, <<>>)
         ELSE Settle(c, [e EXCEPT !.rem = Token(m), !.dead = m.dead], <<>>)

(* A grant or the news of one.  Without the entity, or without its 3D      *)
(* (ready), a grant is declined.                                           *)
OnOwnershipTransfer(c) ==
  /\ Deliver(c, "NotifyOwnershipTransfer")
  /\ LET m == Head(toClient[c])
         e == client[c]
         known   == m.id \in {e.loc.id, e.rem.id}
         current == IF e.loc # NoToken THEN e.loc.epoch ELSE e.rem.epoch
         mine    == m.owner = c
         mirror  == IF e.form \/ e.rem # NoToken THEN Token(m) ELSE NoToken
         refuse  == <<Decline(Token(m))>>
     IN  IF known /\ m.epoch <= current THEN Settle(c, e, <<>>)
         ELSE IF ~known THEN Settle(c, e, IF mine THEN refuse ELSE <<>>)
         ELSE \/ /\ mine /\ e.form
                 /\ Settle(c, [e EXCEPT !.loc = Token(m), !.rem = NoToken, !.dead = m.dead], <<>>)
              \/ mine /\ Settle(c, [e EXCEPT !.loc = NoToken, !.rem = mirror], refuse)
              \/ /\ ~mine
                 /\ Settle(c, [e EXCEPT !.loc = NoToken, !.rem = mirror,
                                          !.dead = IF e.form THEN m.dead ELSE @], <<>>)

(* Only a mirrored entity is looked for. *)
OnRemoveCharacter(c) ==
  /\ Deliver(c, "NotifyRemoveCharacter")
  /\ LET e == client[c]
     IN  Settle(c, IF e.rem.id = Head(toClient[c]).id THEN [e EXCEPT !.rem = NoToken] ELSE e, <<>>)

(* A death is applied to the body that mirrors exactly this token. *)
OnNotifyDeathStateChange(c) ==
  /\ Deliver(c, "NotifyDeathStateChange")
  /\ LET e == client[c]
     IN  Settle(c, IF e.form /\ e.rem = Token(Head(toClient[c])) THEN [e EXCEPT !.dead = TRUE] ELSE e, <<>>)

-----------------------------------------------------------------------------
(* Connections.  Each end notices the break on its own.                    *)

OnDisconnected(c) ==
  /\ c \in online
  /\ IF c \in up THEN Spend("drop") ELSE UNCHANGED left
  /\ online' = online \ {c}
  /\ client' = [client EXCEPT ![c] = [@ EXCEPT !.loc = NoToken, !.rem = NoToken,
                                                !.wait = 0, !.cancelled = {}]]
  /\ toClient' = [toClient EXCEPT ![c] = <<>>]
  /\ UNCHANGED <<up, serverVars, toServer>>

(* A new Player may or may not reuse the address InvalidOwners remembers.  *)
OnConnected(c) ==
  /\ c \notin up /\ c \notin online
  /\ Spend("join")
  /\ up' = up \cup {c}
  /\ online' = online \cup {c}
  /\ \E forgotten \in SUBSET {c} : actor' = [actor EXCEPT !.invalid = @ \ forgotten]
  /\ LET e == client[c]
     IN  /\ client' = [client EXCEPT ![c] = IF e.form THEN ProcessNewEntity(e) ELSE e]
         /\ toServer' = [toServer EXCEPT ![c] = IF e.form THEN Wanted(e, FALSE) ELSE <<>>]
  /\ UNCHANGED <<near, party, nextId, toClient>>

-----------------------------------------------------------------------------
Init ==
  /\ up = Players /\ online = Players
  /\ near \in SUBSET Players
  /\ party \in Parties
  /\ actor = NoActor /\ nextId = 1
  /\ client = [c \in Players |-> NewEntity]
  /\ toServer = [c \in Players |-> <<>>]
  /\ toClient = [c \in Players |-> <<>>]
  /\ left = Budget

ServerStep(p) ==
  \/ OnAssignCharacterRequest(p) \/ CreateCharacter(p)
  \/ OnOwnershipTransferRequest(p) \/ OnOwnershipClaimRequest(p)
  \/ OnMountRequest(p) \/ OnDeathStateChange(p)

ClientStep(c) ==
  \/ OnAssignCharacter(c) \/ OnCharacterSpawn(c) \/ OnOwnershipTransfer(c)
  \/ OnRemoveCharacter(c) \/ OnNotifyDeathStateChange(c)

GameStep(c) ==
  \/ OnActorAdded(c) \/ OnActorRemoved(c) \/ OnPartyJoinedEvent(c)
  \/ OnMountEvent(c) \/ RunDeathStateUpdates(c)

ConnectionStep(c) == OnDisconnection(c) \/ OnDisconnected(c) \/ OnConnected(c)

Next ==
  \/ PartyChange
  \/ \E p \in Players :
       ServerStep(p) \/ ClientStep(p) \/ GameStep(p) \/ ConnectionStep(p) \/ HandleGridCellShift(p)

Spec == Init /\ [][Next]_vars

(* Both ends keep processing their queues and notice a dead connection.    *)
Fairness ==
  \A p \in Players :
    /\ WF_vars(ServerStep(p))
    /\ WF_vars(ClientStep(p))
    /\ WF_vars(p \notin online /\ OnDisconnection(p))
    /\ WF_vars(p \notin up /\ OnDisconnected(p))

FairSpec == Spec /\ Fairness

-----------------------------------------------------------------------------
(* Properties.                                                             *)

Tokens       == [id : Nat, epoch : Nat]
Entities     == [form : BOOLEAN, loc : Tokens, rem : Tokens, wait : Nat,
                 cancelled : SUBSET Nat, seed : Nat, dead : BOOLEAN]
Requests     == [type : {"AssignCharacterRequest"}, cookie : Nat, dead : BOOLEAN]
                \cup [type : {"RequestOwnershipClaim", "MountRequest", "RequestDeathStateChange"},
                      id : Nat, epoch : Nat]
                \cup [type : {"RequestOwnershipTransfer"}, id : Nat, epoch : Nat,
                      reason : {"Relinquish", "DeclineGrant"}, located : BOOLEAN]
Responses    == [type : {"AssignCharacterResponse"}, cookie : Nat, owner : BOOLEAN,
                 id : Nat, epoch : Nat, dead : BOOLEAN]
Transfers    == [type : {"NotifyOwnershipTransfer"}, id : Nat, epoch : Nat,
                 owner : Players, dead : BOOLEAN]
OtherNotices == [type : {"CharacterSpawnRequest"}, id : Nat, epoch : Nat, dead : BOOLEAN]
                \cup [type : {"NotifyRemoveCharacter"}, id : Nat]
                \cup [type : {"NotifyDeathStateChange"}, id : Nat, epoch : Nat]
Notices      == Responses \cup Transfers \cup OtherNotices

TypeOK ==
  /\ up \subseteq Players /\ online \subseteq Players /\ near \subseteq Players
  /\ party \in Parties
  /\ actor \in [id : Nat, epoch : Nat, owner : Players \cup {NoPlayer},
                invalid : SUBSET Players, dead : BOOLEAN]
  /\ nextId \in Nat
  /\ client \in [Players -> Entities]
  /\ toServer \in [Players -> Seq(Requests)]
  /\ toClient \in [Players -> Seq(Notices)]
  /\ left \in [Kinds -> Nat]

(* Two clients never simulate the actor under the same grant: no two hold a *)
(* LocalComponent with the same server id and epoch, however long their    *)
(* notifications have been in flight.                                      *)
OneAuthorityPerEpoch ==
  \A c, d \in Players :
    client[c].loc # NoToken /\ client[c].loc = client[d].loc => c = d

(* A client that simulates the server's current entity is never ahead of   *)
(* the server, and at the current epoch it is the owner the server knows:  *)
(* what the server accepts under IsCurrentOwner comes from that client.    *)
AuthorityIsServers ==
  \A c \in Players :
    LET t == client[c].loc
    IN  t # NoToken /\ t.id = actor.id =>
          t.epoch <= actor.epoch /\ (t.epoch = actor.epoch => actor.owner = c)

(* The owner is always a connected player: whatever a disconnect           *)
(* interrupts, the actor was handed on or removed.                         *)
OwnerConnected == actor.id # 0 => actor.owner \in up

(* The owner is never a player known to have given up this actor in the    *)
(* current search, so it cannot bounce between clients that declined it.   *)
OwnerNotRejected == actor.owner \notin actor.invalid

(* Ownership is not taken from a connected player unless he asked or the   *)
(* new owner leads the party he is in (or rides the horse).                *)
NoTheft ==
  [][actor.id # 0 /\ actor'.id = actor.id /\ actor'.owner # actor.owner /\ actor.owner \in up' =>
       \/ /\ toServer[actor.owner] # <<>>
          /\ Head(toServer[actor.owner]).type = "RequestOwnershipTransfer"
       \/ actor'.owner = party.leader /\ actor.owner \in party.members
       \/ IsMount]_vars

(* Once nothing more happens, the entity is gone or its owner simulates it *)
(* at the current epoch: no grant is lost between the two.                 *)
OwnershipSettles ==
  <>[](actor.id = 0 \/ client[actor.owner].loc = Token(actor))

(* ... and the owner agrees with the server on whether the actor is dead.  *)
DeathSettles ==
  <>[](actor.id = 0 \/ client[actor.owner].dead = actor.dead)
=============================================================================
