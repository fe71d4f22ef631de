-------------------------- MODULE OwnershipProofs --------------------------
(* The ownership protocol, for any players and any number of events: it is *)
(* type correct, implements the lease, and so never has two clients        *)
(* simulate the actor under one token.                                     *)
EXTENDS OwnershipRefinement, TLAPS, SequenceTheorems

Actors   == [id : Nat, epoch : Nat, owner : Players \cup {NoPlayer},
             invalid : SUBSET Players, dead : BOOLEAN]
Channels == [Players -> Seq(Notices)]
Outcomes == [actor : Actors, ch : Channels]

USE DEF Tokens

-----------------------------------------------------------------------------
(* Numbers and queues.                                                     *)

LEMMA NextEpochIsNext ==
  ASSUME NEW e \in Nat, e < MaxEpoch
  PROVE  NextEpoch(e) = e + 1
  <1>1. (e + 1) % EpochModulus = e + 1
    BY EpochAssumption
  <1> QED BY <1>1 DEF NextEpoch

LEMMA OneMessage == ASSUME NEW S, NEW m \in S PROVE <<m>> \in Seq(S)
  OBVIOUS

(* Sending and delivering keep queues well-typed. *)
LEMMA SendType ==
  ASSUME NEW ch \in Channels, NEW S, NEW m \in Notices
  PROVE  Send(ch, S, m) \in Channels
  BY DEF Send, Channels

LEMMA TailType ==
  ASSUME NEW S, NEW q \in Seq(S), q # <<>>
  PROVE  Tail(q) \in Seq(S) /\ Head(q) \in S
  BY HeadTailProperties

(* What a queue grants to c after a message is appended or delivered. *)
LEMMA GrantsInAppend ==
  ASSUME NEW q \in Seq(Notices), NEW m \in Notices, NEW c, NEW t \in GrantsIn(Append(q, m), c)
  PROVE  t \in GrantsIn(q, c) \/ (IsGrant(m, c) /\ t = Token(m))
  <1>1. PICK i \in DOMAIN Append(q, m) : IsGrant(Append(q, m)[i], c) /\ t = Token(Append(q, m)[i])
    BY DEF GrantsIn
  <1>2. /\ DOMAIN Append(q, m) = 1..(Len(q) + 1) /\ DOMAIN q = 1..Len(q) /\ Len(q) \in Nat
        /\ Append(q, m)[Len(q) + 1] = m
        /\ \A j \in 1..Len(q) : Append(q, m)[j] = q[j]
    BY AppendProperties
  <1>3. CASE i = Len(q) + 1
    BY <1>1, <1>2, <1>3
  <1>4. CASE i \in 1..Len(q)
    BY <1>1, <1>2, <1>4 DEF GrantsIn
  <1> QED BY <1>1, <1>2, <1>3, <1>4

LEMMA GrantsInTail ==
  ASSUME NEW q \in Seq(Notices), q # <<>>, NEW c
  PROVE  /\ GrantsIn(Tail(q), c) \subseteq GrantsIn(q, c)
         /\ IsGrant(Head(q), c) => Token(Head(q)) \in GrantsIn(q, c)
  <1>1. /\ Len(q) \in Nat /\ Len(q) > 0 /\ DOMAIN q = 1..Len(q)
        /\ DOMAIN Tail(q) = 1..(Len(q) - 1)
        /\ \A j \in 1..(Len(q) - 1) : Tail(q)[j] = q[j + 1]
        /\ Head(q) = q[1]
    BY HeadTailProperties, EmptySeq, LenProperties
  <1>2. ASSUME NEW t \in GrantsIn(Tail(q), c) PROVE t \in GrantsIn(q, c)
    <2>1. PICK i \in DOMAIN Tail(q) : IsGrant(Tail(q)[i], c) /\ t = Token(Tail(q)[i])
      BY DEF GrantsIn
    <2>2. i + 1 \in DOMAIN q /\ IsGrant(q[i + 1], c) /\ t = Token(q[i + 1])
      BY <1>1, <2>1
    <2> QED BY <2>2 DEF GrantsIn
  <1>3. ASSUME IsGrant(Head(q), c) PROVE Token(Head(q)) \in GrantsIn(q, c)
    BY <1>1, <1>3 DEF GrantsIn
  <1> QED BY <1>2, <1>3

LEMMA GrantsInEmpty == ASSUME NEW c PROVE GrantsIn(<<>>, c) = {}
  BY DEF GrantsIn
-----------------------------------------------------------------------------
(* What the server's operators do to the lease.                            *)

(* The state in which an operator runs. *)
ActorOK == (actor.id = 0 => actor.owner = NoPlayer) /\ nextId > 0
Ready   == TypeOK /\ ActorOK

Grantee(w, c, t) == w.actor.id # 0 /\ w.actor.owner = c /\ t = Token(w.actor)

(* w.ch holds no grant that is not in flight already or the owner's.       *)
GrantsFollow(w) ==
  \A c \in Players : \A t \in GrantsIn(w.ch[c], c) : t \in Underway(c) \/ Grantee(w, c, t)

SameLease(w) == w.actor.id = actor.id /\ w.actor.epoch = actor.epoch /\ w.actor.owner = actor.owner
PassedOn(w)  == /\ actor.id # 0 /\ w.actor.id = actor.id /\ w.actor.epoch = actor.epoch + 1
                /\ w.actor.owner \in Players /\ w.actor.owner # actor.owner

Kept(w)  == /\ w \in Outcomes /\ SameLease(w)
            /\ \A c \in Players : GrantsIn(w.ch[c], c) \subseteq Underway(c)
Sound(w) == /\ w \in Outcomes /\ GrantsFollow(w)
            /\ SameLease(w) \/ PassedOn(w) \/ w.actor = NoActor

LEMMA SendGrants ==
  ASSUME NEW ch \in Channels, NEW S, NEW msg \in Notices, NEW c \in Players,
         NEW t \in GrantsIn(Send(ch, S, msg)[c], c)
  PROVE  t \in GrantsIn(ch[c], c) \/ (IsGrant(msg, c) /\ t = Token(msg))
  <1>1. CASE Send(ch, S, msg)[c] = ch[c]
    BY <1>1
  <1>2. CASE Send(ch, S, msg)[c] = Append(ch[c], msg)
    BY <1>2, GrantsInAppend DEF Channels
  <1> QED BY <1>1, <1>2 DEF Send

LEMMA UnchangedKept == ASSUME Ready PROVE Kept(Unchanged)
  BY DEF Ready, TypeOK, Kept, Unchanged, Outcomes, Actors, Channels, SameLease, Underway

(* A message that grants nothing changes no grant. *)
LEMMA SendNews ==
  ASSUME Ready, NEW w, Sound(w), NEW S, NEW msg \in Notices, \A c \in Players : ~IsGrant(msg, c)
  PROVE  /\ Sound([w EXCEPT !.ch = Send(@, S, msg)])
         /\ SameLease(w) => SameLease([w EXCEPT !.ch = Send(@, S, msg)])
  <1> DEFINE v == [w EXCEPT !.ch = Send(@, S, msg)]
  <1>1. v \in Outcomes /\ v.actor = w.actor /\ v.ch = Send(w.ch, S, msg) /\ w.ch \in Channels
    BY SendType DEF Sound, Outcomes
  <1>2. GrantsFollow(v)
    BY <1>1, SendGrants DEF Sound, GrantsFollow, Grantee
  <1> QED BY <1>1, <1>2 DEF Sound, SameLease, PassedOn

LEMMA Reassigned ==
  ASSUME NEW x \in Actors, NEW p, NEW e, NEW inv
  PROVE  [x EXCEPT !.owner = p, !.epoch = e, !.invalid = inv]
         = [id |-> x.id, epoch |-> e, owner |-> p, invalid |-> inv, dead |-> x.dead]
  <1> DEFINE R(ep, ow, iv) == [id |-> x.id, epoch |-> ep, owner |-> ow, invalid |-> iv, dead |-> x.dead]
  <1>1. x = R(x.epoch, x.owner, x.invalid)
    BY DEF Actors
  <1>2. [x EXCEPT !.owner = p] = R(x.epoch, p, x.invalid)
    BY <1>1
  <1>3. [R(x.epoch, p, x.invalid) EXCEPT !.epoch = e] = R(e, p, x.invalid)
    OBVIOUS
  <1>4. [R(e, p, x.invalid) EXCEPT !.invalid = inv] = R(e, p, inv)
    OBVIOUS
  <1> QED BY <1>2, <1>3, <1>4

LEMMA TransferSound ==
  ASSUME Ready, NEW w, Kept(w), NEW nr, NEW p \in Players, NEW reset \in BOOLEAN,
         actor.id # 0, EpochsLeft
  PROVE  Sound(TransferOwnership(w, nr, p, reset))
  <1> DEFINE a == [w.actor EXCEPT !.owner = p, !.epoch = NextEpoch(@), !.invalid = IF reset THEN {} ELSE @]
             v == [actor |-> a, ch |-> Send(w.ch, nr \cup {w.actor.owner}, Transferred(a))]
  <1>1. CASE w.actor.owner = p
    BY <1>1 DEF TransferOwnership, Kept, Sound, GrantsFollow
  <1>2. CASE w.actor.owner # p
    <2>1. TransferOwnership(w, nr, p, reset) = v
      BY <1>2 DEF TransferOwnership
    <2>2. w.actor \in Actors /\ w.ch \in Channels /\ w.actor.epoch = actor.epoch /\ w.actor.id = actor.id
      BY DEF Kept, Outcomes, SameLease
    <2>3. NextEpoch(w.actor.epoch) = actor.epoch + 1
      BY <2>2, NextEpochIsNext DEF EpochsLeft, Ready, TypeOK
    <2>4. a \in Actors /\ a.owner = p /\ a.id = actor.id /\ a.epoch = actor.epoch + 1
      <3>1. actor.epoch + 1 \in Nat
        BY DEF Ready, TypeOK
      <3>2. a = [id |-> w.actor.id, epoch |-> actor.epoch + 1, owner |-> p,
                 invalid |-> IF reset THEN {} ELSE w.actor.invalid, dead |-> w.actor.dead]
        <4> DEFINE inv == IF reset THEN {} ELSE w.actor.invalid
        <4> HIDE DEF inv, v
        <4>1. a = [w.actor EXCEPT !.owner = p, !.epoch = NextEpoch(@), !.invalid = inv]
          BY DEF inv
        <4> HIDE DEF a
        <4> QED BY <2>2, <2>3, <4>1, Reassigned DEF inv
      <3>3. (IF reset THEN {} ELSE w.actor.invalid) \in SUBSET Players
        BY <2>2 DEF Actors
      <3> QED BY <2>2, <3>1, <3>2, <3>3 DEF Actors
    <2>5. Transferred(a) \in Notices
      BY <2>4 DEF Transferred, Notices, Transfers, Actors
    <2>6. v \in Outcomes
      BY <2>2, <2>4, <2>5, SendType DEF Outcomes
    <2>7. PassedOn(v)
      BY <1>2, <2>4 DEF PassedOn, Kept, SameLease
    <2>8. GrantsFollow(v)
      <3> SUFFICES ASSUME NEW c \in Players, NEW t \in GrantsIn(v.ch[c], c)
                   PROVE  t \in Underway(c) \/ Grantee(v, c, t)
        BY DEF GrantsFollow
      <3>1. CASE t \in GrantsIn(w.ch[c], c)
        BY <3>1 DEF Kept
      <3>2. CASE IsGrant(Transferred(a), c) /\ t = Token(Transferred(a))
        BY <2>4, <3>2 DEF IsGrant, Transferred, Token, Grantee
      <3>3. v.ch[c] = Send(w.ch, nr \cup {w.actor.owner}, Transferred(a))[c]
        OBVIOUS
      <3>4. t \in GrantsIn(Send(w.ch, nr \cup {w.actor.owner}, Transferred(a))[c], c)
        BY <3>3
      <3>5. t \in GrantsIn(w.ch[c], c) \/ (IsGrant(Transferred(a), c) /\ t = Token(Transferred(a)))
        <4> DEFINE S == nr \cup {w.actor.owner}
                   msg == Transferred(a)
        <4>1. w.ch \in Channels /\ msg \in Notices /\ t \in GrantsIn(Send(w.ch, S, msg)[c], c)
          BY <2>2, <2>5, <3>4
        <4> HIDE DEF S, msg
        <4> QED BY <4>1, SendGrants DEF msg
      <3> QED BY <3>1, <3>2, <3>5
    <2> QED BY <2>1, <2>6, <2>7, <2>8 DEF Sound
  <1> QED BY <1>1, <1>2

LEMMA KeptIsSound == ASSUME NEW w, Kept(w) PROVE Sound(w)
  BY DEF Kept, Sound, GrantsFollow

LEMMA RemovalSound ==
  ASSUME Ready, NEW w, Kept(w) PROVE Sound(CharacterRemove(w))
  <1> DEFINE v == [actor |-> NoActor, ch |-> Send(w.ch, up, Removed(w.actor))]
  <1>1. w.actor \in Actors /\ w.ch \in Channels
    BY DEF Kept, Outcomes
  <1>2. Removed(w.actor) \in Notices /\ \A c \in Players : ~IsGrant(Removed(w.actor), c)
    BY <1>1 DEF Removed, Notices, OtherNotices, Actors, IsGrant
  <1>3. v \in Outcomes /\ v.actor = NoActor
    BY <1>1, <1>2, SendType DEF Outcomes, Actors, NoActor
  <1>4. GrantsFollow(v)
    BY <1>1, <1>2, SendGrants DEF Kept, GrantsFollow
  <1> QED BY <1>3, <1>4 DEF CharacterRemove, Sound

LEMMA NextOwnerSound ==
  ASSUME Ready, NEW w, Kept(w), NEW nr, actor.id # 0, EpochsLeft,
         NEW v \in TransferToNextOwner(w, nr)
  PROVE  Sound(v)
  <1>1. CASE NextOwners(w.actor, nr) = {}
    BY <1>1, RemovalSound DEF TransferToNextOwner
  <1>2. CASE NextOwners(w.actor, nr) # {}
    <2>1. PICK p \in NextOwners(w.actor, nr) : v = TransferOwnership(w, nr, p, FALSE)
      BY <1>2 DEF TransferToNextOwner
    <2>2. p \in Players
      BY DEF NextOwners, Ready, TypeOK
    <2> QED BY <2>1, <2>2, TransferSound
  <1> QED BY <1>1, <1>2

-----------------------------------------------------------------------------
(* Messages and entities are well-typed.                                   *)

LEMMA RequestTypes ==
  /\ \A e \in Entities : AssignRequest(e) \in Requests
  /\ \A t \in Tokens : /\ Claim(t) \in Requests /\ MountRequest(t) \in Requests
                       /\ DeathRequest(t) \in Requests /\ Decline(t) \in Requests
                       /\ \A l \in BOOLEAN : Relinquish(t, l) \in Requests
  BY DEF Entities, AssignRequest, Claim, MountRequest, DeathRequest, Decline, Relinquish, Release, Requests

LEMMA NoticeTypes ==
  ASSUME NEW a \in Actors
  PROVE  /\ \A k \in Nat : \A b \in BOOLEAN : AssignResponse(k, b, a) \in Notices
         /\ Spawn(a) \in Notices /\ Death(a) \in Notices
         /\ \A c : ~IsGrant(Spawn(a), c) /\ ~IsGrant(Death(a), c)
         /\ \A c, k, b : IsGrant(AssignResponse(k, b, a), c) <=> b = TRUE
         /\ \A k, b : Token(AssignResponse(k, b, a)) = Token(a)
  <1>1. \A k \in Nat : \A b \in BOOLEAN : AssignResponse(k, b, a) \in Notices
    BY DEF Actors, AssignResponse, Notices, Responses
  <1>2. Spawn(a) \in Notices /\ Death(a) \in Notices
    BY DEF Actors, Spawn, Death, Notices, OtherNotices
  <1>3. \A c : ~IsGrant(Spawn(a), c) /\ ~IsGrant(Death(a), c)
    BY DEF Spawn, Death, IsGrant
  <1>4. \A c, k, b : IsGrant(AssignResponse(k, b, a), c) <=> b = TRUE
    BY DEF AssignResponse, IsGrant
  <1>5. \A k, b : Token(AssignResponse(k, b, a)) = Token(a)
    BY DEF AssignResponse, Token
  <1> QED BY <1>1, <1>2, <1>3, <1>4, <1>5

LEMMA GrantTypes ==
  ASSUME NEW q \in Seq(Notices), NEW c
  PROVE  GrantsIn(q, c) \subseteq Tokens
  <1>1. ASSUME NEW msg \in Notices, IsGrant(msg, c) PROVE Token(msg) \in Tokens
    BY <1>1 DEF IsGrant, Token, Notices, Responses, Transfers, OtherNotices
  <1>2. \A i \in DOMAIN q : q[i] \in Notices
    BY LenProperties
  <1> QED BY <1>1, <1>2 DEF GrantsIn

(* Changing one field of a client's entity. *)
LEMMA EntityUpdates ==
  ASSUME NEW e \in Entities
  PROVE  /\ \A b \in BOOLEAN : [e EXCEPT !.form = b] \in Entities /\ [e EXCEPT !.form = b].loc = e.loc
         /\ \A b \in BOOLEAN : [e EXCEPT !.dead = b] \in Entities /\ [e EXCEPT !.dead = b].loc = e.loc
         /\ \A t \in Tokens : [e EXCEPT !.rem = t] \in Entities /\ [e EXCEPT !.rem = t].loc = e.loc
         /\ \A t \in Tokens : [e EXCEPT !.loc = t] \in Entities /\ [e EXCEPT !.loc = t].loc = t
         /\ \A n \in Nat : [e EXCEPT !.wait = n] \in Entities /\ [e EXCEPT !.wait = n].loc = e.loc
         /\ \A n \in Nat : [e EXCEPT !.seed = n] \in Entities /\ [e EXCEPT !.seed = n].loc = e.loc
         /\ \A S \in SUBSET Nat : [e EXCEPT !.cancelled = S] \in Entities /\ [e EXCEPT !.cancelled = S].loc = e.loc
  BY DEF Entities

LEMMA EntityFields ==
  ASSUME NEW e \in Entities
  PROVE  /\ e.form \in BOOLEAN /\ e.dead \in BOOLEAN /\ e.loc \in Tokens /\ e.rem \in Tokens
         /\ e.wait \in Nat /\ e.seed \in Nat /\ e.cancelled \in SUBSET Nat
  BY DEF Entities

-----------------------------------------------------------------------------
(* Steps of a client.                                                      *)

(* A step that leaves the lease alone, consumes grants and lets a client  *)
(* act under one it had is a step of the lease.                            *)
LEMMA LocalMaps ==
  ASSUME Ready, TypeOK', NEW c \in Players, NEW e \in Entities,
         client' = [client EXCEPT ![c] = e], theLease' = theLease, UNCHANGED nextId,
         \A d \in Players : GrantsIn(toClient'[d], d) \subseteq Underway(d),
         e.loc = NoToken \/ e.loc = client[c].loc \/ e.loc \in Underway(c)
  PROVE  Ready' /\ Lease!LeaseNext
  <1>1. Ready'
    BY DEF Ready, ActorOK, theLease
  <1>2. Lease!Keep
    BY DEF Lease!Keep
  <1>3. \A d \in Players : client'[d].loc = NoToken \/ client'[d].loc = client[d].loc
                          \/ client'[d].loc \in Underway(d)
    BY DEF Ready, TypeOK
  <1>4. \A d \in Players : grants'[d] = GrantsIn(toClient'[d], d) \cup Acting(d)'
    BY DEF grants, Underway
  <1>5. \A d \in Players : Acting(d)' \subseteq grants[d]
    BY <1>3 DEF Acting, grants
  <1>6. Lease!GrantOnly(theLease')
    <2>1. grants' \in [Players -> SUBSET Lease!LeaseTokens]
      <3>1. \A d \in Players : GrantsIn(toClient'[d], d) \subseteq Tokens
        BY GrantTypes DEF TypeOK
      <3>2. \A d \in Players : Acting(d)' \subseteq Tokens
        <4>1. \A d \in Players : client'[d].loc \in Tokens
          BY EntityFields DEF TypeOK
        <4> QED BY <4>1 DEF Acting
      <3> QED BY <1>4, <3>1, <3>2 DEF grants, Lease!LeaseTokens
    <2> QED BY <1>4, <1>5, <2>1 DEF Lease!GrantOnly, grants
  <1>7. Lease!HoldOnly
    <2>1. holds' \in [Players -> Lease!LeaseTokens]
      BY DEF holds, TypeOK, Entities, Lease!LeaseTokens
    <2>2. ASSUME NEW d \in Players, holds'[d] # NoToken
          PROVE  holds'[d] \in Acting(d)'
      BY <2>2 DEF holds, Acting
    <2> QED BY <1>4, <1>5, <2>1, <2>2 DEF Lease!HoldOnly, Lease!NoGrant, NoToken
  <1> QED BY <1>1, <1>2, <1>6, <1>7 DEF Lease!LeaseNext

LEMMA ClientMaps ==
  ASSUME Ready, NEW c \in Players, NEW e \in Entities, NEW ms \in Seq(Requests),
         Settle(c, e, ms), left' \in [Kinds -> Nat], toClient' \in Channels,
         \A d \in Players : GrantsIn(toClient'[d], d) \subseteq Underway(d),
         e.loc = NoToken \/ e.loc = client[c].loc \/ e.loc \in Underway(c)
  PROVE  Ready' /\ Lease!LeaseNext
  <1>1. TypeOK'
    <2>1. toServer' \in [Players -> Seq(Requests)]
      BY ConcatProperties DEF Settle, Say, Ready, TypeOK
    <2>2. client' \in [Players -> Entities]
      BY DEF Settle, Ready, TypeOK
    <2> QED BY <2>1, <2>2 DEF Settle, Ready, TypeOK, serverVars, Channels
  <1>2. client' = [client EXCEPT ![c] = e] /\ theLease' = theLease /\ UNCHANGED nextId
    BY DEF Settle, serverVars, theLease
  <1> QED BY <1>1, <1>2, LocalMaps

LEMMA SpendType == ASSUME Ready, NEW k \in Kinds, Spend(k) PROVE left' \in [Kinds -> Nat]
  BY DEF Spend, Ready, TypeOK

(* The same, for the client's own steps: nothing is delivered. *)
LEMMA SettleMaps ==
  ASSUME Ready, NEW c \in Players, NEW e \in Entities, NEW ms \in Seq(Requests),
         Settle(c, e, ms), NEW k \in Kinds, Spend(k), UNCHANGED toClient,
         e.loc = NoToken \/ e.loc = client[c].loc
  PROVE  Ready' /\ Lease!LeaseNext
  <1>1. left' \in [Kinds -> Nat]
    BY SpendType
  <1>2. toClient' \in Channels /\ \A d \in Players : GrantsIn(toClient'[d], d) \subseteq Underway(d)
    BY DEF Ready, TypeOK, Channels, Underway
  <1> QED BY <1>1, <1>2, ClientMaps

LEMMA DeliverFacts ==
  ASSUME Ready, NEW c \in Players, NEW ty, Deliver(c, ty)
  PROVE  /\ toClient' \in Channels /\ left' \in [Kinds -> Nat]
         /\ \A d \in Players : GrantsIn(toClient'[d], d) \subseteq Underway(d)
         /\ Head(toClient[c]) \in Notices /\ Head(toClient[c]).type = ty
         /\ IsGrant(Head(toClient[c]), c) => Token(Head(toClient[c])) \in Underway(c)
  <1>1. toClient[c] \in Seq(Notices) /\ toClient[c] # <<>> /\ toClient \in Channels
    BY DEF Deliver, Ready, TypeOK, Channels
  <1>2. toClient' = [toClient EXCEPT ![c] = Tail(toClient[c])]
    BY DEF Deliver
  <1>3. Tail(toClient[c]) \in Seq(Notices) /\ Head(toClient[c]) \in Notices
    BY <1>1, TailType
  <1>4. toClient' \in Channels
    BY <1>1, <1>2, <1>3 DEF Channels
  <1>5. \A d \in Players : toClient'[d] = IF d = c THEN Tail(toClient[c]) ELSE toClient[d]
    BY <1>1, <1>2 DEF Channels
  <1>6. \A d \in Players : GrantsIn(toClient'[d], d) \subseteq Underway(d)
    BY <1>1, <1>5, GrantsInTail DEF Underway
  <1>7. IsGrant(Head(toClient[c]), c) => Token(Head(toClient[c])) \in Underway(c)
    BY <1>1, GrantsInTail DEF Underway
  <1> QED BY <1>3, <1>4, <1>6, <1>7 DEF Deliver, Ready, TypeOK

(* A delivery handled by settling on entity e. *)
LEMMA DeliveryMaps ==
  ASSUME Ready, NEW c \in Players, NEW ty, Deliver(c, ty),
         NEW e \in Entities, NEW ms \in Seq(Requests), Settle(c, e, ms),
         \/ e.loc = NoToken \/ e.loc = client[c].loc
         \/ IsGrant(Head(toClient[c]), c) /\ e.loc = Token(Head(toClient[c]))
  PROVE  Ready' /\ Lease!LeaseNext
  BY DeliverFacts, ClientMaps

LEMMA WantedType ==
  ASSUME NEW e \in Entities, NEW leads \in BOOLEAN
  PROVE  /\ Wanted(e, leads) \in Seq(Requests)
         /\ ProcessNewEntity(e) \in Entities /\ ProcessNewEntity(e).loc = e.loc
  <1>1. Claim(e.rem) \in Requests /\ AssignRequest(e) \in Requests
    BY RequestTypes, EntityFields
  <1>2. Wanted(e, leads) \in Seq(Requests)
    BY <1>1, OneMessage DEF Wanted
  <1>3. e.seed \in Nat /\ e.seed + 1 \in Nat
    BY EntityFields
  <1> DEFINE f == [e EXCEPT !.wait = e.seed]
  <1>4. f \in Entities /\ f.loc = e.loc /\ f.seed = e.seed
    BY <1>3 DEF Entities
  <1>5. [f EXCEPT !.seed = e.seed + 1] \in Entities /\ [f EXCEPT !.seed = e.seed + 1].loc = e.loc
    <2> HIDE DEF f
    <2> QED BY <1>3, <1>4, EntityUpdates
  <1>6. [e EXCEPT !.wait = e.seed, !.seed = @ + 1] = [f EXCEPT !.seed = e.seed + 1]
    BY <1>4
  <1> QED BY <1>2, <1>5, <1>6 DEF ProcessNewEntity

LEMMA ClientEntity == ASSUME Ready, NEW c \in Players PROVE client[c] \in Entities
  BY DEF Ready, TypeOK

LEMMA NoTokenType == NoToken \in Tokens
  BY DEF NoToken

LEMMA NoMessage == ASSUME NEW S PROVE <<>> \in Seq(S)
  OBVIOUS

LEMMA GameStepMaps ==
  ASSUME Ready, NEW c \in Players, GameStep(c)
  PROVE  Ready' /\ Lease!LeaseNext
  <1> DEFINE e == client[c]
  <1>0. e \in Entities
    BY ClientEntity
  <1>1. CASE OnActorAdded(c)
    <2> DEFINE f == [e EXCEPT !.form = TRUE]
    <2>1. f \in Entities /\ f.loc = e.loc
      BY <1>0, EntityUpdates
    <2>2. Spend("load") /\ UNCHANGED toClient
      BY <1>1 DEF OnActorAdded
    <2>3. PICK leads \in BOOLEAN :
            \/ Settle(c, ProcessNewEntity(f), Wanted(f, leads))
            \/ Settle(c, f, <<>>)
      BY <1>1 DEF OnActorAdded
    <2> HIDE DEF f
    <2> QED BY <2>1, <2>2, <2>3, WantedType, SettleMaps, NoMessage DEF Kinds
  <1>2. CASE OnActorRemoved(c)
    <2> DEFINE S == IF e.rem = NoToken /\ e.wait # 0 THEN e.cancelled \cup {e.wait} ELSE e.cancelled
               f1 == [e EXCEPT !.form = FALSE]
               f2 == [f1 EXCEPT !.loc = NoToken]
               f3 == [f2 EXCEPT !.rem = NoToken]
               f4 == [f3 EXCEPT !.wait = 0]
               f  == [f4 EXCEPT !.cancelled = S]
    <2>1. S \in SUBSET Nat
      BY <1>0, EntityFields
    <2>2. f \in Entities /\ f.loc = NoToken
      <3>1. f1 \in Entities
        BY <1>0, EntityUpdates
      <3>2. f2 \in Entities /\ f2.loc = NoToken
        <4> HIDE DEF f1
        <4> QED BY <3>1, NoTokenType, EntityUpdates
      <3>3. f3 \in Entities /\ f3.loc = NoToken
        <4> HIDE DEF f2
        <4> QED BY <3>2, NoTokenType, EntityUpdates
      <3>4. f4 \in Entities /\ f4.loc = NoToken
        <4> HIDE DEF f3
        <4> QED BY <3>3, EntityUpdates
      <3> HIDE DEF f4, S
      <3> QED BY <2>1, <3>4, EntityUpdates
    <2>3. Spend("unload") /\ UNCHANGED toClient
      BY <1>2 DEF OnActorRemoved
    <2>4. \E located \in BOOLEAN :
            Settle(c, f, <<Relinquish(e.loc, located)>>) \/ Settle(c, f, <<>>)
      BY <1>2 DEF OnActorRemoved
    <2> HIDE DEF f
    <2>5. PICK located \in BOOLEAN :
            Settle(c, f, <<Relinquish(e.loc, located)>>) \/ Settle(c, f, <<>>)
      BY <2>4
    <2>6. Relinquish(e.loc, located) \in Requests
      BY <1>0, EntityFields, RequestTypes
    <2> QED BY <2>2, <2>3, <2>5, <2>6, SettleMaps, OneMessage, NoMessage DEF Kinds
  <1>3. CASE OnPartyJoinedEvent(c)
    BY <1>0, <1>3, WantedType, SettleMaps DEF OnPartyJoinedEvent, Kinds
  <1>4. CASE OnMountEvent(c)
    <2>1. PICK t \in Tokens : Settle(c, e, <<MountRequest(t)>>)
      BY <1>0, <1>4, EntityFields DEF OnMountEvent
    <2>2. Spend("sweep") /\ UNCHANGED toClient
      BY <1>4 DEF OnMountEvent
    <2> QED BY <1>0, <2>1, <2>2, RequestTypes, OneMessage, SettleMaps DEF Kinds
  <1>5. CASE RunDeathStateUpdates(c)
    <2> DEFINE f == [e EXCEPT !.dead = TRUE]
    <2>1. f \in Entities /\ f.loc = e.loc
      BY <1>0, EntityUpdates
    <2>2. Spend("kill") /\ UNCHANGED toClient /\ Settle(c, f, <<DeathRequest(e.loc)>>)
      BY <1>5 DEF RunDeathStateUpdates
    <2>3. DeathRequest(e.loc) \in Requests
      BY <1>0, EntityFields, RequestTypes
    <2> HIDE DEF f
    <2> QED BY <2>1, <2>2, <2>3, OneMessage, SettleMaps DEF Kinds
  <1> QED BY <1>1, <1>2, <1>3, <1>4, <1>5 DEF GameStep

LEMMA TokenOfNotice ==
  ASSUME NEW msg \in Notices,
         msg.type \in {"AssignCharacterResponse", "CharacterSpawnRequest", "NotifyOwnershipTransfer"}
  PROVE  Token(msg) \in Tokens /\ msg.dead \in BOOLEAN
  BY DEF Token, Notices, Responses, Transfers, OtherNotices

LEMMA OnAssignCharacterMaps ==
  ASSUME Ready, NEW c \in Players, OnAssignCharacter(c)
  PROVE  Ready' /\ Lease!LeaseNext
  <1> DEFINE e == client[c]
             msg == Head(toClient[c])
             refuse == IF msg.owner THEN <<Decline(Token(msg))>> ELSE <<>>
  <1>1. e \in Entities /\ Deliver(c, "AssignCharacterResponse")
    BY ClientEntity DEF OnAssignCharacter
  <1>2. msg \in Notices /\ msg.type = "AssignCharacterResponse" /\ Token(msg) \in Tokens /\ msg.dead \in BOOLEAN
    BY <1>1, DeliverFacts, TokenOfNotice
  <1>3. refuse \in Seq(Requests) /\ <<>> \in Seq(Requests)
    BY <1>2, RequestTypes, OneMessage, NoMessage
  <1> DEFINE x1 == [e EXCEPT !.cancelled = @ \ {msg.cookie}]
             x2 == [[e EXCEPT !.wait = 0] EXCEPT !.form = FALSE]
             y1 == [e EXCEPT !.wait = 0]
             y2 == [y1 EXCEPT !.dead = msg.dead]
             y3 == [y2 EXCEPT !.loc = IF msg.owner THEN Token(msg) ELSE e.loc]
             x3 == [y3 EXCEPT !.rem = IF msg.owner THEN e.rem ELSE Token(msg)]
  <1>4. Settle(c, x1, refuse) \/ Settle(c, x2, refuse) \/ Settle(c, x3, <<>>) \/ Settle(c, e, <<>>)
    BY <1>1 DEF OnAssignCharacter, Entities
  <1>5. x1 \in Entities /\ x1.loc = e.loc
    BY <1>1, EntityUpdates, EntityFields
  <1>6. y1 \in Entities /\ y1.loc = e.loc
    BY <1>1, EntityUpdates
  <1>7. x2 \in Entities /\ x2.loc = e.loc
    <2>1. x2 = [y1 EXCEPT !.form = FALSE]
      OBVIOUS
    <2> HIDE DEF y1
    <2> QED BY <1>6, <2>1, EntityUpdates
  <1>8. y2 \in Entities /\ y2.loc = e.loc
    <2> HIDE DEF y1
    <2> QED BY <1>2, <1>6, EntityUpdates
  <1>9. y3 \in Entities /\ y3.loc = IF msg.owner THEN Token(msg) ELSE e.loc
    <2>1. (IF msg.owner THEN Token(msg) ELSE e.loc) \in Tokens
      BY <1>1, <1>2, EntityFields
    <2> HIDE DEF y2
    <2> QED BY <1>8, <2>1, EntityUpdates
  <1>10. x3 \in Entities /\ x3.loc = IF msg.owner THEN Token(msg) ELSE e.loc
    <2>1. (IF msg.owner THEN e.rem ELSE Token(msg)) \in Tokens
      BY <1>1, <1>2, EntityFields
    <2> HIDE DEF y3
    <2> QED BY <1>9, <2>1, EntityUpdates
  <1>11. msg.owner => IsGrant(msg, c)
    BY <1>2 DEF IsGrant
  <1> HIDE DEF x1, x2, x3, refuse
  <1> QED BY <1>1, <1>3, <1>4, <1>5, <1>7, <1>10, <1>11, DeliveryMaps

LEMMA OnCharacterSpawnMaps ==
  ASSUME Ready, NEW c \in Players, OnCharacterSpawn(c)
  PROVE  Ready' /\ Lease!LeaseNext
  <1> DEFINE e == client[c]
             msg == Head(toClient[c])
             x1 == [e EXCEPT !.dead = msg.dead]
             y  == [e EXCEPT !.rem = Token(msg)]
             x2 == [y EXCEPT !.dead = msg.dead]
  <1>1. e \in Entities /\ Deliver(c, "CharacterSpawnRequest")
    BY ClientEntity DEF OnCharacterSpawn
  <1>2. Token(msg) \in Tokens /\ msg.dead \in BOOLEAN
    BY <1>1, DeliverFacts, TokenOfNotice
  <1>3. Settle(c, x1, <<>>) \/ Settle(c, e, <<>>) \/ Settle(c, x2, <<>>)
    BY DEF OnCharacterSpawn
  <1>4. x1 \in Entities /\ x1.loc = e.loc /\ y \in Entities /\ y.loc = e.loc
    BY <1>1, <1>2, EntityUpdates
  <1>5. x2 \in Entities /\ x2.loc = e.loc
    <2> HIDE DEF y
    <2> QED BY <1>2, <1>4, EntityUpdates
  <1> HIDE DEF x1, x2
  <1> QED BY <1>1, <1>3, <1>4, <1>5, NoMessage, DeliveryMaps

LEMMA OnOwnershipTransferMaps ==
  ASSUME Ready, NEW c \in Players, OnOwnershipTransfer(c)
  PROVE  Ready' /\ Lease!LeaseNext
  <1> DEFINE e == client[c]
             msg == Head(toClient[c])
             mine == msg.owner = c
             mirror == IF e.form \/ e.rem # NoToken THEN Token(msg) ELSE NoToken
             refuse == <<Decline(Token(msg))>>
             y1 == [e EXCEPT !.loc = Token(msg)]
             y2 == [y1 EXCEPT !.rem = NoToken]
             x1 == [y2 EXCEPT !.dead = msg.dead]
             z1 == [e EXCEPT !.loc = NoToken]
             x2 == [z1 EXCEPT !.rem = mirror]
             x3 == [x2 EXCEPT !.dead = IF e.form THEN msg.dead ELSE e.dead]
  <1>1. e \in Entities /\ Deliver(c, "NotifyOwnershipTransfer")
    BY ClientEntity DEF OnOwnershipTransfer
  <1>2. msg.type = "NotifyOwnershipTransfer" /\ Token(msg) \in Tokens /\ msg.dead \in BOOLEAN
    BY <1>1, DeliverFacts, TokenOfNotice
  <1>3. refuse \in Seq(Requests) /\ <<>> \in Seq(Requests)
    BY <1>2, RequestTypes, OneMessage, NoMessage
  <1>4. \/ Settle(c, e, <<>>) \/ Settle(c, e, refuse)
        \/ mine /\ Settle(c, x1, <<>>)
        \/ Settle(c, x2, refuse) \/ Settle(c, x3, <<>>)
    BY DEF OnOwnershipTransfer
  <1>5. x1 \in Entities /\ x1.loc = Token(msg)
    <2>1. y1 \in Entities /\ y1.loc = Token(msg)
      BY <1>1, <1>2, EntityUpdates
    <2>2. y2 \in Entities /\ y2.loc = Token(msg)
      <3> HIDE DEF y1
      <3> QED BY <2>1, NoTokenType, EntityUpdates
    <2> HIDE DEF y2
    <2> QED BY <1>2, <2>2, EntityUpdates
  <1>6. x2 \in Entities /\ x2.loc = NoToken
    <2>1. z1 \in Entities /\ z1.loc = NoToken
      BY <1>1, NoTokenType, EntityUpdates
    <2>2. mirror \in Tokens
      BY <1>2, NoTokenType
    <2> HIDE DEF z1, mirror
    <2> QED BY <2>1, <2>2, EntityUpdates
  <1>7. x3 \in Entities /\ x3.loc = NoToken
    <2>1. (IF e.form THEN msg.dead ELSE e.dead) \in BOOLEAN
      BY <1>1, <1>2, EntityFields
    <2> HIDE DEF x2
    <2> QED BY <1>6, <2>1, EntityUpdates
  <1>8. mine => IsGrant(msg, c)
    BY <1>2 DEF IsGrant
  <1> HIDE DEF x1, x2, x3, refuse
  <1> QED BY <1>1, <1>3, <1>4, <1>5, <1>6, <1>7, <1>8, DeliveryMaps

LEMMA ClientStepMaps ==
  ASSUME Ready, NEW c \in Players, ClientStep(c)
  PROVE  Ready' /\ Lease!LeaseNext
  <1> DEFINE e == client[c]
             x1 == [e EXCEPT !.rem = NoToken]
             x2 == [e EXCEPT !.dead = TRUE]
  <1>0. e \in Entities /\ x1 \in Entities /\ x2 \in Entities /\ x1.loc = e.loc /\ x2.loc = e.loc
    BY ClientEntity, EntityUpdates, NoTokenType
  <1>1. CASE OnRemoveCharacter(c)
    <2>1. Deliver(c, "NotifyRemoveCharacter") /\ (Settle(c, x1, <<>>) \/ Settle(c, e, <<>>))
      BY <1>1 DEF OnRemoveCharacter
    <2> HIDE DEF x1
    <2> QED BY <1>0, <2>1, NoMessage, DeliveryMaps
  <1>2. CASE OnNotifyDeathStateChange(c)
    <2>1. Deliver(c, "NotifyDeathStateChange") /\ (Settle(c, x2, <<>>) \/ Settle(c, e, <<>>))
      BY <1>2 DEF OnNotifyDeathStateChange
    <2> HIDE DEF x2
    <2> QED BY <1>0, <2>1, NoMessage, DeliveryMaps
  <1> QED BY <1>1, <1>2, OnAssignCharacterMaps, OnCharacterSpawnMaps, OnOwnershipTransferMaps DEF ClientStep

-----------------------------------------------------------------------------
(* Steps of the server.                                                    *)

(* The server grants to nobody but the owner, and moves no client. *)
LEMMA GrantsMap ==
  ASSUME Ready, TypeOK', NEW w, GrantsFollow(w), actor' = w.actor, UNCHANGED client,
         \A c \in Players : GrantsIn(toClient'[c], c) \subseteq GrantsIn(w.ch[c], c)
  PROVE  Lease!GrantOnly(theLease') /\ Lease!HoldOnly
  <1>1. \A d \in Players : Acting(d)' = Acting(d) /\ client[d].loc \in Tokens
    BY ClientEntity, EntityFields DEF Acting
  <1>2. Lease!GrantOnly(theLease')
    <2>1. \A d \in Players : grants'[d] \subseteq Tokens
      <3>1. \A d \in Players : GrantsIn(toClient'[d], d) \subseteq Tokens
        BY GrantTypes DEF TypeOK
      <3> QED BY <1>1, <3>1 DEF grants, Underway, Acting
    <2>2. ASSUME NEW d \in Players, NEW t \in grants'[d]
          PROVE  t \in grants[d] \/ (theLease'.id # 0 /\ theLease'.owner = d /\ t = Token(theLease'))
      <3>1. CASE t \in Acting(d)'
        BY <1>1, <3>1 DEF grants
      <3>2. CASE t \in GrantsIn(toClient'[d], d)
        <4>1. t \in Underway(d) \/ Grantee(w, d, t)
          BY <3>2 DEF GrantsFollow
        <4> QED BY <4>1 DEF grants, Grantee, theLease, Token
      <3> QED BY <2>2, <3>1, <3>2 DEF grants, Underway
    <2>3. grants' \in [Players -> SUBSET Lease!LeaseTokens]
      BY <2>1 DEF grants, Lease!LeaseTokens
    <2> QED BY <2>2, <2>3 DEF Lease!GrantOnly, Lease!Leased, Token
  <1>3. Lease!HoldOnly
    <2>1. holds' \in [Players -> Lease!LeaseTokens]
      BY <1>1 DEF holds, Lease!LeaseTokens
    <2>2. ASSUME NEW d \in Players, holds'[d] # NoToken
          PROVE  holds'[d] \in grants[d] /\ holds'[d] \in grants'[d]
      BY <1>1, <2>2 DEF holds, Acting, grants
    <2> QED BY <2>1, <2>2 DEF Lease!HoldOnly, Lease!NoGrant, NoToken
  <1> QED BY <1>2, <1>3

(* A sound outcome installed by the server is a step of the lease. *)
LEMMA ServerMaps ==
  ASSUME Ready, NEW w, Sound(w), actor' = w.actor,
         toClient' \in Channels,
         \A c \in Players : GrantsIn(toClient'[c], c) \subseteq GrantsIn(w.ch[c], c),
         toServer' \in [Players -> Seq(Requests)], left' \in [Kinds -> Nat],
         up' \subseteq Players, near' \subseteq Players, party' \in Parties,
         UNCHANGED <<nextId, client, online>>
  PROVE  Ready' /\ Lease!LeaseNext
  <1>1. TypeOK'
    BY DEF Ready, TypeOK, Sound, Outcomes, Actors, Channels
  <1>2. Ready'
    BY <1>1 DEF Ready, ActorOK, Sound, SameLease, PassedOn, NoActor
  <1>3. Lease!Withdraw \/ Lease!Keep \/ \E p \in Players : Lease!Pass(p)
    <2>1. CASE SameLease(w)
      BY <2>1 DEF SameLease, Lease!Keep, theLease
    <2>2. CASE PassedOn(w)
      <3>1. Lease!Pass(w.actor.owner)
        BY <2>2 DEF PassedOn, Lease!Pass, theLease
      <3> QED BY <2>2, <3>1 DEF PassedOn
    <2>3. CASE w.actor = NoActor
      BY <2>3 DEF NoActor, Lease!Withdraw, Lease!NoLease, theLease
    <2> QED BY <2>1, <2>2, <2>3 DEF Sound
  <1>4. Lease!GrantOnly(theLease') /\ Lease!HoldOnly
    BY <1>1, GrantsMap DEF Sound
  <1> QED BY <1>2, <1>3, <1>4 DEF Lease!LeaseNext

LEMMA ReceiveFacts ==
  ASSUME Ready, NEW p \in Players, NEW ty, Receive(p, ty)
  PROVE  /\ toServer' \in [Players -> Seq(Requests)]
         /\ Head(toServer[p]) \in Requests /\ Head(toServer[p]).type = ty
         /\ up' \subseteq Players /\ party' \in Parties /\ left' \in [Kinds -> Nat]
         /\ UNCHANGED <<client, online>>
  <1>1. toServer[p] \in Seq(Requests) /\ toServer[p] # <<>>
    BY DEF Receive, Ready, TypeOK
  <1>2. Tail(toServer[p]) \in Seq(Requests) /\ Head(toServer[p]) \in Requests
    BY <1>1, TailType
  <1> QED BY <1>2 DEF Receive, Ready, TypeOK

LEMMA HandlerMaps ==
  ASSUME Ready, NEW p \in Players, NEW ty, Receive(p, ty),
         NEW w, Sound(w), Becomes(w), near' \subseteq Players, UNCHANGED nextId
  PROVE  Ready' /\ Lease!LeaseNext
  <1>1. toClient' \in Channels /\ actor' = w.actor
        /\ \A c \in Players : GrantsIn(toClient'[c], c) \subseteq GrantsIn(w.ch[c], c)
    BY DEF Becomes, Sound, Outcomes
  <1> QED BY <1>1, ReceiveFacts, ServerMaps

LEMMA OnAssignCharacterRequestMaps ==
  ASSUME Ready, NEW p \in Players, OnAssignCharacterRequest(p)
  PROVE  Ready' /\ Lease!LeaseNext
  <1> DEFINE k == Head(toServer[p]).cookie
             r == AssignResponse(k, actor.owner = p, actor)
             w == [Unchanged EXCEPT !.ch = Send(@, {p}, r)]
  <1>1. Receive(p, "AssignCharacterRequest") /\ actor.id # 0 /\ EpochsLeft /\ UNCHANGED <<near, nextId>>
    BY DEF OnAssignCharacterRequest
  <1>2. k \in Nat
    BY <1>1, ReceiveFacts DEF Requests
  <1>3. actor \in Actors /\ toClient \in Channels
    BY DEF Ready, TypeOK, Actors, Channels
  <1>4. r \in Notices /\ Token(r) = Token(actor) /\ \A c : IsGrant(r, c) <=> actor.owner = p
    <2> DEFINE mine == actor.owner = p
    <2>1. mine \in BOOLEAN /\ (mine = TRUE <=> actor.owner = p)
      OBVIOUS
    <2> HIDE DEF mine
    <2>2. AssignResponse(k, mine, actor) \in Notices
      BY <1>2, <1>3, <2>1, NoticeTypes
    <2>3. Token(AssignResponse(k, mine, actor)) = Token(actor)
      BY <1>3, NoticeTypes
    <2>4. \A c : IsGrant(AssignResponse(k, mine, actor), c) <=> actor.owner = p
      BY <1>3, <2>1, NoticeTypes
    <2> QED BY <2>2, <2>3, <2>4 DEF mine
  <1>5. w = [actor |-> actor, ch |-> Send(toClient, {p}, r)]
    BY DEF Unchanged
  <1> HIDE DEF r
  <1>6. w \in Outcomes /\ w.actor = actor /\ w.ch = Send(toClient, {p}, r)
    BY <1>3, <1>4, <1>5, SendType DEF Outcomes
  <1> HIDE DEF w
  <1>7. ASSUME NEW c \in Players, NEW t \in GrantsIn(w.ch[c], c), t \notin Underway(c)
        PROVE  c = p /\ actor.owner = p /\ t = Token(actor)
    <2>1. t \in GrantsIn(toClient[c], c) \/ (IsGrant(r, c) /\ t = Token(r))
      BY <1>3, <1>4, <1>6, SendGrants
    <2>2. CASE c = p
      BY <1>4, <1>7, <2>1, <2>2 DEF Underway
    <2>3. CASE c # p
      BY <1>3, <1>6, <1>7, <2>3 DEF Send, Channels, Underway
    <2> QED BY <2>2, <2>3
  <1>8. Sound(w)
    BY <1>1, <1>6, <1>7 DEF Sound, SameLease, GrantsFollow, Grantee
  <1>9. actor.owner # p => Kept(w)
    BY <1>6, <1>7 DEF Kept, SameLease
  <1>10. CASE CanClaimOwnership(p, actor.epoch)
    <2>1. Becomes(TransferOwnership(w, near, p, TRUE))
      BY <1>10 DEF OnAssignCharacterRequest, w, r
    <2>2. Sound(TransferOwnership(w, near, p, TRUE))
      BY <1>1, <1>9, <1>10, TransferSound DEF CanClaimOwnership
    <2> QED BY <1>1, <2>1, <2>2, HandlerMaps DEF Ready, TypeOK
  <1>11. CASE ~CanClaimOwnership(p, actor.epoch)
    <2>1. Becomes(w)
      BY <1>11 DEF OnAssignCharacterRequest, w, r
    <2> QED BY <1>1, <1>8, <2>1, HandlerMaps DEF Ready, TypeOK
  <1> QED BY <1>10, <1>11

LEMMA OnOwnershipTransferRequestMaps ==
  ASSUME Ready, NEW p \in Players, OnOwnershipTransferRequest(p)
  PROVE  Ready' /\ Lease!LeaseNext
  <1> DEFINE msg == Head(toServer[p])
             inv == (IF msg.reason = "Relinquish" THEN {} ELSE actor.invalid) \cup {p}
             a == [actor EXCEPT !.invalid = inv]
             w == [Unchanged EXCEPT !.actor = a]
  <1>1. Receive(p, "RequestOwnershipTransfer") /\ UNCHANGED nextId
    BY DEF OnOwnershipTransferRequest
  <1>2. near' \subseteq Players
    BY DEF OnOwnershipTransferRequest, Ready, TypeOK
  <1>3. CASE actor.id = msg.id /\ actor.owner = p /\ actor.epoch = msg.epoch
    <2>1. EpochsLeft /\ \E v \in TransferToNextOwner(w, near') : Becomes(v)
      BY <1>3 DEF OnOwnershipTransferRequest
    <2>2. actor.id # 0
      BY <1>3, PlayersAssumption DEF Ready, ActorOK
    <2>3. actor \in Actors /\ toClient \in Channels /\ inv \in SUBSET Players
      BY DEF Ready, TypeOK, Actors, Channels
    <2>4. a \in Actors /\ a.id = actor.id /\ a.epoch = actor.epoch /\ a.owner = actor.owner
      <3> HIDE DEF inv
      <3> QED BY <2>3 DEF Actors
    <2>5. w = [actor |-> a, ch |-> toClient]
      BY DEF Unchanged
    <2> HIDE DEF a
    <2>6. Kept(w)
      BY <2>3, <2>4, <2>5 DEF Kept, Outcomes, SameLease, Underway
    <2> HIDE DEF w
    <2>7. PICK v \in TransferToNextOwner(w, near') : Becomes(v)
      BY <2>1
    <2>8. Sound(v)
      BY <2>1, <2>2, <2>6, NextOwnerSound
    <2> QED BY <1>1, <1>2, <2>7, <2>8, HandlerMaps
  <1>4. CASE ~(actor.id = msg.id /\ actor.owner = p /\ actor.epoch = msg.epoch)
    <2>1. Becomes(Unchanged)
      BY <1>4 DEF OnOwnershipTransferRequest, Becomes, Unchanged
    <2> QED BY <1>1, <1>2, <2>1, UnchangedKept, KeptIsSound, HandlerMaps
  <1> QED BY <1>3, <1>4

LEMMA ClaimsMap ==
  ASSUME Ready, NEW p \in Players, OnOwnershipClaimRequest(p) \/ OnMountRequest(p)
  PROVE  Ready' /\ Lease!LeaseNext
  <1>1. PICK ty : Receive(p, ty)
    BY DEF OnOwnershipClaimRequest, OnMountRequest
  <1>2. EpochsLeft /\ near' \subseteq Players /\ UNCHANGED nextId
    BY DEF OnOwnershipClaimRequest, OnMountRequest, Ready, TypeOK
  <1>3. \/ Becomes(Unchanged)
        \/ actor.id # 0 /\ Becomes(TransferOwnership(Unchanged, near, p, TRUE))
    BY DEF OnOwnershipClaimRequest, OnMountRequest, CanClaimOwnership
  <1>4. Kept(Unchanged)
    BY UnchangedKept
  <1>5. CASE Becomes(Unchanged)
    BY <1>1, <1>2, <1>4, <1>5, KeptIsSound, HandlerMaps
  <1>6. CASE actor.id # 0 /\ Becomes(TransferOwnership(Unchanged, near, p, TRUE))
    <2>1. Sound(TransferOwnership(Unchanged, near, p, TRUE))
      BY <1>2, <1>4, <1>6, TransferSound
    <2> QED BY <1>1, <1>2, <1>6, <2>1, HandlerMaps
  <1> QED BY <1>3, <1>5, <1>6

LEMMA OnDeathStateChangeMaps ==
  ASSUME Ready, NEW p \in Players, OnDeathStateChange(p)
  PROVE  Ready' /\ Lease!LeaseNext
  <1> DEFINE a == [actor EXCEPT !.dead = TRUE]
             w == [actor |-> a, ch |-> Send(toClient, up \ {p}, Death(actor))]
  <1>1. Receive(p, "RequestDeathStateChange") /\ near' \subseteq Players /\ UNCHANGED nextId
    BY DEF OnDeathStateChange, Ready, TypeOK
  <1>2. Becomes(w) \/ Becomes(Unchanged)
    BY DEF OnDeathStateChange
  <1>3. actor \in Actors /\ toClient \in Channels
    BY DEF Ready, TypeOK, Actors, Channels
  <1>4. Death(actor) \in Notices /\ \A c \in Players : ~IsGrant(Death(actor), c)
    BY <1>3, NoticeTypes
  <1>5. a \in Actors /\ a.id = actor.id /\ a.epoch = actor.epoch /\ a.owner = actor.owner
    BY <1>3 DEF Actors
  <1> HIDE DEF a
  <1>6. Kept(w)
    BY <1>3, <1>4, <1>5, SendType, SendGrants DEF Kept, Outcomes, SameLease, Underway
  <1> HIDE DEF w
  <1> QED BY <1>1, <1>2, <1>6, UnchangedKept, KeptIsSound, HandlerMaps

(* A new server entity: the next lease is issued to its creator. *)
LEMMA CreateCharacterMaps ==
  ASSUME Ready, NEW p \in Players, CreateCharacter(p)
  PROVE  Ready' /\ Lease!LeaseNext
  <1> DEFINE msg == Head(toServer[p])
             a  == [id |-> nextId, epoch |-> 1, owner |-> p, invalid |-> {}, dead |-> msg.dead]
             r  == AssignResponse(msg.cookie, TRUE, a)
             c1 == Send(toClient, {p}, r)
             w  == [actor |-> a, ch |-> Send(c1, near \ {p}, Spawn(a))]
  <1>1. Receive(p, "AssignCharacterRequest") /\ actor.id = 0 /\ nextId' = nextId + 1 /\ near' = near
    BY DEF CreateCharacter
  <1>2. Becomes(w)
    BY DEF CreateCharacter
  <1>3. msg.cookie \in Nat /\ msg.dead \in BOOLEAN
    BY <1>1, ReceiveFacts DEF Requests
  <1>4. a \in Actors /\ a.id = nextId /\ a.owner = p
    BY <1>3 DEF Actors, Ready, TypeOK
  <1> HIDE DEF a
  <1>5. r \in Notices /\ Token(r) = Token(a) /\ (\A c : IsGrant(r, c))
    BY <1>3, <1>4, NoticeTypes
  <1>6. Spawn(a) \in Notices /\ \A c \in Players : ~IsGrant(Spawn(a), c)
    BY <1>4, NoticeTypes
  <1> HIDE DEF r
  <1>7. toClient \in Channels /\ c1 \in Channels
    BY <1>5, SendType DEF Ready, TypeOK, Channels
  <1>8. w \in Outcomes /\ w.actor = a /\ w.ch = Send(c1, near \ {p}, Spawn(a))
    BY <1>4, <1>6, <1>7, SendType DEF Outcomes
  <1>9. ASSUME NEW c \in Players, NEW t \in GrantsIn(w.ch[c], c), t \notin Underway(c)
        PROVE  c = p /\ t = Token(a)
    <2>1. t \in GrantsIn(c1[c], c)
      BY <1>6, <1>7, <1>8, SendGrants
    <2>2. t \in GrantsIn(toClient[c], c) \/ t = Token(r)
      BY <1>5, <1>7, <2>1, SendGrants
    <2>3. c # p => c1[c] = toClient[c]
      BY DEF Send
    <2> QED BY <1>5, <1>9, <2>1, <2>2, <2>3 DEF Underway
  <1> HIDE DEF c1, w
  <1>10. nextId \in Nat /\ nextId > 0
    BY DEF Ready, TypeOK, ActorOK
  <1>11. GrantsFollow(w)
    BY <1>4, <1>8, <1>9, <1>10 DEF GrantsFollow, Grantee
  <1>12. actor' = w.actor /\ toClient' = w.ch
    BY <1>2 DEF Becomes
  <1>13. /\ toServer' \in [Players -> Seq(Requests)] /\ UNCHANGED <<client, online>>
         /\ up' \subseteq Players /\ party' \in Parties /\ left' \in [Kinds -> Nat]
    BY <1>1, ReceiveFacts
  <1>14. TypeOK'
    <2>1. actor' \in Actors /\ toClient' \in Channels
      BY <1>8, <1>12 DEF Outcomes
    <2> QED BY <1>1, <1>10, <1>13, <2>1 DEF Actors, Channels, Ready, TypeOK
  <1>15. Ready'
    BY <1>1, <1>4, <1>8, <1>10, <1>12, <1>14 DEF Ready, ActorOK
  <1>16. Lease!Issue(p)
    BY <1>1, <1>8, <1>12 DEF Lease!Issue, theLease, a
  <1>17. Lease!GrantOnly(theLease') /\ Lease!HoldOnly
    BY <1>8, <1>11, <1>12, <1>13, <1>14, GrantsMap
  <1> QED BY <1>15, <1>16, <1>17 DEF Lease!LeaseNext

LEMMA ServerStepMaps ==
  ASSUME Ready, NEW p \in Players, ServerStep(p)
  PROVE  Ready' /\ Lease!LeaseNext
  BY OnAssignCharacterRequestMaps, CreateCharacterMaps, OnOwnershipTransferRequestMaps, ClaimsMap,
     OnDeathStateChangeMaps DEF ServerStep

LEMMA HandleGridCellShiftMaps ==
  ASSUME Ready, NEW p \in Players, HandleGridCellShift(p)
  PROVE  Ready' /\ Lease!LeaseNext
  <1> DEFINE w == [actor |-> actor, ch |-> Send(toClient, {p}, Spawn(actor))]
  <1>1. actor \in Actors /\ toClient \in Channels
    BY DEF Ready, TypeOK, Actors, Channels
  <1>2. Spawn(actor) \in Notices /\ \A c \in Players : ~IsGrant(Spawn(actor), c)
    BY <1>1, NoticeTypes
  <1>3. Kept(w)
    BY <1>1, <1>2, SendType, SendGrants DEF Kept, Outcomes, SameLease, Underway
  <1> HIDE DEF w
  <1>4. Becomes(w) \/ Becomes(Unchanged)
    BY DEF HandleGridCellShift, Becomes, Unchanged, w
  <1>5. PICK v : Kept(v) /\ Becomes(v)
    BY <1>3, <1>4, UnchangedKept
  <1>6. Sound(v) /\ actor' = v.actor /\ toClient' = v.ch /\ toClient' \in Channels
    BY <1>5, KeptIsSound DEF Becomes, Kept, Outcomes
  <1>7. /\ toServer' \in [Players -> Seq(Requests)]
        /\ up' \subseteq Players /\ near' \subseteq Players /\ party' \in Parties
        /\ UNCHANGED <<nextId, client, online>>
    BY DEF HandleGridCellShift, Ready, TypeOK
  <1>8. left' \in [Kinds -> Nat]
    BY SpendType DEF HandleGridCellShift, Kinds
  <1> QED BY <1>6, <1>7, <1>8, ServerMaps

LEMMA PartyChangeMaps ==
  ASSUME Ready, PartyChange
  PROVE  Ready' /\ Lease!LeaseNext
  <1>1. Sound(Unchanged) /\ actor' = Unchanged.actor /\ toClient' = Unchanged.ch
    BY UnchangedKept, KeptIsSound DEF PartyChange, Unchanged, netVars
  <1>2. UNCHANGED <<up, near, nextId, client, online, toServer, toClient>>
    BY DEF PartyChange, netVars
  <1>3. /\ toServer' \in [Players -> Seq(Requests)] /\ toClient' \in Channels
        /\ up' \subseteq Players /\ near' \subseteq Players
    BY <1>2 DEF Ready, TypeOK, Channels
  <1>4. left' \in [Kinds -> Nat]
    BY SpendType DEF PartyChange, Kinds
  <1>5. party' \in Parties
    BY DEF PartyChange
  <1>6. \A c \in Players : GrantsIn(toClient'[c], c) \subseteq GrantsIn(Unchanged.ch[c], c)
    BY <1>1
  <1> QED BY <1>1, <1>2, <1>3, <1>4, <1>5, <1>6, ServerMaps

(* What a leaving player owned is handed on; his queue is dropped. *)
LEMMA OnDisconnectionMaps ==
  ASSUME Ready, NEW p \in Players, OnDisconnection(p)
  PROVE  Ready' /\ Lease!LeaseNext
  <1> DEFINE a == [actor EXCEPT !.invalid = {}]
             w == [Unchanged EXCEPT !.actor.invalid = {}]
  <1>1. actor \in Actors /\ toClient \in Channels
    BY DEF Ready, TypeOK, Actors, Channels
  <1>2. a \in Actors /\ a.id = actor.id /\ a.epoch = actor.epoch /\ a.owner = actor.owner
    BY <1>1 DEF Actors
  <1>3. w = [actor |-> a, ch |-> toClient]
    BY DEF Unchanged
  <1> HIDE DEF a
  <1>4. Kept(w)
    BY <1>1, <1>2, <1>3 DEF Kept, Outcomes, SameLease, Underway
  <1> HIDE DEF w
  <1>5. PICK v \in HandOnOwned(p, near') : actor' = v.actor /\ toClient' = [v.ch EXCEPT ![p] = <<>>]
    BY DEF OnDisconnection
  <1>6. Sound(v)
    <2>1. CASE actor.owner = p
      <3>1. actor.id # 0 /\ EpochsLeft
        BY <2>1, PlayersAssumption DEF Ready, ActorOK, OnDisconnection
      <3>2. v \in TransferToNextOwner(w, near')
        BY <1>5, <2>1 DEF HandOnOwned, w
      <3> QED BY <1>4, <3>1, <3>2, NextOwnerSound
    <2>2. CASE actor.owner # p
      BY <1>5, <2>2, UnchangedKept, KeptIsSound DEF HandOnOwned
    <2> QED BY <2>1, <2>2
  <1>7. toClient' \in Channels
    BY <1>5, <1>6, NoMessage DEF Sound, Outcomes, Channels
  <1>8. \A c \in Players : GrantsIn(toClient'[c], c) \subseteq GrantsIn(v.ch[c], c)
    <2>1. \A c \in Players : toClient'[c] = IF c = p THEN <<>> ELSE v.ch[c]
      BY <1>5, <1>6 DEF Sound, Outcomes, Channels
    <2> QED BY <2>1, GrantsInEmpty
  <1>9. toServer' \in [Players -> Seq(Requests)]
    BY NoMessage DEF OnDisconnection, Ready, TypeOK
  <1>10. left' \in [Kinds -> Nat]
    <2>1. Spend("drop") \/ UNCHANGED left
      BY DEF OnDisconnection
    <2> QED BY <2>1, SpendType DEF Kinds, Ready, TypeOK
  <1>11. /\ up' \subseteq Players /\ near' \subseteq Players /\ party' \in Parties
         /\ UNCHANGED <<nextId, client, online>>
    BY DEF OnDisconnection, Ready, TypeOK
  <1> QED BY <1>5, <1>6, <1>7, <1>8, <1>9, <1>10, <1>11, ServerMaps

LEMMA OnDisconnectedMaps ==
  ASSUME Ready, NEW c \in Players, OnDisconnected(c)
  PROVE  Ready' /\ Lease!LeaseNext
  <1> DEFINE f1 == [client[c] EXCEPT !.loc = NoToken]
             f2 == [f1 EXCEPT !.rem = NoToken]
             f3 == [f2 EXCEPT !.wait = 0]
             f  == [f3 EXCEPT !.cancelled = {}]
  <1>1. f1 \in Entities /\ f1.loc = NoToken
    BY ClientEntity, NoTokenType, EntityUpdates
  <1>2. f2 \in Entities /\ f2.loc = NoToken
    <2> HIDE DEF f1
    <2> QED BY <1>1, NoTokenType, EntityUpdates
  <1>3. f3 \in Entities /\ f3.loc = NoToken
    <2> HIDE DEF f2
    <2> QED BY <1>2, EntityUpdates
  <1>4. f \in Entities /\ f.loc = NoToken
    <2> HIDE DEF f3
    <2> QED BY <1>3, EntityUpdates
  <1>5. client' = [client EXCEPT ![c] = f] /\ toClient' = [toClient EXCEPT ![c] = <<>>]
    BY DEF OnDisconnected
  <1> HIDE DEF f
  <1>6. theLease' = theLease /\ UNCHANGED nextId
    BY DEF OnDisconnected, serverVars, theLease
  <1>7. TypeOK'
    <2>1. client' \in [Players -> Entities] /\ toClient' \in [Players -> Seq(Notices)]
      BY <1>4, <1>5, NoMessage DEF Ready, TypeOK
    <2>2. Spend("drop") \/ UNCHANGED left
      BY DEF OnDisconnected
    <2>3. left' \in [Kinds -> Nat]
      BY <2>2, SpendType DEF Kinds, Ready, TypeOK
    <2> QED BY <2>1, <2>3 DEF OnDisconnected, serverVars, Ready, TypeOK
  <1>8. \A d \in Players : GrantsIn(toClient'[d], d) \subseteq Underway(d)
    BY <1>5, GrantsInEmpty DEF Ready, TypeOK, Underway
  <1> QED BY <1>4, <1>5, <1>6, <1>7, <1>8, LocalMaps

LEMMA OnConnectedMaps ==
  ASSUME Ready, NEW c \in Players, OnConnected(c)
  PROVE  Ready' /\ Lease!LeaseNext
  <1> DEFINE e == client[c]
             f == IF e.form THEN ProcessNewEntity(e) ELSE e
  <1>1. e \in Entities /\ f \in Entities /\ f.loc = e.loc
    BY ClientEntity, WantedType
  <1>2. client' = [client EXCEPT ![c] = f]
    BY DEF OnConnected
  <1>3. PICK S \in SUBSET {c} : actor' = [actor EXCEPT !.invalid = @ \ S]
    BY DEF OnConnected
  <1>4. actor \in Actors
    BY DEF Ready, TypeOK, Actors
  <1>5. /\ actor' \in Actors /\ actor'.id = actor.id /\ actor'.epoch = actor.epoch
        /\ actor'.owner = actor.owner
    BY <1>3, <1>4 DEF Actors
  <1>6. theLease' = theLease /\ UNCHANGED nextId
    BY <1>5 DEF OnConnected, theLease
  <1>7. toServer' \in [Players -> Seq(Requests)]
    <2>1. (IF e.form THEN Wanted(e, FALSE) ELSE <<>>) \in Seq(Requests)
      BY <1>1, WantedType, NoMessage
    <2> QED BY <2>1 DEF OnConnected, Ready, TypeOK
  <1> HIDE DEF f
  <1>8. TypeOK'
    <2>1. client' \in [Players -> Entities]
      BY <1>1, <1>2 DEF Ready, TypeOK
    <2>2. left' \in [Kinds -> Nat]
      BY SpendType DEF OnConnected, Kinds
    <2> QED BY <1>5, <1>7, <2>1, <2>2 DEF OnConnected, Ready, TypeOK, Actors
  <1>9. \A d \in Players : GrantsIn(toClient'[d], d) \subseteq Underway(d)
    BY DEF OnConnected, Underway
  <1> QED BY <1>1, <1>2, <1>6, <1>8, <1>9, LocalMaps

-----------------------------------------------------------------------------
(* The lease.                                                              *)

(* What a lease l, the id n of the next one, the grants g and the holds h  *)
(* have in common with every lease: a token has one holder, and nobody has *)
(* one that the lease has not reached.                                     *)
Leasing(l, n, g, h) ==
  /\ l.id \in Nat /\ l.epoch \in Nat
  /\ n \in Nat /\ n > 0 /\ (l.id # 0 => l.id = n - 1)
  /\ g \in [Players -> SUBSET Tokens] /\ h \in [Players -> Tokens]
  /\ \A p \in Players : h[p] # NoToken => h[p] \in g[p]
  /\ \A p, q \in Players : g[p] \cap g[q] # {} => p = q
  /\ \A p \in Players : \A t \in g[p] :
       /\ t.id # 0 /\ t.id < n
       /\ t.id = l.id => t.epoch < l.epoch \/ (t.epoch = l.epoch /\ p = l.owner)

(* Whatever the lease does, its new token is later than every grant there  *)
(* is, or it is the old token with the old owner.                          *)
LEMMA LeaseMoves ==
  ASSUME NEW l, NEW n, NEW g, NEW h, NEW l2, NEW n2, Leasing(l, n, g, h),
         \/ l2 = l /\ n2 = n
         \/ l2.id = 0 /\ l2.epoch = 0 /\ n2 = n
         \/ l2.id = n /\ l2.epoch = 1 /\ n2 = n + 1
         \/ l.id # 0 /\ l2.id = l.id /\ l2.epoch = l.epoch + 1 /\ n2 = n
  PROVE  /\ l2.id \in Nat /\ l2.epoch \in Nat /\ n2 \in Nat
         /\ n2 > 0 /\ (l2.id # 0 => l2.id = n2 - 1) /\ n <= n2
         /\ \/ l2 = l
            \/ l2.id = 0
            \/ \A p \in Players : \A t \in g[p] :
                 t.id < l2.id \/ (t.id = l2.id /\ t.epoch < l2.epoch)
  <1>1. \A p \in Players : \A t \in g[p] : t.id \in Nat /\ t.epoch \in Nat
    BY DEF Leasing
  <1>2. /\ l.id \in Nat /\ l.epoch \in Nat /\ n \in Nat /\ n > 0 /\ (l.id # 0 => l.id = n - 1)
        /\ \A p \in Players : \A t \in g[p] : /\ t.id < n
                                              /\ t.id = l.id => t.epoch <= l.epoch
    BY <1>1 DEF Leasing
  <1>3. CASE l2 = l /\ n2 = n
    BY <1>2, <1>3
  <1>4. CASE l2.id = 0 /\ l2.epoch = 0 /\ n2 = n
    BY <1>2, <1>4
  <1>5. CASE l2.id = n /\ l2.epoch = 1 /\ n2 = n + 1
    BY <1>1, <1>2, <1>5
  <1>6. CASE l.id # 0 /\ l2.id = l.id /\ l2.epoch = l.epoch + 1 /\ n2 = n
    BY <1>1, <1>2, <1>6
  <1> QED BY <1>3, <1>4, <1>5, <1>6

LEMMA LeaseStep ==
  ASSUME NEW l, NEW n, NEW g, NEW h, NEW l2, NEW n2, NEW g2, NEW h2, Leasing(l, n, g, h),
         \/ l2 = l /\ n2 = n
         \/ l2.id = 0 /\ l2.epoch = 0 /\ n2 = n
         \/ l2.id = n /\ l2.epoch = 1 /\ n2 = n + 1
         \/ l.id # 0 /\ l2.id = l.id /\ l2.epoch = l.epoch + 1 /\ n2 = n,
         g2 \in [Players -> SUBSET Tokens], h2 \in [Players -> Tokens],
         \A p \in Players : \A t \in g2[p] :
           t \in g[p] \/ (l2.id # 0 /\ l2.owner = p /\ t = Token(l2)),
         \A p \in Players : h2[p] # NoToken => h2[p] \in g2[p]
  PROVE  Leasing(l2, n2, g2, h2)
  <1>1. /\ l2.id \in Nat /\ l2.epoch \in Nat /\ n2 \in Nat
        /\ n2 > 0 /\ (l2.id # 0 => l2.id = n2 - 1) /\ n <= n2
    BY LeaseMoves
  <1>2. \/ l2 = l
        \/ l2.id = 0
        \/ \A p \in Players : \A t \in g[p] :
             t.id < l2.id \/ (t.id = l2.id /\ t.epoch < l2.epoch)
    BY LeaseMoves
  <1>3. /\ n \in Nat
        /\ \A p \in Players : \A t \in g[p] :
             t.id \in Nat /\ t.epoch \in Nat /\ t.id < n /\ t.id # 0
    BY DEF Leasing
  <1>4. \A p \in Players : \A t \in g2[p] : t.id < n2 /\ t.id # 0
    BY <1>1, <1>3 DEF Token
  <1>5. \A p \in Players : \A t \in g[p] :
          t.id = l.id => t.epoch < l.epoch \/ (t.epoch = l.epoch /\ p = l.owner)
    BY DEF Leasing
  <1>6. ASSUME NEW p \in Players, NEW t \in g2[p], t.id = l2.id
        PROVE  t.epoch < l2.epoch \/ (t.epoch = l2.epoch /\ p = l2.owner)
    <2>1. CASE t \notin g[p]
      BY <2>1 DEF Token
    <2>2. CASE t \in g[p]
      BY <1>1, <1>2, <1>3, <1>5, <1>6, <2>2
    <2> QED BY <2>1, <2>2
  <1>7. ASSUME NEW p \in Players, NEW q \in Players, NEW t, t \in g2[p], t \in g2[q]
        PROVE  p = q
    <2>1. CASE t \in g[p] /\ t \in g[q]
      BY <2>1 DEF Leasing
    <2>2. CASE t \notin g[p] /\ t \notin g[q]
      BY <1>7, <2>2
    <2>3. ASSUME NEW r \in Players, NEW s \in Players, t \in g[r],
                 l2.id # 0, l2.owner = s, t = Token(l2)
          PROVE  r = s
      <3>1. t.id = l2.id /\ t.epoch = l2.epoch
        BY <2>3 DEF Token
      <3>2. l2 = l
        BY <1>1, <1>2, <1>3, <2>3, <3>1
      <3> QED BY <1>1, <1>5, <2>3, <3>1, <3>2
    <2> QED BY <1>7, <2>1, <2>2, <2>3
  <1> QED BY <1>1, <1>4, <1>6, <1>7 DEF Leasing

(* The lease on its own, apart from the protocol. *)
VARIABLES lease, leaseNextId, granted, held

L == INSTANCE OwnershipLease WITH nextId <- leaseNextId

LeaseInv == Leasing(lease, leaseNextId, granted, held)

LEMMA LeaseInitInv == L!LeaseInit => LeaseInv
  BY DEF L!LeaseInit, L!NoLease, L!NoGrant, LeaseInv, Leasing, NoToken

LEMMA LeaseStepInv == LeaseInv /\ [L!LeaseNext]_(L!leaseVars) => LeaseInv'
  <1> SUFFICES ASSUME LeaseInv, [L!LeaseNext]_(L!leaseVars) PROVE LeaseInv'
    OBVIOUS
  <1>1. CASE UNCHANGED L!leaseVars
    BY <1>1 DEF L!leaseVars, LeaseInv, Leasing
  <1>2. CASE L!LeaseNext
    <2>1. \/ lease' = lease /\ leaseNextId' = leaseNextId
          \/ lease'.id = 0 /\ lease'.epoch = 0 /\ leaseNextId' = leaseNextId
          \/ lease'.id = leaseNextId /\ lease'.epoch = 1 /\ leaseNextId' = leaseNextId + 1
          \/ /\ lease.id # 0 /\ lease'.id = lease.id /\ lease'.epoch = lease.epoch + 1
             /\ leaseNextId' = leaseNextId
      BY <1>2 DEF L!LeaseNext, L!Withdraw, L!Keep, L!Issue, L!Pass, L!NoLease
    <2>2. /\ granted' \in [Players -> SUBSET Tokens] /\ held' \in [Players -> Tokens]
          /\ \A p \in Players : \A t \in granted'[p] :
               t \in granted[p] \/ (lease'.id # 0 /\ lease'.owner = p /\ t = Token(lease'))
          /\ \A p \in Players : held'[p] # NoToken => held'[p] \in granted'[p]
      BY <1>2 DEF L!LeaseNext, L!GrantOnly, L!HoldOnly, L!LeaseTokens, L!Leased, L!NoGrant, Token, NoToken
    <2>3. Leasing(lease, leaseNextId, granted, held)
      BY DEF LeaseInv
    <2>4. Leasing(lease', leaseNextId', granted', held')
      BY <2>1, <2>2, <2>3, LeaseStep
    <2> QED BY <2>4 DEF LeaseInv
  <1> QED BY <1>1, <1>2

(* Every token of the lease is granted to one player, for ever, and nobody *)
(* is granted a token the lease has not reached.                           *)
THEOREM LeaseSafe == L!LeaseSpec => [](L!OneHolder /\ L!NoneAhead)
  <1>1. LeaseInv => L!OneHolder /\ L!NoneAhead
    BY DEF LeaseInv, Leasing, L!OneHolder, L!NoneAhead
  <1> QED BY <1>1, LeaseInitInv, LeaseStepInv, PTL DEF L!LeaseSpec

-----------------------------------------------------------------------------
(* The protocol implements the lease, and inherits its invariant.          *)

LEMMA InitMaps == Init => Ready /\ Lease!LeaseInit
  <1> SUFFICES ASSUME Init PROVE Ready /\ Lease!LeaseInit
    OBVIOUS
  <1>1. NewEntity \in Entities /\ NewEntity.loc = NoToken
    BY DEF NewEntity, Entities, NoToken
  <1>2. Ready
    BY <1>1, NoMessage, BudgetAssumption DEF Init, Ready, TypeOK, ActorOK, NoActor
  <1>3. grants = [c \in Players |-> {}] /\ holds = [c \in Players |-> NoToken]
    BY <1>1, GrantsInEmpty DEF Init, grants, holds, Underway, Acting
  <1> QED BY <1>2, <1>3 DEF Init, NoActor, Lease!LeaseInit, Lease!NoLease, Lease!NoGrant, NoToken, theLease

LEMMA StepMaps ==
  ASSUME Ready, [Next]_vars
  PROVE  Ready' /\ [Lease!LeaseNext]_(Lease!leaseVars)
  <1>1. CASE UNCHANGED vars
    <2>1. Ready'
      BY <1>1 DEF vars, serverVars, netVars, Ready, TypeOK, ActorOK
    <2>2. UNCHANGED Lease!leaseVars
      BY <1>1 DEF vars, serverVars, netVars, Lease!leaseVars, theLease, grants, holds, Underway, Acting
    <2> QED BY <2>1, <2>2
  <1>2. CASE Next
    BY <1>2, ServerStepMaps, ClientStepMaps, GameStepMaps, HandleGridCellShiftMaps, PartyChangeMaps,
       OnDisconnectionMaps, OnDisconnectedMaps, OnConnectedMaps DEF Next, ConnectionStep
  <1> QED BY <1>1, <1>2

(* Types: whatever is sent, granted, lost or forgotten, the state stays a  *)
(* state of the protocol.                                                  *)
THEOREM TypeCorrect == Spec => []TypeOK
  <1>1. Init => Ready
    BY InitMaps
  <1>2. Ready /\ [Next]_vars => Ready'
    BY StepMaps
  <1>3. Ready => TypeOK
    BY DEF Ready
  <1> QED BY <1>1, <1>2, <1>3, PTL DEF Spec

(* Refinement: with the OwnerComponent for the lease and the tokens in     *)
(* flight or held for the grants, every step of the message protocol is a  *)
(* step of the lease or changes nothing it shows.                          *)
THEOREM Implementation == Spec => ImplementsLease
  <1>1. Init => Ready /\ Lease!LeaseInit
    BY InitMaps
  <1>2. Ready /\ [Next]_vars => Ready' /\ [Lease!LeaseNext]_(Lease!leaseVars)
    BY StepMaps
  <1> QED BY <1>1, <1>2, PTL DEF Spec, ImplementsLease, Lease!LeaseSpec

(* The protocol's lease is sound for the same reason. *)
LeaseHeld == Leasing(theLease, nextId, grants, holds)

LEMMA SafeStep == Ready /\ LeaseHeld /\ [Next]_vars => Ready' /\ LeaseHeld'
  <1> SUFFICES ASSUME Ready, LeaseHeld, [Next]_vars PROVE Ready' /\ LeaseHeld'
    OBVIOUS
  <1>1. Ready' /\ [Lease!LeaseNext]_(Lease!leaseVars)
    BY StepMaps
  <1>2. CASE UNCHANGED Lease!leaseVars
    <2>1. theLease' = theLease /\ nextId' = nextId /\ grants' = grants /\ holds' = holds
      BY <1>2 DEF Lease!leaseVars
    <2>2. Leasing(theLease', nextId', grants', holds')
      BY <2>1 DEF LeaseHeld
    <2> QED BY <1>1, <2>2 DEF LeaseHeld
  <1>3. CASE Lease!LeaseNext
    <2>1. \/ theLease' = theLease /\ nextId' = nextId
          \/ theLease'.id = 0 /\ theLease'.epoch = 0 /\ nextId' = nextId
          \/ theLease'.id = nextId /\ theLease'.epoch = 1 /\ nextId' = nextId + 1
          \/ /\ theLease.id # 0 /\ theLease'.id = theLease.id /\ theLease'.epoch = theLease.epoch + 1
             /\ nextId' = nextId
      BY <1>3 DEF Lease!LeaseNext, Lease!Withdraw, Lease!Keep, Lease!Issue, Lease!Pass, Lease!NoLease
    <2>2. /\ grants' \in [Players -> SUBSET Tokens] /\ holds' \in [Players -> Tokens]
          /\ \A p \in Players : \A t \in grants'[p] :
               t \in grants[p] \/ (theLease'.id # 0 /\ theLease'.owner = p /\ t = Token(theLease'))
          /\ \A p \in Players : holds'[p] # NoToken => holds'[p] \in grants'[p]
      BY <1>3 DEF Lease!LeaseNext, Lease!GrantOnly, Lease!HoldOnly, Lease!LeaseTokens, Lease!Leased,
                  Lease!NoGrant, Token, NoToken
    <2>3. Leasing(theLease, nextId, grants, holds)
      BY DEF LeaseHeld
    <2>4. Leasing(theLease', nextId', grants', holds')
      BY <2>1, <2>2, <2>3, LeaseStep
    <2> QED BY <1>1, <2>4 DEF LeaseHeld
  <1> QED BY <1>1, <1>2, <1>3

LEMMA SafeInit == Init => Ready /\ LeaseHeld
  <1> SUFFICES ASSUME Init PROVE Ready /\ LeaseHeld
    OBVIOUS
  <1>1. Ready /\ Lease!LeaseInit
    BY InitMaps
  <1>2. /\ theLease.id = 0 /\ theLease.epoch = 0 /\ nextId = 1
        /\ grants = [p \in Players |-> {}] /\ holds = [p \in Players |-> NoToken]
    BY <1>1 DEF Lease!LeaseInit, Lease!NoLease, Lease!NoGrant, NoToken
  <1> QED BY <1>1, <1>2 DEF LeaseHeld, Leasing, NoToken

(* The safety of the protocol: however long grants are in flight, no two   *)
(* clients hold a LocalComponent with the same token.                      *)
THEOREM SingleAuthority == Spec => []OneAuthorityPerEpoch
  <1>1. Ready /\ LeaseHeld => OneAuthorityPerEpoch
    BY DEF LeaseHeld, Leasing, OneAuthorityPerEpoch, grants, Acting
  <1> QED BY <1>1, SafeInit, SafeStep, PTL DEF Spec

(* The server and the clients agree: a client simulating the current       *)
(* entity is not ahead of the server, and at its epoch it is the owner.    *)
THEOREM ServerAuthority == Spec => []AuthorityIsServers
  <1>1. ASSUME Ready, LeaseHeld PROVE AuthorityIsServers
    <2> SUFFICES ASSUME NEW c \in Players, client[c].loc # NoToken, client[c].loc.id = actor.id
                 PROVE  /\ client[c].loc.epoch <= actor.epoch
                        /\ client[c].loc.epoch = actor.epoch => actor.owner = c
      BY DEF AuthorityIsServers
    <2>1. client[c].loc \in grants[c]
      BY DEF grants, Acting
    <2>2. client[c].loc.epoch \in Nat /\ actor.epoch \in Nat
      BY <1>1, ClientEntity, EntityFields DEF Ready, TypeOK
    <2>3. client[c].loc.epoch < actor.epoch \/ (client[c].loc.epoch = actor.epoch /\ c = actor.owner)
      BY <1>1, <2>1 DEF LeaseHeld, Leasing, theLease
    <2> QED BY <2>2, <2>3
  <1> QED BY <1>1, SafeInit, SafeStep, PTL DEF Spec
-----------------------------------------------------------------------------
(* The rules by which the server hands the actor on: its owner is          *)
(* connected, no decliner is asked again, and it is not taken from a       *)
(* player against the rules.                                               *)

(* Requests come from players the server has. *)
SendersConnected == \A p \in Players : toServer[p] # <<>> => p \in up

(* An actor that exists is owned by one of S who has not declined it. *)
Rightly(a, S) == (a.id # 0 => a.owner \in S) /\ a.owner \notin a.invalid

Ruled == SendersConnected /\ Rightly(actor, up)

-----------------------------------------------------------------------------
(* What the server's operators do.                                         *)

LEMMA TransferRules ==
  ASSUME NEW w, w.actor \in Actors, Rightly(w.actor, up), NEW nr, NEW p \in up,
         NEW reset \in BOOLEAN, reset \/ p \notin w.actor.invalid
  PROVE  Rightly(TransferOwnership(w, nr, p, reset).actor, up)
  <1>1. CASE w.actor.owner = p
    BY <1>1 DEF TransferOwnership
  <1>2. CASE w.actor.owner # p
    <2> DEFINE a == [w.actor EXCEPT !.owner = p, !.epoch = NextEpoch(@),
                                    !.invalid = IF reset THEN {} ELSE @]
    <2>1. TransferOwnership(w, nr, p, reset).actor = a
      BY <1>2 DEF TransferOwnership
    <2>2. a.owner = p /\ a.invalid = IF reset THEN {} ELSE w.actor.invalid
      BY DEF Actors
    <2> QED BY <2>1, <2>2 DEF Rightly
  <1> QED BY <1>1, <1>2

LEMMA HandOverRules ==
  ASSUME NEW w, w.actor \in Actors, NEW nr, NEW v \in TransferToNextOwner(w, nr)
  PROVE  Rightly(v.actor, up \cap nr)
  <1>1. CASE NextOwners(w.actor, nr) = {}
    <2>1. v.actor = NoActor
      BY <1>1 DEF TransferToNextOwner, CharacterRemove
    <2> QED BY <2>1 DEF Rightly, NoActor
  <1>2. CASE NextOwners(w.actor, nr) # {}
    <2>1. PICK p \in NextOwners(w.actor, nr) : v = TransferOwnership(w, nr, p, FALSE)
      BY <1>2 DEF TransferToNextOwner
    <2>2. p \in up \cap nr /\ p # w.actor.owner /\ p \notin w.actor.invalid
      BY <2>1 DEF NextOwners
    <2> DEFINE a == [w.actor EXCEPT !.owner = p, !.epoch = NextEpoch(@),
                                    !.invalid = IF FALSE THEN {} ELSE @]
    <2>3. v.actor = a
      BY <2>1, <2>2 DEF TransferOwnership
    <2>4. a.owner = p /\ a.invalid = w.actor.invalid
      BY DEF Actors
    <2> QED BY <2>2, <2>3, <2>4 DEF Rightly
  <1> QED BY <1>1, <1>2

(* Reading a request does not disturb the other requests. *)
LEMMA ReceiveRules ==
  ASSUME Ready, SendersConnected, NEW p \in Players, NEW t, Receive(p, t)
  PROVE  SendersConnected' /\ p \in up /\ UNCHANGED up
  <1>1. toServer \in [Players -> Seq(Requests)] /\ toServer[p] # <<>>
    BY DEF Ready, TypeOK, Receive
  <1>2. \A q \in Players : toServer'[q] # <<>> => toServer[q] # <<>>
    BY <1>1 DEF Receive
  <1> QED BY <1>1, <1>2 DEF SendersConnected, Receive

-----------------------------------------------------------------------------
(* The steps.                                                              *)

LEMMA ServerStepRules ==
  ASSUME Ready, Ruled, NEW p \in Players, ServerStep(p)
  PROVE  Ruled'
  <1>1. actor \in Actors /\ Rightly(actor, up) /\ SendersConnected
    BY DEF Ready, TypeOK, Actors, Ruled
  <1> DEFINE Read == p \in up /\ UNCHANGED up /\ SendersConnected'
  <1>2. Unchanged.actor = actor
    BY DEF Unchanged
  <1>3. ASSUME OnAssignCharacterRequest(p) PROVE Ruled'
    <2>1. Read
      BY <1>1, <1>3, ReceiveRules DEF OnAssignCharacterRequest
    <2> DEFINE r == AssignResponse(Head(toServer[p]).cookie, actor.owner = p, actor)
               w == [Unchanged EXCEPT !.ch = Send(@, {p}, r)]
    <2>2. w.actor = actor
      BY DEF Unchanged
    <2>3. actor' = w.actor \/ actor' = TransferOwnership(w, near, p, TRUE).actor
      BY <1>3 DEF OnAssignCharacterRequest, Becomes
    <2> HIDE DEF w
    <2>4. Rightly(TransferOwnership(w, near, p, TRUE).actor, up)
      BY <1>1, <2>1, <2>2, TransferRules
    <2> QED BY <1>1, <2>1, <2>2, <2>3, <2>4 DEF Ruled, Rightly
  <1>4. ASSUME CreateCharacter(p) PROVE Ruled'
    <2>1. Read
      BY <1>1, <1>4, ReceiveRules DEF CreateCharacter
    <2>2. actor'.owner = p /\ actor'.invalid = {}
      BY <1>4 DEF CreateCharacter, Becomes
    <2> QED BY <2>1, <2>2 DEF Ruled, Rightly
  <1>5. ASSUME OnOwnershipTransferRequest(p) PROVE Ruled'
    <2>1. Read
      BY <1>1, <1>5, ReceiveRules DEF OnOwnershipTransferRequest
    <2> DEFINE m == Head(toServer[p])
               a == [actor EXCEPT !.invalid = (IF m.reason = "Relinquish" THEN {} ELSE @) \cup {p}]
               w == [Unchanged EXCEPT !.actor = a]
    <2>2. a \in Actors /\ w.actor = a
      BY <1>1 DEF Actors, Unchanged
    <2>3. UNCHANGED actor \/ \E v \in TransferToNextOwner(w, near') : actor' = v.actor
      BY <1>5 DEF OnOwnershipTransferRequest, Becomes
    <2> HIDE DEF w, a
    <2>4. ASSUME NEW v \in TransferToNextOwner(w, near') PROVE Rightly(v.actor, up)
      BY <2>2, HandOverRules DEF Rightly
    <2> QED BY <1>1, <2>1, <2>3, <2>4 DEF Ruled, Rightly
  <1>6. ASSUME OnOwnershipClaimRequest(p) \/ OnMountRequest(p) PROVE Ruled'
    <2>1. Read
      BY <1>1, <1>6, ReceiveRules DEF OnOwnershipClaimRequest, OnMountRequest
    <2>2. actor' = Unchanged.actor \/ actor' = TransferOwnership(Unchanged, near, p, TRUE).actor
      BY <1>6 DEF OnOwnershipClaimRequest, OnMountRequest, Becomes
    <2>3. Rightly(TransferOwnership(Unchanged, near, p, TRUE).actor, up)
      BY <1>1, <1>2, <2>1, TransferRules
    <2> QED BY <1>1, <1>2, <2>1, <2>2, <2>3 DEF Ruled, Rightly
  <1>7. ASSUME OnDeathStateChange(p) PROVE Ruled'
    <2>1. Read
      BY <1>1, <1>7, ReceiveRules DEF OnDeathStateChange
    <2>2. actor' = actor \/ actor' = [actor EXCEPT !.dead = TRUE]
      BY <1>2, <1>7 DEF OnDeathStateChange, Becomes
    <2>3. actor'.id = actor.id /\ actor'.owner = actor.owner /\ actor'.invalid = actor.invalid
      BY <1>1, <2>2 DEF Actors
    <2> QED BY <1>1, <2>1, <2>3 DEF Ruled, Rightly
  <1> QED BY <1>3, <1>4, <1>5, <1>6, <1>7 DEF ServerStep

(* A client's step sends requests only while it is connected. *)
LEMMA SettleRules ==
  ASSUME Ready, Ruled, NEW c \in Players, NEW e, NEW ms, Settle(c, e, ms)
  PROVE  Ruled'
  <1>1. \A q \in Players : toServer'[q] = toServer[q] \/ q \in up
    BY DEF Ready, TypeOK, Settle, Say
  <1> QED BY <1>1 DEF Ruled, SendersConnected, Rightly, Settle, serverVars

LEMMA ClientStepRules ==
  ASSUME Ready, Ruled, NEW c \in Players, ClientStep(c) \/ GameStep(c)
  PROVE  Ruled'
  <1>1. \E e, ms : Settle(c, e, ms)
    BY DEF ClientStep, OnAssignCharacter, OnCharacterSpawn, OnOwnershipTransfer, OnRemoveCharacter,
           OnNotifyDeathStateChange, GameStep, OnActorAdded, OnActorRemoved, OnPartyJoinedEvent,
           OnMountEvent, RunDeathStateUpdates
  <1> QED BY <1>1, SettleRules

LEMMA OnDisconnectionRules ==
  ASSUME Ready, Ruled, NEW p \in Players, OnDisconnection(p)
  PROVE  Ruled'
  <1>1. actor \in Actors /\ Rightly(actor, up) /\ SendersConnected
        /\ up' = up \ {p} /\ near' = near \ {p}
    BY DEF Ready, TypeOK, Actors, Ruled, OnDisconnection
  <1>2. \A q \in Players : toServer'[q] # <<>> => q # p /\ toServer[q] # <<>>
    BY DEF Ready, TypeOK, OnDisconnection
  <1>3. SendersConnected'
    BY <1>1, <1>2 DEF SendersConnected
  <1>4. PICK w \in HandOnOwned(p, near') : actor' = w.actor
    BY DEF OnDisconnection
  <1>5. Rightly(w.actor, up')
    <2>1. CASE actor.owner = p
      <3> DEFINE v == [Unchanged EXCEPT !.actor.invalid = {}]
      <3>1. v.actor \in Actors /\ w \in TransferToNextOwner(v, near')
        BY <1>1, <1>4, <2>1 DEF HandOnOwned, Unchanged, Actors
      <3> HIDE DEF v
      <3>2. Rightly(w.actor, up \cap near')
        BY <3>1, HandOverRules
      <3> QED BY <1>1, <3>2 DEF Rightly
    <2>2. CASE actor.owner # p
      BY <1>1, <1>4, <2>2 DEF HandOnOwned, Unchanged, Rightly
    <2> QED BY <2>1, <2>2
  <1> QED BY <1>3, <1>4, <1>5 DEF Ruled, Rightly

LEMMA OtherStepRules ==
  ASSUME Ready, Ruled, NEW p \in Players,
         PartyChange \/ HandleGridCellShift(p) \/ OnDisconnected(p)
  PROVE  Ruled'
BY DEF PartyChange, HandleGridCellShift, OnDisconnected, Ruled, SendersConnected, Rightly,
       netVars, serverVars

LEMMA OnConnectedRules ==
  ASSUME Ready, Ruled, NEW c \in Players, OnConnected(c)
  PROVE  Ruled'
  <1>1. up' = up \cup {c}
    BY DEF OnConnected
  <1>2. \A q \in Players : q # c => toServer'[q] = toServer[q]
    BY DEF Ready, TypeOK, OnConnected
  <1>3. /\ actor'.id = actor.id /\ actor'.owner = actor.owner
        /\ actor'.invalid \subseteq actor.invalid
    BY DEF Ready, TypeOK, OnConnected
  <1> QED BY <1>1, <1>2, <1>3 DEF Ruled, SendersConnected, Rightly

LEMMA InitRules == Init => Ruled
  BY DEF Init, Ruled, SendersConnected, Rightly, NoActor

LEMMA NextRules ==
  ASSUME Ready, Ruled, [Next]_vars
  PROVE  Ruled'
  <1>1. CASE UNCHANGED vars
    BY <1>1 DEF vars, serverVars, netVars, Ruled, SendersConnected, Rightly
  <1>2. ASSUME NEW p \in Players, ConnectionStep(p) PROVE Ruled'
    BY <1>2, OnDisconnectionRules, OtherStepRules, OnConnectedRules DEF ConnectionStep
  <1>3. ASSUME PartyChange PROVE Ruled'
    BY <1>3 DEF PartyChange, Ruled, SendersConnected, Rightly, netVars
  <1> QED BY <1>1, <1>2, <1>3, ServerStepRules, ClientStepRules, OtherStepRules DEF Next

LEMMA RuledAlways == Spec => [](Ready /\ Ruled)
  <1>1. Init => Ready /\ Ruled
    BY InitMaps, InitRules
  <1>2. Ready /\ Ruled /\ [Next]_vars => Ready' /\ Ruled'
    BY StepMaps, NextRules
  <1> QED BY <1>1, <1>2, PTL DEF Spec

(* Whatever a disconnection interrupts, the actor was handed on to a       *)
(* connected player or removed.                                            *)
THEOREM OwnersConnected == Spec => []OwnerConnected
  <1>1. Ruled => OwnerConnected
    BY DEF Ruled, Rightly, OwnerConnected
  <1> QED BY <1>1, RuledAlways, PTL

(* A search for an owner never comes back to a player who gave the actor   *)
(* up in it.                                                               *)
THEOREM OwnersNotRejected == Spec => []OwnerNotRejected
  <1>1. Ruled => OwnerNotRejected
    BY DEF Ruled, Rightly, OwnerNotRejected
  <1> QED BY <1>1, RuledAlways, PTL

-----------------------------------------------------------------------------

(* The rules for one step. *)
Allowed ==
  actor.id # 0 /\ actor'.id = actor.id /\ actor'.owner # actor.owner /\ actor.owner \in up' =>
       \/ /\ toServer[actor.owner] # <<>>
          /\ Head(toServer[actor.owner]).type = "RequestOwnershipTransfer"
       \/ actor'.owner = party.leader /\ actor.owner \in party.members
       \/ IsMount

(* A transfer to p leaves the actor as it is or with p. *)
LEMMA TransferTo ==
  ASSUME NEW w, w.actor \in Actors, NEW nr, NEW p, NEW reset
  PROVE  \/ TransferOwnership(w, nr, p, reset).actor.owner = p
         \/ TransferOwnership(w, nr, p, reset).actor = w.actor
BY DEF TransferOwnership, Actors

LEMMA ServerStepAllowed ==
  ASSUME Ready, NEW p \in Players, ServerStep(p)
  PROVE  Allowed
  <1>1. actor \in Actors /\ Unchanged.actor = actor
    BY DEF Ready, TypeOK, Actors, Unchanged
  <1>2. ASSUME OnAssignCharacterRequest(p) PROVE Allowed
    <2> DEFINE r == AssignResponse(Head(toServer[p]).cookie, actor.owner = p, actor)
               w == [Unchanged EXCEPT !.ch = Send(@, {p}, r)]
    <2>1. w.actor = actor
      BY DEF Unchanged
    <2>2. \/ actor' = w.actor
          \/ CanClaimOwnership(p, actor.epoch) /\ actor' = TransferOwnership(w, near, p, TRUE).actor
      BY <1>2 DEF OnAssignCharacterRequest, Becomes
    <2> HIDE DEF w
    <2>3. w.actor \in Actors
      BY <1>1, <2>1
    <2>4. \/ TransferOwnership(w, near, p, TRUE).actor.owner = p
          \/ TransferOwnership(w, near, p, TRUE).actor = w.actor
      BY <2>3, TransferTo
    <2> QED BY <2>1, <2>2, <2>4 DEF Allowed, CanClaimOwnership
  <1>3. ASSUME OnOwnershipClaimRequest(p) \/ OnMountRequest(p) PROVE Allowed
    <2>1. \/ actor' = Unchanged.actor
          \/ /\ IsMount \/ CanClaimOwnership(p, Head(toServer[p]).epoch)
             /\ actor' = TransferOwnership(Unchanged, near, p, TRUE).actor
      BY <1>3 DEF OnOwnershipClaimRequest, OnMountRequest, Becomes
    <2>2. \/ TransferOwnership(Unchanged, near, p, TRUE).actor.owner = p
          \/ TransferOwnership(Unchanged, near, p, TRUE).actor = actor
      BY <1>1, TransferTo
    <2> QED BY <1>1, <2>1, <2>2 DEF Allowed, CanClaimOwnership
  <1>4. ASSUME OnOwnershipTransferRequest(p) PROVE Allowed
    BY <1>4 DEF OnOwnershipTransferRequest, Receive, Allowed
  <1>5. ASSUME CreateCharacter(p) PROVE Allowed
    BY <1>5 DEF CreateCharacter, Allowed
  <1>6. ASSUME OnDeathStateChange(p) PROVE Allowed
    <2>1. actor' = actor \/ actor' = [actor EXCEPT !.dead = TRUE]
      BY <1>1, <1>6 DEF OnDeathStateChange, Becomes
    <2>2. actor'.owner = actor.owner
      BY <1>1, <2>1 DEF Actors
    <2> QED BY <2>2 DEF Allowed
  <1> QED BY <1>2, <1>3, <1>4, <1>5, <1>6 DEF ServerStep

LEMMA StepAllowed ==
  ASSUME Ready, [Next]_vars
  PROVE  Allowed
  <1>1. CASE UNCHANGED actor
    BY <1>1 DEF Allowed
  <1>2. ASSUME NEW p \in Players, OnDisconnection(p) PROVE Allowed
    <2>1. up' = up \ {p} /\ (actor.owner # p => actor' = actor)
      BY <1>2 DEF OnDisconnection, HandOnOwned, Unchanged
    <2> QED BY <2>1 DEF Allowed
  <1>3. ASSUME NEW p \in Players, OnConnected(p) PROVE Allowed
    <2>1. actor'.owner = actor.owner
      BY <1>3 DEF Ready, TypeOK, OnConnected
    <2> QED BY <2>1 DEF Allowed
  <1>4. ASSUME NEW p \in Players, ClientStep(p) \/ GameStep(p) PROVE UNCHANGED actor
    <2>1. \E e, ms : Settle(p, e, ms)
      BY <1>4 DEF ClientStep, OnAssignCharacter, OnCharacterSpawn, OnOwnershipTransfer, OnRemoveCharacter,
             OnNotifyDeathStateChange, GameStep, OnActorAdded, OnActorRemoved, OnPartyJoinedEvent,
             OnMountEvent, RunDeathStateUpdates
    <2> QED BY <2>1 DEF Settle, serverVars
  <1>5. ASSUME NEW p \in Players, HandleGridCellShift(p) \/ OnDisconnected(p) \/ PartyChange
        PROVE  UNCHANGED actor
    BY <1>5 DEF HandleGridCellShift, OnDisconnected, PartyChange, serverVars
  <1>6. PartyChange => UNCHANGED actor
    BY DEF PartyChange
  <1>7. UNCHANGED vars => UNCHANGED actor
    BY DEF vars, serverVars
  <1> QED
    BY <1>1, <1>2, <1>3, <1>4, <1>5, <1>6, <1>7, ServerStepAllowed DEF Next, ConnectionStep

(* The actor changes hands only when its owner asks for that, drops out,   *)
(* or is in the party of the player who leads it (a horse, when ridden).   *)
THEOREM NobodyRobbed == Spec => NoTheft
  <1>1. Ready /\ Ruled /\ [Next]_vars => [Allowed]_vars
    BY StepAllowed
  <1>2. Spec => [][Allowed]_vars
    BY <1>1, RuledAlways, PTL DEF Spec
  <1> QED BY <1>2, PTL DEF NoTheft, Allowed
=============================================================================
