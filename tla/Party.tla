------------------------------- MODULE Party -------------------------------
(* Parties: server PartyService (with its client counterpart).             *)
(*                                                                         *)
(* The server keeps the parties, and on each Player the party he is in and *)
(* the invitations he holds. It tells the players of every change; a       *)
(* client only knows what it was told. A player here is one session: ids   *)
(* are never given twice, so someone who comes back is another player, but *)
(* the address of his Player object may be that of one who left.           *)
(*                                                                         *)
(* A connection is reliable and ordered. What a client is sent is split in *)
(* two queues, `news` about his party and `mail` (player lists and         *)
(* invitations), because their handlers share no state.                    *)
(*                                                                         *)
(* Definitions marked "mutated form" are plausible bugs of the operator    *)
(* that follows them; no specification uses them.                          *)
EXTENDS Integers, SequencesExt

CONSTANTS
  Players,      \* sessions: every connection that is ever made
  NoPlayer,     \* no player
  AutoJoin,     \* GameServer::AllowsAutoPartyJoin
  InviteLife,   \* ticks an invitation is good for
  MaxTick,      \* bound on the clock
  MaxRequests   \* bound on the number of requests the clients make

ASSUME PartyAssumption ==
  /\ IsFiniteSet(Players)
  /\ NoPlayer \notin Players
  /\ AutoJoin \in BOOLEAN
  /\ InviteLife \in Nat \ {0}
  /\ MaxTick \in Nat
  /\ MaxRequests \in Nat

VARIABLES
  parties,      \* m_parties: party id -> leader and members in order of arrival
  nextId,       \* m_nextId
  joined,       \* PartyComponent::JoinedPartyId of each player
  invitations,  \* PartyComponent::Invitations: holder -> inviter -> expiry, 0 for none
  used,         \* sessions that have begun
  connected,    \* the PlayerManager's players
  tick,         \* GameServer::GetTick; one tick stands for the ten seconds between purges
  online,       \* clients that have not noticed the end of their connection
  view,         \* m_inParty, m_leaderPlayerId, m_partyMembers of a client's PartyService
  players,      \* m_players of a client's PartyService
  invites,      \* m_invitations of a client's PartyService
  up,           \* requests on their way to the server
  news,         \* NotifyPartyJoined, NotifyPartyInfo, NotifyPartyLeft on their way
  mail,         \* NotifyPlayerList, NotifyPartyInvite on their way
  asked         \* requests made so far

serverVars == <<parties, nextId, joined, invitations, used, connected, tick>>
clientVars == <<online, view, players, invites, asked>>
vars == <<serverVars, clientVars, up, news, mail>>

NoParty == -1
NoInvites == [i \in Players |-> 0]

Party == [leader : Players, members : Seq(Players)]
View == [inParty : BOOLEAN, leader : Players \cup {NoPlayer}, members : Seq(Players)]
Outside == [inParty |-> FALSE, leader |-> NoPlayer, members |-> <<>>]

Requests == [type : {"Create", "Leave", "Invite", "Accept", "Kick", "ChangeLeader"},
             who : Players \cup {NoPlayer}]
News == [type : {"Joined", "Info", "Left"}, leader : Players \cup {NoPlayer}, members : Seq(Players)]
Mail == [type : {"List", "Invite"}, players : SUBSET Players,
         who : Players \cup {NoPlayer}, expiry : Nat]

JoinedNews(leader, members) == [type |-> "Joined", leader |-> leader, members |-> members]
InfoNews(leader, members) == [type |-> "Info", leader |-> leader, members |-> members]
LeftNews == [type |-> "Left", leader |-> NoPlayer, members |-> <<>>]
PlayerList(ps) == [type |-> "List", players |-> ps, who |-> NoPlayer, expiry |-> 0]
InviteMail(i, expiry) == [type |-> "Invite", players |-> {}, who |-> i, expiry |-> expiry]

TypeOK ==
  /\ DOMAIN parties \subseteq Nat /\ parties \in [DOMAIN parties -> Party]
  /\ nextId \in Nat
  /\ joined \in [Players -> Nat \cup {NoParty}]
  /\ invitations \in [Players -> [Players -> Nat]]
  /\ used \subseteq Players /\ connected \subseteq Players /\ online \subseteq Players
  /\ tick \in Nat /\ asked \in Nat
  /\ view \in [Players -> View]
  /\ players \in [Players -> SUBSET Players]
  /\ invites \in [Players -> [Players -> Nat]]
  /\ up \in [Players -> Seq(Requests)]
  /\ news \in [Players -> Seq(News)]
  /\ mail \in [Players -> Seq(Mail)]

Init ==
  /\ parties = <<>> /\ nextId = 0
  /\ joined = [p \in Players |-> NoParty]
  /\ invitations = [p \in Players |-> NoInvites]
  /\ used = {} /\ connected = {} /\ online = {}
  /\ tick = 1 /\ asked = 0
  /\ view = [p \in Players |-> Outside]
  /\ players = [p \in Players |-> {}]
  /\ invites = [p \in Players |-> NoInvites]
  /\ up = [p \in Players |-> <<>>]
  /\ news = [p \in Players |-> <<>>]
  /\ mail = [p \in Players |-> <<>>]

-----------------------------------------------------------------------------
(* The server's helpers.                                                   *)

SetParty(id, leader, members) ==
  parties' = [i \in DOMAIN parties \cup {id} |->
                IF i = id THEN [leader |-> leader, members |-> members] ELSE parties[i]]

EraseParty(id) == parties' = [i \in DOMAIN parties \ {id} |-> parties[i]]

OnlyParty(id) == DOMAIN parties = {id}

(* Player::Send: nothing reaches a client whose connection has ended.      *)
Reachable == online \cap connected

TellThose(audience, out) ==
  news' = [q \in Players |-> IF q \in audience THEN news[q] \o out[q] ELSE news[q]]

Tell(out) == TellThose(Reachable, out)

Post(out) ==
  mail' = [q \in Players |-> IF q \in Reachable THEN mail[q] \o out[q] ELSE mail[q]]

(* BroadcastPartyInfo. *)
Info(leader, members) ==
  [q \in Players |-> IF q \in Range(members) THEN <<InfoNews(leader, members)>> ELSE <<>>]

(* BroadcastPlayerList to those of `ps`, each told of the others; the      *)
(* player it is called with is left out of `ps`.                           *)
BroadcastPlayerList(ps) ==
  Post([q \in Players |-> IF q \in ps THEN <<PlayerList(ps \ {q})>> ELSE <<>>])

Erase(members, p) == RemoveAt(members, CHOOSE i \in DOMAIN members : members[i] = p)

(* Mutated form: the leader is kept when he leaves. *)
KeepLeader(p, audience) ==
  IF joined[p] = NoParty THEN UNCHANGED <<parties, joined, news>>
  ELSE LET id == joined[p]
           rest == Erase(parties[id].members, p)
       IN /\ joined' = [joined EXCEPT ![p] = NoParty]
          /\ IF rest = <<>> THEN EraseParty(id) ELSE SetParty(id, parties[id].leader, rest)
          /\ TellThose(audience, [Info(parties[id].leader, rest) EXCEPT ![p] = <<LeftNews>>])

(* Mutated form: the leader is cleared when he leaves. *)
ClearLeader(p, audience) ==
  IF joined[p] = NoParty THEN UNCHANGED <<parties, joined, news>>
  ELSE LET id == joined[p]
           rest == Erase(parties[id].members, p)
           leader == IF parties[id].leader = p THEN NoPlayer ELSE parties[id].leader
       IN /\ joined' = [joined EXCEPT ![p] = NoParty]
          /\ IF rest = <<>> THEN EraseParty(id) ELSE SetParty(id, leader, rest)
          /\ TellThose(audience, [Info(leader, rest) EXCEPT ![p] = <<LeftNews>>])

(* Mutated form: the party is not told. *)
RemoveSilently(p, audience) ==
  IF joined[p] = NoParty THEN UNCHANGED <<parties, joined, news>>
  ELSE LET id == joined[p]
           rest == Erase(parties[id].members, p)
           leader == IF parties[id].leader = p THEN rest[1] ELSE parties[id].leader
       IN /\ joined' = [joined EXCEPT ![p] = NoParty]
          /\ IF rest = <<>> THEN EraseParty(id) ELSE SetParty(id, leader, rest)
          /\ TellThose(audience, [q \in Players |-> IF q = p THEN <<LeftNews>> ELSE <<>>])

RemovePlayerFromParty(p, audience) ==
  IF joined[p] = NoParty THEN UNCHANGED <<parties, joined, news>>
  ELSE LET id == joined[p]
           rest == Erase(parties[id].members, p)
           leader == IF parties[id].leader = p THEN rest[1] ELSE parties[id].leader
       IN /\ joined' = [joined EXCEPT ![p] = NoParty]
          /\ IF rest = <<>> THEN EraseParty(id) ELSE SetParty(id, leader, rest)
          /\ TellThose(audience, [Info(leader, rest) EXCEPT ![p] = <<LeftNews>>])

-----------------------------------------------------------------------------
(* The server's handlers.                                                  *)

(* The head of p's queue is a request of type t about player who.          *)
Receive(p, t, who) ==
  /\ p \in connected
  /\ up[p] # <<>>
  /\ Head(up[p]).type = t /\ Head(up[p]).who = who
  /\ up' = [up EXCEPT ![p] = Tail(@)]

(* Mutated form: other parties are not looked at. *)
SweepsAlways == AutoJoin

(* A first party takes everybody in. *)
Sweeps == AutoJoin /\ DOMAIN parties = {}

(* The creator is told of the party first, then, one by one as they are    *)
(* added, the others that are swept into it.                               *)
OnPartyCreate(p) ==
  /\ Receive(p, "Create", NoPlayer)
  /\ IF joined[p] # NoParty THEN UNCHANGED <<parties, nextId, joined, news>>
     ELSE \E others \in SetToSeqs(IF Sweeps THEN connected \ {p} ELSE {}) :
            LET members == <<p>> \o others IN
            /\ SetParty(nextId, p, members)
            /\ nextId' = nextId + 1
            /\ joined' = [q \in Players |-> IF q \in Range(members) THEN nextId ELSE joined[q]]
            /\ Tell([q \in Players |->
                 IF q \notin Range(members) THEN <<>>
                 ELSE LET k == CHOOSE k \in DOMAIN members : members[k] = q
                          welcome == JoinedNews(p, SubSeq(members, 1, k))
                      IN IF Sweeps THEN <<welcome, InfoNews(p, members)>> ELSE <<welcome>>])
  /\ UNCHANGED <<invitations, used, connected, tick, clientVars, mail>>

(* Nothing is said unless the new leader is a member.                      *)
OnPartyChangeLeader(p, who) ==
  /\ Receive(p, "ChangeLeader", who)
  /\ LET id == joined[p] IN
     IF /\ who \in connected /\ id # NoParty
        /\ parties[id].leader = p
        /\ who \in Range(parties[id].members)
     THEN /\ SetParty(id, who, parties[id].members)
          /\ Tell(Info(who, parties[id].members))
     ELSE UNCHANGED <<parties, news>>
  /\ UNCHANGED <<nextId, joined, invitations, used, connected, tick, clientVars, mail>>

(* The kicker must lead his own party; the kicked leaves the one he is in. *)
OnPartyKick(p, who) ==
  /\ Receive(p, "Kick", who)
  /\ IF /\ who \in connected /\ joined[p] # NoParty
        /\ parties[joined[p]].leader = p
     THEN /\ RemovePlayerFromParty(who, Reachable)
          /\ BroadcastPlayerList(connected \ {who})
     ELSE UNCHANGED <<parties, joined, news, mail>>
  /\ UNCHANGED <<nextId, invitations, used, connected, tick, clientVars>>

OnPartyInvite(p, who) ==
  /\ Receive(p, "Invite", who)
  /\ IF /\ who \in connected /\ who # p
        /\ joined[p] # NoParty /\ joined[who] = NoParty
        /\ parties[joined[p]].leader = p
     THEN /\ invitations' = [invitations EXCEPT ![who] = [@ EXCEPT ![p] = tick + InviteLife]]
          /\ Post([q \in Players |->
                     IF q = who THEN <<InviteMail(p, tick + InviteLife)>> ELSE <<>>])
     ELSE UNCHANGED <<invitations, mail>>
  /\ UNCHANGED <<parties, nextId, joined, used, connected, tick, clientVars, news>>

(* Mutated form: who is in a party already may accept. *)
AcceptAnyway(p, who) ==
  /\ who \in connected /\ who # p
  /\ invitations[p][who] # 0
  /\ joined[who] # NoParty
  /\ parties[joined[who]].leader = who

(* The invitation is not used up, and its expiry is not looked at.         *)
MayAccept(p, who) ==
  /\ who \in connected /\ who # p
  /\ invitations[p][who] # 0
  /\ joined[who] # NoParty
  /\ parties[joined[who]].leader = who
  /\ joined[p] = NoParty

OnPartyAcceptInvite(p, who) ==
  /\ Receive(p, "Accept", who)
  /\ IF MayAccept(p, who)
     THEN LET id == joined[who]
              members == Append(parties[id].members, p)
          IN /\ SetParty(id, who, members)
             /\ joined' = [joined EXCEPT ![p] = id]
             /\ Tell([Info(who, members) EXCEPT
                        ![p] = <<JoinedNews(who, members), InfoNews(who, members)>>])
     ELSE UNCHANGED <<parties, joined, news>>
  /\ UNCHANGED <<nextId, invitations, used, connected, tick, clientVars, mail>>

OnPartyLeave(p) ==
  /\ Receive(p, "Leave", NoPlayer)
  /\ RemovePlayerFromParty(p, Reachable)
  /\ UNCHANGED <<nextId, invitations, used, connected, tick, clientVars, mail>>

(* A new Player. Invitations are keyed by address: if his is that of a     *)
(* player who left, what that one had sent out now passes for his.         *)
InheritInvitations(p, old) ==
  invitations' = IF old = NoPlayer THEN invitations
                 ELSE [q \in Players |-> [invitations[q] EXCEPT ![p] = invitations[q][old],
                                                                 ![old] = 0]]

(* The first player found in a party decides which one the newcomer joins. *)
OnPlayerJoin(p) ==
  /\ p \notin used
  /\ used' = used \cup {p}
  /\ connected' = connected \cup {p}
  /\ online' = online \cup {p}
  /\ \E old \in (used \ connected) \cup {NoPlayer} : InheritInvitations(p, old)
  /\ IF AutoJoin /\ \E id \in DOMAIN parties : OnlyParty(id)
     THEN \E host \in {q \in connected : joined[q] # NoParty} :
            LET id == joined[host]
                members == Append(parties[id].members, p)
                leader == parties[id].leader
            IN /\ SetParty(id, leader, members)
               /\ joined' = [joined EXCEPT ![p] = id]
               /\ news' = [q \in Players |->
                    IF q = p THEN <<JoinedNews(leader, members), InfoNews(leader, members)>>
                    ELSE IF q \in Reachable /\ q \in Range(members)
                    THEN Append(news[q], InfoNews(leader, members))
                    ELSE news[q]]
     ELSE UNCHANGED <<parties, joined, news>>
  /\ mail' = [q \in Players |->
                IF q = p THEN <<PlayerList(connected)>>
                ELSE IF q \in Reachable
                THEN Append(mail[q], PlayerList((connected \cup {p}) \ {q}))
                ELSE mail[q]]
  /\ UNCHANGED <<nextId, tick, view, players, invites, asked, up>>

(* The server notices that a connection has ended: it tells the party and  *)
(* everybody else, then the Player is destroyed with what it holds.        *)
OnPlayerLeave(p) ==
  /\ p \in connected
  /\ RemovePlayerFromParty(p, Reachable \ {p})
  /\ BroadcastPlayerList(connected \ {p})
  /\ connected' = connected \ {p}
  /\ invitations' = [invitations EXCEPT ![p] = NoInvites]
  /\ up' = [up EXCEPT ![p] = <<>>]
  /\ UNCHANGED <<nextId, used, tick, clientVars>>

(* What the purge looks through: m_world.view<PartyComponent>(), but the   *)
(* component is a member of Player and no entity has one.                  *)
PurgedHolders == {}

Purge(held, now) == [i \in Players |-> IF held[i] < now THEN 0 ELSE held[i]]

(* Time passes: the server's purge, and that of every client, whose clock  *)
(* follows the server's.                                                   *)
OnUpdate ==
  /\ tick < MaxTick
  /\ tick' = tick + 1
  /\ invitations' = [p \in Players |->
       IF p \in PurgedHolders THEN Purge(invitations[p], tick') ELSE invitations[p]]
  /\ invites' = [p \in Players |->
       IF p \in online THEN Purge(invites[p], tick') ELSE invites[p]]
  /\ UNCHANGED <<parties, nextId, joined, used, connected, online, view, players, asked, up, news, mail>>

-----------------------------------------------------------------------------
(* The clients.                                                            *)

(* What a client that sees v sees once it has read m: OnPartyJoined,       *)
(* OnPartyLeft, and OnPartyInfo, which is ignored outside a party.         *)
Read(v, m) ==
  IF m.type = "Left" THEN Outside
  ELSE IF m.type = "Joined" \/ v.inParty
  THEN [inParty |-> TRUE, leader |-> m.leader, members |-> m.members]
  ELSE v

OnNews(p) ==
  /\ p \in online
  /\ news[p] # <<>>
  /\ news' = [news EXCEPT ![p] = Tail(@)]
  /\ view' = [view EXCEPT ![p] = Read(@, Head(news[p]))]
  /\ UNCHANGED <<serverVars, online, players, invites, asked, up, mail>>

OnMail(p) ==
  /\ p \in online
  /\ mail[p] # <<>>
  /\ mail' = [mail EXCEPT ![p] = Tail(@)]
  /\ LET m == Head(mail[p]) IN
     IF m.type = "List"
     THEN players' = [players EXCEPT ![p] = m.players] /\ UNCHANGED invites
     ELSE invites' = [invites EXCEPT ![p] = [@ EXCEPT ![m.who] = m.expiry]] /\ UNCHANGED players
  /\ UNCHANGED <<serverVars, online, view, asked, up, news>>

(* The client notices that its connection has ended; what it was sent and  *)
(* has not read is lost. The server may still read what it had sent.       *)
OnDisconnected(p) ==
  /\ p \in online
  /\ online' = online \ {p}
  /\ view' = [view EXCEPT ![p] = Outside]
  /\ news' = [news EXCEPT ![p] = <<>>]
  /\ mail' = [mail EXCEPT ![p] = <<>>]
  /\ UNCHANGED <<serverVars, players, invites, asked, up>>

(* A request of the client's user; it reaches nobody if the server has     *)
(* closed the connection.                                                  *)
Request(p, type, who) ==
  /\ p \in online
  /\ asked < MaxRequests
  /\ asked' = asked + 1
  /\ up' = IF p \in connected
           THEN [up EXCEPT ![p] = Append(@, [type |-> type, who |-> who])] ELSE up
  /\ UNCHANGED <<serverVars, online, view, players, invites, news, mail>>

CreateParty(p) == ~view[p].inParty /\ Request(p, "Create", NoPlayer)
LeaveParty(p) == view[p].inParty /\ Request(p, "Leave", NoPlayer)
CreateInvite(p, who) == who \in players[p] /\ Request(p, "Invite", who)
AcceptInvite(p, who) == invites[p][who] # 0 /\ Request(p, "Accept", who)

(* The buttons are there for the leader, beside each other member.         *)
Leads(p, who) == view[p].leader = p /\ who # p /\ who \in Range(view[p].members)
KickPartyMember(p, who) == Leads(p, who) /\ Request(p, "Kick", who)
ChangePartyLeader(p, who) == Leads(p, who) /\ Request(p, "ChangeLeader", who)

-----------------------------------------------------------------------------
ServerStep(p) ==
  \/ OnPartyCreate(p) \/ OnPartyLeave(p)
  \/ \E who \in Players : \/ OnPartyChangeLeader(p, who) \/ OnPartyKick(p, who)
                          \/ OnPartyInvite(p, who) \/ OnPartyAcceptInvite(p, who)

UserStep(p) ==
  \/ CreateParty(p) \/ LeaveParty(p)
  \/ \E who \in Players : \/ CreateInvite(p, who) \/ AcceptInvite(p, who)
                          \/ KickPartyMember(p, who) \/ ChangePartyLeader(p, who)

Next ==
  \/ \E p \in Players : \/ ServerStep(p) \/ OnPlayerJoin(p) \/ OnPlayerLeave(p)
                        \/ OnNews(p) \/ OnMail(p) \/ OnDisconnected(p) \/ UserStep(p)
  \/ OnUpdate

Spec == Init /\ [][Next]_vars

(* Both ends process their queues, and the server notices the connection   *)
(* of a client that is gone, as the other end of one the server closed     *)
(* does. Nobody has to ask for anything.                                   *)
Fairness ==
  \A p \in Players :
    /\ WF_vars(ServerStep(p))
    /\ WF_vars(OnNews(p))
    /\ WF_vars(p \notin online /\ OnPlayerLeave(p))
    /\ WF_vars(p \notin connected /\ OnDisconnected(p))

FairSpec == Spec /\ Fairness

-----------------------------------------------------------------------------
(* Properties.                                                             *)

(* A player's own record and the parties' member lists say the same: he is *)
(* a member, once, of the party he has joined and of no other, a party has *)
(* members and is led by one of them, and nobody who left is in one.       *)
Membership ==
  /\ \A p \in Players : joined[p] # NoParty => p \in connected /\ joined[p] \in DOMAIN parties
  /\ \A id \in DOMAIN parties :
       /\ parties[id].leader \in Range(parties[id].members)
       /\ \A p \in Players : p \in Range(parties[id].members) <=> joined[p] = id
       /\ \A i, j \in DOMAIN parties[id].members :
            parties[id].members[i] = parties[id].members[j] => i = j

(* What the server would tell p of his party now. *)
PartyOf(p) ==
  IF joined[p] = NoParty THEN Outside
  ELSE [inParty |-> TRUE, leader |-> parties[joined[p]].leader, members |-> parties[joined[p]].members]

(* A client that has read all it was sent sees its party as it is: the     *)
(* same members, in the same order, and the same leader.                   *)
ViewAgrees ==
  \A p \in online \cap connected : news[p] = <<>> => view[p] = PartyOf(p)

(* Nobody is taken from one party into another: he has to leave first,     *)
(* whatever crosses his answer (another party's invitation, the sweep of   *)
(* an auto-join).                                                          *)
NoPoaching ==
  [][\A p \in Players : joined[p] # NoParty => joined'[p] \in {joined[p], NoParty}]_vars

(* In the end every party is led by a player who is there, and every       *)
(* client there agrees with the server about its party.                    *)
PartiesSettle ==
  <>[](/\ \A id \in DOMAIN parties : parties[id].leader \in online
       /\ \A p \in online : p \in connected /\ view[p] = PartyOf(p))
=============================================================================
