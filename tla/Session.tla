------------------------------ MODULE Session -------------------------------
(* Sessions and the string cache: the server's GameServer (connections,    *)
(* HandleAuthenticationRequest, OnDisconnection), PlayerManager and        *)
(* StringCacheService, the client's TransportService, StringCacheService   *)
(* and list of players, and the StringCache and CachedString they share.   *)
(*                                                                         *)
(* A client asks to be let in as soon as it is connected. Once let in it   *)
(* gets the server's table of strings and every later addition to it; from *)
(* then on both sides send a string as its index when they know one.       *)
(*                                                                         *)
(* A connection is reliable and ordered while it lasts, and is never used  *)
(* twice. What is on its way when the server gives a connection up is      *)
(* lost: to read it before or after that is the same to the client.        *)
(*                                                                         *)
(* Definitions marked "mutated form" are plausible bugs of the operator    *)
(* that follows them; no specification uses them.                          *)
EXTENDS Integers, SequencesExt, FiniteSetsExt

CONSTANTS
  Clients,      \* game clients
  MaxConns,     \* bound on the connections that are made
  NoConn,       \* no connection
  Strings,      \* strings that are sent through the cache
  Empty,        \* the string a CachedString is when its id is not known
  MaxPlayers,   \* uMaxPlayerCount
  MaxSays,      \* bound on the messages clients send with a cached string
  MaxRestarts   \* bound on the restarts of the server

ASSUME SessionAssumption ==
  /\ MaxConns \in Nat /\ NoConn \notin Nat
  /\ IsFiniteSet(Strings) /\ Empty \notin Strings
  /\ MaxPlayers \in Nat /\ MaxSays \in Nat /\ MaxRestarts \in Nat

VARIABLES
  open,      \* connections the server has
  players,   \* PlayerManager::m_players, by connection
  cacheId,   \* Player::m_stringCacheId
  table,     \* the server's StringCache: m_idToString
  wanted,    \* the server's StringCache: m_wantedStrings
  conn,      \* the connection of each client
  online,    \* TransportService::m_connected
  cache,     \* the client's StringCache: m_idToString
  roster,    \* the list of players in the client's interface: rows per player
  up,        \* messages on their way to the server
  down,      \* messages on their way to the client
  made,      \* connections made so far
  said,      \* messages with a string sent so far
  restarts   \* restarts so far

serverVars == <<open, players, cacheId, table, wanted>>
clientVars == <<conn, online, cache, roster>>
vars == <<serverVars, clientVars, up, down, made, said, restarts>>

Conns == 1..MaxConns

NoId == -1
Nobody == [k \in Conns |-> 0]

(* On the wire a string with an id is the id alone; `text` is then only    *)
(* what its sender meant.                                                  *)
Request == [type : {"Auth"}, fit : BOOLEAN]
             \cup [type : {"Say"}, text : Strings, id : Nat \cup {NoId}]
Notice == [type : {"Accepted", "Refused"}]
             \cup [type : {"Update"}, start : Nat, values : Seq(Strings)]
             \cup [type : {"Joined"}, who : SUBSET Conns]
             \cup [type : {"Left"}, who : Conns]
             \cup [type : {"Play"}, text : Strings \cup {Empty}, id : Nat \cup {NoId}]

Accepted == [type |-> "Accepted"]
Refused == [type |-> "Refused"]
Joined(ps) == [type |-> "Joined", who |-> ps]
Left(k) == [type |-> "Left", who |-> k]

TypeOK ==
  /\ open \subseteq Conns /\ players \subseteq Conns
  /\ cacheId \in [Conns -> Nat]
  /\ table \in Seq(Strings) /\ wanted \subseteq Strings
  /\ conn \in [Clients -> Conns \cup {NoConn}]
  /\ online \in [Clients -> BOOLEAN]
  /\ cache \in [Clients -> Seq(Strings)]
  /\ roster \in [Clients -> [Conns -> Nat]]
  /\ up \in [Conns -> Seq(Request)]
  /\ down \in [Conns -> Seq(Notice)]
  /\ made \in Nat /\ said \in Nat /\ restarts \in Nat

Init ==
  /\ open = {} /\ players = {} /\ made = 0
  /\ cacheId = [k \in Conns |-> 0]
  /\ table = <<>> /\ wanted = {}
  /\ conn = [c \in Clients |-> NoConn]
  /\ online = [c \in Clients |-> FALSE]
  /\ cache = [c \in Clients |-> <<>>]
  /\ roster = [c \in Clients |-> Nobody]
  /\ up = [k \in Conns |-> <<>>]
  /\ down = [k \in Conns |-> <<>>]
  /\ said = 0 /\ restarts = 0

-----------------------------------------------------------------------------
(* StringCache and CachedString.                                           *)

Knows(t, s) == \E i \in DOMAIN t : t[i] = s

(* operator[](String): ids start at 0. *)
IdOf(t, s) == IF Knows(t, s) THEN (CHOOSE i \in DOMAIN t : t[i] = s) - 1 ELSE NoId

(* Mutated form: id 0 is taken for no id. *)
StringOfPositive(t, id) == IF id \in 1 .. Len(t) - 1 THEN t[id + 1] ELSE Empty

(* operator[](uint32_t), and what is left of a CachedString without it.    *)
StringOf(t, id) == IF id \in 0 .. Len(t) - 1 THEN t[id + 1] ELSE Empty

(* CachedString::Serialize, and what Deserialize makes of it.              *)
Say(t, s) == [type |-> "Say", text |-> s, id |-> IdOf(t, s)]
Play(t, s) == [type |-> "Play", text |-> s, id |-> IdOf(t, s)]
Decode(t, m) == IF m.id = NoId THEN m.text ELSE StringOf(t, m.id)

(* StringCache::Serialize: the strings from `start` on. Start and number    *)
(* are 16 bits wide on the wire; tables stay shorter than 2^16 here.       *)
Update(t, start) ==
  [type |-> "Update", start |-> start, values |-> SubSeq(t, start + 1, Len(t))]

(* StringCache::Deserialize: a string that is known keeps the id it has.   *)
Learn(t, values) ==
  IF \E i \in DOMAIN values : Knows(t, values[i])
  THEN t \o SelectSeq(values, LAMBDA s : ~Knows(t, s))
  ELSE t \o values

(* Mutated form: the wanted strings are cleared before they are added. *)
NoAdditions == SetToSeqs({})

(* ProcessDirty adds the wanted strings in the order of a hash set.        *)
Additions == SetToSeqs({s \in wanted : ~Knows(table, s)})

-----------------------------------------------------------------------------
(* Sending. Nothing reaches a client that has given its connection up.     *)

Attached == {k \in Conns : \E c \in Clients : conn[c] = k}

Send(out) ==
  down' = [k \in Conns |-> IF k \in Attached THEN down[k] \o out[k] ELSE down[k]]

(* To the players `ps`, the same message. *)
ToEach(ps, m) == [k \in Conns |-> IF k \in ps THEN <<m>> ELSE <<>>]

Received(k) == up' = [up EXCEPT ![k] = Tail(@)]

(* Server::Kick: the connection is closed once what was sent is delivered. *)
Kick(k) ==
  /\ open' = open \ {k}
  /\ up' = [up EXCEPT ![k] = <<>>]

-----------------------------------------------------------------------------
(* The server.                                                             *)

(* Mutated form: the id that Serialize advances is not stored. *)
NeverServed(ps, t) == cacheId

(* Player::SetStringCacheId for those who are sent the table `t` to its    *)
(* end.                                                                    *)
Served(ps, t) == [k \in Conns |-> IF k \in ps THEN Len(t) ELSE cacheId[k]]

(* Mutated form: the connection of a refused client is kept. *)
RefuseOnly(k) ==
  /\ Received(k)
  /\ Send(ToEach({k}, Refused))
  /\ UNCHANGED <<players, cacheId, open>>

(* sendKick: a wrong version, password or list of mods, a mod that is not  *)
(* allowed, or no room.                                                    *)
Refuse(k) ==
  /\ Kick(k)
  /\ Send(ToEach({k}, Refused))
  /\ UNCHANGED <<players, cacheId>>

(* HandlePlayerJoin of a script can turn a player away: no answer is sent, *)
(* and the Player that was created is removed.                             *)
Cancel(k) ==
  /\ Kick(k)
  /\ UNCHANGED <<players, cacheId, down>>

(* The answer, the table, everybody who is there; PlayerJoinEvent tells    *)
(* the others.                                                             *)
Accept(k) ==
  /\ Received(k)
  /\ players' = players \cup {k}
  /\ cacheId' = Served({k}, table)
  /\ Send([j \in Conns |->
       IF j = k THEN <<Accepted, Update(table, 0), Joined(players)>>
       ELSE IF j \in players THEN <<Joined({k})>> ELSE <<>>])
  /\ UNCHANGED open

HandleAuthenticationRequest(k) ==
  /\ k \in open /\ up[k] # <<>> /\ Head(up[k]).type = "Auth"
  /\ IF Head(up[k]).fit /\ Cardinality(players) < MaxPlayers
     THEN Accept(k) \/ Cancel(k)
     ELSE Refuse(k)
  /\ UNCHANGED <<clientVars, table, wanted, made, said, restarts>>

(* Mutated form: a new string gets its id as it is received. *)
RelayAdded(m) ==
  LET s == Decode(table, m)
  IN  /\ table' = IF Knows(table, s) THEN table ELSE Append(table, s)
      /\ wanted' = wanted \cup {s}
      /\ Send(ToEach(players, Play(table', s)))

(* A string received without an id is wanted, known by now or not, and so  *)
(* is one sent without. The order of the two does not matter, and the      *)
(* table is left alone until the next snapshot.                            *)
Relay(m) ==
  LET s == Decode(table, m)
  IN  /\ wanted' = IF m.id # NoId /\ Knows(table, s) THEN wanted ELSE wanted \cup {s}
      /\ table' = table
      /\ Send(ToEach(players, Play(table, s)))

(* A message of a connection without a player ends the connection; here    *)
(* OnScriptAnimationRequest passes the string on to everybody.             *)
HandleSay(k) ==
  /\ k \in open /\ up[k] # <<>> /\ Head(up[k]).type = "Say"
  /\ IF k \notin players
     THEN Kick(k) /\ UNCHANGED <<down, table, wanted>>
     ELSE Received(k) /\ Relay(Head(up[k])) /\ UNCHANGED open
  /\ UNCHANGED <<clientVars, players, cacheId, made, said, restarts>>

(* Mutated form: the new strings are put in front. *)
PrependUpdate ==
  /\ wanted # {}
  /\ \E new \in Additions : table' = new \o table
  /\ wanted' = {}
  /\ cacheId' = Served(players, table')
  /\ Send([k \in Conns |-> IF k \in players THEN <<Update(table', cacheId[k])>> ELSE <<>>])
  /\ UNCHANGED <<clientVars, open, players, up, made, said, restarts>>

(* StringCacheService::HandleUpdate, every two seconds. When what is       *)
(* wanted is known already, an update with no strings goes out.            *)
HandleUpdate ==
  /\ wanted # {}
  /\ \E new \in Additions : table' = table \o new
  /\ wanted' = {}
  /\ cacheId' = Served(players, table')
  /\ Send([k \in Conns |-> IF k \in players THEN <<Update(table', cacheId[k])>> ELSE <<>>])
  /\ UNCHANGED <<clientVars, open, players, up, made, said, restarts>>

(* Mutated form: the others are not told. *)
SilentDisconnection(k) ==
  /\ k \in open
  /\ open' = open \ {k}
  /\ players' = players \ {k}
  /\ up' = [up EXCEPT ![k] = <<>>]
  /\ down' = [down EXCEPT ![k] = <<>>]
  /\ UNCHANGED <<clientVars, cacheId, table, wanted, made, said, restarts>>

(* GameServer::OnDisconnection. *)
OnDisconnection(k) ==
  /\ k \in open
  /\ open' = open \ {k}
  /\ players' = players \ {k}
  /\ up' = [up EXCEPT ![k] = <<>>]
  /\ down' = [j \in Conns |->
       IF j = k THEN <<>>
       ELSE IF k \in players /\ j \in players \cap Attached THEN Append(down[j], Left(k))
       ELSE down[j]]
  /\ UNCHANGED <<clientVars, cacheId, table, wanted, made, said, restarts>>

(* The server stops, or crashes, and is started again. *)
Restart ==
  /\ restarts < MaxRestarts /\ restarts' = restarts + 1
  /\ open' = {} /\ players' = {} /\ table' = <<>> /\ wanted' = {}
  /\ up' = [k \in Conns |-> <<>>] /\ down' = [k \in Conns |-> <<>>]
  /\ UNCHANGED <<clientVars, cacheId, made, said>>

-----------------------------------------------------------------------------
(* The client.                                                             *)

(* TransportService::OnConnected asks at once to be let in. *)
Connect(c) ==
  /\ conn[c] = NoConn
  /\ made < MaxConns /\ made' = made + 1
  /\ conn' = [conn EXCEPT ![c] = made']
  /\ open' = open \cup {made'}
  /\ \E fit \in BOOLEAN : up' = [up EXCEPT ![made'] = <<[type |-> "Auth", fit |-> fit]>>]
  /\ UNCHANGED <<players, cacheId, table, wanted, online, cache, roster, down, said, restarts>>

(* ObjectService::OnScriptAnimationEvent. Send asks for a connection, not  *)
(* for having been let in. What the client's cache wants is never added.   *)
OnScriptAnimationEvent(c, s) ==
  /\ conn[c] # NoConn
  /\ said < MaxSays /\ said' = said + 1
  /\ up' = IF conn[c] \in open
           THEN [up EXCEPT ![conn[c]] = Append(@, Say(cache[c], s))] ELSE up
  /\ UNCHANGED <<serverVars, clientVars, down, made, restarts>>

(* What a notice changes: HandleAuthenticationResponse with ConnectedEvent *)
(* (which clears the cache and, the connection being news to it, the list  *)
(* of players), StringCacheService and the interface's OnPlayerJoined and  *)
(* OnPlayerLeft. A Play changes nothing that is kept.                      *)
Welcome(c) ==
  /\ online' = [online EXCEPT ![c] = TRUE]
  /\ cache' = [cache EXCEPT ![c] = <<>>]
  /\ roster' = [roster EXCEPT ![c] = Nobody]

HandleStringCacheUpdate(c, m) ==
  /\ cache' = [cache EXCEPT ![c] = Learn(cache[c], m.values)]
  /\ UNCHANGED <<online, roster>>

OnPlayerJoined(c, ps) ==
  /\ roster' = [roster EXCEPT ![c] = [k \in Conns |-> @[k] + (IF k \in ps THEN 1 ELSE 0)]]
  /\ UNCHANGED <<online, cache>>

OnPlayerLeft(c, k) ==
  /\ roster' = [roster EXCEPT ![c][k] = 0]
  /\ UNCHANGED <<online, cache>>

Consume(c) ==
  /\ conn[c] # NoConn /\ down[conn[c]] # <<>>
  /\ LET m == Head(down[conn[c]])
     IN \/ m.type = "Accepted" /\ Welcome(c)
        \/ m.type = "Update" /\ HandleStringCacheUpdate(c, m)
        \/ m.type = "Joined" /\ OnPlayerJoined(c, m.who)
        \/ m.type = "Left" /\ OnPlayerLeft(c, m.who)
        \/ m.type \in {"Refused", "Play"} /\ UNCHANGED <<online, cache, roster>>
  /\ down' = [down EXCEPT ![conn[c]] = Tail(@)]
  /\ UNCHANGED <<serverVars, conn, up, made, said, restarts>>

(* TransportService::OnDisconnected: the player leaves, the server closed  *)
(* the connection, or it failed.                                           *)
OnDisconnected(c) ==
  /\ conn[c] # NoConn
  /\ conn' = [conn EXCEPT ![c] = NoConn]
  /\ online' = [online EXCEPT ![c] = FALSE]
  /\ cache' = [cache EXCEPT ![c] = <<>>]
  /\ roster' = [roster EXCEPT ![c] = Nobody]
  /\ down' = [down EXCEPT ![conn[c]] = <<>>]
  /\ UNCHANGED <<serverVars, up, made, said, restarts>>

Next ==
  \/ \E c \in Clients : Connect(c) \/ Consume(c) \/ OnDisconnected(c)
  \/ \E c \in Clients, s \in Strings : OnScriptAnimationEvent(c, s)
  \/ \E k \in Conns : HandleAuthenticationRequest(k) \/ HandleSay(k) \/ OnDisconnection(k)
  \/ HandleUpdate
  \/ Restart

Spec == Init /\ [][Next]_vars

-----------------------------------------------------------------------------
(* Fairness: both sides poll their sockets and the server's snapshot comes *)
(* every two seconds; each side notices that the other has closed.         *)

Ended(c) == conn[c] # NoConn /\ conn[c] \notin open
Notices(c) == Ended(c) /\ down[conn[c]] = <<>> /\ OnDisconnected(c)
Gone(k) == k \notin Attached /\ OnDisconnection(k)

Fairness ==
  /\ \A c \in Clients : WF_vars(Consume(c)) /\ WF_vars(Notices(c))
  /\ \A k \in Conns : WF_vars(HandleAuthenticationRequest(k)) /\ WF_vars(HandleSay(k))
                      /\ WF_vars(Gone(k))
  /\ WF_vars(HandleUpdate)

FairSpec == Spec /\ Fairness

-----------------------------------------------------------------------------
(* Properties.                                                             *)

Live(c) == conn[c] \in players
Next1(c) == Head(down[conn[c]])

(* What StringCache::Deserialize asserts of every update a client reads:   *)
(* "We should only receive contiguous updates", and each of its strings    *)
(* gets the id the server gave it. It takes the snapshots of the others, a *)
(* join between two of them and a reconnection all to fit together.        *)
Contiguous ==
  \A c \in Clients :
    conn[c] # NoConn /\ down[conn[c]] # <<>> /\ Next1(c).type = "Update" =>
      /\ Next1(c).start = Len(cache[c])
      /\ \A i \in DOMAIN Next1(c).values : ~Knows(cache[c], Next1(c).values[i])

(* What CachedString::Deserialize asserts: an id that arrives is known,    *)
(* and it stands for the string that was meant, on the server as well as   *)
(* on a client, however long the message was on its way.                   *)
Decodable ==
  /\ \A k \in players :
       up[k] # <<>> /\ Head(up[k]).type = "Say" => Decode(table, Head(up[k])) = Head(up[k]).text
  /\ \A c \in Clients :
       conn[c] # NoConn /\ down[conn[c]] # <<>> /\ Next1(c).type = "Play" =>
         Decode(cache[c], Next1(c)) = Next1(c).text

(* The list of players a client shows once it has read everything: all the *)
(* others, each in one row. Those who were there come with the answer, the *)
(* rest with events that other players' joins and ends leave in between.   *)
RosterAgrees ==
  \A c \in Clients :
    Live(c) /\ down[conn[c]] = <<>> =>
      \A k \in Conns : roster[c][k] = IF k \in players \ {conn[c]} THEN 1 ELSE 0

(* The server's table and the caches of those who play are an append-only  *)
(* log and its readers.                                                    *)
copies == [c \in Clients |-> IF Live(c) /\ online[c] THEN cache[c] ELSE <<>>]

Log == INSTANCE StringLog WITH
  Readers <- Clients, Words <- Strings, log <- table, copy <- copies

ImplementsLog == Log!LogSpec

(* Every login comes to an end: the client is let in or disconnected, even *)
(* when it is turned away by a script without an answer.                   *)
LoginSettles ==
  \A c \in Clients : conn[c] # NoConn ~> (online[c] \/ conn[c] = NoConn)

(* A string that is wanted reaches everyone who plays and stays.           *)
WordSpreads ==
  \A c \in Clients, s \in Strings :
    (s \in wanted /\ Live(c)) ~> (Knows(cache[c], s) \/ ~Live(c))
=============================================================================
