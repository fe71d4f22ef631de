------------------------------ MODULE Objects -------------------------------
(* Containers and what is in them: the server's ObjectService and          *)
(* InventoryService, the client's services of the same names.              *)
(*                                                                         *)
(* The server keeps a record of an object from the first time a client     *)
(* that enters its cell registers it until the last player leaves the      *)
(* cell; a record that is made again has a new server id. Clients change   *)
(* the contents on their own and tell the server, which changes its record *)
(* and passes the change on to the other players in range.                 *)
(*                                                                         *)
(* Contents are the number of one item. Players have their characters all  *)
(* the time. Definitions marked "mutated form" are plausible bugs of the   *)
(* operator that follows them; no specification uses them.                 *)
EXTENDS Integers, SequencesExt, FiniteSetsExt

CONSTANTS
  Players,    \* players, with one client each
  Objects,    \* containers
  Exterior,   \* exterior cells, a set of integers
  Interior,   \* interior cells
  Nowhere,    \* GameId{}, the cell of no player
  Home,       \* the cell each object stands in
  Stock,      \* what the game puts into each object
  Reach,      \* cells loaded on each side of a player
  MaxIds,     \* bound on the records that are made
  MaxTrips,   \* bound on the times players go to another cell
  MaxChanges, \* bound on the changes players make
  MaxJoins    \* bound on the connections that are made

Places == Exterior \cup Interior

ASSUME ObjectsAssumption ==
  /\ IsFiniteSet(Objects)
  /\ Exterior \subseteq Int /\ Interior \cap Int = {} /\ Nowhere \notin Places
  /\ Home \in [Objects -> Places] /\ Stock \in [Objects -> Nat]
  /\ {Reach, MaxIds, MaxTrips, MaxChanges, MaxJoins} \subseteq Nat

VARIABLES
  seated,   \* the server's PlayerManager
  cell,     \* Player::m_cell
  id,       \* the server id of each object's record, 0 without a record
  count,    \* InventoryComponent of each record
  lastId,   \* the last server id given
  online,   \* TransportService::m_connected
  pos,      \* the cell a client's player is in
  held,     \* ObjectComponents of each client: server ids per object
  content,  \* what the game has in each object
  up, down, \* messages on their way to the server, to each client
  trips, changes, joins, \* what is left of the bounds
  \* History, which no step reads.
  watched,  \* pairs of a player and an object unchanged since his last request
  unheard,  \* pairs of a player and an object that changed out of his range
  overdrawn \* objects of whose record more was taken than there was

serverVars == <<seated, cell, id, count, lastId>>
clientVars == <<online, pos, held, content>>
bounds == <<trips, changes, joins>>
history == <<watched, unheard, overdrawn>>
vars == <<serverVars, clientVars, up, down, bounds, history>>

Ids == 1..MaxIds

Entry == [id : Ids, first : BOOLEAN, count : Int]

Shift(x) == [type |-> "Shift", cell |-> x]
Enter(x) == [type |-> "Enter", cell |-> x]
Assign(has) == [type |-> "Assign", has |-> has]
Assigned(as) == [type |-> "Assigned", as |-> as]
Change(i, d) == [type |-> "Change", id |-> i, delta |-> d]

IsChange(m) == m.id \in Ids /\ m.delta \in {-1, 1}

Request(m) ==
  CASE m.type \in {"Shift", "Enter"} -> m.cell \in Places
    [] m.type = "Assign" -> DOMAIN m.has \subseteq Objects /\ m.has \in [DOMAIN m.has -> Nat]
    [] m.type = "Change" -> IsChange(m)

Notice(m) ==
  CASE m.type = "Assigned" -> DOMAIN m.as \subseteq Objects /\ m.as \in [DOMAIN m.as -> Entry]
    [] m.type = "Change" -> IsChange(m)

TypeOK ==
  /\ seated \subseteq Players
  /\ cell \in [Players -> Places \cup {Nowhere}]
  /\ id \in [Objects -> Ids \cup {0}] /\ count \in [Objects -> Int] /\ lastId \in Ids \cup {0}
  /\ online \subseteq Players /\ pos \in [Players -> Places]
  /\ held \in [Players -> [Objects -> SUBSET Ids]]
  /\ content \in [Players -> [Objects -> Nat]]
  /\ \A p \in Players : /\ \A i \in DOMAIN up[p] : Request(up[p][i])
                        /\ \A i \in DOMAIN down[p] : Notice(down[p][i])
  /\ trips \in 0..MaxTrips /\ changes \in 0..MaxChanges /\ joins \in 0..MaxJoins
  /\ watched \subseteq Players \X Objects /\ unheard \subseteq Players \X Objects
  /\ overdrawn \subseteq Objects

Init ==
  /\ seated = {} /\ cell = [p \in Players |-> Nowhere]
  /\ id = [o \in Objects |-> 0] /\ count = [o \in Objects |-> 0] /\ lastId = 0
  /\ online = {} /\ pos \in [Players -> {Home[o] : o \in Objects}]
  /\ held = [p \in Players |-> [o \in Objects |-> {}]]
  /\ content = [p \in Players |-> Stock]
  /\ up = [p \in Players |-> <<>>] /\ down = [p \in Players |-> <<>>]
  /\ trips = MaxTrips /\ changes = MaxChanges /\ joins = MaxJoins
  /\ watched = {} /\ unheard = {} /\ overdrawn = {}

InRange(x, y) ==
  \/ x = y
  \/ x \in Exterior /\ y \in Exterior /\ x - y <= Reach /\ y - x <= Reach

ObjectsIn(x) == {o \in Objects : Home[o] = x}

-----------------------------------------------------------------------------
(* Contents.                                                               *)

(* Inventory::AddOrRemoveEntry: an entry that falls to 0 is erased, one    *)
(* that is not there is added, be its count negative.                      *)
AfterChange(n, d) == IF n # 0 /\ n + d <= 0 THEN 0 ELSE n + d

(* Mutated form: what the server says is taken as it is. *)
InGameSigned(n) == n

(* AddOrRemoveItem and SetInventory: the game has no negative contents.    *)
InGame(n) == Max({0, n})

-----------------------------------------------------------------------------
(* The client.                                                             *)

Send(p, ms) == up' = [up EXCEPT ![p] = @ \o ms]

(* PlayerService::OnCellChangeEvent and ObjectService::OnCellChange hear   *)
(* of a new cell in an order that is not fixed.                            *)
Visits(p, x) ==
  LET assign == Assign([o \in ObjectsIn(x) |-> content[p][o]])
  IN  {<<Enter(x), assign>>, <<assign, Enter(x)>>}

(* Cells that were loaded around a new centre are reported first. *)
Shifts(x) == IF x \in Exterior THEN <<Shift(x)>> ELSE <<>>

(* Objects that are registered are watched from now on. *)
Registering(p, x) == watched' = watched \cup ({p} \X ObjectsIn(x))

(* The server accepts a connection: VisitCell(true). *)
Join(p) ==
  /\ p \notin online /\ p \notin seated /\ joins > 0
  /\ joins' = joins - 1
  /\ online' = online \cup {p} /\ seated' = seated \cup {p}
  /\ \E visit \in Visits(p, pos[p]) : Send(p, Shifts(pos[p]) \o visit)
  /\ Registering(p, pos[p])
  /\ UNCHANGED <<cell, id, count, lastId, pos, held, content, down, trips, changes, unheard,
                 overdrawn>>

(* The player goes to another cell; a neighbouring one may already be      *)
(* loaded.                                                                 *)
Go(p, x) ==
  /\ p \in online /\ x # pos[p] /\ trips > 0
  /\ trips' = trips - 1
  /\ pos' = [pos EXCEPT ![p] = x]
  /\ \E visit \in Visits(p, x) :
       \/ Send(p, Shifts(x) \o visit)
       \/ x \in Exterior /\ InRange(pos[p], x) /\ Send(p, visit)
  /\ Registering(p, x)
  /\ UNCHANGED <<serverVars, online, held, content, down, changes, joins, unheard, overdrawn>>

(* The player puts an item into an object or takes one out. HookAddInven-  *)
(* toryItem and OnInventoryChangeEvent: the change is told under the id of *)
(* any entity with the object's form id, and to nobody without one.        *)
Use(p, o, d) ==
  /\ p \in online /\ pos[p] = Home[o] /\ content[p][o] + d >= 0 /\ changes > 0
  /\ changes' = changes - 1
  /\ content' = [content EXCEPT ![p][o] = @ + d]
  /\ IF held[p][o] = {} THEN up' = up ELSE \E i \in held[p][o] : Send(p, <<Change(i, d)>>)
  /\ watched' = watched \ {<<p, o>>}
  /\ UNCHANGED <<serverVars, online, pos, held, down, trips, joins, unheard, overdrawn>>

(* OnAssignObjectsResponse and CreateObjectEntity. What the first client   *)
(* has in the object is the record; the others take the record over.       *)
OnAssignObjectsResponse(p, as) ==
  /\ held' = [held EXCEPT ![p] =
       [o \in Objects |-> IF o \in DOMAIN as THEN @[o] \cup {as[o].id} ELSE @[o]]]
  /\ content' = [content EXCEPT ![p] =
       [o \in Objects |-> IF o \in DOMAIN as /\ ~as[o].first THEN InGame(as[o].count) ELSE @[o]]]

(* OnNotifyInventoryChanges for an object. *)
OnNotifyInventoryChanges(p, i, d) ==
  /\ content' = [content EXCEPT ![p] =
       [o \in Objects |-> IF i \in held[p][o] THEN InGame(@[o] + d) ELSE @[o]]]
  /\ UNCHANGED held

(* A request to register o was sent and the answer has not been read. *)
Awaits(p, o) ==
  \/ \E i \in DOMAIN up[p] : up[p][i].type = "Assign" /\ o \in DOMAIN up[p][i].has
  \/ \E i \in 2..Len(down[p]) : down[p][i].type = "Assigned" /\ o \in DOMAIN down[p][i].as

Receive(p) ==
  /\ p \in online /\ down[p] # <<>>
  /\ down' = [down EXCEPT ![p] = Tail(@)]
  /\ LET m == Head(down[p])
     IN  IF m.type = "Assigned" THEN OnAssignObjectsResponse(p, m.as)
                                ELSE OnNotifyInventoryChanges(p, m.id, m.delta)
  /\ watched' = watched \ {<<p, o>> : o \in {u \in Objects : content'[p][u] # content[p][u]
                                                            /\ Awaits(p, u)}}
  /\ UNCHANGED <<serverVars, online, pos, up, bounds, unheard, overdrawn>>

(* The connection ends. OnDisconnected keeps the object entities. *)
Leave(p) ==
  /\ p \in online
  /\ online' = online \ {p}
  /\ down' = [down EXCEPT ![p] = <<>>]
  /\ UNCHANGED <<serverVars, pos, held, content, up, bounds, history>>

-----------------------------------------------------------------------------
(* The server.                                                             *)

Hears(p, m) == up[p] # <<>> /\ Head(up[p]) = m
Heard(p) == up' = [up EXCEPT ![p] = Tail(@)]

(* Mutated form: the cell is emptied whoever is left in it. *)
EmptiedAnyway(old) == ObjectsIn(old)

(* OnPlayerLeaveCellEvent: the objects of a cell no player is in any more, *)
(* once cell' is the players' cells.                                       *)
Emptied(old) == IF \E q \in seated : cell'[q] = old THEN {} ELSE ObjectsIn(old)

(* The player is now in cell x; the objects of the one he left may go. *)
MoveTo(p, x) ==
  /\ cell' = [cell EXCEPT ![p] = x]
  /\ LET gone == Emptied(cell[p])
     IN  /\ id' = [o \in Objects |-> IF o \in gone THEN 0 ELSE id[o]]
         /\ count' = [o \in Objects |-> IF o \in gone THEN 0 ELSE count[o]]
         /\ unheard' = unheard \cup {m \in Players \X gone : id[m[2]] # 0 /\ cell'[m[1]] # Home[m[2]]}
         /\ overdrawn' = overdrawn \ gone

HandleGridCellShift(p, x) ==
  /\ Hears(p, Shift(x)) /\ Heard(p)
  /\ MoveTo(p, x)
  /\ UNCHANGED <<seated, lastId, clientVars, down, bounds, watched>>

(* No objects are destroyed when a player walks out of their cell. *)
HandleExteriorCellEnter(p, x) ==
  /\ x \in Exterior /\ Hears(p, Enter(x)) /\ Heard(p)
  /\ cell' = [cell EXCEPT ![p] = x]
  /\ UNCHANGED <<seated, id, count, lastId, clientVars, down, bounds, history>>

HandleInteriorCellEnter(p, x) ==
  /\ x \in Interior /\ Hears(p, Enter(x)) /\ Heard(p)
  /\ MoveTo(p, x)
  /\ UNCHANGED <<seated, lastId, clientVars, down, bounds, watched>>

(* Mutated form: all the records of a request get one id. *)
FreshIdsShared(os) == [o \in os |-> lastId + 1]

(* The server ids of new records for objects os. *)
FreshIds(os) ==
  LET order == SetToSeq(os)
  IN  [o \in os |-> lastId + CHOOSE k \in DOMAIN order : order[k] = o]

(* OnAssignObjectsRequest: what has no record yet gets one, with what the  *)
(* client has in it.                                                       *)
OnAssignObjectsRequest(p) ==
  /\ up[p] # <<>> /\ Head(up[p]).type = "Assign" /\ Heard(p)
  /\ LET has == Head(up[p]).has
         new == {o \in DOMAIN has : id[o] = 0}
         as == [o \in DOMAIN has |-> [id |-> id'[o], first |-> o \in new, count |-> count'[o]]]
     IN  /\ lastId + Cardinality(new) <= MaxIds
         /\ lastId' = lastId + Cardinality(new)
         /\ id' = [o \in Objects |-> IF o \in new THEN FreshIds(new)[o] ELSE id[o]]
         /\ count' = [o \in Objects |-> IF o \in new THEN has[o] ELSE count[o]]
         /\ down' = IF has # <<>> /\ p \in online THEN [down EXCEPT ![p] = Append(@, Assigned(as))]
                                                   ELSE down
         /\ unheard' = unheard \ ({p} \X DOMAIN has)
  /\ UNCHANGED <<seated, cell, clientVars, bounds, watched, overdrawn>>

(* SendToPlayersInRange, but to the sender. *)
Audience(p, o) == {q \in seated \ {p} : q \in online /\ InRange(Home[o], cell[q])}

(* OnInventoryChanges; a change under an old server id is dropped. *)
OnInventoryChanges(p, i, d) ==
  /\ Hears(p, Change(i, d)) /\ Heard(p)
  /\ \/ /\ i \notin Range(id)
        /\ UNCHANGED <<count, down, unheard, overdrawn>>
     \/ \E o \in Objects :
          /\ id[o] = i
          /\ count' = [count EXCEPT ![o] = AfterChange(@, d)]
          /\ down' = [q \in Players |-> IF q \in Audience(p, o) THEN Append(down[q], Change(i, d))
                                                                ELSE down[q]]
          /\ LET away == {q \in Players \ {p} : ~InRange(Home[o], cell[q])}
             IN  unheard' = unheard \cup (away \X {o})
          /\ overdrawn' = IF count[o] + d < 0 THEN overdrawn \cup {o} ELSE overdrawn
  /\ UNCHANGED <<seated, cell, id, lastId, clientVars, bounds, watched>>

(* OnDisconnection. *)
OnDisconnection(p) ==
  /\ p \in seated /\ p \notin online
  /\ seated' = seated \ {p}
  /\ up' = [up EXCEPT ![p] = <<>>]
  /\ MoveTo(p, Nowhere)
  /\ UNCHANGED <<lastId, clientVars, down, bounds, watched>>

Handle(p) ==
  \/ \E x \in Places : \/ HandleGridCellShift(p, x)
                       \/ HandleExteriorCellEnter(p, x)
                       \/ HandleInteriorCellEnter(p, x)
  \/ OnAssignObjectsRequest(p)
  \/ \E i \in Ids, d \in {-1, 1} : OnInventoryChanges(p, i, d)

Next ==
  \E p \in Players :
    \/ Join(p) \/ Receive(p) \/ Leave(p)
    \/ \E x \in Places : Go(p, x)
    \/ \E o \in Objects, d \in {-1, 1} : Use(p, o, d)
    \/ Handle(p) \/ OnDisconnection(p)

Spec == Init /\ [][Next]_vars

-----------------------------------------------------------------------------

(* Nothing that p sent or that was sent to him is on its way. *)
Settled(p) == up[p] = <<>> /\ down[p] = <<>>

(* WatchersAgree: a player who stands by an object, has not touched it     *)
(* since he came and got no news of it while his request was open, holds   *)
(* the id of its record and sees what the record says. Out of this fall    *)
(* only an object of which two players took more than there was, and one   *)
(* that changed or went between his two messages, while the server still   *)
(* had him in another cell.                                                *)
WatchersAgree ==
  \A p \in online, o \in Objects :
    /\ Settled(p) /\ pos[p] = Home[o] /\ <<p, o>> \in watched \ unheard
    => /\ id[o] # 0 /\ id[o] \in held[p][o]
       /\ o \in overdrawn \/ content[p][o] = count[o]

(* OneObjectPerId: no two records have one server id, and a client that    *)
(* holds an id holds it for the object it was given for.                   *)
OneObjectPerId ==
  \A o, u \in Objects : o # u =>
    /\ id[o] = id[u] => id[o] = 0
    /\ \A p, q \in Players : held[p][o] \cap held[q][u] = {} /\ id[u] \notin held[p][o]
=============================================================================
