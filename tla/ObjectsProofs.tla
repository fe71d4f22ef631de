--------------------------- MODULE ObjectsProofs ----------------------------
(* The server ids of objects, and what those who stand by them see, for    *)
(* any players, objects, cells and bounds.                                 *)
EXTENDS Objects, FiniteSetTheorems, SequenceTheorems, TLAPS

(* What requests and answers say of objects. *)
Contents == UNION {[D -> Nat] : D \in SUBSET Objects}
Answers == UNION {[D -> Entry] : D \in SUBSET Objects}

Changes == [type : {"Change"}, id : Ids, delta : {-1, 1}]
Requests ==
  [type : {"Shift", "Enter"}, cell : Places] \cup [type : {"Assign"}, has : Contents] \cup Changes
Notices == [type : {"Assigned"}, as : Answers] \cup Changes

Queues == up \in [Players -> Seq(Requests)] /\ down \in [Players -> Seq(Notices)]

(* TypeOK but for the queues. *)
Records ==
  /\ seated \subseteq Players
  /\ cell \in [Players -> Places \cup {Nowhere}]
  /\ id \in [Objects -> Ids \cup {0}] /\ count \in [Objects -> Int] /\ lastId \in Ids \cup {0}
  /\ online \subseteq Players /\ pos \in [Players -> Places]
  /\ held \in [Players -> [Objects -> SUBSET Ids]]
  /\ content \in [Players -> [Objects -> Nat]]
  /\ trips \in 0..MaxTrips /\ changes \in 0..MaxChanges /\ joins \in 0..MaxJoins
  /\ watched \subseteq Players \X Objects /\ unheard \subseteq Players \X Objects
  /\ overdrawn \subseteq Objects

Typed == Records /\ Queues

(* Answer m gives object o the id i. *)
Gives(m, o, i) == m.type = "Assigned" /\ o \in DOMAIN m.as /\ m.as[o].id = i

(* Object o has id i in a record, with a client, or in an answer under way. *)
Bears(ids, hs, d, o, i) ==
  \/ ids[o] = i
  \/ \E p \in Players : i \in hs[p][o]
  \/ \E p \in Players : \E k \in DOMAIN d[p] : Gives(d[p][k], o, i)

(* An id was given by the server, and to one object. *)
OwnIds ==
  /\ \A o \in Objects, i \in Ids : Bears(id, held, down, o, i) => i <= lastId
  /\ \A o, u \in Objects, i \in Ids :
       Bears(id, held, down, o, i) /\ Bears(id, held, down, u, i) => o = u

IdsInv == Typed /\ OwnIds

-----------------------------------------------------------------------------
(* Messages.                                                               *)

LEMMA ContentsAre ==
  /\ \A D \in SUBSET Objects : [D -> Nat] \subseteq Contents
  /\ \A f \in Contents : DOMAIN f \subseteq Objects /\ f \in [DOMAIN f -> Nat]
  BY DEF Contents

LEMMA AnswersAre ==
  /\ \A D \in SUBSET Objects : [D -> Entry] \subseteq Answers
  /\ \A f \in Answers : DOMAIN f \subseteq Objects /\ f \in [DOMAIN f -> Entry]
  BY DEF Answers

LEMMA MessageTypes ==
  /\ \A x \in Places : Shift(x) \in Requests /\ Enter(x) \in Requests
  /\ \A f \in Contents : Assign(f) \in Requests
  /\ \A f \in Answers : Assigned(f) \in Notices
  /\ \A i \in Ids, d \in {-1, 1} : Change(i, d) \in Requests /\ Change(i, d) \in Notices
  /\ \A m \in Requests : m.type = "Assign" => m.has \in Contents
  /\ \A m \in Notices : IF m.type = "Assigned" THEN m.as \in Answers
                                               ELSE m.id \in Ids /\ m.delta \in {-1, 1}
  BY DEF Requests, Notices, Changes, Shift, Enter, Assign, Assigned, Change

(* What is in a queue is the new message or was there, at the same place. *)
LEMMA Appended ==
  ASSUME NEW s \in Seq(Notices), NEW m \in Notices, NEW k \in DOMAIN Append(s, m)
  PROVE  \/ k \in DOMAIN s /\ Append(s, m)[k] = s[k]
         \/ Append(s, m)[k] = m
  <1>1. Len(s) \in Nat /\ DOMAIN s = 1..Len(s) /\ k \in 1..Len(s) + 1
    BY AppendProperties, LenProperties
  <1>2. CASE k \in 1..Len(s)
    BY <1>1, <1>2, AppendProperties
  <1>3. CASE k = Len(s) + 1
    BY <1>1, <1>3, AppendProperties
  <1> QED BY <1>1, <1>2, <1>3

LEMMA SendTypes ==
  ASSUME Queues, NEW p \in Players, NEW ms \in Seq(Requests), Send(p, ms)
  PROVE  up' \in [Players -> Seq(Requests)]
  BY DEF Queues, Send

LEMMA HeardTypes ==
  ASSUME Queues, NEW p \in Players, up[p] # <<>>, Heard(p)
  PROVE  up' \in [Players -> Seq(Requests)] /\ Head(up[p]) \in Requests
  BY DEF Queues, Heard

LEMMA VisitTypes ==
  ASSUME Typed, NEW p \in Players, NEW x \in Places, NEW visit \in Visits(p, x)
  PROVE  visit \in Seq(Requests) /\ Shifts(x) \o visit \in Seq(Requests)
  <1> DEFINE f == [o \in ObjectsIn(x) |-> content[p][o]]
  <1>1. f \in Contents
    <2>1. ObjectsIn(x) \in SUBSET Objects
      BY DEF ObjectsIn
    <2>2. f \in [ObjectsIn(x) -> Nat]
      BY <2>1 DEF Typed, Records
    <2> QED BY <2>1, <2>2, ContentsAre
  <1> HIDE DEF f
  <1>2. Enter(x) \in Requests /\ Assign(f) \in Requests /\ Shift(x) \in Requests
    BY <1>1, MessageTypes
  <1>3. visit = <<Enter(x), Assign(f)>> \/ visit = <<Assign(f), Enter(x)>>
    BY DEF Visits, f
  <1>4. visit \in Seq(Requests)
    <2>1. ASSUME NEW a \in Requests, NEW b \in Requests PROVE <<a, b>> \in Seq(Requests)
      OBVIOUS
    <2> QED BY <1>2, <1>3, <2>1
  <1>5. Shifts(x) \in Seq(Requests)
    BY <1>2 DEF Shifts
  <1> QED BY <1>4, <1>5

-----------------------------------------------------------------------------
(* Steps that give no ids.                                                 *)

LEMMA Narrower ==
  ASSUME OwnIds, lastId' = lastId,
         \A o \in Objects, i \in Ids : Bears(id', held', down', o, i) => Bears(id, held, down, o, i)
  PROVE  OwnIds'
  BY DEF OwnIds

LEMMA SameIds ==
  ASSUME OwnIds, UNCHANGED <<id, held, down, lastId>>
  PROVE  OwnIds'
  BY DEF OwnIds

LEMMA JoinKeeps ==
  ASSUME IdsInv, NEW p \in Players, Join(p)
  PROVE  IdsInv'
  <1>1. pos[p] \in Places /\ UNCHANGED <<id, held, down, lastId>>
    BY DEF IdsInv, Typed, Records, Join
  <1>2. up' \in [Players -> Seq(Requests)]
    <2>1. PICK visit \in Visits(p, pos[p]) : Send(p, Shifts(pos[p]) \o visit)
      BY DEF Join
    <2> QED BY <1>1, <2>1, VisitTypes, SendTypes DEF IdsInv, Typed
  <1>3. watched' \subseteq Players \X Objects
    BY DEF Join, Registering, ObjectsIn, IdsInv, Typed, Records
  <1>4. joins' \in 0..MaxJoins
    BY ObjectsAssumption DEF Join, IdsInv, Typed, Records
  <1>5. Records'
    BY <1>3, <1>4 DEF Join, IdsInv, Typed, Records
  <1> QED BY <1>1, <1>2, <1>5, SameIds DEF IdsInv, Typed, Queues

LEMMA GoKeeps ==
  ASSUME IdsInv, NEW p \in Players, NEW x \in Places, Go(p, x)
  PROVE  IdsInv'
  <1>1. UNCHANGED <<id, held, down, lastId>>
    BY DEF Go, serverVars
  <1>2. up' \in [Players -> Seq(Requests)]
    <2>1. PICK visit \in Visits(p, x) : Send(p, Shifts(x) \o visit) \/ Send(p, visit)
      BY DEF Go
    <2> QED BY <2>1, VisitTypes, SendTypes DEF IdsInv, Typed
  <1>3. watched' \subseteq Players \X Objects
    BY DEF Go, Registering, ObjectsIn, IdsInv, Typed, Records
  <1>4. trips' \in 0..MaxTrips
    BY ObjectsAssumption DEF Go, IdsInv, Typed, Records
  <1>5. pos' \in [Players -> Places]
    BY DEF Go, IdsInv, Typed, Records
  <1>6. Records'
    BY <1>3, <1>4, <1>5 DEF Go, serverVars, IdsInv, Typed, Records
  <1> QED BY <1>1, <1>2, <1>6, SameIds DEF IdsInv, Typed, Queues

LEMMA UseKeeps ==
  ASSUME IdsInv, NEW p \in Players, NEW o \in Objects, NEW d \in {-1, 1}, Use(p, o, d)
  PROVE  IdsInv'
  <1>1. UNCHANGED <<id, held, down, lastId>>
    BY DEF Use, serverVars
  <1>2. up' \in [Players -> Seq(Requests)]
    <2>1. CASE held[p][o] = {}
      BY <2>1 DEF Use, IdsInv, Typed, Queues
    <2>2. CASE held[p][o] # {}
      <3>1. PICK i \in held[p][o] : Send(p, <<Change(i, d)>>)
        BY <2>2 DEF Use
      <3>2. i \in Ids
        BY DEF IdsInv, Typed, Records
      <3>3. <<Change(i, d)>> \in Seq(Requests)
        BY <3>2, MessageTypes
      <3> QED BY <3>1, <3>3, SendTypes DEF IdsInv, Typed
    <2> QED BY <2>1, <2>2
  <1>3. content' \in [Players -> [Objects -> Nat]]
    <2>1. content[p] \in [Objects -> Nat] /\ content[p][o] + d \in Nat
      BY DEF Use, IdsInv, Typed, Records
    <2> QED BY <2>1 DEF Use, IdsInv, Typed, Records
  <1>4. changes' \in 0..MaxChanges
    BY ObjectsAssumption DEF Use, IdsInv, Typed, Records
  <1>5. Records'
    BY <1>3, <1>4 DEF Use, serverVars, IdsInv, Typed, Records
  <1> QED BY <1>1, <1>2, <1>5, SameIds DEF IdsInv, Typed, Queues

(* A notice that is read takes its ids from the queue to the client. *)
LEMMA ReceiveKeeps ==
  ASSUME IdsInv, NEW p \in Players, Receive(p)
  PROVE  IdsInv'
  <1> DEFINE m == Head(down[p])
  <1>1. down[p] \in Seq(Notices) /\ down[p] # <<>> /\ m \in Notices
    BY DEF Receive, IdsInv, Typed, Queues
  <1>2. /\ down' = [down EXCEPT ![p] = Tail(@)] /\ down' \in [Players -> Seq(Notices)]
        /\ m = down[p][1] /\ 1 \in DOMAIN down[p]
        /\ \A k \in DOMAIN Tail(down[p]) : /\ k + 1 \in DOMAIN down[p]
                                          /\ Tail(down[p])[k] = down[p][k + 1]
    BY <1>1 DEF Receive, IdsInv, Typed, Queues
  <1> HIDE DEF m
  <1>3. /\ UNCHANGED <<id, lastId>>
        /\ content' \in [Players -> [Objects -> Nat]]
        /\ held' \in [Players -> [Objects -> SUBSET Ids]]
        /\ \A q \in Players, o \in Objects : \A i \in held'[q][o] :
             i \in held[q][o] \/ (q = p /\ Gives(m, o, i))
    <2>0. \A n \in Int : InGame(n) \in Nat
      <3> SUFFICES ASSUME NEW n \in Int PROVE InGame(n) \in Nat
        OBVIOUS
      <3>1. \E x \in {0, n} : \A y \in {0, n} : x >= y
        <4>1. CASE n >= 0
          BY <4>1
        <4>2. CASE ~(n >= 0)
          BY <4>2
        <4> QED BY <4>1, <4>2
      <3>2. Max({0, n}) \in {0, n} /\ Max({0, n}) >= 0
        BY <3>1 DEF Max
      <3> QED BY <3>2 DEF InGame
    <2>1. CASE m.type = "Assigned"
      <3>1. m.as \in Answers /\ OnAssignObjectsResponse(p, m.as)
        BY <1>1, <2>1, MessageTypes DEF Receive, m
      <3>2. \A o \in DOMAIN m.as : m.as[o].id \in Ids /\ m.as[o].count \in Int
        BY <3>1, AnswersAre DEF Entry
      <3>3. held' \in [Players -> [Objects -> SUBSET Ids]]
        BY <3>1, <3>2 DEF OnAssignObjectsResponse, IdsInv, Typed, Records
      <3>4. content' \in [Players -> [Objects -> Nat]]
        BY <2>0, <3>1, <3>2 DEF OnAssignObjectsResponse, IdsInv, Typed, Records
      <3>5. \A q \in Players, o \in Objects : \A i \in held'[q][o] :
              i \in held[q][o] \/ (q = p /\ Gives(m, o, i))
        BY <2>1, <3>1 DEF OnAssignObjectsResponse, Gives, IdsInv, Typed, Records
      <3> QED BY <3>3, <3>4, <3>5 DEF Receive, serverVars
    <2>2. CASE m.type # "Assigned"
      <3>1. m.delta \in {-1, 1} /\ OnNotifyInventoryChanges(p, m.id, m.delta)
        BY <1>1, <2>2, MessageTypes DEF Receive, m
      <3>2. content' \in [Players -> [Objects -> Nat]]
        BY <2>0, <3>1 DEF OnNotifyInventoryChanges, IdsInv, Typed, Records
      <3>3. UNCHANGED held
        BY <3>1 DEF OnNotifyInventoryChanges
      <3> QED BY <3>2, <3>3 DEF Receive, serverVars, IdsInv, Typed, Records
    <2> QED BY <2>1, <2>2
  <1>4. Records'
    BY <1>3 DEF Receive, serverVars, bounds, IdsInv, Typed, Records
  <1>5. Queues'
    BY <1>2 DEF Receive, IdsInv, Typed, Queues
  <1>6. ASSUME NEW o \in Objects, NEW i \in Ids, Bears(id', held', down', o, i)
        PROVE  Bears(id, held, down, o, i)
    <2>1. CASE id'[o] = i
      BY <1>3, <2>1 DEF Bears
    <2>2. CASE \E q \in Players : i \in held'[q][o]
      BY <1>2, <1>3, <2>2 DEF Bears
    <2>3. CASE \E q \in Players : \E k \in DOMAIN down'[q] : Gives(down'[q][k], o, i)
      <3>1. PICK q \in Players : \E k \in DOMAIN down'[q] : Gives(down'[q][k], o, i)
        BY <2>3
      <3>2. down'[q] = IF q = p THEN Tail(down[p]) ELSE down[q]
        BY <1>2 DEF IdsInv, Typed, Queues
      <3>3. \E k \in DOMAIN down[q] : Gives(down[q][k], o, i)
        BY <1>2, <3>1, <3>2
      <3> QED BY <3>3 DEF Bears
    <2> QED BY <1>6, <2>1, <2>2, <2>3 DEF Bears
  <1> QED BY <1>3, <1>4, <1>5, <1>6, Narrower DEF IdsInv, Typed

LEMMA LeaveKeeps ==
  ASSUME IdsInv, NEW p \in Players, Leave(p)
  PROVE  IdsInv'
  <1>1. /\ UNCHANGED <<id, held, lastId, up>> /\ down' = [down EXCEPT ![p] = <<>>]
        /\ down' \in [Players -> Seq(Notices)]
    BY DEF Leave, serverVars, IdsInv, Typed, Queues
  <1>2. Records'
    BY DEF Leave, serverVars, bounds, history, IdsInv, Typed, Records
  <1>3. \A o \in Objects, i \in Ids :
          Bears(id', held', down', o, i) => Bears(id, held, down, o, i)
    BY <1>1 DEF Bears, IdsInv, Typed, Queues
  <1> QED BY <1>1, <1>2, <1>3, Narrower DEF IdsInv, Typed, Queues

-----------------------------------------------------------------------------
(* The server's handlers.                                                  *)

(* Records that go leave no ids behind with the server. *)
LEMMA MoveToTypes ==
  ASSUME Typed, NEW p \in Players, NEW x \in Places \cup {Nowhere}, MoveTo(p, x)
  PROVE  /\ cell' \in [Players -> Places \cup {Nowhere}]
         /\ id' \in [Objects -> Ids \cup {0}] /\ count' \in [Objects -> Int]
         /\ unheard' \subseteq Players \X Objects /\ overdrawn' \subseteq Objects
         /\ \A o \in Objects, i \in Ids : id'[o] = i => id[o] = i
  <1> DEFINE gone == Emptied(cell[p])
  <1>1. gone \subseteq Objects
    BY DEF Emptied, ObjectsIn
  <1>2. /\ cell' = [cell EXCEPT ![p] = x]
        /\ id' = [o \in Objects |-> IF o \in gone THEN 0 ELSE id[o]]
        /\ count' = [o \in Objects |-> IF o \in gone THEN 0 ELSE count[o]]
        /\ unheard' = unheard \cup {m \in Players \X gone : id[m[2]] # 0 /\ cell'[m[1]] # Home[m[2]]}
        /\ overdrawn' = overdrawn \ gone
    BY DEF MoveTo
  <1> HIDE DEF gone
  <1>3. unheard' \subseteq Players \X Objects
    BY <1>1, <1>2 DEF Typed, Records
  <1> QED BY <1>2, <1>3 DEF Typed, Records, Ids

LEMMA GoneIds ==
  ASSUME IdsInv, UNCHANGED <<held, down, lastId>>,
         \A o \in Objects, i \in Ids : id'[o] = i => id[o] = i
  PROVE  OwnIds'
  BY Narrower DEF Bears, IdsInv

LEMMA ShiftKeeps ==
  ASSUME IdsInv, NEW p \in Players, NEW x \in Places, HandleGridCellShift(p, x)
  PROVE  IdsInv'
  <1>1. up' \in [Players -> Seq(Requests)] /\ UNCHANGED <<held, down, lastId>>
    BY HeardTypes DEF HandleGridCellShift, Hears, clientVars, IdsInv, Typed
  <1>2. /\ Records' /\ \A o \in Objects, i \in Ids : id'[o] = i => id[o] = i
    BY MoveToTypes DEF HandleGridCellShift, clientVars, bounds, IdsInv, Typed, Records
  <1> QED BY <1>1, <1>2, GoneIds DEF IdsInv, Typed, Queues

LEMMA InteriorKeeps ==
  ASSUME IdsInv, NEW p \in Players, NEW x \in Places, HandleInteriorCellEnter(p, x)
  PROVE  IdsInv'
  <1>1. up' \in [Players -> Seq(Requests)] /\ UNCHANGED <<held, down, lastId>>
    BY HeardTypes DEF HandleInteriorCellEnter, Hears, clientVars, IdsInv, Typed
  <1>2. /\ Records' /\ \A o \in Objects, i \in Ids : id'[o] = i => id[o] = i
    BY MoveToTypes DEF HandleInteriorCellEnter, clientVars, bounds, IdsInv, Typed, Records
  <1> QED BY <1>1, <1>2, GoneIds DEF IdsInv, Typed, Queues

LEMMA ExteriorKeeps ==
  ASSUME IdsInv, NEW p \in Players, NEW x \in Places, HandleExteriorCellEnter(p, x)
  PROVE  IdsInv'
  <1>1. up' \in [Players -> Seq(Requests)] /\ UNCHANGED <<id, held, down, lastId>>
    BY HeardTypes DEF HandleExteriorCellEnter, Hears, clientVars, IdsInv, Typed
  <1>2. Records'
    BY DEF HandleExteriorCellEnter, clientVars, bounds, history, IdsInv, Typed, Records
  <1> QED BY <1>1, <1>2, SameIds DEF IdsInv, Typed, Queues

LEMMA DisconnectionKeeps ==
  ASSUME IdsInv, NEW p \in Players, OnDisconnection(p)
  PROVE  IdsInv'
  <1>1. up' \in [Players -> Seq(Requests)] /\ UNCHANGED <<held, down, lastId>>
    BY DEF OnDisconnection, clientVars, IdsInv, Typed, Queues
  <1>2. /\ Records' /\ \A o \in Objects, i \in Ids : id'[o] = i => id[o] = i
    BY MoveToTypes DEF OnDisconnection, clientVars, bounds, IdsInv, Typed, Records
  <1> QED BY <1>1, <1>2, GoneIds DEF IdsInv, Typed, Queues

(* A change passed on has an id, but gives none. *)
LEMMA ChangesKeeps ==
  ASSUME IdsInv, NEW p \in Players, NEW i \in Ids, NEW d \in {-1, 1}, OnInventoryChanges(p, i, d)
  PROVE  IdsInv'
  <1>1. up' \in [Players -> Seq(Requests)] /\ UNCHANGED <<id, held, lastId>>
    BY HeardTypes DEF OnInventoryChanges, Hears, clientVars, IdsInv, Typed
  <1>2. /\ count' \in [Objects -> Int] /\ unheard' \subseteq Players \X Objects
        /\ overdrawn' \subseteq Objects /\ down' \in [Players -> Seq(Notices)]
        /\ \A q \in Players : \/ down'[q] = down[q]
                              \/ down'[q] = Append(down[q], Change(i, d))
    <2>1. CASE UNCHANGED <<count, down, unheard, overdrawn>>
      BY <2>1 DEF IdsInv, Typed, Records, Queues
    <2>2. CASE ~UNCHANGED <<count, down, unheard, overdrawn>>
      <3>1. PICK o \in Objects :
              /\ count' = [count EXCEPT ![o] = AfterChange(@, d)]
              /\ down' = [q \in Players |-> IF q \in Audience(p, o) THEN Append(down[q], Change(i, d))
                                                                    ELSE down[q]]
              /\ unheard' = unheard \cup ({q \in Players \ {p} : ~InRange(Home[o], cell[q])} \X {o})
              /\ overdrawn' = IF count[o] + d < 0 THEN overdrawn \cup {o} ELSE overdrawn
        BY <2>2 DEF OnInventoryChanges
      <3>2. count' \in [Objects -> Int]
        BY <3>1 DEF AfterChange, IdsInv, Typed, Records
      <3>3. Change(i, d) \in Notices
        BY MessageTypes
      <3>4. \A q \in Players : \/ down'[q] = down[q]
                               \/ down'[q] = Append(down[q], Change(i, d))
        BY <3>1
      <3>5. down' \in [Players -> Seq(Notices)]
        BY <3>1, <3>3, AppendProperties DEF IdsInv, Typed, Queues
      <3>6. unheard' \subseteq Players \X Objects
        BY <3>1 DEF IdsInv, Typed, Records
      <3> QED BY <3>1, <3>2, <3>4, <3>5, <3>6 DEF IdsInv, Typed, Records
    <2> QED BY <2>1, <2>2
  <1>3. Records'
    BY <1>1, <1>2 DEF OnInventoryChanges, clientVars, bounds, IdsInv, Typed, Records
  <1>4. ASSUME NEW o \in Objects, NEW j \in Ids, Bears(id', held', down', o, j)
        PROVE  Bears(id, held, down, o, j)
    <2>1. CASE \E q \in Players : \E k \in DOMAIN down'[q] : Gives(down'[q][k], o, j)
      <3>1. PICK q \in Players : \E k \in DOMAIN down'[q] : Gives(down'[q][k], o, j)
        BY <2>1
      <3>2. PICK k \in DOMAIN down'[q] : Gives(down'[q][k], o, j)
        BY <3>1
      <3>3. ~Gives(Change(i, d), o, j)
        BY DEF Gives, Change
      <3>4. down[q] \in Seq(Notices)
        BY DEF IdsInv, Typed, Queues
      <3>5. k \in DOMAIN down[q] /\ down'[q][k] = down[q][k]
        <4>1. CASE down'[q] = down[q]
          BY <3>2, <4>1
        <4>2. CASE down'[q] = Append(down[q], Change(i, d))
          <5>1. Change(i, d) \in Notices
            BY MessageTypes
          <5>2. down'[q][k] # Change(i, d)
            BY <3>2, <3>3
          <5> QED BY <3>2, <3>4, <4>2, <5>1, <5>2, Appended
        <4> QED BY <1>2, <4>1, <4>2
      <3> QED BY <3>2, <3>5 DEF Bears
    <2>2. CASE id'[o] = j \/ \E q \in Players : j \in held'[q][o]
      BY <1>1, <2>2 DEF Bears
    <2> QED BY <1>4, <2>1, <2>2 DEF Bears
  <1> QED BY <1>1, <1>2, <1>3, <1>4, Narrower DEF IdsInv, Typed, Queues

(* The ids of new records are the next ones, and no two are the same. *)
LEMMA FreshOnes ==
  ASSUME NEW S, IsFiniteSet(S), lastId \in Nat
  PROVE  LET n == Cardinality(S)
         IN  /\ n \in Nat
             /\ \A o \in S : FreshIds(S)[o] \in lastId + 1 .. lastId + n
             /\ \A o, u \in S : FreshIds(S)[o] = FreshIds(S)[u] => o = u
  <1> DEFINE n == Cardinality(S)
             order == SetToSeq(S)
             at(o) == CHOOSE k \in DOMAIN order : order[k] = o
  <1>1. n \in Nat /\ ExistsBijection(1..n, S)
    BY FS_CardinalityType
  <1>2. PICK f \in [1..n -> S] : IsInjective(f)
    <2>1. PICK g : g \in Bijection(1..n, S)
      BY <1>1 DEF ExistsBijection
    <2>2. g \in [1..n -> S] /\ IsInjective(g)
      BY <2>1 DEF Bijection, Injection
    <2> QED BY <2>2
  <1>3. order \in [1..n -> S] /\ IsInjective(order)
    BY <1>2 DEF SetToSeq
  <1>4. order \in Surjection(1..n, S)
    <2>1. Cardinality(1..n) = n
      BY <1>1, FS_Interval
    <2>2. order \in Injection(1..n, S)
      BY <1>3 DEF Injection, IsInjective
    <2> QED BY <2>1, <2>2, FS_Injection
  <1> HIDE DEF n, order
  <1>5. ASSUME NEW o \in S PROVE at(o) \in 1..n /\ order[at(o)] = o
    <2>1. \E k \in DOMAIN order : order[k] = o
      BY <1>3, <1>4 DEF Surjection
    <2> QED BY <1>3, <2>1
  <1>6. \A o \in S : FreshIds(S)[o] = lastId + at(o)
    BY DEF FreshIds, order
  <1> HIDE DEF at
  <1>7. \A o \in S : FreshIds(S)[o] \in lastId + 1 .. lastId + n
    BY <1>1, <1>5, <1>6
  <1>8. ASSUME NEW o \in S, NEW u \in S, FreshIds(S)[o] = FreshIds(S)[u] PROVE o = u
    <2>1. at(o) = at(u)
      BY <1>1, <1>5, <1>6, <1>8
    <2> QED BY <1>5, <2>1
  <1> QED BY <1>1, <1>7, <1>8 DEF n

(* A record keeps its id or is new and gets a fresh one; the answer, and   *)
(* nothing else, carries ids, and those of the records.                    *)
LEMMA AssignKeeps ==
  ASSUME IdsInv, NEW p \in Players, OnAssignObjectsRequest(p)
  PROVE  IdsInv'
  <1> DEFINE has == Head(up[p]).has
             new == {o \in DOMAIN has : id[o] = 0}
             as == [o \in DOMAIN has |-> [id |-> id'[o], first |-> o \in new, count |-> count'[o]]]
             n == Cardinality(new)
  <1>1. up' \in [Players -> Seq(Requests)] /\ Head(up[p]) \in Requests
    BY HeardTypes DEF OnAssignObjectsRequest, IdsInv, Typed
  <1>2. has \in Contents /\ DOMAIN has \subseteq Objects /\ \A o \in DOMAIN has : has[o] \in Nat
    <2>1. has \in Contents
      BY <1>1, MessageTypes DEF OnAssignObjectsRequest
    <2> HIDE DEF has
    <2>2. DOMAIN has \subseteq Objects /\ has \in [DOMAIN has -> Nat]
      BY <2>1, ContentsAre
    <2> QED BY <2>1, <2>2
  <1>3. /\ lastId + n <= MaxIds /\ lastId' = lastId + n
        /\ id' = [o \in Objects |-> IF o \in new THEN FreshIds(new)[o] ELSE id[o]]
        /\ count' = [o \in Objects |-> IF o \in new THEN has[o] ELSE count[o]]
        /\ down' = IF has # <<>> /\ p \in online THEN [down EXCEPT ![p] = Append(@, Assigned(as))]
                                                  ELSE down
        /\ unheard' = unheard \ ({p} \X DOMAIN has)
        /\ UNCHANGED <<seated, cell, online, pos, held, content, trips, changes, joins, watched,
                       overdrawn>>
    BY DEF OnAssignObjectsRequest, clientVars, bounds
  <1>4. lastId \in Nat /\ lastId <= MaxIds /\ MaxIds \in Nat
    BY ObjectsAssumption DEF IdsInv, Typed, Records, Ids
  <1> HIDE DEF has
  <1>5. /\ n \in Nat
        /\ \A o \in new : FreshIds(new)[o] \in lastId + 1 .. lastId + n
        /\ \A o, u \in new : FreshIds(new)[o] = FreshIds(new)[u] => o = u
    <2>1. IsFiniteSet(new)
      BY <1>2, FS_Subset, ObjectsAssumption
    <2> QED BY <1>4, <2>1, FreshOnes
  <1> HIDE DEF n
  <1>6. /\ lastId' \in Ids \cup {0}
        /\ id' \in [Objects -> Ids \cup {0}]
        /\ \A o \in DOMAIN has : id'[o] \in Ids
    <2>1. \A o \in new : FreshIds(new)[o] \in Ids
      BY <1>3, <1>4, <1>5 DEF Ids
    <2>2. \A o \in Objects : id[o] \in Ids \cup {0}
      BY DEF IdsInv, Typed, Records
    <2>3. lastId' \in Ids \cup {0}
      BY <1>3, <1>4, <1>5 DEF Ids
    <2> HIDE DEF new
    <2>4. id' \in [Objects -> Ids \cup {0}]
      BY <1>3, <2>1, <2>2
    <2>5. \A o \in DOMAIN has : id'[o] \in Ids
      BY <1>2, <1>3, <2>1, <2>2 DEF new
    <2> QED BY <2>3, <2>4, <2>5
  <1>7. count' \in [Objects -> Int]
    BY <1>2, <1>3 DEF IdsInv, Typed, Records
  <1>8. Assigned(as) \in Notices
    <2>1. as \in [DOMAIN has -> Entry]
      BY <1>2, <1>6, <1>7 DEF Entry
    <2> QED BY <1>2, <2>1, AnswersAre, MessageTypes
  <1>9. Records'
    BY <1>3, <1>6, <1>7 DEF IdsInv, Typed, Records
  <1>10. down' \in [Players -> Seq(Notices)]
    <2> HIDE DEF as
    <2> QED BY <1>3, <1>8, AppendProperties DEF IdsInv, Typed, Queues
  <1>11. \A o \in Objects, i \in Ids : Gives(Assigned(as), o, i) => id'[o] = i
    BY DEF Gives, Assigned
  <1>12. ASSUME NEW o \in Objects, NEW i \in Ids, Bears(id', held', down', o, i)
         PROVE  Bears(id, held, down, o, i) \/ (o \in new /\ i = FreshIds(new)[o])
    <2> HIDE DEF as
    <2>1. CASE id'[o] = i
      BY <1>3, <2>1 DEF Bears
    <2>2. CASE \E q \in Players : i \in held'[q][o]
      BY <1>3, <2>2 DEF Bears
    <2>3. CASE \E q \in Players : \E k \in DOMAIN down'[q] : Gives(down'[q][k], o, i)
      <3>1. PICK q \in Players : \E k \in DOMAIN down'[q] : Gives(down'[q][k], o, i)
        BY <2>3
      <3>2. PICK k \in DOMAIN down'[q] : Gives(down'[q][k], o, i)
        BY <3>1
      <3>3. down[q] \in Seq(Notices)
        BY DEF IdsInv, Typed, Queues
      <3>4. down'[q] = down[q] \/ down'[q] = Append(down[q], Assigned(as))
        BY <1>3 DEF IdsInv, Typed, Queues
      <3>5. \/ k \in DOMAIN down[q] /\ down'[q][k] = down[q][k]
            \/ down'[q][k] = Assigned(as)
        BY <1>8, <3>2, <3>3, <3>4, Appended
      <3>6. CASE k \in DOMAIN down[q] /\ down'[q][k] = down[q][k]
        BY <3>2, <3>6 DEF Bears
      <3>7. CASE down'[q][k] = Assigned(as)
        <4>1. id'[o] = i
          BY <1>11, <3>2, <3>7
        <4> QED BY <2>1, <4>1
      <3> QED BY <3>5, <3>6, <3>7
    <2> QED BY <1>12, <2>1, <2>2, <2>3 DEF Bears
  <1>13. OwnIds'
    <2>1. \A o \in Objects, i \in Ids : Bears(id, held, down, o, i) => i <= lastId
      BY DEF IdsInv, OwnIds
    <2>2. \A o, u \in Objects, i \in Ids :
            Bears(id, held, down, o, i) /\ Bears(id, held, down, u, i) => o = u
      BY DEF IdsInv, OwnIds
    <2>3. \A o \in Objects, i \in Ids : Bears(id', held', down', o, i) => i <= lastId'
      <3> HIDE DEF new
      <3> SUFFICES ASSUME NEW o \in Objects, NEW i \in Ids, Bears(id', held', down', o, i)
                   PROVE  i <= lastId'
        OBVIOUS
      <3>1. i <= lastId \/ i \in lastId + 1 .. lastId + n
        BY <1>5, <1>12, <2>1
      <3> QED BY <1>3, <1>4, <1>5, <3>1 DEF Ids
    <2>4. ASSUME NEW o \in Objects, NEW u \in Objects, NEW i \in Ids,
                 Bears(id', held', down', o, i), Bears(id', held', down', u, i)
          PROVE  o = u
      <3> HIDE DEF new
      <3>1. \/ Bears(id, held, down, o, i) /\ Bears(id, held, down, u, i)
            \/ o \in new /\ u \in new /\ FreshIds(new)[o] = FreshIds(new)[u]
            \/ i <= lastId /\ i \in lastId + 1 .. lastId + n
        BY <1>5, <1>12, <2>1, <2>4
      <3>2. ~(i <= lastId /\ i \in lastId + 1 .. lastId + n)
        BY <1>4, <1>5 DEF Ids
      <3> QED BY <1>5, <2>2, <3>1, <3>2
    <2> QED BY <2>3, <2>4 DEF OwnIds
  <1> QED BY <1>1, <1>9, <1>10, <1>13 DEF IdsInv, Typed, Queues

-----------------------------------------------------------------------------

LEMMA InitIds == Init => IdsInv
  <1> SUFFICES ASSUME Init PROVE IdsInv
    OBVIOUS
  <1>1. Records
    BY ObjectsAssumption DEF Init, Records, Ids
  <1>2. Queues
    BY DEF Init, Queues
  <1>3. \A o \in Objects, i \in Ids : ~Bears(id, held, down, o, i)
    BY DEF Init, Bears, Ids
  <1> QED BY <1>1, <1>2, <1>3 DEF IdsInv, Typed, OwnIds

LEMMA NextIds == IdsInv /\ [Next]_vars => IdsInv'
  <1> SUFFICES ASSUME IdsInv, [Next]_vars PROVE IdsInv'
    OBVIOUS
  <1>1. CASE UNCHANGED vars
    BY <1>1 DEF vars, serverVars, clientVars, bounds, history, IdsInv, Typed, Records, Queues,
                OwnIds
  <1>2. CASE Next
    <2>1. PICK p \in Players :
            \/ Join(p) \/ Receive(p) \/ Leave(p)
            \/ \E x \in Places : Go(p, x)
            \/ \E o \in Objects, d \in {-1, 1} : Use(p, o, d)
            \/ Handle(p) \/ OnDisconnection(p)
      BY <1>2 DEF Next
    <2>2. CASE Handle(p)
      BY <2>2, ShiftKeeps, ExteriorKeeps, InteriorKeeps, AssignKeeps, ChangesKeeps DEF Handle
    <2>3. CASE ~Handle(p)
      BY <2>1, <2>3, JoinKeeps, ReceiveKeeps, LeaveKeeps, GoKeeps, UseKeeps, DisconnectionKeeps
    <2> QED BY <2>2, <2>3
  <1> QED BY <1>1, <1>2

(* The invariant, for any players, objects, cells and bounds. *)
THEOREM IdsInductive == Spec => []IdsInv
  BY InitIds, NextIds, PTL DEF Spec

(* Every state of the records, the clients and the queues has its type. *)
THEOREM ObjectTypes == Spec => []TypeOK
  <1>1. IdsInv => TypeOK
    <2> SUFFICES ASSUME Typed PROVE TypeOK
      BY DEF IdsInv
    <2>1. ASSUME NEW p \in Players, NEW i \in DOMAIN up[p] PROVE Request(up[p][i])
      <3>1. up[p][i] \in Requests
        BY DEF Typed, Queues
      <3>2. up[p][i].type = "Assign" =>
              DOMAIN up[p][i].has \subseteq Objects /\ up[p][i].has \in [DOMAIN up[p][i].has -> Nat]
        BY <3>1, MessageTypes, ContentsAre
      <3> QED BY <3>1, <3>2 DEF Request, Requests, Changes, IsChange
    <2>2. ASSUME NEW p \in Players, NEW i \in DOMAIN down[p] PROVE Notice(down[p][i])
      <3>1. down[p][i] \in Notices
        BY DEF Typed, Queues
      <3>2. down[p][i].type = "Assigned" =>
              DOMAIN down[p][i].as \subseteq Objects /\ down[p][i].as \in [DOMAIN down[p][i].as -> Entry]
        BY <3>1, MessageTypes, AnswersAre
      <3> QED BY <3>1, <3>2 DEF Notice, Notices, Changes, IsChange
    <2> QED BY <2>1, <2>2 DEF Typed, Records, TypeOK
  <1> QED BY <1>1, IdsInductive, PTL

(* No two records have one server id, and a client that holds an id, even  *)
(* of a record that is gone, holds it for the object it was given for:     *)
(* what it says of that id is never taken for another object.              *)
THEOREM IdsAreOwn == Spec => []OneObjectPerId
  <1>1. IdsInv => OneObjectPerId
    <2> SUFFICES ASSUME IdsInv, NEW o \in Objects, NEW u \in Objects, o # u
                 PROVE  /\ id[o] = id[u] => id[o] = 0
                        /\ \A p, q \in Players : /\ held[p][o] \cap held[q][u] = {}
                                                 /\ id[u] \notin held[p][o]
      BY DEF OneObjectPerId
    <2>1. /\ id[o] \in Ids \cup {0} /\ \A p \in Players : held[p][o] \subseteq Ids
      BY DEF IdsInv, Typed, Records
    <2>2. \A i \in Ids : ~(Bears(id, held, down, o, i) /\ Bears(id, held, down, u, i))
      BY DEF IdsInv, OwnIds
    <2> QED BY <2>1, <2>2 DEF Bears
  <1> QED BY <1>1, IdsInductive, PTL
-----------------------------------------------------------------------------
(* Who stands by an object: his request and the answer to it.              *)

(* A request asks for object o, and some request of a queue does. *)
Asks(m, o) == m.type = "Assign" /\ o \in DOMAIN m.has
AsksIn(ms, o) == \E k \in DOMAIN ms : Asks(ms[k], o)

(* The last request for o tells that there are n, and whatever was changed *)
(* under one of `ids`, the ids of o, was changed before.                   *)
AskedIn(ms, o, n, ids) ==
  \A k \in DOMAIN ms :
    /\ Asks(ms[k], o) /\ (\A l \in DOMAIN ms : l > k => ~Asks(ms[l], o)) => ms[k].has[o] = n
    /\ ms[k].type = "Change" /\ ms[k].id \in ids => \E l \in DOMAIN ms : l > k /\ Asks(ms[l], o)

Tells(m, o) == m.type = "Assigned" /\ o \in DOMAIN m.as

(* How many a client that had n sees after an answer. *)
Taken(m, o, n) == IF m.as[o].first THEN n ELSE InGame(m.as[o].count)

(* Message m, read by a client that has n in object o of id i, leaves v;   *)
(* `others` are ids of other objects.                                      *)
Reads(m, o, i, others, n, v) ==
  /\ ~Tells(m, o)
  /\ \/ m.type = "Change" /\ m.id = i /\ v = InGame(n + m.delta)
     \/ (m.type = "Change" => m.id \in others) /\ v = n

(* A client that has n in o and knows `ids` for it will know it as i, and  *)
(* see f[k] in it when it has read k messages: from the last answer on, or *)
(* all along.                                                              *)
SeesBy(ms, o, i, n, ids, others, j, f) ==
  /\ j \in 0..Len(ms) /\ f \in [0..Len(ms) -> Nat]
  /\ IF j = 0 THEN i \in ids /\ f[0] = n
              ELSE Tells(ms[j], o) /\ ms[j].as[o].id = i /\ f[j] = Taken(ms[j], o, n)
  /\ \A k \in DOMAIN ms : k > j => Reads(ms[k], o, i, others, f[k - 1], f[k])

SeesIn(ms, o, i, n, ids, others, v) ==
  \E j, f : SeesBy(ms, o, i, n, ids, others, j, f) /\ f[Len(ms)] = v

(* The part of a queue that is behind its first message. *)
LEMMA TailIs ==
  ASSUME NEW S, NEW ms \in Seq(S), ms # <<>>
  PROVE  /\ Tail(ms) \in Seq(S) /\ Head(ms) = ms[1] /\ ms[1] \in S
         /\ Len(ms) \in Nat \ {0} /\ Len(Tail(ms)) = Len(ms) - 1
         /\ DOMAIN ms = 1..Len(ms) /\ DOMAIN Tail(ms) = 1..Len(ms) - 1
         /\ \A k \in 1..Len(ms) - 1 : Tail(ms)[k] = ms[k + 1]
  OBVIOUS

LEMMA ConcatIs ==
  ASSUME NEW S, NEW ms \in Seq(S), NEW ns \in Seq(S)
  PROVE  /\ ms \o ns \in Seq(S) /\ Len(ms) \in Nat /\ Len(ns) \in Nat
         /\ DOMAIN ms = 1..Len(ms) /\ DOMAIN ns = 1..Len(ns)
         /\ DOMAIN (ms \o ns) = 1..Len(ms) + Len(ns)
         /\ \A k \in 1..Len(ms) : (ms \o ns)[k] = ms[k]
         /\ \A k \in 1..Len(ns) : (ms \o ns)[Len(ms) + k] = ns[k]
         /\ \A k \in 1..Len(ms) + Len(ns) : k <= Len(ms) \/ k - Len(ms) \in 1..Len(ns)
  <1>1. /\ ms \o ns \in Seq(S) /\ Len(ms \o ns) = Len(ms) + Len(ns)
        /\ \A k \in 1..Len(ms) + Len(ns) : (ms \o ns)[k] = IF k <= Len(ms) THEN ms[k] ELSE ns[k - Len(ms)]
    BY ConcatProperties
  <1>2. Len(ms) \in Nat /\ Len(ns) \in Nat /\ DOMAIN ms = 1..Len(ms) /\ DOMAIN ns = 1..Len(ns)
    BY LenProperties
  <1>3. DOMAIN (ms \o ns) = 1..Len(ms) + Len(ns)
    BY <1>1, LenProperties
  <1> QED BY <1>1, <1>2, <1>3

LEMMA AppendIs ==
  ASSUME NEW S, NEW ms \in Seq(S), NEW m \in S
  PROVE  /\ Append(ms, m) \in Seq(S) /\ Len(ms) \in Nat /\ Len(Append(ms, m)) = Len(ms) + 1
         /\ DOMAIN ms = 1..Len(ms) /\ DOMAIN Append(ms, m) = 1..Len(ms) + 1
         /\ \A k \in 1..Len(ms) : Append(ms, m)[k] = ms[k]
         /\ Append(ms, m)[Len(ms) + 1] = m
  <1>1. Append(ms, m) \in Seq(S) /\ Len(Append(ms, m)) = Len(ms) + 1
    BY AppendProperties
  <1>2. DOMAIN Append(ms, m) = 1..Len(ms) + 1
    BY <1>1, LenProperties
  <1>3. Len(ms) \in Nat /\ DOMAIN ms = 1..Len(ms)
    BY LenProperties
  <1> QED BY <1>1, <1>2, <1>3, AppendProperties

-----------------------------------------------------------------------------
(* Requests that are sent and handled.                                     *)

LEMMA AskedTail ==
  ASSUME NEW ms \in Seq(Requests), ms # <<>>, NEW o, NEW n, NEW ids, AskedIn(ms, o, n, ids)
  PROVE  AskedIn(Tail(ms), o, n, ids)
  <1> DEFINE t == Tail(ms)
  <1>1. /\ Len(ms) \in Nat \ {0} /\ DOMAIN ms = 1..Len(ms) /\ DOMAIN t = 1..Len(ms) - 1
        /\ \A k \in 1..Len(ms) - 1 : t[k] = ms[k + 1]
    BY TailIs
  <1> HIDE DEF t
  <1>2. ASSUME NEW k \in DOMAIN t, NEW l \in DOMAIN ms, l > k + 1
        PROVE  l - 1 \in DOMAIN t /\ l - 1 > k /\ t[l - 1] = ms[l]
    BY <1>1, <1>2
  <1>3. ASSUME NEW k \in DOMAIN t
        PROVE  /\ Asks(t[k], o) /\ (\A l \in DOMAIN t : l > k => ~Asks(t[l], o)) => t[k].has[o] = n
               /\ t[k].type = "Change" /\ t[k].id \in ids => \E l \in DOMAIN t : l > k /\ Asks(t[l], o)
    <2>1. k + 1 \in DOMAIN ms /\ t[k] = ms[k + 1]
      BY <1>1
    <2>2. /\ Asks(t[k], o) /\ (\A l \in DOMAIN ms : l > k + 1 => ~Asks(ms[l], o)) => t[k].has[o] = n
          /\ t[k].type = "Change" /\ t[k].id \in ids =>
               \E l \in DOMAIN ms : l > k + 1 /\ Asks(ms[l], o)
      BY <2>1 DEF AskedIn
    <2> QED BY <1>2, <2>2
  <1> QED BY <1>3 DEF AskedIn, t

(* What else is sent does not matter ... *)
LEMMA AskedMore ==
  ASSUME NEW ms \in Seq(Requests), NEW ns \in Seq(Requests), NEW o, NEW n, NEW ids,
         AskedIn(ms, o, n, ids), ~AsksIn(ns, o),
         \A k \in DOMAIN ns : ns[k].type = "Change" => ns[k].id \notin ids
  PROVE  AskedIn(ms \o ns, o, n, ids) /\ (AsksIn(ms \o ns, o) => AsksIn(ms, o))
  <1> DEFINE s == ms \o ns
  <1>1. /\ Len(ms) \in Nat /\ Len(ns) \in Nat
        /\ DOMAIN ms = 1..Len(ms) /\ DOMAIN ns = 1..Len(ns) /\ DOMAIN s = 1..Len(ms) + Len(ns)
        /\ \A k \in 1..Len(ms) : s[k] = ms[k]
        /\ \A k \in 1..Len(ns) : s[Len(ms) + k] = ns[k]
        /\ \A k \in 1..Len(ms) + Len(ns) : k <= Len(ms) \/ k - Len(ms) \in 1..Len(ns)
    BY ConcatIs
  <1> HIDE DEF s
  <1>2. ASSUME NEW k \in DOMAIN s
        PROVE  \/ k \in DOMAIN ms /\ s[k] = ms[k]
               \/ k - Len(ms) \in DOMAIN ns /\ s[k] = ns[k - Len(ms)]
    BY <1>1
  <1>3. ASSUME NEW k \in DOMAIN s
        PROVE  /\ Asks(s[k], o) /\ (\A l \in DOMAIN s : l > k => ~Asks(s[l], o)) => s[k].has[o] = n
               /\ s[k].type = "Change" /\ s[k].id \in ids => \E l \in DOMAIN s : l > k /\ Asks(s[l], o)
    <2>1. CASE k \in DOMAIN ms /\ s[k] = ms[k]
      <3>1. /\ Asks(s[k], o) /\ (\A l \in DOMAIN ms : l > k => ~Asks(ms[l], o)) => s[k].has[o] = n
            /\ s[k].type = "Change" /\ s[k].id \in ids => \E l \in DOMAIN ms : l > k /\ Asks(ms[l], o)
        BY <2>1 DEF AskedIn
      <3>2. \A l \in DOMAIN ms : l \in DOMAIN s /\ s[l] = ms[l]
        BY <1>1
      <3> QED BY <3>1, <3>2
    <2>2. CASE k - Len(ms) \in DOMAIN ns /\ s[k] = ns[k - Len(ms)]
      BY <2>2 DEF AsksIn
    <2> QED BY <1>2, <2>1, <2>2
  <1>4. AsksIn(s, o) => AsksIn(ms, o)
    BY <1>2 DEF AsksIn
  <1> QED BY <1>3, <1>4 DEF AskedIn, s

(* ... and who asks again is known to ask, and to have n. *)
LEMMA AskedAfresh ==
  ASSUME NEW ms \in Seq(Requests), NEW ns \in Seq(Requests), NEW o, NEW n, NEW ids, AsksIn(ns, o),
         \A k \in DOMAIN ns : ns[k].type # "Change" /\ (Asks(ns[k], o) => ns[k].has[o] = n)
  PROVE  AskedIn(ms \o ns, o, n, ids) /\ AsksIn(ms \o ns, o)
  <1> DEFINE s == ms \o ns
  <1>1. /\ Len(ms) \in Nat /\ Len(ns) \in Nat
        /\ DOMAIN ms = 1..Len(ms) /\ DOMAIN ns = 1..Len(ns) /\ DOMAIN s = 1..Len(ms) + Len(ns)
        /\ \A k \in 1..Len(ms) : s[k] = ms[k]
        /\ \A k \in 1..Len(ns) : s[Len(ms) + k] = ns[k]
        /\ \A k \in 1..Len(ms) + Len(ns) : k <= Len(ms) \/ k - Len(ms) \in 1..Len(ns)
    BY ConcatIs
  <1> HIDE DEF s
  <1>2. PICK a \in DOMAIN ns : Asks(ns[a], o)
    BY DEF AsksIn
  <1>3. Len(ms) + a \in DOMAIN s /\ Asks(s[Len(ms) + a], o)
    BY <1>1, <1>2
  <1>4. ASSUME NEW k \in DOMAIN s
        PROVE  /\ Asks(s[k], o) /\ (\A l \in DOMAIN s : l > k => ~Asks(s[l], o)) => s[k].has[o] = n
               /\ s[k].type = "Change" /\ s[k].id \in ids => \E l \in DOMAIN s : l > k /\ Asks(s[l], o)
    <2>1. CASE k <= Len(ms)
      <3>1. Len(ms) + a > k
        BY <1>1, <1>2, <2>1
      <3> QED BY <1>3, <3>1
    <2>2. CASE k - Len(ms) \in 1..Len(ns)
      <3>1. s[k] = ns[k - Len(ms)]
        BY <1>1, <2>2
      <3> QED BY <1>1, <2>2, <3>1
    <2> QED BY <1>1, <2>1, <2>2
  <1> QED BY <1>3, <1>4 DEF AskedIn, AsksIn, s
-----------------------------------------------------------------------------
(* Answers and changes that are sent and read.                             *)

LEMMA InGameIs == \A n \in Int : InGame(n) \in Nat /\ (n >= 0 => InGame(n) = n)
  <1> SUFFICES ASSUME NEW n \in Int PROVE InGame(n) \in Nat /\ (n >= 0 => InGame(n) = n)
    OBVIOUS
  <1>1. \E x \in {0, n} : \A y \in {0, n} : x >= y
    <2>1. CASE n >= 0
      BY <2>1
    <2>2. CASE ~(n >= 0)
      BY <2>2
    <2> QED BY <2>1, <2>2
  <1>2. Max({0, n}) \in {0, n} /\ \A y \in {0, n} : Max({0, n}) >= y
    BY <1>1 DEF Max
  <1> QED BY <1>2 DEF InGame

(* More ids make no difference. *)
LEMMA SeesOn ==
  ASSUME NEW ms, NEW o, NEW i, NEW n, NEW ids, NEW others, NEW v, SeesIn(ms, o, i, n, ids, others, v),
         NEW ids1, NEW others1, ids \subseteq ids1, others \subseteq others1
  PROVE  SeesIn(ms, o, i, n, ids1, others1, v)
  <1>1. PICK j, f : SeesBy(ms, o, i, n, ids, others, j, f) /\ f[Len(ms)] = v
    BY DEF SeesIn
  <1>2. SeesBy(ms, o, i, n, ids1, others1, j, f)
    BY <1>1 DEF SeesBy, Reads
  <1> QED BY <1>1, <1>2 DEF SeesIn

(* A message is read. What is in the object does not change before the     *)
(* last answer is read, and then as the messages say.                      *)
LEMMA SeesTail ==
  ASSUME NEW ms \in Seq(Notices), ms # <<>>, NEW o, NEW i, NEW n, NEW ids, NEW others, NEW v,
         SeesIn(ms, o, i, n, ids, others, v),
         NEW n1, NEW ids1, ids \subseteq ids1,
         Tells(Head(ms), o) => Head(ms).as[o].id \in ids1,
         (\A k \in DOMAIN Tail(ms) : ~Tells(Tail(ms)[k], o)) /\ Tells(Head(ms), o) =>
           n1 = Taken(Head(ms), o, n),
         (\E k \in DOMAIN Tail(ms) : Tells(Tail(ms)[k], o)) => n1 = n,
         i \in ids => \A w : Reads(Head(ms), o, i, others, n, w) => n1 = w
  PROVE  SeesIn(Tail(ms), o, i, n1, ids1, others, v)
  <1> DEFINE t == Tail(ms)
             m == Head(ms)
  <1>1. /\ Len(ms) \in Nat \ {0} /\ Len(t) = Len(ms) - 1 /\ m = ms[1]
        /\ DOMAIN ms = 1..Len(ms) /\ DOMAIN t = 1..Len(ms) - 1
        /\ \A k \in 1..Len(ms) - 1 : t[k] = ms[k + 1]
    BY TailIs
  <1>2. PICK j, f : SeesBy(ms, o, i, n, ids, others, j, f) /\ f[Len(ms)] = v
    BY DEF SeesIn
  <1>3. /\ j \in 0..Len(ms) /\ f \in [0..Len(ms) -> Nat]
        /\ j = 0 => i \in ids /\ f[0] = n
        /\ j # 0 => Tells(ms[j], o) /\ ms[j].as[o].id = i /\ f[j] = Taken(ms[j], o, n)
        /\ \A k \in DOMAIN ms : k > j => Reads(ms[k], o, i, others, f[k - 1], f[k])
    BY <1>2 DEF SeesBy
  <1>4. /\ Tells(m, o) => m.as[o].id \in ids1
        /\ (\A k \in DOMAIN t : ~Tells(t[k], o)) /\ Tells(m, o) => n1 = Taken(m, o, n)
        /\ (\E k \in DOMAIN t : Tells(t[k], o)) => n1 = n
        /\ i \in ids => \A w : Reads(m, o, i, others, n, w) => n1 = w
    OBVIOUS
  <1> HIDE DEF t, m
  <1> DEFINE g == [k \in 0..Len(t) |-> f[k + 1]]
             b == IF j = 0 THEN 0 ELSE j - 1
  <1>5. /\ g \in [0..Len(t) -> Nat] /\ b \in 0..Len(t) /\ g[Len(t)] = f[Len(ms)]
        /\ \A k \in DOMAIN t : g[k] = f[k + 1] /\ g[k - 1] = f[k] /\ k + 1 \in DOMAIN ms
        /\ g[b] = IF j = 0 THEN f[1] ELSE f[j]
    <2>1. g \in [0..Len(t) -> Nat]
      BY <1>1, <1>3
    <2>2. b \in 0..Len(t)
      BY <1>1, <1>3
    <2>3. g[Len(t)] = f[Len(ms)]
      BY <1>1
    <2>4. \A k \in DOMAIN t : g[k] = f[k + 1] /\ g[k - 1] = f[k] /\ k + 1 \in DOMAIN ms
      BY <1>1
    <2>5. g[b] = IF j = 0 THEN f[1] ELSE f[j]
      BY <1>1, <1>3
    <2> QED BY <2>1, <2>2, <2>3, <2>4, <2>5
  <1>6. \A k \in DOMAIN t : k > b => Reads(t[k], o, i, others, g[k - 1], g[k])
    <2> SUFFICES ASSUME NEW k \in DOMAIN t, k > b PROVE Reads(t[k], o, i, others, g[k - 1], g[k])
      OBVIOUS
    <2>1. k + 1 \in DOMAIN ms /\ k + 1 > j /\ t[k] = ms[k + 1] /\ (k + 1) - 1 = k
      BY <1>1, <1>3
    <2>2. Reads(ms[k + 1], o, i, others, f[(k + 1) - 1], f[k + 1])
      BY <1>3, <2>1
    <2> QED BY <1>5, <2>1, <2>2
  <1>7. IF b = 0 THEN i \in ids1 /\ g[0] = n1
                 ELSE Tells(t[b], o) /\ t[b].as[o].id = i /\ g[b] = Taken(t[b], o, n1)
    <2>1. CASE j = 0
      <3>1. Reads(ms[1], o, i, others, f[1 - 1], f[1])
        BY <1>1, <1>3, <2>1
      <3>2. Reads(m, o, i, others, n, f[1])
        BY <1>1, <1>3, <2>1, <3>1
      <3> QED BY <1>3, <1>4, <1>5, <2>1, <3>2
    <2>2. CASE j = 1
      <3>1. Tells(m, o) /\ m.as[o].id = i /\ f[1] = Taken(m, o, n)
        BY <1>1, <1>3, <2>2
      <3>2. \A k \in DOMAIN t : ~Tells(t[k], o)
        <4> SUFFICES ASSUME NEW k \in DOMAIN t PROVE ~Tells(t[k], o)
          OBVIOUS
        <4>1. k > b
          BY <1>1, <2>2
        <4>2. Reads(t[k], o, i, others, g[k - 1], g[k])
          BY <1>6, <4>1
        <4> QED BY <4>2 DEF Reads
      <3> QED BY <1>4, <1>5, <2>2, <3>1, <3>2
    <2>3. CASE j # 0 /\ j # 1
      <3>1. b \in DOMAIN t /\ b # 0 /\ t[b] = ms[j]
        BY <1>1, <1>3, <2>3
      <3>2. Tells(t[b], o) /\ t[b].as[o].id = i /\ f[j] = Taken(t[b], o, n)
        BY <1>3, <2>3, <3>1
      <3>3. n1 = n
        BY <1>4, <3>1, <3>2
      <3> QED BY <1>5, <2>3, <3>1, <3>2, <3>3
    <2> QED BY <2>1, <2>2, <2>3
  <1> HIDE DEF g, b
  <1>8. SeesBy(t, o, i, n1, ids1, others, b, g)
    BY <1>5, <1>6, <1>7 DEF SeesBy
  <1> QED BY <1>2, <1>5, <1>8 DEF SeesIn, t

(* A message is sent that does not answer for o. *)
LEMMA SeesMore ==
  ASSUME NEW ms \in Seq(Notices), NEW m \in Notices, NEW o, NEW i, NEW n, NEW ids, NEW others,
         NEW v, SeesIn(ms, o, i, n, ids, others, v), NEW w \in Nat, Reads(m, o, i, others, v, w)
  PROVE  SeesIn(Append(ms, m), o, i, n, ids, others, w)
  <1> DEFINE s == Append(ms, m)
  <1>1. /\ Len(ms) \in Nat /\ Len(s) = Len(ms) + 1
        /\ DOMAIN ms = 1..Len(ms) /\ DOMAIN s = 1..Len(ms) + 1
        /\ \A k \in 1..Len(ms) : s[k] = ms[k]
        /\ s[Len(ms) + 1] = m
    BY AppendIs
  <1> HIDE DEF s
  <1>2. PICK j, f : SeesBy(ms, o, i, n, ids, others, j, f) /\ f[Len(ms)] = v
    BY DEF SeesIn
  <1>3. /\ j \in 0..Len(ms) /\ f \in [0..Len(ms) -> Nat]
        /\ j = 0 => i \in ids /\ f[0] = n
        /\ j # 0 => Tells(ms[j], o) /\ ms[j].as[o].id = i /\ f[j] = Taken(ms[j], o, n)
        /\ \A k \in DOMAIN ms : k > j => Reads(ms[k], o, i, others, f[k - 1], f[k])
    BY <1>2 DEF SeesBy
  <1> DEFINE g == [k \in 0..Len(s) |-> IF k = Len(s) THEN w ELSE f[k]]
  <1>4. /\ g \in [0..Len(s) -> Nat] /\ j \in 0..Len(s) /\ g[Len(s)] = w
        /\ \A k \in 0..Len(ms) : g[k] = f[k]
    BY <1>1, <1>3
  <1> HIDE DEF g
  <1>5. ASSUME NEW k \in DOMAIN s, k > j PROVE Reads(s[k], o, i, others, g[k - 1], g[k])
    <2>1. CASE k \in 1..Len(ms)
      <3>1. Reads(ms[k], o, i, others, f[k - 1], f[k])
        BY <1>1, <1>3, <1>5, <2>1
      <3>2. k - 1 \in 0..Len(ms) /\ k \in 0..Len(ms) /\ s[k] = ms[k]
        BY <1>1, <2>1
      <3> QED BY <1>4, <3>1, <3>2
    <2>2. CASE k = Len(ms) + 1
      <3>1. g[k - 1] = v /\ g[k] = w /\ s[k] = m
        BY <1>1, <1>2, <1>4, <2>2
      <3> QED BY <3>1
    <2> QED BY <1>1, <2>1, <2>2
  <1>6. j # 0 => Tells(s[j], o) /\ s[j].as[o].id = i /\ g[j] = Taken(s[j], o, n)
    <2> SUFFICES ASSUME j # 0 PROVE s[j] = ms[j] /\ g[j] = f[j]
      BY <1>3
    <2> QED BY <1>1, <1>3, <1>4
  <1>7. j = 0 => i \in ids /\ g[0] = n
    BY <1>1, <1>3, <1>4
  <1>8. SeesBy(s, o, i, n, ids, others, j, g)
    BY <1>4, <1>5, <1>6, <1>7 DEF SeesBy
  <1> QED BY <1>4, <1>8 DEF SeesIn, s

(* An answer is sent. *)
LEMMA SeesAnswer ==
  ASSUME NEW ms \in Seq(Notices), NEW m \in Notices, NEW o, NEW i, NEW n, NEW ids, NEW others,
         Tells(m, o), m.as[o].id = i, Taken(m, o, n) \in Nat
  PROVE  SeesIn(Append(ms, m), o, i, n, ids, others, Taken(m, o, n))
  <1> DEFINE s == Append(ms, m)
             f == [k \in 0..Len(s) |-> Taken(m, o, n)]
  <1>1. /\ Len(ms) \in Nat /\ Len(s) = Len(ms) + 1 /\ DOMAIN s = 1..Len(ms) + 1
        /\ s[Len(ms) + 1] = m
    BY AppendIs
  <1> HIDE DEF s
  <1>2. f \in [0..Len(s) -> Nat] /\ Len(s) \in 0..Len(s) /\ Len(s) # 0 /\ f[Len(s)] = Taken(m, o, n)
        /\ s[Len(s)] = m /\ ~\E k \in DOMAIN s : k > Len(s)
    BY <1>1
  <1> HIDE DEF f
  <1>3. SeesBy(s, o, i, n, ids, others, Len(s), f)
    BY <1>2 DEF SeesBy
  <1> QED BY <1>2, <1>3 DEF SeesIn, s
-----------------------------------------------------------------------------
(* The invariant.                                                          *)

(* Whoever tells of a change knows the object by the id it is told under.  *)
Named ==
  /\ \A p \in Players : \A k \in DOMAIN up[p] :
       up[p][k].type = "Change" => \E o \in Objects : up[p][k].id \in held[p][o]
  /\ \A p \in Players : \A k \in DOMAIN down[p] :
       down[p][k].type = "Change" => \E q \in Players, o \in Objects : down[p][k].id \in held[q][o]

(* A record is negative only where more was taken than there was. *)
Solvent == \A o \in Objects : count[o] >= 0 \/ o \in overdrawn

(* Player p came to stand by object o and has not touched it. *)
Watches(p, o) == p \in online /\ pos[p] = Home[o] /\ <<p, o>> \in watched

(* His request, as long as it is open, tells what he sees ... *)
Asked(p, o) == Watches(p, o) => AskedIn(up[p], o, content[p][o], held[p][o])

(* Ids that a player has for objects other than o. *)
NotOf(o) == {i \in Ids : \E q \in Players, u \in Objects \ {o} : i \in held[q][u]}

(* ... and once it was handled, he will see what the record says, by what  *)
(* is on its way to him.                                                   *)
WillSee(p, o) ==
  /\ id[o] # 0
  /\ \E v \in Nat : /\ SeesIn(down[p], o, id[o], content[p][o], held[p][o], NotOf(o), v)
                    /\ o \in overdrawn \/ v = count[o]

Answered(p, o) ==
  Watches(p, o) /\ <<p, o>> \notin unheard /\ ~AsksIn(up[p], o) => WillSee(p, o)

WatchInv ==
  /\ Named /\ Solvent /\ online \subseteq seated
  /\ \A p \in Players, o \in Objects : Asked(p, o) /\ Answered(p, o)

(* For a step after which p still watches o only if he did, and which      *)
(* leaves his requests, his answers and what he has of o.                  *)
LEMMA AskedStays ==
  ASSUME NEW p \in Players, NEW o \in Objects, Asked(p, o), Watches(p, o)' => Watches(p, o),
         up'[p] = up[p], content'[p][o] = content[p][o], held'[p][o] = held[p][o]
  PROVE  Asked(p, o)'
  BY DEF Asked

LEMMA AnsweredStays ==
  ASSUME NEW p \in Players, NEW o \in Objects, Answered(p, o), Watches(p, o)' => Watches(p, o),
         AsksIn(up[p], o) => AsksIn(up'[p], o),
         content'[p][o] = content[p][o], held'[p][o] = held[p][o], down'[p] = down[p],
         id[o] # 0 => <<p, o>> \in unheard' \/ (id'[o] = id[o] /\ count'[o] = count[o]),
         <<p, o>> \in unheard => <<p, o>> \in unheard', o \in overdrawn => o \in overdrawn',
         NotOf(o) \subseteq NotOf(o)'
  PROVE  Answered(p, o)'
  <1> SUFFICES ASSUME WillSee(p, o), id'[o] = id[o], count'[o] = count[o] PROVE WillSee(p, o)'
    BY DEF Answered, WillSee
  <1>1. PICK v \in Nat : /\ SeesIn(down[p], o, id[o], content[p][o], held[p][o], NotOf(o), v)
                         /\ o \in overdrawn \/ v = count[o]
    BY DEF WillSee
  <1>2. SeesIn(down[p], o, id[o], content[p][o], held[p][o], NotOf(o)', v)
    BY <1>1, SeesOn
  <1>3. id[o] # 0
    BY DEF WillSee
  <1> QED BY <1>1, <1>2, <1>3 DEF WillSee

(* Two ids that clients have for two objects are two. *)
LEMMA OneHolder ==
  ASSUME IdsInv
  PROVE  /\ \A p, q \in Players, o, u \in Objects : \A i \in held[p][o] : i \in held[q][u] => o = u
         /\ \A q \in Players, o, u \in Objects : id[o] \in held[q][u] => o = u
         /\ \A p \in Players, o \in Objects : held[p][o] \subseteq Ids
  <1>1. \A p \in Players, o \in Objects : held[p][o] \subseteq Ids
    BY DEF IdsInv, Typed, Records
  <1>2. \A o, u \in Objects, i \in Ids :
          Bears(id, held, down, o, i) /\ Bears(id, held, down, u, i) => o = u
    BY DEF IdsInv, OwnIds
  <1> QED BY <1>1, <1>2 DEF Bears
HeldApart == \A q \in Players, o, u \in Objects : \A i \in held[q][o] : i \in held[q][u] => o = u

LEMMA HoldsApart == IdsInv => HeldApart
  BY OneHolder DEF HeldApart

LEMMA HeldApartNext == IdsInv' => HeldApart'
  BY HoldsApart, PTL

(* The requests of a player who comes to cell x. *)
LEMMA VisitIs ==
  ASSUME Typed, NEW p \in Players, NEW x \in Places, NEW visit \in Visits(p, x),
         NEW s, s = visit \/ s = Shifts(x) \o visit
  PROVE  /\ s \in Seq(Requests)
         /\ \A k \in DOMAIN s : /\ s[k].type # "Change"
                                /\ \A o : Asks(s[k], o) => s[k].has[o] = content[p][o]
         /\ \A o \in Objects : Home[o] = x => AsksIn(s, o)
  <1> DEFINE f == [o \in ObjectsIn(x) |-> content[p][o]]
  <1>1. visit \in Seq(Requests) /\ Shifts(x) \o visit \in Seq(Requests)
    BY VisitTypes
  <1>2. visit = <<Enter(x), Assign(f)>> \/ visit = <<Assign(f), Enter(x)>>
    BY DEF Visits
  <1>3. /\ \A m \in {Shift(x), Enter(x), Assign(f)} :
             m.type # "Change" /\ \A o : Asks(m, o) => m.has[o] = content[p][o]
        /\ \A o \in Objects : Home[o] = x => Asks(Assign(f), o)
    BY DEF Shift, Enter, Assign, Asks, ObjectsIn
  <1> HIDE DEF f
  <1>4. /\ \A k \in DOMAIN visit : visit[k] \in {Enter(x), Assign(f)}
        /\ \E k \in DOMAIN visit : visit[k] = Assign(f)
    <2>1. ASSUME NEW a, NEW b
          PROVE  /\ \A k \in DOMAIN <<a, b>> : <<a, b>>[k] \in {a, b}
                 /\ 1 \in DOMAIN <<a, b>> /\ 2 \in DOMAIN <<a, b>>
                 /\ <<a, b>>[1] = a /\ <<a, b>>[2] = b
      OBVIOUS
    <2> QED BY <1>2, <2>1
  <1>5. Shifts(x) \in Seq(Requests) /\ \A k \in DOMAIN Shifts(x) : Shifts(x)[k] = Shift(x)
    <2>1. Shift(x) \in Requests
      BY MessageTypes
    <2> QED BY <2>1 DEF Shifts
  <1>6. /\ \A k \in DOMAIN s : s[k] \in {Shift(x), Enter(x), Assign(f)}
        /\ \E k \in DOMAIN s : s[k] = Assign(f)
    <2>1. CASE s = visit
      BY <1>4, <2>1
    <2>2. CASE s = Shifts(x) \o visit
      <3> DEFINE t == Shifts(x)
      <3>1. /\ Len(t) \in Nat /\ Len(visit) \in Nat
            /\ DOMAIN t = 1..Len(t) /\ DOMAIN visit = 1..Len(visit)
            /\ DOMAIN s = 1..Len(t) + Len(visit)
            /\ \A k \in 1..Len(t) : s[k] = t[k]
            /\ \A k \in 1..Len(visit) : s[Len(t) + k] = visit[k]
            /\ \A k \in 1..Len(t) + Len(visit) : k <= Len(t) \/ k - Len(t) \in 1..Len(visit)
        BY <1>1, <1>5, <2>2, ConcatIs
      <3>2. PICK a \in DOMAIN visit : visit[a] = Assign(f)
        BY <1>4
      <3> HIDE DEF t
      <3>3. Len(t) + a \in DOMAIN s /\ s[Len(t) + a] = Assign(f)
        BY <3>1, <3>2
      <3>4. ASSUME NEW k \in DOMAIN s PROVE s[k] \in {Shift(x), Enter(x), Assign(f)}
        <4>1. CASE k <= Len(t)
          BY <1>5, <3>1, <4>1 DEF t
        <4>2. CASE k - Len(t) \in 1..Len(visit)
          <5>1. s[k] = visit[k - Len(t)]
            BY <3>1, <4>2
          <5> QED BY <1>4, <3>1, <4>2, <5>1
        <4> QED BY <3>1, <4>1, <4>2
      <3> QED BY <3>3, <3>4
    <2> QED BY <2>1, <2>2
  <1> QED BY <1>1, <1>3, <1>6 DEF AsksIn

(* Player p comes to stand by the objects of cell x. *)
LEMMA Comes ==
  ASSUME IdsInv, WatchInv, NEW p \in Players, NEW x \in Places,
         NEW visit \in Visits(p, x), NEW s, s = visit \/ s = Shifts(x) \o visit, Send(p, s),
         Registering(p, x), pos' = [pos EXCEPT ![p] = x], online' = online \cup {p},
         online' \subseteq seated', seated \subseteq seated',
         UNCHANGED <<id, count, held, content, down, unheard, overdrawn>>
  PROVE  WatchInv'
  <1>1. /\ s \in Seq(Requests)
        /\ \A k \in DOMAIN s : /\ s[k].type # "Change"
                               /\ \A o : Asks(s[k], o) => s[k].has[o] = content[p][o]
        /\ \A o \in Objects : Home[o] = x => AsksIn(s, o)
    <2>1. Typed
      BY DEF IdsInv
    <2> QED BY <2>1, VisitIs
  <1>2. /\ up[p] \in Seq(Requests)
        /\ \A q \in Players : up'[q] = IF q = p THEN up[p] \o s ELSE up[q]
        /\ \A q \in Players : pos'[q] = IF q = p THEN x ELSE pos[q]
    BY DEF IdsInv, Typed, Records, Queues, Send
  <1>3. \A q \in Players, o \in Objects : q # p => (Watches(q, o)' => Watches(q, o))
    BY <1>2 DEF Watches, Registering
  <1>4. Named'
    <2>1. ASSUME NEW q \in Players, NEW k \in DOMAIN up'[q], up'[q][k].type = "Change"
          PROVE  \E o \in Objects : up'[q][k].id \in held'[q][o]
      <3>1. \/ k \in DOMAIN up[q] /\ up'[q][k] = up[q][k]
            \/ q = p /\ \E l \in DOMAIN s : up'[q][k] = s[l]
        <4>1. CASE q = p
          <5>1. up'[p] = up[p] \o s
            BY <1>2
          <5>2. k \in DOMAIN (up[p] \o s)
            BY <2>1, <4>1, <5>1
          <5>3. \/ k \in DOMAIN up[p] /\ (up[p] \o s)[k] = up[p][k]
                \/ k - Len(up[p]) \in DOMAIN s /\ (up[p] \o s)[k] = s[k - Len(up[p])]
            BY <1>1, <1>2, <5>2, ConcatIs
          <5> QED BY <4>1, <5>1, <5>3
        <4> QED BY <1>2, <4>1
      <3> QED BY <1>1, <2>1, <3>1 DEF WatchInv, Named
    <2> QED BY <2>1 DEF WatchInv, Named
  <1>5. ASSUME NEW q \in Players, NEW o \in Objects PROVE Asked(q, o)' /\ Answered(q, o)'
    <2>1. CASE q # p
      <3>1. Asked(q, o) /\ Answered(q, o)
        BY DEF WatchInv
      <3>2. Asked(q, o)'
        BY <1>2, <1>3, <2>1, <3>1, AskedStays
      <3>3. NotOf(o) \subseteq NotOf(o)'
        BY DEF NotOf
      <3> QED BY <1>2, <1>3, <2>1, <3>1, <3>2, <3>3, AnsweredStays
    <2>2. CASE q = p
      <3> SUFFICES ASSUME Home[o] = x
                   PROVE  AskedIn(up'[p], o, content'[p][o], held'[p][o]) /\ AsksIn(up'[p], o)
        BY <1>2, <2>2 DEF Asked, Answered, Watches
      <3>1. AskedIn(up[p] \o s, o, content[p][o], held[p][o]) /\ AsksIn(up[p] \o s, o)
        <4> DEFINE n == content[p][o]
        <4>1. /\ up[p] \in Seq(Requests) /\ s \in Seq(Requests) /\ AsksIn(s, o)
              /\ \A k \in DOMAIN s : s[k].type # "Change" /\ (Asks(s[k], o) => s[k].has[o] = n)
          BY <1>1, <1>2
        <4> HIDE DEF n
        <4>2. \A ids : AskedIn(up[p] \o s, o, n, ids) /\ AsksIn(up[p] \o s, o)
          BY <4>1, AskedAfresh
        <4> QED BY <4>2 DEF n
      <3> QED BY <1>2, <3>1
    <2> QED BY <2>1, <2>2
  <1> QED BY <1>4, <1>5 DEF WatchInv, Solvent

LEMMA JoinWatch ==
  ASSUME IdsInv, WatchInv, NEW p \in Players, Join(p)
  PROVE  WatchInv'
  <1>1. pos[p] \in Places /\ pos' = [pos EXCEPT ![p] = pos[p]]
    BY DEF Join, IdsInv, Typed, Records
  <1>2. PICK visit \in Visits(p, pos[p]) : Send(p, Shifts(pos[p]) \o visit)
    BY DEF Join
  <1>3. online' = online \cup {p} /\ online' \subseteq seated' /\ seated \subseteq seated'
    BY DEF Join, WatchInv
  <1>4. Registering(p, pos[p]) /\ UNCHANGED <<id, count, held, content, down, unheard, overdrawn>>
    BY DEF Join
  <1> QED BY <1>1, <1>2, <1>3, <1>4, Comes

LEMMA GoWatch ==
  ASSUME IdsInv, WatchInv, NEW p \in Players, NEW x \in Places, Go(p, x)
  PROVE  WatchInv'
  <1>1. PICK visit \in Visits(p, x) : Send(p, Shifts(x) \o visit) \/ Send(p, visit)
    BY DEF Go
  <1>2. online' = online \cup {p} /\ online' \subseteq seated' /\ seated \subseteq seated'
    BY DEF Go, serverVars, WatchInv
  <1>3. Registering(p, x) /\ UNCHANGED <<id, count, held, content, down, unheard, overdrawn>>
        /\ pos' = [pos EXCEPT ![p] = x]
    BY DEF Go, serverVars
  <1> QED BY <1>1, <1>2, <1>3, Comes
LEMMA UseWatch ==
  ASSUME IdsInv, WatchInv, NEW p \in Players, NEW o \in Objects, NEW d \in {-1, 1}, Use(p, o, d)
  PROVE  WatchInv'
  <1>1. /\ UNCHANGED <<seated, id, count, held, down, pos, online, unheard, overdrawn>>
        /\ watched' = watched \ {<<p, o>>}
        /\ \A q \in Players, u \in Objects :
             <<q, u>> # <<p, o>> => content'[q][u] = content[q][u]
    BY DEF Use, serverVars, IdsInv, Typed, Records
  <1>2. up \in [Players -> Seq(Requests)]
    BY DEF IdsInv, Typed, Queues
  <1>3. \/ up' = up
        \/ \E i \in held[p][o] : /\ Change(i, d) \in Requests
                                 /\ up' = [up EXCEPT ![p] = up[p] \o <<Change(i, d)>>]
    <2>1. \A i \in held[p][o] : Change(i, d) \in Requests
      BY OneHolder, MessageTypes
    <2> QED BY <2>1 DEF Use, Send
  <1>4. ASSUME NEW i \in held[p][o], NEW s, s = <<Change(i, d)>>
        PROVE  /\ s \in Seq({Change(i, d)}) /\ \A k \in DOMAIN s : s[k] = Change(i, d)
    BY <1>4
  <1>5. ASSUME NEW q \in Players, NEW k \in DOMAIN up'[q], up'[q][k].type = "Change"
        PROVE  \E u \in Objects : up'[q][k].id \in held'[q][u]
    <2>1. CASE up'[q] = up[q]
      BY <1>1, <1>5, <2>1 DEF WatchInv, Named
    <2>2. CASE up'[q] # up[q]
      <3>1. PICK i \in held[p][o] : /\ Change(i, d) \in Requests
                                    /\ up' = [up EXCEPT ![p] = up[p] \o <<Change(i, d)>>]
        BY <1>3, <2>2
      <3> DEFINE s == <<Change(i, d)>>
      <3>2. s \in Seq(Requests) /\ \A l \in DOMAIN s : s[l] = Change(i, d)
        BY <3>1, <1>4
      <3> HIDE DEF s
      <3>3. q = p /\ up'[q] = up[q] \o s /\ k \in DOMAIN (up[q] \o s)
        BY <1>2, <1>5, <2>2, <3>1 DEF s
      <3>4. \/ k \in DOMAIN up[q] /\ (up[q] \o s)[k] = up[q][k]
            \/ k - Len(up[q]) \in DOMAIN s /\ (up[q] \o s)[k] = s[k - Len(up[q])]
        BY <1>2, <3>2, <3>3, ConcatIs
      <3>5. CASE k \in DOMAIN up[q] /\ up'[q][k] = up[q][k]
        BY <1>1, <1>5, <3>5 DEF WatchInv, Named
      <3>6. CASE up'[q][k] = Change(i, d)
        BY <1>1, <3>3, <3>6 DEF Change
      <3> QED BY <3>2, <3>3, <3>4, <3>5, <3>6
    <2> QED BY <2>1, <2>2
  <1>6. ASSUME NEW q \in Players, NEW u \in Objects PROVE Asked(q, u)' /\ Answered(q, u)'
    <2> SUFFICES ASSUME <<q, u>> # <<p, o>> PROVE Asked(q, u)' /\ Answered(q, u)'
      BY <1>1 DEF Asked, Answered, Watches
    <2>1. Asked(q, u) /\ Answered(q, u) /\ content'[q][u] = content[q][u]
          /\ (Watches(q, u)' => Watches(q, u)) /\ NotOf(u) \subseteq NotOf(u)'
      BY <1>1 DEF WatchInv, Watches, NotOf
    <2>2. CASE up'[q] = up[q]
      BY <1>1, <2>1, <2>2, AskedStays, AnsweredStays
    <2>3. CASE up'[q] # up[q]
      <3>1. PICK i \in held[p][o] : /\ Change(i, d) \in Requests
                                    /\ up' = [up EXCEPT ![p] = up[p] \o <<Change(i, d)>>]
        BY <1>3, <2>3
      <3> DEFINE s == <<Change(i, d)>>
      <3>2. s \in Seq(Requests) /\ \A l \in DOMAIN s : s[l] = Change(i, d)
        BY <3>1, <1>4
      <3> HIDE DEF s
      <3>3. q = p /\ u # o /\ up'[q] = up[q] \o s
        BY <1>2, <2>3, <3>1 DEF s
      <3>4. i \notin held[q][u]
        BY <3>3, OneHolder
      <3>5. ~AsksIn(s, u) /\ \A l \in DOMAIN s : s[l].type = "Change" => s[l].id \notin held[q][u]
        BY <3>2, <3>4 DEF AsksIn, Asks, Change
      <3>6. ASSUME AskedIn(up[q], u, content[q][u], held[q][u])
            PROVE  AskedIn(up'[q], u, content[q][u], held[q][u]) /\ (AsksIn(up'[q], u) => AsksIn(up[q], u))
        <4> DEFINE n == content[q][u]
                   ids == held[q][u]
        <4>1. up[q] \in Seq(Requests)
          BY <1>2
        <4>2. ~AsksIn(s, u) /\ \A l \in DOMAIN s : s[l].type = "Change" => s[l].id \notin ids
          BY <3>5
        <4>3. AskedIn(up[q], u, n, ids)
          BY <3>6
        <4> HIDE DEF n, ids
        <4>4. AskedIn(up[q] \o s, u, n, ids) /\ (AsksIn(up[q] \o s, u) => AsksIn(up[q], u))
          BY <3>2, <4>1, <4>2, <4>3, AskedMore
        <4> QED BY <3>3, <4>4 DEF n, ids
      <3>7. AsksIn(up[q], u) => AsksIn(up'[q], u)
        <4>1. \A k \in DOMAIN up[q] : k \in DOMAIN (up[q] \o s) /\ (up[q] \o s)[k] = up[q][k]
          BY <1>2, <3>2, ConcatIs
        <4> QED BY <3>3, <4>1 DEF AsksIn
      <3>8. Asked(q, u)'
        BY <1>1, <2>1, <3>6 DEF Asked
      <3> QED BY <1>1, <2>1, <3>7, <3>8, AnsweredStays
    <2> QED BY <2>2, <2>3
  <1> QED BY <1>1, <1>5, <1>6 DEF WatchInv, Named, Solvent

LEMMA LeaveWatch ==
  ASSUME IdsInv, WatchInv, NEW p \in Players, Leave(p)
  PROVE  WatchInv'
  <1>1. /\ UNCHANGED <<seated, id, count, held, content, pos, up, watched, unheard, overdrawn>>
        /\ online' = online \ {p}
        /\ \A q \in Players : down'[q] = IF q = p THEN <<>> ELSE down[q]
    BY DEF Leave, serverVars, history, IdsInv, Typed, Queues
  <1>2. ASSUME NEW q \in Players, NEW o \in Objects PROVE Asked(q, o)' /\ Answered(q, o)'
    <2>1. Asked(q, o) /\ Answered(q, o) /\ (Watches(q, o)' => Watches(q, o) /\ q # p)
          /\ NotOf(o) \subseteq NotOf(o)'
      BY <1>1 DEF WatchInv, Watches, NotOf
    <2>2. Asked(q, o)'
      BY <1>1, <2>1, AskedStays
    <2>3. CASE q = p
      BY <2>1, <2>2, <2>3 DEF Answered
    <2>4. CASE q # p
      BY <1>1, <2>1, <2>2, <2>4, AnsweredStays
    <2> QED BY <2>3, <2>4
  <1>3. Named'
    BY <1>1 DEF WatchInv, Named
  <1> QED BY <1>1, <1>2, <1>3 DEF WatchInv, Solvent

(* What is in o changes while nobody asks for it, or not at all, and its   *)
(* new ids are of no change that was told.                                 *)
LEMMA AskedOtherwise ==
  ASSUME NEW ms, NEW o, NEW n, NEW ids, AskedIn(ms, o, n, ids), NEW n1, NEW ids1,
         AsksIn(ms, o) => n1 = n,
         \A k \in DOMAIN ms : ms[k].type = "Change" /\ ms[k].id \in ids1 => ms[k].id \in ids
  PROVE  AskedIn(ms, o, n1, ids1)
  BY DEF AskedIn, AsksIn

LEMMA ReceiveWatch ==
  ASSUME IdsInv, IdsInv', WatchInv, NEW p \in Players, Receive(p)
  PROVE  WatchInv'
  <1> DEFINE m == Head(down[p])
             t == Tail(down[p])
  <1>1. /\ down[p] \in Seq(Notices) /\ down[p] # <<>> /\ m \in Notices
        /\ \A q \in Players : down'[q] = IF q = p THEN t ELSE down[q]
        /\ UNCHANGED <<seated, id, count, pos, online, up, unheard, overdrawn>>
        /\ watched' = watched \ {<<p, o>> : o \in {u \in Objects : content'[p][u] # content[p][u]
                                                                  /\ Awaits(p, u)}}
    BY DEF Receive, serverVars, IdsInv, Typed, Queues
  <1>2. /\ Len(down[p]) \in Nat \ {0} /\ DOMAIN down[p] = 1..Len(down[p]) /\ m = down[p][1]
        /\ DOMAIN t = 1..Len(down[p]) - 1
        /\ \A k \in 1..Len(down[p]) - 1 : t[k] = down[p][k + 1]
    BY <1>1, TailIs
  <1>3. IF m.type = "Assigned" THEN m.as \in Answers /\ OnAssignObjectsResponse(p, m.as)
                               ELSE OnNotifyInventoryChanges(p, m.id, m.delta)
    BY <1>1, MessageTypes DEF Receive
  <1> HIDE DEF m
  <1>4. /\ \A q \in Players, o \in Objects : q # p => /\ content'[q][o] = content[q][o]
                                                      /\ held'[q][o] = held[q][o]
        /\ \A q \in Players, o \in Objects : held[q][o] \subseteq held'[q][o]
        /\ \A o \in Objects : Tells(m, o) => /\ m.as[o].id \in held'[p][o]
                                             /\ content'[p][o] = Taken(m, o, content[p][o])
        /\ \A o \in Objects : ~Tells(m, o) =>
             IF m.type # "Assigned" /\ m.id \in held[p][o]
               THEN content'[p][o] = InGame(content[p][o] + m.delta)
               ELSE content'[p][o] = content[p][o]
    <2>1. /\ held \in [Players -> [Objects -> SUBSET Ids]]
          /\ content \in [Players -> [Objects -> Nat]]
      BY DEF IdsInv, Typed, Records
    <2>2. CASE m.type = "Assigned"
      <3>1. /\ held' = [held EXCEPT ![p] =
                 [o \in Objects |-> IF o \in DOMAIN m.as THEN held[p][o] \cup {m.as[o].id} ELSE held[p][o]]]
            /\ content' = [content EXCEPT ![p] =
                 [o \in Objects |-> IF o \in DOMAIN m.as /\ ~m.as[o].first
                                    THEN InGame(m.as[o].count) ELSE content[p][o]]]
        BY <1>3, <2>2 DEF OnAssignObjectsResponse
      <3>2. /\ \A q \in Players, o \in Objects : q # p => held'[q][o] = held[q][o]
            /\ \A o \in Objects : held'[p][o] =
                 IF o \in DOMAIN m.as THEN held[p][o] \cup {m.as[o].id} ELSE held[p][o]
        BY <2>1, <3>1
      <3>3. /\ \A q \in Players, o \in Objects : q # p => content'[q][o] = content[q][o]
            /\ \A o \in Objects : content'[p][o] =
                 IF o \in DOMAIN m.as /\ ~m.as[o].first THEN InGame(m.as[o].count) ELSE content[p][o]
        BY <2>1, <3>1
      <3> QED BY <2>2, <3>2, <3>3 DEF Tells, Taken
    <2>3. CASE m.type # "Assigned"
      <3>1. /\ content' = [content EXCEPT ![p] =
                 [o \in Objects |-> IF m.id \in held[p][o] THEN InGame(content[p][o] + m.delta)
                                                          ELSE content[p][o]]]
            /\ UNCHANGED held
        BY <1>3, <2>3 DEF OnNotifyInventoryChanges
      <3>2. /\ \A q \in Players, o \in Objects : q # p => content'[q][o] = content[q][o]
            /\ \A o \in Objects : content'[p][o] =
                 IF m.id \in held[p][o] THEN InGame(content[p][o] + m.delta) ELSE content[p][o]
        BY <2>1, <3>1
      <3> QED BY <2>3, <3>1, <3>2 DEF Tells
    <2> QED BY <2>2, <2>3
  <1>5. \A o \in Objects : NotOf(o) \subseteq NotOf(o)'
    BY <1>4 DEF NotOf
  <1>6. ASSUME NEW o \in Objects, Watches(p, o)'
        PROVE  /\ Watches(p, o)
               /\ AsksIn(up[p], o) => content'[p][o] = content[p][o]
               /\ (\E k \in DOMAIN t : Tells(t[k], o)) => content'[p][o] = content[p][o]
    <2>1. content'[p][o] = content[p][o] \/ ~Awaits(p, o)
      BY <1>1, <1>6 DEF Watches
    <2>2. AsksIn(up[p], o) => Awaits(p, o)
      BY DEF AsksIn, Asks, Awaits
    <2>3. (\E k \in DOMAIN t : Tells(t[k], o)) => Awaits(p, o)
      <3> SUFFICES ASSUME NEW k \in DOMAIN t, Tells(t[k], o) PROVE Awaits(p, o)
        OBVIOUS
      <3>1. k + 1 \in 2..Len(down[p]) /\ Tells(down[p][k + 1], o)
        BY <1>2
      <3> QED BY <3>1 DEF Awaits, Tells
    <2> QED BY <1>1, <1>6, <2>1, <2>2, <2>3 DEF Watches
  <1>7. ASSUME NEW o \in Objects, Watches(p, o)'
        PROVE  AskedIn(up'[p], o, content'[p][o], held'[p][o])
    <2>1. AskedIn(up[p], o, content[p][o], held[p][o])
      BY <1>6, <1>7 DEF WatchInv, Asked
    <2>2. ASSUME NEW k \in DOMAIN up[p], up[p][k].type = "Change", up[p][k].id \in held'[p][o]
          PROVE  up[p][k].id \in held[p][o]
      <3>1. PICK u \in Objects : up[p][k].id \in held[p][u]
        BY <2>2 DEF WatchInv, Named
      <3>2. \A a, b \in Objects : \A i \in held'[p][a] : i \in held'[p][b] => a = b
        BY HeldApartNext DEF HeldApart
      <3> QED BY <1>4, <2>2, <3>1, <3>2
    <2>3. AskedIn(up[p], o, content'[p][o], held'[p][o])
      BY <1>6, <1>7, <2>1, <2>2, AskedOtherwise
    <2> QED BY <1>1, <2>3
  <1>8. ASSUME NEW o \in Objects, Watches(p, o)', WillSee(p, o) PROVE WillSee(p, o)'
    <2> DEFINE n == content[p][o]
               n1 == content'[p][o]
    <2>1. PICK v \in Nat : /\ SeesIn(down[p], o, id[o], n, held[p][o], NotOf(o), v)
                           /\ o \in overdrawn \/ v = count[o]
      BY <1>8 DEF WillSee
    <2>2. ASSUME id[o] \in held[p][o], NEW w, Reads(m, o, id[o], NotOf(o), n, w) PROVE n1 = w
      <3>1. ~Tells(m, o)
        BY <2>2 DEF Reads
      <3>2. CASE m.type = "Change" /\ m.id = id[o] /\ w = InGame(n + m.delta)
        BY <1>4, <2>2, <3>1, <3>2
      <3>3. CASE (m.type = "Change" => m.id \in NotOf(o)) /\ w = n
        <4>1. m.type # "Assigned" => m.type = "Change"
          BY <1>1 DEF Notices, Changes
        <4>2. m.type # "Assigned" => m.id \notin held[p][o]
          BY <3>3, <4>1, OneHolder DEF NotOf
        <4> QED BY <1>4, <3>1, <3>3, <4>2
      <3> QED BY <2>2, <3>2, <3>3 DEF Reads
    <2>3. /\ held[p][o] \subseteq held'[p][o]
          /\ Tells(m, o) => m.as[o].id \in held'[p][o] /\ n1 = Taken(m, o, n)
          /\ (\E k \in DOMAIN t : Tells(t[k], o)) => n1 = n
      BY <1>4, <1>6, <1>8
    <2> HIDE DEF n, n1
    <2>4. SeesIn(t, o, id[o], n1, held'[p][o], NotOf(o), v)
      BY <1>1, <2>1, <2>2, <2>3, SeesTail DEF m
    <2>5. SeesIn(down'[p], o, id'[o], n1, held'[p][o], NotOf(o)', v)
      BY <1>1, <1>5, <2>4, SeesOn
    <2> QED BY <1>1, <1>8, <2>1, <2>5 DEF WillSee, n1
  <1>9. ASSUME NEW q \in Players, NEW o \in Objects PROVE Asked(q, o)' /\ Answered(q, o)'
    <2>1. CASE q = p
      <3>1. Watches(p, o)' => Watches(p, o)
        BY <1>6
      <3> QED BY <1>1, <1>7, <1>8, <2>1, <3>1 DEF WatchInv, Asked, Answered
    <2>2. CASE q # p
      <3>1. Asked(q, o) /\ Answered(q, o) /\ (Watches(q, o)' => Watches(q, o))
        BY <1>1 DEF WatchInv, Watches
      <3>2. Asked(q, o)'
        BY <1>1, <1>4, <2>2, <3>1, AskedStays
      <3> QED BY <1>1, <1>4, <1>5, <2>2, <3>1, <3>2, AnsweredStays
    <2> QED BY <2>1, <2>2
  <1>10. Named'
    <2>1. ASSUME NEW q \in Players, NEW k \in DOMAIN down'[q]
          PROVE  \E l \in DOMAIN down[q] : down'[q][k] = down[q][l]
      <3>1. CASE q = p
        <4>1. down'[q] = t
          BY <1>1, <3>1
        <4>2. k \in DOMAIN t
          BY <2>1, <4>1
        <4> HIDE DEF t
        <4>3. k + 1 \in DOMAIN down[p] /\ t[k] = down[p][k + 1]
          BY <1>2, <4>2
        <4> QED BY <3>1, <4>1, <4>3
      <3> QED BY <1>1, <2>1, <3>1
    <2> QED BY <1>1, <1>4, <2>1 DEF WatchInv, Named
  <1> QED BY <1>1, <1>9, <1>10 DEF WatchInv, Solvent
-----------------------------------------------------------------------------
(* A request is handled.                                                   *)

LEMMA Handled ==
  ASSUME IdsInv, WatchInv, NEW p \in Players, up[p] # <<>>, Heard(p), UNCHANGED <<clientVars, watched>>
  PROVE  /\ \A q \in Players : \A k \in DOMAIN up'[q] :
              up'[q][k].type = "Change" => \E o \in Objects : up'[q][k].id \in held'[q][o]
         /\ \A q \in Players, o \in Objects :
              /\ Watches(q, o)' = Watches(q, o) /\ NotOf(o)' = NotOf(o) /\ Asked(q, o)'
              /\ AsksIn(up[q], o) => AsksIn(up'[q], o) \/ (q = p /\ Asks(Head(up[p]), o))
  <1> DEFINE t == Tail(up[p])
  <1>1. /\ up[p] \in Seq(Requests) /\ UNCHANGED <<online, pos, held, content, watched>>
        /\ \A q \in Players : up'[q] = IF q = p THEN t ELSE up[q]
    BY DEF Heard, clientVars, IdsInv, Typed, Queues
  <1>2. /\ Len(up[p]) \in Nat \ {0} /\ DOMAIN up[p] = 1..Len(up[p]) /\ Head(up[p]) = up[p][1]
        /\ DOMAIN t = 1..Len(up[p]) - 1
        /\ \A k \in 1..Len(up[p]) - 1 : t[k] = up[p][k + 1]
    BY <1>1, TailIs
  <1>3. \A o \in Objects : \A n, ids : AskedIn(up[p], o, n, ids) => AskedIn(t, o, n, ids)
    BY <1>1, AskedTail
  <1> HIDE DEF t
  <1>4. ASSUME NEW q \in Players, NEW k \in DOMAIN up'[q]
        PROVE  \E l \in DOMAIN up[q] : up'[q][k] = up[q][l]
    <2>1. CASE q = p
      <3>1. k \in DOMAIN t /\ up'[q][k] = t[k]
        BY <1>1, <1>4, <2>1
      <3>2. k + 1 \in DOMAIN up[p] /\ t[k] = up[p][k + 1]
        BY <1>2, <3>1
      <3> QED BY <2>1, <3>1, <3>2
    <2> QED BY <1>1, <1>4, <2>1
  <1>5. \A q \in Players : \A k \in DOMAIN up'[q] :
          up'[q][k].type = "Change" => \E o \in Objects : up'[q][k].id \in held'[q][o]
    BY <1>1, <1>4 DEF WatchInv, Named
  <1>6. ASSUME NEW q \in Players, NEW o \in Objects
        PROVE  /\ Watches(q, o)' = Watches(q, o) /\ NotOf(o)' = NotOf(o) /\ Asked(q, o)'
               /\ AsksIn(up[q], o) => AsksIn(up'[q], o) \/ (q = p /\ Asks(Head(up[p]), o))
    <2>1. Watches(q, o)' = Watches(q, o) /\ NotOf(o)' = NotOf(o)
      BY <1>1 DEF Watches, NotOf
    <2>2. Asked(q, o)
      BY DEF WatchInv
    <2>3. Asked(q, o)'
      <3>1. CASE q = p
        BY <1>1, <1>3, <2>1, <2>2, <3>1 DEF Asked
      <3>2. CASE q # p
        BY <1>1, <2>1, <2>2, <3>2, AskedStays
      <3> QED BY <3>1, <3>2
    <2>4. ASSUME NEW l \in DOMAIN up[p], Asks(up[p][l], o)
          PROVE  AsksIn(t, o) \/ Asks(Head(up[p]), o)
      <3>1. CASE l = 1
        BY <1>2, <2>4, <3>1
      <3>2. CASE l # 1
        <4>1. l - 1 \in DOMAIN t /\ t[l - 1] = up[p][l]
          BY <1>2, <3>2
        <4> QED BY <2>4, <4>1 DEF AsksIn
      <3> QED BY <3>1, <3>2
    <2>5. AsksIn(up[q], o) => AsksIn(up'[q], o) \/ (q = p /\ Asks(Head(up[p]), o))
      BY <1>1, <2>4 DEF AsksIn
    <2> QED BY <2>1, <2>3, <2>5
  <1> QED BY <1>5, <1>6

(* The record of o is the same, or q counts among those who missed a step. *)
Lasts(q, o) ==
  \/ <<q, o>> \in unheard'
  \/ id'[o] = id[o] /\ count'[o] = count[o] /\ (o \in overdrawn => o \in overdrawn')

(* Whoever stands by an object whose record goes was not in its cell, as   *)
(* far as the server knew.                                                 *)
LEMMA MoveToWatch ==
  ASSUME IdsInv, WatchInv, NEW p \in Players, NEW x \in Places \cup {Nowhere}, MoveTo(p, x)
  PROVE  /\ Solvent' /\ unheard \subseteq unheard'
         /\ \A q \in Players, o \in Objects : Watches(q, o) /\ id[o] # 0 => Lasts(q, o)
  <1> DEFINE gone == Emptied(cell[p])
  <1>1. /\ id' = [o \in Objects |-> IF o \in gone THEN 0 ELSE id[o]]
        /\ count' = [o \in Objects |-> IF o \in gone THEN 0 ELSE count[o]]
        /\ unheard' = unheard \cup {m \in Players \X gone : id[m[2]] # 0 /\ cell'[m[1]] # Home[m[2]]}
        /\ overdrawn' = overdrawn \ gone
    BY DEF MoveTo
  <1>2. \A o \in gone : \A q \in seated : cell'[q] # Home[o]
    BY DEF Emptied, ObjectsIn
  <1> HIDE DEF gone
  <1>3. Solvent'
    BY <1>1 DEF WatchInv, Solvent
  <1>4. ASSUME NEW q \in Players, NEW o \in Objects, Watches(q, o), id[o] # 0, o \in gone
        PROVE  <<q, o>> \in unheard'
    <2>1. cell'[q] # Home[o]
      BY <1>2, <1>4 DEF WatchInv, Watches
    <2> QED BY <1>1, <1>4, <2>1
  <1> QED BY <1>1, <1>3, <1>4 DEF Lasts

LEMMA MovesWatch ==
  ASSUME IdsInv, WatchInv, NEW p \in Players, NEW x \in Places,
         up[p] # <<>>, ~\E o : Asks(Head(up[p]), o), Heard(p), MoveTo(p, x),
         UNCHANGED <<seated, clientVars, down, watched>>
  PROVE  WatchInv'
  <1>1. /\ \A q \in Players : \A k \in DOMAIN up'[q] :
             up'[q][k].type = "Change" => \E o \in Objects : up'[q][k].id \in held'[q][o]
        /\ \A q \in Players, o \in Objects :
             /\ Watches(q, o)' = Watches(q, o) /\ NotOf(o)' = NotOf(o) /\ Asked(q, o)'
             /\ AsksIn(up[q], o) => AsksIn(up'[q], o)
    BY Handled DEF clientVars
  <1>2. /\ Solvent' /\ unheard \subseteq unheard'
        /\ \A q \in Players, o \in Objects : Watches(q, o) /\ id[o] # 0 => Lasts(q, o)
    BY MoveToWatch
  <1>3. ASSUME NEW q \in Players, NEW o \in Objects PROVE Answered(q, o)'
    <2> SUFFICES ASSUME Watches(q, o), <<q, o>> \notin unheard', ~AsksIn(up'[q], o) PROVE WillSee(q, o)'
      BY <1>1 DEF Answered
    <2>1. WillSee(q, o)
      BY <1>1, <1>2 DEF WatchInv, Answered
    <2>2. id'[o] = id[o] /\ count'[o] = count[o] /\ (o \in overdrawn => o \in overdrawn')
      BY <1>2, <2>1 DEF WillSee, Lasts
    <2> QED BY <1>1, <2>1, <2>2 DEF WillSee, clientVars
  <1>4. Named'
    BY <1>1 DEF WatchInv, Named, clientVars
  <1> QED BY <1>1, <1>2, <1>3, <1>4 DEF WatchInv, clientVars

LEMMA ShiftWatch ==
  ASSUME IdsInv, WatchInv, NEW p \in Players, NEW x \in Places,
         HandleGridCellShift(p, x) \/ HandleInteriorCellEnter(p, x)
  PROVE  WatchInv'
  <1>1. /\ up[p] # <<>> /\ Heard(p) /\ MoveTo(p, x) /\ UNCHANGED <<seated, clientVars, down, watched>>
        /\ Head(up[p]) = Shift(x) \/ Head(up[p]) = Enter(x)
    BY DEF HandleGridCellShift, HandleInteriorCellEnter, Hears
  <1>2. ~\E o : Asks(Head(up[p]), o)
    BY <1>1 DEF Asks, Shift, Enter
  <1> QED BY <1>1, <1>2, MovesWatch

LEMMA ExteriorWatch ==
  ASSUME IdsInv, WatchInv, NEW p \in Players, NEW x \in Places, HandleExteriorCellEnter(p, x)
  PROVE  WatchInv'
  <1>1. /\ up[p] # <<>> /\ Heard(p) /\ Head(up[p]) = Enter(x)
        /\ UNCHANGED <<seated, id, count, clientVars, down, watched, unheard, overdrawn>>
    BY DEF HandleExteriorCellEnter, Hears, history
  <1>2. ~\E o : Asks(Head(up[p]), o)
    BY <1>1 DEF Asks, Enter
  <1>3. /\ \A q \in Players : \A k \in DOMAIN up'[q] :
             up'[q][k].type = "Change" => \E o \in Objects : up'[q][k].id \in held'[q][o]
        /\ \A q \in Players, o \in Objects :
             /\ Watches(q, o)' = Watches(q, o) /\ NotOf(o)' = NotOf(o) /\ Asked(q, o)'
             /\ AsksIn(up[q], o) => AsksIn(up'[q], o)
    BY <1>1, <1>2, Handled
  <1>4. ASSUME NEW q \in Players, NEW o \in Objects PROVE Answered(q, o)'
    BY <1>1, <1>3, AnsweredStays DEF WatchInv, clientVars
  <1> QED BY <1>1, <1>3, <1>4 DEF WatchInv, Named, Solvent, clientVars

LEMMA DisconnectionWatch ==
  ASSUME IdsInv, WatchInv, NEW p \in Players, OnDisconnection(p)
  PROVE  WatchInv'
  <1>1. /\ UNCHANGED <<online, pos, held, content, down, watched>>
        /\ p \notin online /\ seated' = seated \ {p} /\ MoveTo(p, Nowhere)
        /\ \A q \in Players : up'[q] = IF q = p THEN <<>> ELSE up[q]
    BY DEF OnDisconnection, clientVars, IdsInv, Typed, Queues
  <1>2. /\ Solvent' /\ unheard \subseteq unheard'
        /\ \A q \in Players, o \in Objects : Watches(q, o) /\ id[o] # 0 => Lasts(q, o)
    BY <1>1, MoveToWatch
  <1>3. ASSUME NEW q \in Players, NEW o \in Objects PROVE Asked(q, o)' /\ Answered(q, o)'
    <2> SUFFICES ASSUME Watches(q, o)'
                 PROVE  /\ AskedIn(up'[q], o, content'[q][o], held'[q][o])
                        /\ <<q, o>> \notin unheard' /\ ~AsksIn(up'[q], o) => WillSee(q, o)'
      BY DEF Asked, Answered
    <2>1. Watches(q, o) /\ q # p /\ up'[q] = up[q] /\ NotOf(o)' = NotOf(o)
      BY <1>1 DEF Watches, NotOf
    <2>2. AskedIn(up'[q], o, content'[q][o], held'[q][o])
      BY <1>1, <2>1 DEF WatchInv, Asked
    <2>3. ASSUME <<q, o>> \notin unheard', ~AsksIn(up'[q], o) PROVE WillSee(q, o)'
      <3>1. WillSee(q, o)
        BY <1>2, <2>1, <2>3 DEF WatchInv, Answered
      <3>2. id'[o] = id[o] /\ count'[o] = count[o] /\ (o \in overdrawn => o \in overdrawn')
        BY <1>2, <2>1, <2>3, <3>1 DEF WillSee, Lasts
      <3> QED BY <1>1, <2>1, <3>1, <3>2 DEF WillSee
    <2> QED BY <2>2, <2>3
  <1>4. Named'
    BY <1>1 DEF WatchInv, Named
  <1> QED BY <1>1, <1>2, <1>3, <1>4 DEF WatchInv
(* The answer to the last request for an object tells what its record says *)
(* from now on, and who reads it will see that.                            *)
LEMMA AssignWatch ==
  ASSUME IdsInv, IdsInv', WatchInv, NEW p \in Players, OnAssignObjectsRequest(p)
  PROVE  WatchInv'
  <1> DEFINE has == Head(up[p]).has
             new == {o \in DOMAIN has : id[o] = 0}
             as == [o \in DOMAIN has |-> [id |-> id'[o], first |-> o \in new, count |-> count'[o]]]
             n == Cardinality(new)
  <1>1. /\ up[p] # <<>> /\ Heard(p) /\ Head(up[p]).type = "Assign" /\ Head(up[p]) \in Requests
        /\ up[p] \in Seq(Requests) /\ \A q \in Players : down[q] \in Seq(Notices)
    BY HeardTypes DEF OnAssignObjectsRequest, IdsInv, Typed, Queues
  <1>2. DOMAIN has \subseteq Objects /\ \A o \in DOMAIN has : has[o] \in Nat
    <2>1. has \in Contents
      BY <1>1, MessageTypes
    <2> HIDE DEF has
    <2>2. DOMAIN has \subseteq Objects /\ has \in [DOMAIN has -> Nat]
      BY <2>1, ContentsAre
    <2> QED BY <2>2
  <1>3. /\ id' = [o \in Objects |-> IF o \in new THEN FreshIds(new)[o] ELSE id[o]]
        /\ count' = [o \in Objects |-> IF o \in new THEN has[o] ELSE count[o]]
        /\ down' = IF has # <<>> /\ p \in online THEN [down EXCEPT ![p] = Append(@, Assigned(as))]
                                                  ELSE down
        /\ unheard' = unheard \ ({p} \X DOMAIN has)
        /\ UNCHANGED <<seated, cell, clientVars, watched, overdrawn>>
    BY DEF OnAssignObjectsRequest
  <1>4. /\ \A q \in Players : \A k \in DOMAIN up'[q] :
             up'[q][k].type = "Change" => \E o \in Objects : up'[q][k].id \in held'[q][o]
        /\ \A q \in Players, o \in Objects :
             /\ Watches(q, o)' = Watches(q, o) /\ NotOf(o)' = NotOf(o) /\ Asked(q, o)'
             /\ AsksIn(up[q], o) => AsksIn(up'[q], o) \/ (q = p /\ Asks(Head(up[p]), o))
    BY <1>1, <1>3, Handled
  <1>5. \A o \in Objects : Asks(Head(up[p]), o) <=> o \in DOMAIN has
    BY <1>1 DEF Asks
  <1>6. \A o \in Objects : id[o] # 0 => id'[o] = id[o] /\ count'[o] = count[o]
    BY <1>3
  <1>7. \A o \in DOMAIN has : id'[o] \in Ids /\ count'[o] \in Int
    <2>1. IsFiniteSet(new)
      BY <1>2, FS_Subset, ObjectsAssumption
    <2>2. lastId \in Nat
      BY DEF IdsInv, Typed, Records, Ids
    <2> HIDE DEF has
    <2>3. n \in Nat /\ \A o \in new : FreshIds(new)[o] \in lastId + 1 .. lastId + n
      BY <2>1, <2>2, FreshOnes
    <2> HIDE DEF n
    <2>4. \A o \in DOMAIN has : id'[o] # 0
      <3>1. \A o \in new : FreshIds(new)[o] # 0
        BY <2>2, <2>3
      <3> QED BY <1>2, <1>3, <3>1
    <2>5. id' \in [Objects -> Ids \cup {0}] /\ count' \in [Objects -> Int]
      BY DEF IdsInv, Typed, Records
    <2> QED BY <1>2, <2>4, <2>5
  <1> HIDE DEF has
  <1>8. Assigned(as) \in Notices /\ Assigned(as).type = "Assigned" /\ Assigned(as).as = as
    <2>1. as \in [DOMAIN has -> Entry]
      BY <1>7 DEF Entry
    <2>2. as \in Answers
      BY <1>2, <2>1, AnswersAre
    <2> HIDE DEF as
    <2> QED BY <2>2, MessageTypes DEF Assigned
  <1>9. \A o \in Objects : o \in DOMAIN has =>
          /\ Tells(Assigned(as), o) /\ Assigned(as).as[o].id = id'[o]
          /\ Assigned(as).as[o].first = (o \in new) /\ Assigned(as).as[o].count = count'[o]
    BY <1>8 DEF Tells
  <1>10. \A o \in Objects : o \notin DOMAIN has => ~Tells(Assigned(as), o)
    BY <1>8 DEF Tells
  <1>11. Solvent'
    BY <1>2, <1>3 DEF WatchInv, Solvent
  <1> DEFINE a == Assigned(as)
  <1>12. \A q \in Players : \/ down'[q] = down[q]
                            \/ q = p /\ down'[q] = Append(down[q], a)
    <2> HIDE DEF as
    <2> QED BY <1>3 DEF IdsInv, Typed, Queues
  <1>13. \A o \in Objects : o \in DOMAIN has /\ p \in online => down'[p] = Append(down[p], a)
    <2> HIDE DEF as
    <2>1. has # <<>> \/ DOMAIN has = {}
      OBVIOUS
    <2> QED BY <1>3, <2>1 DEF IdsInv, Typed, Queues
  <1> HIDE DEF as
  <1>14. Named'
    <2>1. ASSUME NEW q \in Players, NEW k \in DOMAIN down'[q], down'[q][k].type = "Change"
          PROVE  k \in DOMAIN down[q] /\ down'[q][k] = down[q][k]
      <3>1. CASE down'[q] = down[q]
        BY <2>1, <3>1
      <3>2. CASE down'[q] = Append(down[q], a)
        BY <1>1, <1>8, <2>1, <3>2, Appended
      <3> QED BY <1>12, <3>1, <3>2
    <2>2. ASSUME NEW q \in Players, NEW k \in DOMAIN down'[q], down'[q][k].type = "Change"
          PROVE  \E r \in Players, o \in Objects : down'[q][k].id \in held'[r][o]
      <3>1. k \in DOMAIN down[q] /\ down'[q][k] = down[q][k] /\ held' = held
        BY <1>3, <2>1, <2>2 DEF clientVars
      <3> QED BY <2>2, <3>1 DEF WatchInv, Named
    <2> QED BY <1>4, <2>2 DEF Named
  <1>15. ASSUME NEW o \in Objects, o \in DOMAIN has, Watches(p, o), ~AsksIn(up'[p], o)
         PROVE  WillSee(p, o)'
    <2> DEFINE c == content[p][o]
               v == Taken(a, o, c)
    <2>1. down'[p] = Append(down[p], a) /\ c \in Nat
      BY <1>13, <1>15 DEF Watches, IdsInv, Typed, Records
    <2>2. Tells(a, o) /\ a.as[o].id = id'[o] /\ a.as[o].first = (o \in new) /\ a.as[o].count = count'[o]
      BY <1>9, <1>15
    <2>3. id'[o] # 0
      BY <1>7, <1>15 DEF Ids
    <2>4. o \in new => has[o] = c
      <3>1. AskedIn(up[p], o, c, held[p][o])
        BY <1>15 DEF WatchInv, Asked
      <3>2. ~\E k \in DOMAIN Tail(up[p]) : Asks(Tail(up[p])[k], o)
        BY <1>1, <1>15 DEF AsksIn, Heard, IdsInv, Typed, Queues
      <3>3. /\ Len(up[p]) \in Nat \ {0} /\ DOMAIN up[p] = 1..Len(up[p]) /\ Head(up[p]) = up[p][1]
            /\ DOMAIN Tail(up[p]) = 1..Len(up[p]) - 1
            /\ \A k \in 1..Len(up[p]) - 1 : Tail(up[p])[k] = up[p][k + 1]
        BY <1>1, TailIs
      <3>4. ASSUME NEW l \in DOMAIN up[p], l > 1 PROVE ~Asks(up[p][l], o)
        <4>1. l - 1 \in DOMAIN Tail(up[p]) /\ Tail(up[p])[l - 1] = up[p][l]
          BY <3>3, <3>4
        <4> QED BY <3>2, <4>1
      <3>5. 1 \in DOMAIN up[p] /\ Asks(up[p][1], o)
        BY <1>5, <1>15, <3>3
      <3>6. up[p][1].has[o] = c
        BY <3>1, <3>4, <3>5 DEF AskedIn
      <3> QED BY <3>3, <3>6 DEF has
    <2>5. /\ a.as[o].first => v = c
          /\ ~a.as[o].first => v = InGame(count'[o])
      BY <2>2 DEF Taken
    <2>6. v \in Nat
      BY <1>7, <1>15, <2>1, <2>5, InGameIs
    <2>7. o \in overdrawn' \/ v = count'[o]
      <3>1. CASE o \in new
        BY <1>3, <2>2, <2>4, <2>5, <3>1
      <3>2. CASE o \notin new
        BY <1>7, <1>11, <1>15, <2>2, <2>5, <3>2, InGameIs DEF Solvent
      <3> QED BY <3>1, <3>2
    <2> HIDE DEF v, c
    <2>8. \A ids, others : SeesIn(Append(down[p], a), o, id'[o], c, ids, others, v)
      <3>1. down[p] \in Seq(Notices) /\ a \in Notices /\ Taken(a, o, c) = v
        BY <1>1, <1>8 DEF v
      <3> HIDE DEF a
      <3> QED BY <2>2, <2>6, <3>1, SeesAnswer
    <2>9. content'[p][o] = c
      BY <1>3 DEF clientVars, c
    <2> QED BY <2>1, <2>3, <2>6, <2>7, <2>8, <2>9 DEF WillSee
  <1>16. ASSUME NEW q \in Players, NEW o \in Objects, q # p \/ o \notin DOMAIN has,
                Watches(q, o), WillSee(q, o)
         PROVE  WillSee(q, o)'
    <2> DEFINE c == content[q][o]
               ids == held[q][o]
               i == id[o]
    <2>1. PICK v \in Nat : SeesIn(down[q], o, i, c, ids, NotOf(o), v) /\ (o \in overdrawn \/ v = count[o])
      BY <1>16 DEF WillSee
    <2>2. i # 0 /\ id'[o] = i /\ count'[o] = count[o]
      BY <1>6, <1>16 DEF WillSee
    <2>3. content'[q][o] = c /\ held'[q][o] = ids /\ NotOf(o)' = NotOf(o) /\ overdrawn' = overdrawn
      BY <1>3, <1>4 DEF clientVars
    <2> HIDE DEF c, ids, i
    <2>4. SeesIn(down'[q], o, i, c, ids, NotOf(o), v)
      <3>1. CASE down'[q] = down[q]
        BY <2>1, <3>1
      <3>2. CASE q = p /\ down'[q] = Append(down[q], a)
        <4>1. ~Tells(a, o) /\ a.type # "Change"
          BY <1>8, <1>10, <1>16, <3>2
        <4>2. a \in Notices /\ down[q] \in Seq(Notices)
          BY <1>1, <1>8
        <4> HIDE DEF a
        <4>3. Reads(a, o, i, NotOf(o), v, v)
          BY <4>1 DEF Reads
        <4>4. SeesIn(Append(down[q], a), o, i, c, ids, NotOf(o), v)
          BY <2>1, <4>2, <4>3, SeesMore
        <4> QED BY <3>2, <4>4
      <3> QED BY <1>12, <3>1, <3>2
    <2> QED BY <2>1, <2>2, <2>3, <2>4 DEF WillSee
  <1>17. ASSUME NEW q \in Players, NEW o \in Objects PROVE Answered(q, o)'
    <2> SUFFICES ASSUME Watches(q, o), <<q, o>> \notin unheard', ~AsksIn(up'[q], o) PROVE WillSee(q, o)'
      BY <1>4 DEF Answered
    <2>1. CASE q = p /\ o \in DOMAIN has
      BY <1>15, <2>1
    <2>2. CASE ~(q = p /\ o \in DOMAIN has)
      <3>1. ~AsksIn(up[q], o) /\ <<q, o>> \notin unheard
        BY <1>3, <1>4, <1>5, <2>2
      <3>2. WillSee(q, o)
        BY <3>1 DEF WatchInv, Answered
      <3> QED BY <1>16, <2>2, <3>2
    <2> QED BY <2>1, <2>2
  <1> QED BY <1>3, <1>4, <1>11, <1>14, <1>17 DEF WatchInv, clientVars

(* A change is passed on to whoever stands by, or he counts as one who did *)
(* not hear of it.                                                         *)
LEMMA ChangesWatch ==
  ASSUME IdsInv, WatchInv, NEW p \in Players, NEW i \in Ids, NEW d \in {-1, 1}, OnInventoryChanges(p, i, d)
  PROVE  WatchInv'
  <1> DEFINE a == Change(i, d)
  <1>1. /\ up[p] # <<>> /\ Heard(p) /\ Head(up[p]) = a
        /\ UNCHANGED <<seated, cell, id, clientVars, watched>>
        /\ up[p] \in Seq(Requests) /\ \A q \in Players : down[q] \in Seq(Notices)
    BY DEF OnInventoryChanges, Hears, IdsInv, Typed, Queues
  <1>2. a \in Notices /\ a.type = "Change" /\ a.id = i /\ a.delta = d
    BY MessageTypes DEF Change
  <1>3. /\ \A q \in Players : \A k \in DOMAIN up'[q] :
             up'[q][k].type = "Change" => \E o \in Objects : up'[q][k].id \in held'[q][o]
        /\ \A q \in Players, o \in Objects :
             /\ Watches(q, o)' = Watches(q, o) /\ NotOf(o)' = NotOf(o) /\ Asked(q, o)'
             /\ AsksIn(up[q], o) => AsksIn(up'[q], o)
    <2>1. \A o : ~Asks(a, o)
      BY <1>2 DEF Asks
    <2> QED BY <1>1, <2>1, Handled
  <1>4. CASE UNCHANGED <<count, down, unheard, overdrawn>>
    <2>1. ASSUME NEW q \in Players, NEW o \in Objects PROVE Answered(q, o)'
      BY <1>1, <1>3, <1>4, AnsweredStays DEF WatchInv, clientVars
    <2> QED BY <1>1, <1>3, <1>4, <2>1 DEF WatchInv, Named, Solvent, clientVars
  <1>5. CASE ~UNCHANGED <<count, down, unheard, overdrawn>>
    <2>1. PICK u \in Objects :
            /\ id[u] = i
            /\ count' = [count EXCEPT ![u] = AfterChange(@, d)]
            /\ down' = [q \in Players |-> IF q \in Audience(p, u) THEN Append(down[q], a) ELSE down[q]]
            /\ unheard' = unheard \cup ({q \in Players \ {p} : ~InRange(Home[u], cell[q])} \X {u})
            /\ overdrawn' = IF count[u] + d < 0 THEN overdrawn \cup {u} ELSE overdrawn
      BY <1>5 DEF OnInventoryChanges
    <2>2. /\ count \in [Objects -> Int] /\ count'[u] = AfterChange(count[u], d)
          /\ \A o \in Objects : o # u => count'[o] = count[o]
          /\ overdrawn \subseteq overdrawn' /\ unheard \subseteq unheard'
      BY <2>1 DEF IdsInv, Typed, Records
    <2>3. count[u] + d >= 0 => AfterChange(count[u], d) = count[u] + d
      BY <2>2 DEF AfterChange
    <2>4. count[u] + d < 0 => u \in overdrawn'
      BY <2>1
    <2>5. Solvent'
      BY <2>2, <2>3, <2>4 DEF WatchInv, Solvent
    <2>6. i \in held[p][u]
      <3>1. up[p][1] = a /\ 1 \in DOMAIN up[p]
        BY <1>1, TailIs
      <3>2. PICK o \in Objects : i \in held[p][o]
        BY <1>2, <3>1 DEF WatchInv, Named
      <3> QED BY <2>1, <3>2, OneHolder
    <2>7. Named'
      <3>1. ASSUME NEW q \in Players, NEW k \in DOMAIN down'[q]
            PROVE  down'[q][k] = a \/ (k \in DOMAIN down[q] /\ down'[q][k] = down[q][k])
        <4>1. CASE down'[q] = down[q]
          BY <3>1, <4>1
        <4>2. CASE down'[q] = Append(down[q], a)
          <5> HIDE DEF a
          <5> QED BY <1>1, <1>2, <3>1, <4>2, Appended
        <4> QED BY <2>1, <4>1, <4>2
      <3> QED BY <1>1, <1>2, <1>3, <2>6, <3>1 DEF WatchInv, Named, clientVars
    <2> HIDE DEF a
    <2>8. ASSUME NEW q \in Players, NEW o \in Objects, o # u, WillSee(q, o) PROVE WillSee(q, o)'
      <3> DEFINE c == content[q][o]
                 ids == held[q][o]
                 x == id[o]
      <3>1. PICK v \in Nat : SeesIn(down[q], o, x, c, ids, NotOf(o), v) /\ (o \in overdrawn \/ v = count[o])
        BY <2>8 DEF WillSee
      <3>2. x # 0 /\ id'[o] = x /\ count'[o] = count[o] /\ (o \in overdrawn => o \in overdrawn')
        BY <1>1, <2>2, <2>8 DEF WillSee
      <3>3. content'[q][o] = c /\ held'[q][o] = ids /\ NotOf(o)' = NotOf(o)
        BY <1>1, <1>3 DEF clientVars
      <3>4. i \in NotOf(o)
        BY <2>6, <2>8 DEF NotOf
      <3> HIDE DEF c, ids, x
      <3>5. SeesIn(Append(down[q], a), o, x, c, ids, NotOf(o), v)
        <4>1. Reads(a, o, x, NotOf(o), v, v)
          BY <1>2, <3>4 DEF Reads, Tells
        <4> QED BY <1>1, <1>2, <3>1, <4>1, SeesMore
      <3>6. SeesIn(down'[q], o, x, c, ids, NotOf(o), v)
        BY <2>1, <3>1, <3>5
      <3> QED BY <3>1, <3>2, <3>3, <3>6 DEF WillSee
    <2>9. ASSUME NEW q \in Players, q # p, Watches(q, u), <<q, u>> \notin unheard', WillSee(q, u)
          PROVE  WillSee(q, u)'
      <3> DEFINE c == content[q][u]
                 ids == held[q][u]
      <3>1. PICK v \in Nat : SeesIn(down[q], u, i, c, ids, NotOf(u), v) /\ (u \in overdrawn \/ v = count[u])
        BY <2>1, <2>9 DEF WillSee
      <3>2. id[u] # 0 /\ id'[u] = i
        BY <1>1, <2>1, <2>9 DEF WillSee
      <3>3. content'[q][u] = c /\ held'[q][u] = ids /\ NotOf(u)' = NotOf(u)
        BY <1>1, <1>3 DEF clientVars
      <3>4. down'[q] = Append(down[q], a)
        <4>1. InRange(Home[u], cell[q])
          BY <2>1, <2>9
        <4>2. q \in Audience(p, u)
          BY <2>9, <4>1 DEF Audience, Watches, WatchInv
        <4> QED BY <2>1, <4>2
      <3> DEFINE w == InGame(v + d)
      <3>5. w \in Nat /\ (v + d >= 0 => w = v + d)
        BY InGameIs
      <3>6. u \in overdrawn' \/ w = count'[u]
        BY <2>2, <2>3, <2>4, <3>1, <3>5
      <3> HIDE DEF c, ids, w
      <3>7. SeesIn(Append(down[q], a), u, i, c, ids, NotOf(u), w)
        <4>1. Reads(a, u, i, NotOf(u), v, w)
          BY <1>2 DEF Reads, Tells, w
        <4> QED BY <1>1, <1>2, <3>1, <3>5, <4>1, SeesMore
      <3>8. SeesIn(down'[q], u, id'[u], content'[q][u], held'[q][u], NotOf(u)', w)
        BY <3>2, <3>3, <3>4, <3>7
      <3>9. id'[u] # 0
        BY <1>1, <3>2
      <3> QED BY <3>5, <3>6, <3>8, <3>9 DEF WillSee
    <2>10. Watches(p, u) => AsksIn(up[p], u)
      <3>1. up[p][1] = a /\ 1 \in DOMAIN up[p]
        BY <1>1, TailIs
      <3> QED BY <1>2, <2>6, <3>1 DEF WatchInv, Asked, AskedIn, AsksIn
    <2>11. ASSUME NEW q \in Players, NEW o \in Objects PROVE Answered(q, o)'
      <3> SUFFICES ASSUME Watches(q, o), <<q, o>> \notin unheard', ~AsksIn(up'[q], o) PROVE WillSee(q, o)'
        BY <1>3 DEF Answered
      <3>1. ~AsksIn(up[q], o) /\ <<q, o>> \notin unheard
        BY <1>3, <2>2
      <3>2. WillSee(q, o)
        BY <3>1 DEF WatchInv, Answered
      <3> QED BY <2>8, <2>9, <2>10, <3>1, <3>2
    <2> QED BY <1>1, <1>3, <2>5, <2>7, <2>11 DEF WatchInv, clientVars
  <1> QED BY <1>4, <1>5

-----------------------------------------------------------------------------

LEMMA InitWatch == Init => WatchInv
  <1> SUFFICES ASSUME Init PROVE WatchInv
    OBVIOUS
  <1>1. Named /\ Solvent /\ online \subseteq seated
    BY DEF Init, Named, Solvent
  <1>2. \A p \in Players, o \in Objects : ~Watches(p, o)
    BY DEF Init, Watches
  <1> QED BY <1>1, <1>2 DEF WatchInv, Asked, Answered

LEMMA NextWatch == IdsInv /\ IdsInv' /\ WatchInv /\ [Next]_vars => WatchInv'
  <1> SUFFICES ASSUME IdsInv, IdsInv', WatchInv, [Next]_vars PROVE WatchInv'
    OBVIOUS
  <1>1. CASE UNCHANGED vars
    <2>1. UNCHANGED <<seated, id, count, clientVars, up, down, watched, unheard, overdrawn>>
      BY <1>1 DEF vars, serverVars, history
    <2>2. ASSUME NEW p \in Players, NEW o \in Objects PROVE Asked(p, o)' /\ Answered(p, o)'
      <3>1. (Watches(p, o)' => Watches(p, o)) /\ NotOf(o) \subseteq NotOf(o)'
        BY <2>1 DEF Watches, NotOf, clientVars
      <3>2. Asked(p, o)'
        BY <2>1, <3>1, AskedStays DEF WatchInv, clientVars
      <3> QED BY <2>1, <3>1, <3>2, AnsweredStays DEF WatchInv, clientVars
    <2> QED BY <2>1, <2>2 DEF WatchInv, Named, Solvent, clientVars
  <1>2. CASE Next
    <2>1. PICK p \in Players :
            \/ Join(p) \/ Receive(p) \/ Leave(p)
            \/ \E x \in Places : Go(p, x)
            \/ \E o \in Objects, d \in {-1, 1} : Use(p, o, d)
            \/ Handle(p) \/ OnDisconnection(p)
      BY <1>2 DEF Next
    <2>2. CASE Handle(p)
      BY <2>2, ShiftWatch, ExteriorWatch, AssignWatch, ChangesWatch DEF Handle
    <2>3. CASE ~Handle(p)
      BY <2>1, <2>3, JoinWatch, ReceiveWatch, LeaveWatch, GoWatch, UseWatch, DisconnectionWatch
    <2> QED BY <2>2, <2>3
  <1> QED BY <1>1, <1>2

(* Whoever stands by an object, has not touched it and has read all there  *)
(* is, knows its record by the id it has and sees what it says, but where  *)
(* players took more than there was, or where something happened between   *)
(* his two messages about his cell.                                        *)
THEOREM TheWatchersAgree == Spec => []WatchersAgree
  <1>1. Init => IdsInv /\ WatchInv
    BY InitIds, InitWatch
  <1>2. IdsInv /\ WatchInv /\ [Next]_vars => IdsInv' /\ WatchInv'
    BY NextIds, NextWatch
  <1>3. IdsInv /\ WatchInv => WatchersAgree
    <2> SUFFICES ASSUME IdsInv, WatchInv, NEW p \in online, NEW o \in Objects,
                        Settled(p), pos[p] = Home[o], <<p, o>> \in watched \ unheard
                 PROVE  /\ id[o] # 0 /\ id[o] \in held[p][o]
                        /\ o \in overdrawn \/ content[p][o] = count[o]
      BY DEF WatchersAgree
    <2>1. p \in Players
      BY DEF IdsInv, Typed, Records
    <2>2. Watches(p, o) /\ ~AsksIn(up[p], o)
      BY DEF Watches, Settled, AsksIn
    <2>3. WillSee(p, o)
      BY <2>1, <2>2 DEF WatchInv, Answered
    <2>4. PICK v : /\ SeesIn(down[p], o, id[o], content[p][o], held[p][o], NotOf(o), v)
                   /\ o \in overdrawn \/ v = count[o]
      BY <2>3 DEF WillSee
    <2>5. down[p] = <<>> /\ Len(down[p]) = 0
      BY DEF Settled
    <2>6. id[o] \in held[p][o] /\ v = content[p][o]
      <3>1. PICK j, f : /\ SeesBy(down[p], o, id[o], content[p][o], held[p][o], NotOf(o), j, f)
                        /\ f[Len(down[p])] = v
        BY <2>4 DEF SeesIn
      <3>2. j = 0
        BY <2>5, <3>1 DEF SeesBy
      <3> QED BY <2>5, <3>1, <3>2 DEF SeesBy
    <2> QED BY <2>3, <2>4, <2>6 DEF WillSee
  <1> QED BY <1>1, <1>2, <1>3, PTL DEF Spec
=============================================================================
