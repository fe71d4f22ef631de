-------------------------- MODULE VisibilityProofs --------------------------
(* No client keeps the body of a character that is gone, and every client  *)
(* has a body for who stands in the cells it has loaded, for any players,  *)
(* cells, range and bounds.                                                *)
EXTENDS Visibility, FiniteSetTheorems, SequenceTheorems, TLAPS

(* Some notice from the i-th on takes away the body of q. *)
RemovedFrom(s, i, q) == \E j \in DOMAIN s : j >= i /\ s[j] = Removal(q)

(* A client with bodies for `known` that reads all of s has none for q: it  *)
(* reads a removal last, or has no body and is told of none.               *)
Clears(known, s, q) ==
  /\ q \in known => RemovedFrom(s, 1, q)
  /\ \A i \in DOMAIN s : s[i].who = q => RemovedFrom(s, i, q)

(* Characters of which v should have no body in the end. *)
Departed(v) == Players \ (characters \cup haunted \cup {v})

(* NoGhosts, for clients that still have notices to read. *)
GhostsGo ==
  \A v \in Players : \A q \in Departed(v) : Clears(knows[v], down[v], q)

(* Who is connected has a seat, and who is not knows nothing. *)
Seats ==
  \A v \in Players : IF phase[v] = "in" THEN v \in seated ELSE knows[v] = {} /\ down[v] = <<>>

GhostInv == TypeOK /\ IsFiniteSet(characters) /\ Seats /\ GhostsGo

-----------------------------------------------------------------------------
(* Sequences of notices.                                                   *)

LEMMA NoticeTypes ==
  /\ \A q \in Players : {Assigned(q), Spawn(q), Removal(q)} \subseteq Notice
  /\ \A q : Assigned(q).who = q /\ Spawn(q).who = q /\ Removal(q).who = q
  /\ \A q : Removal(q).type = "Remove"
  /\ \A m \in Notice : m.who \in Players /\ (m.type = "Remove" => m = Removal(m.who))
BY DEF Notice, Assigned, Spawn, Removal

LEMMA RequestTypes ==
  \A x \in Places : {Shift(x), Enter(x), Move(x), Assign(x)} \subseteq Request
BY DEF Request, Shift, Enter, Move, Assign

(* SetToSeq lists a finite set. *)
LEMMA Listed ==
  ASSUME NEW S, IsFiniteSet(S)
  PROVE  /\ SetToSeq(S) \in Seq(S)
         /\ \A x \in S : \E i \in DOMAIN SetToSeq(S) : SetToSeq(S)[i] = x
         /\ \A x : S = {x} => DOMAIN SetToSeq(S) = 1..1 /\ SetToSeq(S)[1] = x
<1> DEFINE n == Cardinality(S)
<1>1. n \in Nat /\ ExistsBijection(1..n, S)
  BY FS_CardinalityType
<1>2. PICK f \in [1..n -> S] : IsInjective(f)
  <2>1. PICK g : g \in Bijection(1..n, S)
    BY <1>1 DEF ExistsBijection
  <2>2. g \in [1..n -> S] /\ IsInjective(g)
    BY <2>1 DEF Bijection, Injection
  <2> QED
    BY <2>2
<1>3. SetToSeq(S) \in [1..n -> S] /\ IsInjective(SetToSeq(S))
  BY <1>2 DEF SetToSeq
<1>4. ASSUME NEW x, S = {x} PROVE n = 1
  BY <1>4, FS_Singleton
<1>5. SetToSeq(S) \in Surjection(1..n, S)
  <2>1. SetToSeq(S) \in Injection(1..n, S)
    BY <1>3 DEF Injection
  <2>2. Cardinality(1..n) = Cardinality(S)
    <3>1. Cardinality(1..n) = IF 1 > n THEN 0 ELSE n - 1 + 1
      BY <1>1, FS_Interval
    <3> QED
      BY <1>1, <3>1
  <2> QED
    BY <2>1, <2>2, FS_Injection
<1> HIDE DEF n
<1>6. SetToSeq(S) \in Seq(S)
  BY <1>1, <1>3
<1>7. ASSUME NEW x, S = {x} PROVE DOMAIN SetToSeq(S) = 1..1 /\ SetToSeq(S)[1] = x
  <2>1. n = 1
    BY <1>4, <1>7
  <2>2. 1 \in 1..n
    BY <2>1
  <2> QED
    BY <1>3, <1>7, <2>1, <2>2
<1>8. \A x \in S : \E i \in DOMAIN SetToSeq(S) : SetToSeq(S)[i] = x
  BY <1>3, <1>5 DEF Surjection
<1> QED
  BY <1>6, <1>7, <1>8

(* More notices do no harm if they do not bring q back ... *)
LEMMA ClearsMore ==
  ASSUME NEW known, NEW s \in Seq(Notice), NEW t \in Seq(Notice), NEW q,
         Clears(known, s, q), \A i \in DOMAIN t : t[i].who # q
  PROVE  Clears(known, s \o t, q)
<1> DEFINE u == s \o t
<1>1. /\ Len(s) \in Nat /\ Len(t) \in Nat /\ Len(u) = Len(s) + Len(t)
      /\ DOMAIN s = 1..Len(s) /\ DOMAIN t = 1..Len(t) /\ DOMAIN u = 1..Len(u)
      /\ \A i \in 1..Len(u) : u[i] = IF i <= Len(s) THEN s[i] ELSE t[i - Len(s)]
  OBVIOUS
<1> HIDE DEF u
<1>2. ASSUME NEW i, RemovedFrom(s, i, q) PROVE RemovedFrom(u, i, q)
  <2>1. PICK j \in DOMAIN s : j >= i /\ s[j] = Removal(q)
    BY <1>2 DEF RemovedFrom
  <2>2. j \in DOMAIN u /\ u[j] = Removal(q)
    BY <1>1, <2>1
  <2> QED
    BY <2>1, <2>2 DEF RemovedFrom
<1>3. ASSUME NEW i \in DOMAIN u, u[i].who = q PROVE RemovedFrom(u, i, q)
  <2>1. i \in DOMAIN s /\ s[i].who = q
    <3>1. CASE i <= Len(s)
      BY <1>1, <1>3, <3>1
    <3>2. CASE ~(i <= Len(s))
      <4>1. i - Len(s) \in DOMAIN t /\ u[i] = t[i - Len(s)]
        BY <1>1, <3>2
      <4> QED
        BY <1>3, <4>1
    <3> QED
      BY <3>1, <3>2
  <2>2. RemovedFrom(s, i, q)
    BY <2>1 DEF Clears
  <2> QED
    BY <1>2, <2>2
<1> QED
  BY <1>2, <1>3 DEF Clears, u

(* ... and a removal at the end clears whatever came before. *)
LEMMA ClearsRemoved ==
  ASSUME NEW known, NEW s \in Seq(Notice), NEW t \in Seq(Notice), NEW q,
         DOMAIN t = 1..1, t[1] = Removal(q)
  PROVE  Clears(known, s \o t, q)
<1> DEFINE u == s \o t
<1>1. /\ Len(s) \in Nat /\ Len(t) = 1 /\ Len(u) = Len(s) + 1
      /\ DOMAIN u = 1..Len(u) /\ u[Len(u)] = t[1]
  <2>1. Len(s) \in Nat /\ Len(t) \in Nat /\ DOMAIN t = 1..Len(t)
    BY LenProperties
  <2>2. Len(t) = 1
    <3>1. 1 \in 1..Len(t) /\ (2 \in 1..Len(t) => 2 \in 1..1)
      BY <2>1
    <3> QED
      BY <2>1, <3>1
  <2>3. /\ u \in Seq(Notice) /\ Len(u) = Len(s) + Len(t)
        /\ \A i \in 1..Len(s) + Len(t) : u[i] = IF i <= Len(s) THEN s[i] ELSE t[i - Len(s)]
    BY ConcatProperties
  <2>4. DOMAIN u = 1..Len(u)
    BY <2>3
  <2> HIDE DEF u
  <2>5. Len(u) \in 1..Len(s) + Len(t) /\ ~(Len(u) <= Len(s)) /\ Len(u) - Len(s) = 1
    BY <2>1, <2>2, <2>3
  <2> QED
    BY <2>1, <2>2, <2>3, <2>4, <2>5
<1> HIDE DEF u
<1>2. Len(u) \in DOMAIN u /\ \A i \in DOMAIN u \cup {1} : Len(u) >= i
  BY <1>1
<1> QED
  BY <1>1, <1>2 DEF Clears, RemovedFrom, u

(* Reading a notice. *)
LEMMA ClearsRead ==
  ASSUME NEW known, NEW s \in Seq(Notice), s # <<>>, NEW q, Clears(known, s, q),
         NEW p, q # p
  PROVE  Clears(Take(p, known, Head(s)), Tail(s), q)
<1> DEFINE m == Head(s)
           t == Tail(s)
<1>1. /\ Len(s) \in Nat \ {0} /\ Len(t) = Len(s) - 1 /\ m = s[1] /\ m \in Notice
      /\ DOMAIN s = 1..Len(s) /\ DOMAIN t = 1..Len(t)
      /\ \A i \in 1..Len(t) : t[i] = s[i + 1]
  OBVIOUS
<1> HIDE DEF m, t
<1>2. ASSUME NEW i \in Nat \ {0}, RemovedFrom(s, i + 1, q) PROVE RemovedFrom(t, i, q)
  <2>1. PICK j \in DOMAIN s : j >= i + 1 /\ s[j] = Removal(q)
    BY <1>2 DEF RemovedFrom
  <2>2. j - 1 \in DOMAIN t /\ j - 1 >= i /\ t[j - 1] = s[j]
    BY <1>1, <2>1
  <2> QED
    BY <2>1, <2>2 DEF RemovedFrom
<1>3. ASSUME q \in Take(p, known, m) PROVE RemovedFrom(t, 1, q)
  <2>1. ~(m = Removal(q)) /\ (q \in known \/ m.who = q)
    BY <1>3, NoticeTypes DEF Take
  <2>2. RemovedFrom(s, 1, q)
    BY <1>1, <2>1 DEF Clears
  <2>3. RemovedFrom(s, 1 + 1, q)
    BY <1>1, <2>1, <2>2 DEF RemovedFrom
  <2> QED
    BY <1>2, <2>3
<1>4. ASSUME NEW i \in DOMAIN t, t[i].who = q PROVE RemovedFrom(t, i, q)
  <2>1. i + 1 \in DOMAIN s /\ s[i + 1].who = q /\ i \in Nat \ {0}
    BY <1>1, <1>4
  <2>2. RemovedFrom(s, i + 1, q)
    BY <2>1 DEF Clears
  <2> QED
    BY <1>2, <2>1, <2>2
<1> QED
  BY <1>3, <1>4 DEF Clears, m, t

-----------------------------------------------------------------------------
(* What the steps have in common.                                          *)

LEMMA SendTypes ==
  ASSUME up \in [Players -> Seq(Request)], NEW p \in Players, NEW ms \in Seq(Request),
         Send(p, ms)
  PROVE  up' \in [Players -> Seq(Request)]
BY DEF Send

LEMMA HeardTypes ==
  ASSUME up \in [Players -> Seq(Request)], NEW p \in Players, up[p] # <<>>, Heard(p)
  PROVE  up' \in [Players -> Seq(Request)]
<1>1. Tail(up[p]) \in Seq(Request)
  OBVIOUS
<1> QED
  BY <1>1 DEF Heard

(* Notices that are posted about characters that exist after the step, or  *)
(* that the server will not take back, leave every other about to go.      *)
LEMMA Posted ==
  ASSUME TypeOK, Seats, GhostsGo, NEW notes \in [Players -> Seq(Notice)], Post(notes),
         UNCHANGED <<seated, phase, knows>>,
         characters \subseteq characters', haunted \subseteq haunted',
         \A v \in Players : \A i \in DOMAIN notes[v] :
           notes[v][i].who \in characters' \cup haunted'
  PROVE  down' \in [Players -> Seq(Notice)] /\ Seats' /\ GhostsGo'
<1>1. down \in [Players -> Seq(Notice)]
  BY DEF TypeOK
<1>2. \A v \in Players : down'[v] = IF v \in seated /\ phase[v] = "in" THEN down[v] \o notes[v]
                                                                    ELSE down[v]
  BY DEF Post
<1>3. down' \in [Players -> Seq(Notice)]
  <2>1. \A v \in Players : down[v] \o notes[v] \in Seq(Notice)
    BY <1>1, ConcatProperties
  <2> QED
    BY <1>1, <2>1 DEF Post
<1>4. ASSUME NEW v \in Players, NEW q \in Departed(v)'
      PROVE  Clears(knows'[v], down'[v], q)
  <2>1. Clears(knows[v], down[v], q)
    BY <1>4 DEF GhostsGo, Departed
  <2>2. down[v] \in Seq(Notice) /\ notes[v] \in Seq(Notice)
    BY <1>1
  <2>3. \A i \in DOMAIN notes[v] : notes[v][i].who # q
    BY <1>4 DEF Departed
  <2>4. Clears(knows[v], down[v] \o notes[v], q)
    BY <2>1, <2>2, <2>3, ClearsMore
  <2> QED
    BY <1>2, <2>1, <2>4
<1>5. Seats'
  BY <1>2 DEF Seats
<1> QED
  BY <1>3, <1>4, <1>5 DEF GhostsGo

(* A step that leaves alone what Seats and GhostsGo speak of. *)
LEMMA GhostsStay ==
  ASSUME Seats, GhostsGo, UNCHANGED <<seated, characters, phase, knows, down>>,
         haunted \subseteq haunted'
  PROVE  Seats' /\ GhostsGo'
BY DEF Seats, GhostsGo, Departed

(* Spawns of characters. *)
LEMMA SpawnTypes ==
  ASSUME NEW qs \in SUBSET Players, IsFiniteSet(qs)
  PROVE  /\ Spawns(qs) \in Seq(Notice)
         /\ \A i \in DOMAIN Spawns(qs) : Spawns(qs)[i].who \in qs /\ Spawns(qs)[i].type = "Spawn"
         /\ \A q \in qs : \E i \in DOMAIN Spawns(qs) : Spawns(qs)[i] = Spawn(q)
<1> DEFINE S == {Spawn(q) : q \in qs}
<1>1. IsFiniteSet(S)
  <2> DEFINE f == [q \in qs |-> Spawn(q)]
  <2>1. f \in Surjection(qs, S)
    BY DEF Surjection
  <2> QED
    BY <2>1, FS_Surjection
<1>2. SetToSeq(S) \in Seq(S)
  BY <1>1, Listed
<1>3. S \subseteq Notice /\ \A m \in S : m.who \in qs /\ m.type = "Spawn"
  BY NoticeTypes DEF Spawn
<1>4. \A q \in qs : Spawn(q) \in S
  OBVIOUS
<1> HIDE DEF S
<1>5. Seq(S) \subseteq Seq(Notice)
  BY <1>3
<1>6. \A i \in DOMAIN SetToSeq(S) : SetToSeq(S)[i] \in S
  BY <1>2
<1>7. \A m \in S : \E i \in DOMAIN SetToSeq(S) : SetToSeq(S)[i] = m
  BY <1>1, Listed
<1> QED
  BY <1>2, <1>3, <1>4, <1>5, <1>6, <1>7 DEF Spawns, S

(* Notices about one character. *)
LEMMA CrossingTypes ==
  ASSUME NEW p \in Players, NEW x
  PROVE  /\ CrossingNotes(p, x) \in [Players -> Seq(Notice)]
         /\ \A v \in Players : \A i \in DOMAIN CrossingNotes(p, x)[v] :
              CrossingNotes(p, x)[v][i].who = p
<1>1. Spawn(p) \in Notice /\ Removal(p) \in Notice /\ Spawn(p).who = p /\ Removal(p).who = p
  BY NoticeTypes
<1>2. <<>> \in Seq(Notice) /\ <<Spawn(p)>> \in Seq(Notice) /\ <<Removal(p)>> \in Seq(Notice)
  BY <1>1
<1>3. \A v \in Players : CrossingNotes(p, x)[v] \in {<<>>, <<Spawn(p)>>, <<Removal(p)>>}
  BY DEF CrossingNotes
<1>4. CrossingNotes(p, x) \in [Players -> Seq(Notice)]
  BY <1>2 DEF CrossingNotes
<1>5. ASSUME NEW s \in {<<>>, <<Spawn(p)>>, <<Removal(p)>>}, NEW i \in DOMAIN s PROVE s[i].who = p
  BY <1>1, <1>5
<1> QED
  BY <1>3, <1>4, <1>5

-----------------------------------------------------------------------------
(* The steps of a client.                                                  *)

LEMMA JoinKeeps ==
  ASSUME GhostInv, NEW p \in Players, Join(p)
  PROVE  GhostInv'
<1>1. /\ TypeOK /\ Seats /\ GhostsGo
      /\ UNCHANGED <<characters, knows, down>>
  BY DEF GhostInv, Join
<1>2. up' \in [Players -> Seq(Request)]
  <2>1. pos[p] \in Places /\ centre[p] \in Places
    BY <1>1 DEF TypeOK
  <2> DEFINE shift == IF centre[p] \in Exterior THEN <<Shift(centre[p])>> ELSE <<>>
             visit == shift \o <<Enter(pos[p])>>
  <2>2. shift \in Seq(Request) /\ <<Enter(pos[p])>> \in Seq(Request)
        /\ <<Assign(pos[p])>> \in Seq(Request)
    BY <2>1, RequestTypes
  <2>3. visit \in Seq(Request)
    BY <2>2, ConcatProperties
  <2>4. up' = [up EXCEPT ![p] = visit] \/ up' = [up EXCEPT ![p] = <<Assign(pos[p])>> \o visit]
    BY DEF Join
  <2> HIDE DEF visit
  <2>5. <<Assign(pos[p])>> \o visit \in Seq(Request)
    BY <2>2, <2>3, ConcatProperties
  <2> QED
    BY <1>1, <2>3, <2>4, <2>5 DEF TypeOK
<1>3. TypeOK'
  BY <1>1, <1>2 DEF TypeOK, Join, history
<1>4. Seats' /\ GhostsGo'
  BY <1>1 DEF Seats, GhostsGo, Departed, Join, TypeOK, history
<1> QED
  BY <1>1, <1>3, <1>4 DEF GhostInv

LEMMA IntroduceKeeps ==
  ASSUME GhostInv, NEW p \in Players, Introduce(p)
  PROVE  GhostInv'
<1>1. <<Assign(pos[p])>> \in Seq(Request)
  BY RequestTypes DEF GhostInv, TypeOK
<1>2. up' \in [Players -> Seq(Request)]
  BY <1>1, SendTypes DEF GhostInv, TypeOK, Introduce
<1>3. TypeOK'
  BY <1>2 DEF GhostInv, TypeOK, Introduce, serverVars, history
<1>4. Seats' /\ GhostsGo'
  BY GhostsStay DEF GhostInv, Introduce, serverVars, history
<1> QED
  BY <1>3, <1>4 DEF GhostInv, Introduce, serverVars

LEMMA CrossingRequests ==
  ASSUME NEW x \in Places, NEW shifts
  PROVE  Crossing(x, shifts) \in Seq(Request)
<1>1. <<Shift(x)>> \in Seq(Request) /\ <<Enter(x)>> \in Seq(Request) /\ <<>> \in Seq(Request)
  BY RequestTypes
<1> QED
  BY <1>1, ConcatProperties DEF Crossing

LEMMA GoKeeps ==
  ASSUME GhostInv, NEW p \in Players, NEW x \in Places, Go(p, x)
  PROVE  GhostInv'
<1>1. up' \in [Players -> Seq(Request)]
  <2>1. Crossing(x, x # centre[p]) \in Seq(Request) /\ Crossing(x, FALSE) \in Seq(Request)
    BY CrossingRequests
  <2> QED
    BY <2>1, SendTypes DEF GhostInv, TypeOK, Go
<1>2. pos' \in [Players -> Places] /\ centre' \in [Players -> Places] /\ trips' \in 0..MaxTrips
  <2>1. trips \in 0..MaxTrips /\ trips > 0 /\ trips' = trips - 1 /\ MaxTrips \in Nat
    BY VisibilityAssumption DEF GhostInv, TypeOK, Go
  <2>2. trips' \in 0..MaxTrips
    BY <2>1
  <2> QED
    BY <2>2 DEF GhostInv, TypeOK, Go
<1>3. TypeOK'
  BY <1>1, <1>2 DEF GhostInv, TypeOK, Go, serverVars, history
<1>4. Seats' /\ GhostsGo'
  BY GhostsStay DEF GhostInv, Go, serverVars, history
<1> QED
  BY <1>3, <1>4 DEF GhostInv, Go, serverVars

LEMMA RecentreKeeps ==
  ASSUME GhostInv, NEW p \in Players, Recentre(p)
  PROVE  GhostInv'
<1>1. <<Shift(pos[p])>> \in Seq(Request) /\ pos[p] \in Places
  BY RequestTypes DEF GhostInv, TypeOK
<1>2. up' \in [Players -> Seq(Request)]
  BY <1>1, SendTypes DEF GhostInv, TypeOK, Recentre
<1>3. TypeOK'
  BY <1>1, <1>2 DEF GhostInv, TypeOK, Recentre, serverVars, history
<1>4. Seats' /\ GhostsGo'
  BY GhostsStay DEF GhostInv, Recentre, serverVars, history
<1> QED
  BY <1>3, <1>4 DEF GhostInv, Recentre, serverVars

LEMMA ReportKeeps ==
  ASSUME GhostInv, NEW p \in Players, Report(p)
  PROVE  GhostInv'
<1>1. <<Move(pos[p])>> \in Seq(Request) /\ pos[p] \in Places
  BY RequestTypes DEF GhostInv, TypeOK
<1>2. up' \in [Players -> Seq(Request)]
  BY <1>1, SendTypes DEF GhostInv, TypeOK, Report
<1>3. TypeOK'
  BY <1>1, <1>2 DEF GhostInv, TypeOK, Report, serverVars, history
<1>4. Seats' /\ GhostsGo'
  BY GhostsStay DEF GhostInv, Report, serverVars, history
<1> QED
  BY <1>3, <1>4 DEF GhostInv, Report, serverVars

LEMMA ReceiveKeeps ==
  ASSUME GhostInv, NEW p \in Players, Receive(p)
  PROVE  GhostInv'
<1>1. TypeOK /\ Seats /\ GhostsGo
  BY DEF GhostInv
<1>2. /\ down[p] \in Seq(Notice) /\ down[p] # <<>> /\ phase[p] = "in"
      /\ UNCHANGED <<characters, haunted, seated, phase>>
  BY <1>1 DEF TypeOK, Receive, serverVars, history
<1>3. Head(down[p]) \in Notice /\ Tail(down[p]) \in Seq(Notice)
  BY <1>2
<1>4. Take(p, knows[p], Head(down[p])) \in SUBSET Players
  BY <1>1, <1>3, NoticeTypes DEF TypeOK, Take
<1>5. /\ knows' = [knows EXCEPT ![p] = Take(p, knows[p], Head(down[p]))]
      /\ down' = [down EXCEPT ![p] = Tail(down[p])]
  BY DEF Receive
<1>6. TypeOK'
  BY <1>1, <1>3, <1>4, <1>5 DEF TypeOK, Receive, serverVars, history
<1>7. ASSUME NEW v \in Players, NEW q \in Departed(v)'
      PROVE  Clears(knows'[v], down'[v], q)
  <2>1. Clears(knows[v], down[v], q) /\ q # v
    BY <1>1, <1>2, <1>7 DEF GhostsGo, Departed
  <2>2. CASE v = p
    <3>1. Clears(Take(p, knows[p], Head(down[p])), Tail(down[p]), q)
      BY <1>2, <2>1, <2>2, ClearsRead
    <3> QED
      BY <1>1, <1>5, <2>2, <3>1 DEF TypeOK
  <2>3. CASE v # p
    BY <1>1, <1>5, <2>1, <2>3 DEF TypeOK
  <2> QED
    BY <2>2, <2>3
<1>8. Seats'
  BY <1>1, <1>2, <1>5 DEF Seats, TypeOK
<1> QED
  BY <1>2, <1>6, <1>7, <1>8 DEF GhostInv, GhostsGo

LEMMA LeaveKeeps ==
  ASSUME GhostInv, NEW p \in Players, Leave(p)
  PROVE  GhostInv'
<1>1. TypeOK /\ Seats /\ GhostsGo
  BY DEF GhostInv
<1>2. /\ \A v \in Players : knows'[v] = IF v = p THEN {} ELSE knows[v]
      /\ \A v \in Players : down'[v] = IF v = p THEN <<>> ELSE down[v]
      /\ \A v \in Players : phase'[v] = IF v = p THEN "gone" ELSE phase[v]
      /\ UNCHANGED <<characters, haunted, seated>>
  BY <1>1 DEF TypeOK, Leave, serverVars, history
<1>3. TypeOK'
  BY <1>1 DEF TypeOK, Leave, serverVars, history
<1>4. Seats'
  BY <1>1, <1>2 DEF Seats
<1>5. \A q : Clears({}, <<>>, q)
  BY DEF Clears
<1>6. GhostsGo'
  BY <1>1, <1>2, <1>5 DEF GhostsGo, Departed
<1> QED
  BY <1>2, <1>3, <1>4, <1>6 DEF GhostInv

-----------------------------------------------------------------------------
(* The steps of the server.                                                *)

LEMMA JudgedTypes ==
  ASSUME TypeOK, NEW A, NEW B, Judged(A, B),
         A \subseteq Players \X Players, B \subseteq Players \X Players
  PROVE  missed' \subseteq Players \X Players
BY DEF Judged, TypeOK

LEMMA ShiftKeeps ==
  ASSUME GhostInv, NEW p \in Players, NEW x \in Places, HandleGridCellShift(p, x)
  PROVE  GhostInv'
<1> DEFINE others == characters \ {p}
           shown == {q \in others : InRange(x, at[q])}
           late == {q \in others : InRange(x, cell[q])}
           notes == [v \in Players |-> IF v = p THEN Spawns(shown) ELSE <<>>]
<1>1. TypeOK /\ Seats /\ GhostsGo /\ IsFiniteSet(characters)
      /\ UNCHANGED <<seated, characters, haunted, phase, knows>>
  BY DEF GhostInv, HandleGridCellShift, clientVars
<1>2. shown \in SUBSET Players /\ shown \subseteq characters /\ IsFiniteSet(shown)
  BY <1>1, FS_Subset DEF TypeOK
<1>3. Post(notes) /\ Judged({p} \X shown, {p} \X late)
  BY DEF HandleGridCellShift
<1>4. late \in SUBSET Players
  BY <1>1 DEF TypeOK
<1> HIDE DEF shown, late
<1>5. /\ notes \in [Players -> Seq(Notice)]
      /\ \A v \in Players : \A i \in DOMAIN notes[v] : notes[v][i].who \in characters'
  <2>1. Spawns(shown) \in Seq(Notice) /\ \A i \in DOMAIN Spawns(shown) : Spawns(shown)[i].who \in characters'
    BY <1>1, <1>2, SpawnTypes
  <2> QED
    BY <2>1
<1> HIDE DEF notes
<1>6. down' \in [Players -> Seq(Notice)] /\ Seats' /\ GhostsGo'
  BY <1>1, <1>3, <1>5, Posted
<1>7. up' \in [Players -> Seq(Request)]
  BY <1>1, HeardTypes DEF TypeOK, HandleGridCellShift, Hears
<1>8. missed' \subseteq Players \X Players
  <2>1. {p} \X shown \subseteq Players \X Players /\ {p} \X late \subseteq Players \X Players
    BY <1>2, <1>4
  <2> QED
    BY <1>1, <1>3, <2>1, JudgedTypes
<1>9. TypeOK'
  BY <1>1, <1>6, <1>7, <1>8 DEF TypeOK, HandleGridCellShift, clientVars
<1> QED
  BY <1>1, <1>6, <1>9 DEF GhostInv

LEMMA ExteriorKeeps ==
  ASSUME GhostInv, NEW p \in Players, NEW x \in Places, HandleExteriorCellEnter(p, x)
  PROVE  GhostInv'
<1>1. TypeOK /\ Seats /\ GhostsGo /\ IsFiniteSet(characters)
      /\ UNCHANGED <<seated, characters, phase, knows>> /\ haunted \subseteq haunted'
      /\ zero \in Players \cup {Nobody}
  BY DEF GhostInv, TypeOK, HandleExteriorCellEnter, clientVars
<1>2. down' \in [Players -> Seq(Notice)] /\ Seats' /\ GhostsGo'
      /\ missed' \subseteq Players \X Players /\ haunted' \subseteq Players
  <2>1. CASE UNCHANGED <<down, missed, haunted>>
    BY <1>1, <2>1, GhostsStay DEF TypeOK
  <2>2. CASE /\ Post(CrossingNotes(p, x))
             /\ Judged(Beside(p, x) \X {p}, Overlooking(p, x) \X {p})
             /\ haunted' = haunted \cup ({p} \ characters)
    <3>1. Beside(p, x) \subseteq Players /\ Overlooking(p, x) \subseteq Players
      BY <1>1 DEF TypeOK, Beside, Overlooking, Others
    <3>2. missed' \subseteq Players \X Players
      <4>1. /\ Beside(p, x) \X {p} \subseteq Players \X Players
            /\ Overlooking(p, x) \X {p} \subseteq Players \X Players
        BY <3>1
      <4> QED
        BY <1>1, <2>2, <4>1, JudgedTypes
    <3>3. /\ CrossingNotes(p, x) \in [Players -> Seq(Notice)]
          /\ \A v \in Players : \A i \in DOMAIN CrossingNotes(p, x)[v] :
               CrossingNotes(p, x)[v][i].who \in characters' \cup haunted'
      BY <1>1, <2>2, CrossingTypes
    <3>4. down' \in [Players -> Seq(Notice)] /\ Seats' /\ GhostsGo'
      BY <1>1, <2>2, <3>3, Posted
    <3> QED
      BY <1>1, <2>2, <3>2, <3>4 DEF TypeOK
  <2> QED
    BY <2>1, <2>2 DEF HandleExteriorCellEnter
<1>3. up' \in [Players -> Seq(Request)]
  BY <1>1, HeardTypes DEF TypeOK, HandleExteriorCellEnter, Hears
<1>4. cell' \in [Players -> Places \cup {Nowhere}]
  BY <1>1 DEF TypeOK, HandleExteriorCellEnter
<1>5. TypeOK'
  BY <1>1, <1>2, <1>3, <1>4 DEF TypeOK, HandleExteriorCellEnter, clientVars
<1> QED
  BY <1>1, <1>2, <1>5 DEF GhostInv

LEMMA InteriorKeeps ==
  ASSUME GhostInv, NEW p \in Players, NEW x \in Places, HandleInteriorCellEnter(p, x)
  PROVE  GhostInv'
<1> DEFINE others == characters \ {p}
           shown == {q \in others : at[q] = x}
           late == {q \in others : cell[q] = x}
           told == IF p \in characters THEN Beside(p, x) \X {p} ELSE {}
           notes == [v \in Players |-> IF v = p THEN Spawns(shown)
                                       ELSE IF p \in characters THEN CrossingNotes(p, x)[v] ELSE <<>>]
<1>1. TypeOK /\ Seats /\ GhostsGo /\ IsFiniteSet(characters)
      /\ UNCHANGED <<seated, characters, haunted, phase, knows>>
  BY DEF GhostInv, HandleInteriorCellEnter, clientVars
<1>2. shown \in SUBSET Players /\ shown \subseteq characters /\ IsFiniteSet(shown)
  BY <1>1, FS_Subset DEF TypeOK
<1>3. Post(notes) /\ Judged(told \cup ({p} \X shown), {p} \X late)
  BY DEF HandleInteriorCellEnter
<1>4. late \in SUBSET Players /\ told \in SUBSET (Players \X Players)
  BY <1>1 DEF TypeOK, Beside, Others
<1> HIDE DEF shown, late, told
<1>5. /\ notes \in [Players -> Seq(Notice)]
      /\ \A v \in Players : \A i \in DOMAIN notes[v] : notes[v][i].who \in characters'
  <2>1. Spawns(shown) \in Seq(Notice) /\ \A i \in DOMAIN Spawns(shown) : Spawns(shown)[i].who \in characters'
    BY <1>1, <1>2, SpawnTypes
  <2>2. /\ CrossingNotes(p, x) \in [Players -> Seq(Notice)]
        /\ p \in characters => \A v \in Players : \A i \in DOMAIN CrossingNotes(p, x)[v] :
             CrossingNotes(p, x)[v][i].who \in characters'
    BY <1>1, CrossingTypes
  <2> QED
    BY <2>1, <2>2
<1> HIDE DEF notes
<1>6. down' \in [Players -> Seq(Notice)] /\ Seats' /\ GhostsGo'
  BY <1>1, <1>3, <1>5, Posted
<1>7. up' \in [Players -> Seq(Request)]
  BY <1>1, HeardTypes DEF TypeOK, HandleInteriorCellEnter, Hears
<1>8. missed' \subseteq Players \X Players
  <2>1. /\ told \cup ({p} \X shown) \subseteq Players \X Players
        /\ {p} \X late \subseteq Players \X Players
    BY <1>2, <1>4
  <2> QED
    BY <1>1, <1>3, <2>1, JudgedTypes
<1>9. TypeOK'
  BY <1>1, <1>6, <1>7, <1>8 DEF TypeOK, HandleInteriorCellEnter, clientVars
<1> QED
  BY <1>1, <1>6, <1>9 DEF GhostInv

LEMMA MoveKeeps ==
  ASSUME GhostInv, NEW p \in Players, NEW x \in Places, OnReferencesMoveRequest(p, x)
  PROVE  GhostInv'
<1>1. up' \in [Players -> Seq(Request)]
  BY HeardTypes DEF GhostInv, TypeOK, OnReferencesMoveRequest, Hears
<1>2. TypeOK'
  BY <1>1 DEF GhostInv, TypeOK, OnReferencesMoveRequest, clientVars, history
<1>3. Seats' /\ GhostsGo'
  BY GhostsStay DEF GhostInv, OnReferencesMoveRequest, clientVars, history
<1> QED
  BY <1>2, <1>3 DEF GhostInv, OnReferencesMoveRequest

LEMMA AssignKeeps ==
  ASSUME GhostInv, NEW p \in Players, NEW x \in Places, OnAssignCharacterRequest(p, x)
  PROVE  GhostInv'
<1> DEFINE notes == [v \in Players |-> IF v = p THEN <<Assigned(p)>>
                                       ELSE IF InRange(x, cell[v]) THEN <<Spawn(p)>> ELSE <<>>]
<1>1. TypeOK /\ Seats /\ GhostsGo /\ IsFiniteSet(characters)
      /\ UNCHANGED <<seated, phase, knows, haunted>> /\ characters' = characters \cup {p}
  BY DEF GhostInv, OnAssignCharacterRequest, clientVars
<1>2. /\ notes \in [Players -> Seq(Notice)]
      /\ \A v \in Players : \A i \in DOMAIN notes[v] : notes[v][i].who \in characters'
  <2>1. {Assigned(p), Spawn(p)} \subseteq Notice /\ Assigned(p).who = p /\ Spawn(p).who = p
    BY NoticeTypes
  <2>2. ASSUME NEW s \in {<<Assigned(p)>>, <<Spawn(p)>>, <<>>}
        PROVE  s \in Seq(Notice) /\ \A i \in DOMAIN s : s[i].who \in characters'
    <3>1. CASE s = <<>>
      BY <3>1
    <3>2. CASE \E m \in {Assigned(p), Spawn(p)} : s = <<m>>
      <4>1. PICK m \in {Assigned(p), Spawn(p)} : s = <<m>>
        BY <3>2
      <4>2. m \in Notice /\ m.who = p
        BY <2>1
      <4> QED
        BY <1>1, <4>1, <4>2
    <3> QED
      BY <2>2, <3>1, <3>2
  <2>3. \A v \in Players : notes[v] \in {<<Assigned(p)>>, <<Spawn(p)>>, <<>>}
    OBVIOUS
  <2> QED
    BY <2>2, <2>3
<1>3. Post(notes) /\ Judged(Beside(p, x) \X {p}, Overlooking(p, x) \X {p})
  BY DEF OnAssignCharacterRequest
<1> HIDE DEF notes
<1>4. down' \in [Players -> Seq(Notice)] /\ Seats' /\ GhostsGo'
  BY <1>1, <1>2, <1>3, Posted
<1>5. up' \in [Players -> Seq(Request)]
  BY <1>1, HeardTypes DEF TypeOK, OnAssignCharacterRequest, Hears
<1>6. missed' \subseteq Players \X Players
  <2>1. Beside(p, x) \subseteq Players /\ Overlooking(p, x) \subseteq Players
    BY <1>1 DEF TypeOK, Beside, Overlooking, Others
  <2>2. /\ Beside(p, x) \X {p} \subseteq Players \X Players
        /\ Overlooking(p, x) \X {p} \subseteq Players \X Players
    BY <2>1
  <2> QED
    BY <1>1, <1>3, <2>2, JudgedTypes
<1>7. zero' \in Players \cup {Nobody}
  BY <1>1 DEF TypeOK, OnAssignCharacterRequest
<1>8. TypeOK'
  BY <1>1, <1>4, <1>5, <1>6, <1>7 DEF TypeOK, OnAssignCharacterRequest, clientVars
<1>9. IsFiniteSet(characters')
  BY <1>1, FS_AddElement
<1> QED
  BY <1>4, <1>8, <1>9 DEF GhostInv

(* Whoever leaves, the one character that goes is announced to everybody   *)
(* who can still have a body for it.                                       *)
LEMMA DisconnectionKeeps ==
  ASSUME GhostInv, NEW p \in Players, OnDisconnection(p)
  PROVE  GhostInv'
<1> DEFINE doomed == Doomed(p)
           list == SetToSeq({Removal(q) : q \in doomed})
<1>1. TypeOK /\ Seats /\ GhostsGo /\ IsFiniteSet(characters)
      /\ UNCHANGED <<phase, knows, haunted>> /\ characters' = characters \ doomed
      /\ seated' = seated \ {p} /\ phase[p] = "gone"
  BY DEF GhostInv, OnDisconnection, clientVars
<1>2. \A v \in Players : down'[v] = IF v \in seated /\ phase[v] = "in" THEN down[v] \o list
                                                                    ELSE down[v]
  BY DEF OnDisconnection, Post
<1>3. doomed = {} \/ \E o \in Players : doomed = {o}
  BY <1>1 DEF Doomed, TypeOK
<1>4. /\ list \in Seq(Notice) /\ (doomed = {} => list = <<>>)
      /\ \A o \in doomed : DOMAIN list = 1..1 /\ list[1] = Removal(o)
  <2>1. CASE doomed = {}
    <3>1. {Removal(q) : q \in doomed} = {}
      BY <2>1
    <3>2. list \in Seq({})
      BY <3>1, Listed, FS_EmptySet
    <3>3. list = <<>>
      BY <3>2
    <3> QED
      BY <2>1, <3>3
  <2>2. CASE \E o \in Players : doomed = {o}
    <3>1. PICK o \in Players : doomed = {o}
      BY <2>2
    <3>2. {Removal(q) : q \in doomed} = {Removal(o)}
      BY <3>1
    <3>3. IsFiniteSet({Removal(o)}) /\ Removal(o) \in Notice
      BY FS_Singleton, NoticeTypes
    <3>4. list \in Seq({Removal(o)}) /\ DOMAIN list = 1..1 /\ list[1] = Removal(o)
      BY <3>2, <3>3, Listed
    <3> QED
      BY <3>1, <3>3, <3>4
  <2> QED
    BY <1>3, <2>1, <2>2
<1> HIDE DEF doomed, list
<1>5. \A v \in Players : down[v] \in Seq(Notice)
  BY <1>1 DEF TypeOK
<1>6. down' \in [Players -> Seq(Notice)]
  <2>1. DOMAIN down' = Players /\ down' = [v \in Players |-> down'[v]]
    BY DEF OnDisconnection, Post
  <2>2. \A v \in Players : down'[v] \in Seq(Notice)
    BY <1>2, <1>4, <1>5, ConcatProperties
  <2> QED
    BY <2>1, <2>2
<1>7. ASSUME NEW v \in Players, NEW q \in Departed(v)'
      PROVE  Clears(knows'[v], down'[v], q)
  <2>1. CASE phase[v] # "in"
    <3>1. knows'[v] = {} /\ down'[v] = <<>>
      BY <1>1, <1>2, <2>1 DEF Seats
    <3> QED
      BY <3>1 DEF Clears
  <2>2. CASE phase[v] = "in" /\ q \in doomed
    <3>1. down'[v] = down[v] \o list
      BY <1>1, <1>2, <2>2 DEF Seats
    <3> QED
      BY <1>4, <1>5, <2>2, <3>1, ClearsRemoved
  <2>3. CASE phase[v] = "in" /\ q \notin doomed
    <3>1. Clears(knows[v], down[v], q)
      BY <1>1, <1>7, <2>3 DEF GhostsGo, Departed
    <3>2. \A i \in DOMAIN list : list[i].who # q
      <4> SUFFICES ASSUME NEW i \in DOMAIN list PROVE list[i].who # q
        OBVIOUS
      <4>1. PICK o \in Players : doomed = {o}
        <5>1. CASE doomed = {}
          BY <1>4, <5>1
        <5> QED
          BY <1>3, <5>1
      <4> QED
        BY <1>4, <2>3, <4>1, NoticeTypes
    <3>4. Clears(knows[v], down[v] \o list, q)
      BY <1>4, <1>5, <3>1, <3>2, ClearsMore
    <3> QED
      BY <1>1, <1>2, <2>3, <3>4 DEF Seats
  <2> QED
    BY <2>1, <2>2, <2>3
<1>8. Seats'
  BY <1>1, <1>2 DEF Seats
<1>9. missed' \subseteq Players \X Players
  BY <1>1 DEF TypeOK, OnDisconnection
<1>10. TypeOK'
  BY <1>1, <1>6, <1>9 DEF TypeOK, OnDisconnection, clientVars
<1>11. IsFiniteSet(characters')
  BY <1>1, FS_Subset
<1> QED
  BY <1>1, <1>7, <1>8, <1>10, <1>11 DEF GhostInv, GhostsGo

-----------------------------------------------------------------------------

LEMMA InitGhost == Init => GhostInv
<1> SUFFICES ASSUME Init PROVE GhostInv
  OBVIOUS
<1>1. TypeOK
  BY VisibilityAssumption DEF Init, TypeOK
<1>2. IsFiniteSet(characters)
  BY FS_EmptySet DEF Init
<1>3. Seats /\ GhostsGo
  BY DEF Init, Seats, GhostsGo, Clears
<1> QED
  BY <1>1, <1>2, <1>3 DEF GhostInv

LEMMA NextGhost == GhostInv /\ [Next]_vars => GhostInv'
<1> SUFFICES ASSUME GhostInv, [Next]_vars PROVE GhostInv'
  OBVIOUS
<1>1. CASE UNCHANGED vars
  BY <1>1 DEF GhostInv, TypeOK, Seats, GhostsGo, Departed, vars, serverVars, clientVars, history
<1>2. ASSUME NEW p \in Players,
             Join(p) \/ Introduce(p) \/ Recentre(p) \/ Report(p) \/ Receive(p) \/ Leave(p)
      PROVE  GhostInv'
  BY <1>2, JoinKeeps, IntroduceKeeps, RecentreKeeps, ReportKeeps, ReceiveKeeps, LeaveKeeps
<1>3. ASSUME NEW p \in Players, NEW x \in Places, Go(p, x) PROVE GhostInv'
  BY <1>3, GoKeeps
<1>4. ASSUME NEW p \in Players, Handle(p) PROVE GhostInv'
  BY <1>4, ShiftKeeps, ExteriorKeeps, InteriorKeeps, MoveKeeps, AssignKeeps DEF Handle
<1>5. ASSUME NEW p \in Players, OnDisconnection(p) PROVE GhostInv'
  BY <1>5, DisconnectionKeeps
<1> QED
  BY <1>1, <1>2, <1>3, <1>4, <1>5 DEF Next

THEOREM GhostInductive == Spec => []GhostInv
BY InitGhost, NextGhost, PTL DEF Spec

(* Every state of the cells, bodies and queues has its type. *)
THEOREM VisibilityTypes == Spec => []TypeOK
<1>1. GhostInv => TypeOK
  BY DEF GhostInv
<1> QED
  BY <1>1, GhostInductive, PTL

(* A client that has read everything has a remote body for no character    *)
(* that the server has removed: OnCharacterRemoveEvent reaches everybody   *)
(* whom an earlier spawn or crossing reached, whatever their order, and    *)
(* only a character destroyed under its player is announced again.         *)
THEOREM NobodyHaunts == Spec => []NoGhosts
<1>1. GhostInv => NoGhosts
  <2> SUFFICES ASSUME GhostInv, NEW p \in Players, down[p] = <<>>, NEW q \in knows[p] \ {p}
               PROVE  q \in characters \cup haunted
    BY DEF NoGhosts
  <2>1. q \in Players
    BY DEF GhostInv, TypeOK
  <2>2. ~RemovedFrom(down[p], 1, q)
    BY DEF RemovedFrom
  <2> QED
    BY <2>1, <2>2 DEF GhostInv, GhostsGo, Departed, Clears
<1> QED
  BY <1>1, GhostInductive, PTL

-----------------------------------------------------------------------------
(* Who is shown: what the requests and notices under way will make true.   *)

(* Requests that tell the server where the character is, and those that    *)
(* tell it what the player has loaded.                                     *)
Sites(m) == m.type \in {"Enter", "Assign"}
SitesIn(ms) == \E k \in DOMAIN ms : Sites(ms[k])
Centres(m) == m.type = "Shift" \/ (m.type = "Enter" /\ m.cell \in Interior)

(* The last request that tells where the character is says x, and so do    *)
(* those that follow.                                                      *)
Sited(ms, x) ==
  \A k \in DOMAIN ms : (\A l \in DOMAIN ms : l > k => ~Sites(ms[l])) => ms[k].cell = x

(* With l loaded before, x is after the first k requests. *)
Loads(ms, l, k, x) ==
  \/ \E j \in DOMAIN ms : /\ j <= k /\ Centres(ms[j]) /\ ms[j].cell = x
                          /\ \A i \in DOMAIN ms : j < i /\ i <= k => ~Centres(ms[i])
  \/ x = l /\ \A j \in DOMAIN ms : j <= k => ~Centres(ms[j])

(* All the requests take the centre from l to c; who crosses into an       *)
(* exterior cell has exterior cells loaded.                                *)
Centred(ms, l, c) ==
  /\ Loads(ms, l, Len(ms), c)
  /\ \A k \in DOMAIN ms :
       /\ ms[k].type = "Shift" => ms[k].cell \in Exterior
       /\ ms[k].type = "Enter" /\ ms[k].cell \in Exterior =>
            \E y \in Exterior : Loads(ms, l, k - 1, y)

(* Who has bodies for `known` and reads all of s has one for q. *)
Has(known, s, q) ==
  \/ q \in known /\ \A i \in DOMAIN s : s[i] # Removal(q)
  \/ \E i \in DOMAIN s : /\ s[i].who = q /\ s[i].type # "Remove"
                         /\ \A j \in DOMAIN s : j > i => s[j] # Removal(q)

(* The requests under way take the server to where the player is. *)
Routed(p) ==
  /\ Sited(up[p], pos[p])
  /\ p \in seated => Centred(up[p], loaded[p], centre[p])
  /\ p \notin seated => up[p] = <<>> /\ p \notin characters /\ loaded[p] = Nowhere
  /\ phase[p] = "out" => p \notin seated
  /\ centre[p] = pos[p] \/ {centre[p], pos[p]} \subseteq Exterior

(* Indoors the cell of a player is the one he has loaded. *)
Recorded(p) ==
  /\ loaded[p] \in Interior => cell[p] = loaded[p]
  /\ loaded[p] # Nowhere => cell[p] # Nowhere

(* Once nothing more is said of it, one of the two places of a character   *)
(* is right.                                                               *)
Located(q) == q \in characters => SitesIn(up[q]) \/ at[q] = pos[q] \/ cell[q] = pos[q]

(* Who has the cell of a character loaded has its body, or will. *)
Told(p, q) ==
  phase[p] = "in" /\ q \in characters \ {p} /\ ~SitesIn(up[q]) /\ InRange(loaded[p], pos[q])
    => Has(knows[p], down[p], q) \/ <<p, q>> \in missed

ShownInv ==
  \A p \in Players : Routed(p) /\ Recorded(p) /\ Located(p) /\ \A q \in Players : Told(p, q)

-----------------------------------------------------------------------------
(* Queues with a request more or less.                                     *)

LEMMA TailIs ==
  ASSUME NEW S, NEW ms \in Seq(S), ms # <<>>
  PROVE  /\ Tail(ms) \in Seq(S) /\ Head(ms) = ms[1] /\ ms[1] \in S
         /\ Len(ms) \in Nat \ {0} /\ Len(Tail(ms)) = Len(ms) - 1
         /\ DOMAIN ms = 1..Len(ms) /\ DOMAIN Tail(ms) = 1..Len(ms) - 1
         /\ \A k \in 1..Len(ms) - 1 : Tail(ms)[k] = ms[k + 1]
OBVIOUS

LEMMA AddedIs ==
  ASSUME NEW S, NEW ms \in Seq(S), NEW m \in S
  PROVE  /\ ms \o <<m>> \in Seq(S) /\ Len(ms) \in Nat /\ Len(ms \o <<m>>) = Len(ms) + 1
         /\ DOMAIN ms = 1..Len(ms) /\ DOMAIN (ms \o <<m>>) = 1..Len(ms) + 1
         /\ \A k \in 1..Len(ms) : (ms \o <<m>>)[k] = ms[k]
         /\ (ms \o <<m>>)[Len(ms) + 1] = m
<1>1. <<m>> \in Seq(S) /\ Len(<<m>>) = 1 /\ <<m>>[1] = m
  OBVIOUS
<1>2. /\ ms \o <<m>> \in Seq(S) /\ Len(ms \o <<m>>) = Len(ms) + 1
      /\ \A k \in 1..Len(ms) + 1 :
           (ms \o <<m>>)[k] = IF k <= Len(ms) THEN ms[k] ELSE <<m>>[k - Len(ms)]
  BY <1>1, ConcatProperties
<1>3. Len(ms) \in Nat /\ DOMAIN ms = 1..Len(ms) /\ DOMAIN (ms \o <<m>>) = 1..Len(ms) + 1
  BY <1>2, LenProperties
<1> QED
  BY <1>1, <1>2, <1>3

(* A request from where the player is. *)
LEMMA SitedMore ==
  ASSUME NEW ms \in Seq(Request), NEW m \in Request, NEW x, m.cell = x, Sited(ms, x) \/ Sites(m)
  PROVE  Sited(ms \o <<m>>, x) /\ (SitesIn(ms \o <<m>>) <=> SitesIn(ms) \/ Sites(m))
<1> DEFINE s == ms \o <<m>>
<1>1. /\ Len(ms) \in Nat /\ DOMAIN ms = 1..Len(ms) /\ DOMAIN s = 1..Len(ms) + 1
      /\ \A k \in 1..Len(ms) : s[k] = ms[k]
      /\ s[Len(ms) + 1] = m
  BY AddedIs
<1> HIDE DEF s
<1>2. SitesIn(s) <=> SitesIn(ms) \/ Sites(m)
  <2>1. ASSUME NEW k \in DOMAIN s, Sites(s[k]) PROVE SitesIn(ms) \/ Sites(m)
    <3>1. k = Len(ms) + 1 \/ k \in DOMAIN ms
      BY <1>1
    <3> QED
      BY <1>1, <2>1, <3>1 DEF SitesIn
  <2>2. ASSUME NEW k \in DOMAIN ms, Sites(ms[k]) PROVE SitesIn(s)
    <3>1. k \in DOMAIN s /\ s[k] = ms[k]
      BY <1>1
    <3> QED
      BY <2>2, <3>1 DEF SitesIn
  <2>3. Len(ms) + 1 \in DOMAIN s
    BY <1>1
  <2> QED
    BY <1>1, <2>1, <2>2, <2>3 DEF SitesIn
<1>3. ASSUME NEW k \in DOMAIN s, \A l \in DOMAIN s : l > k => ~Sites(s[l])
      PROVE  s[k].cell = x
  <2>1. CASE k = Len(ms) + 1
    BY <1>1, <2>1
  <2>2. CASE k \in DOMAIN ms
    <3>1. Len(ms) + 1 \in DOMAIN s /\ Len(ms) + 1 > k
      BY <1>1, <2>2
    <3>2. ~Sites(m) /\ Sited(ms, x)
      BY <1>1, <1>3, <3>1
    <3>3. \A l \in DOMAIN ms : l \in DOMAIN s /\ s[l] = ms[l]
      BY <1>1
    <3>4. \A l \in DOMAIN ms : l > k => ~Sites(ms[l])
      BY <1>3, <3>3
    <3> QED
      BY <2>2, <3>2, <3>3, <3>4 DEF Sited
  <2> QED
    BY <1>1, <2>1, <2>2
<1> QED
  BY <1>2, <1>3 DEF Sited, s

LEMMA CentredMore ==
  ASSUME NEW ms \in Seq(Request), NEW m \in Request, NEW l, NEW c, NEW c1,
         Centred(ms, l, c), c1 = IF Centres(m) THEN m.cell ELSE c,
         m.type = "Shift" => m.cell \in Exterior,
         m.type = "Enter" /\ m.cell \in Exterior => c \in Exterior
  PROVE  Centred(ms \o <<m>>, l, c1)
<1> DEFINE s == ms \o <<m>>
           n == Len(ms)
<1>1. /\ n \in Nat /\ DOMAIN ms = 1..n /\ DOMAIN s = 1..n + 1 /\ Len(s) = n + 1
      /\ \A k \in 1..n : s[k] = ms[k]
      /\ s[n + 1] = m
  BY AddedIs
<1>2. Loads(ms, l, n, c)
  BY DEF Centred
<1>3. \A k \in DOMAIN ms :
        /\ ms[k].type = "Shift" => ms[k].cell \in Exterior
        /\ ms[k].type = "Enter" /\ ms[k].cell \in Exterior =>
             \E y \in Exterior : Loads(ms, l, k - 1, y)
  BY DEF Centred
<1> HIDE DEF s, n
<1>4. ASSUME NEW k \in 0..n, NEW x, Loads(ms, l, k, x) PROVE Loads(s, l, k, x)
  <2>1. \A j \in DOMAIN s : j <= k => j \in DOMAIN ms
    BY <1>1
  <2>2. \A j \in DOMAIN ms : j \in DOMAIN s /\ s[j] = ms[j]
    BY <1>1
  <2>3. CASE x = l /\ \A j \in DOMAIN ms : j <= k => ~Centres(ms[j])
    BY <2>1, <2>2, <2>3 DEF Loads
  <2>4. ASSUME NEW j \in DOMAIN ms, j <= k, Centres(ms[j]), ms[j].cell = x,
               \A i \in DOMAIN ms : j < i /\ i <= k => ~Centres(ms[i])
        PROVE  Loads(s, l, k, x)
    <3>1. j \in DOMAIN s /\ s[j] = ms[j]
      BY <2>2
    <3>2. \A i \in DOMAIN s : j < i /\ i <= k => ~Centres(s[i])
      BY <2>1, <2>2, <2>4
    <3> QED
      BY <2>4, <3>1, <3>2 DEF Loads
  <2> QED
    BY <1>4, <2>3, <2>4 DEF Loads
<1>5. Loads(s, l, n, c) /\ n + 1 \in DOMAIN s
  BY <1>1, <1>2, <1>4
<1>6. Loads(s, l, n + 1, c1)
  <2>1. CASE Centres(m)
    <3>1. \A i \in DOMAIN s : ~(n + 1 < i /\ i <= n + 1)
      BY <1>1
    <3>2. n + 1 <= n + 1
      BY <1>1
    <3> QED
      BY <1>1, <1>5, <2>1, <3>1, <3>2 DEF Loads
  <2>2. CASE ~Centres(m)
    <3>1. \A j \in DOMAIN s : (j <= n + 1 => j <= n \/ j = n + 1) /\ (j <= n => j <= n + 1)
      BY <1>1
    <3> QED
      BY <1>1, <1>5, <2>2, <3>1 DEF Loads
  <2> QED
    BY <2>1, <2>2
<1>7. ASSUME NEW k \in DOMAIN s
      PROVE  /\ s[k].type = "Shift" => s[k].cell \in Exterior
             /\ s[k].type = "Enter" /\ s[k].cell \in Exterior =>
                  \E y \in Exterior : Loads(s, l, k - 1, y)
  <2>1. CASE k = n + 1
    <3>1. k - 1 = n
      BY <1>1, <2>1
    <3> QED
      BY <1>1, <1>5, <2>1, <3>1
  <2>2. CASE k \in DOMAIN ms
    <3>1. k - 1 \in 0..n /\ s[k] = ms[k]
      BY <1>1, <2>2
    <3> QED
      BY <1>3, <1>4, <2>2, <3>1
  <2> QED
    BY <1>1, <2>1, <2>2
<1> QED
  BY <1>1, <1>6, <1>7 DEF Centred, s

(* A request that was read. *)
LEMMA SitedRead ==
  ASSUME NEW ms \in Seq(Request), ms # <<>>, NEW x, Sited(ms, x)
  PROVE  /\ Sited(Tail(ms), x)
         /\ ~SitesIn(Tail(ms)) => Head(ms).cell = x
         /\ SitesIn(ms) <=> Sites(Head(ms)) \/ SitesIn(Tail(ms))
<1> DEFINE t == Tail(ms)
           n == Len(ms)
<1>1. /\ n \in Nat \ {0} /\ DOMAIN ms = 1..n /\ DOMAIN t = 1..n - 1 /\ Head(ms) = ms[1]
      /\ \A k \in 1..n - 1 : t[k] = ms[k + 1]
  BY TailIs
<1> HIDE DEF t, n
<1>2. \A k \in DOMAIN t : k + 1 \in DOMAIN ms /\ t[k] = ms[k + 1]
  BY <1>1
<1>3. \A l \in DOMAIN ms : l = 1 \/ l - 1 \in DOMAIN t
  BY <1>1
<1>4. \A l \in DOMAIN ms : l - 1 \in DOMAIN t => t[l - 1] = ms[l]
  BY <1>1
<1>5. ASSUME NEW k \in DOMAIN t, \A l \in DOMAIN t : l > k => ~Sites(t[l])
      PROVE  t[k].cell = x
  <2>1. \A l \in DOMAIN ms : l > k + 1 => l - 1 \in DOMAIN t /\ l - 1 > k
    BY <1>1
  <2>2. \A l \in DOMAIN ms : l > k + 1 => ~Sites(ms[l])
    BY <1>4, <1>5, <2>1
  <2> QED
    BY <1>2, <2>2 DEF Sited
<1>6. ASSUME ~SitesIn(t) PROVE Head(ms).cell = x
  <2>1. \A l \in DOMAIN ms : l > 1 => l - 1 \in DOMAIN t
    BY <1>1
  <2>2. \A l \in DOMAIN ms : l > 1 => ~Sites(ms[l])
    BY <1>4, <1>6, <2>1 DEF SitesIn
  <2>3. 1 \in DOMAIN ms
    BY <1>1
  <2> QED
    BY <1>1, <2>2, <2>3 DEF Sited
<1>7. 1 \in DOMAIN ms
  BY <1>1
<1>8. SitesIn(ms) <=> Sites(ms[1]) \/ SitesIn(t)
  BY <1>2, <1>3, <1>4, <1>7 DEF SitesIn
<1> QED
  BY <1>1, <1>5, <1>6, <1>8 DEF Sited, t

LEMMA CentredRead ==
  ASSUME NEW ms \in Seq(Request), ms # <<>>, NEW l, NEW c, Centred(ms, l, c)
  PROVE  /\ Centred(Tail(ms), IF Centres(Head(ms)) THEN Head(ms).cell ELSE l, c)
         /\ Head(ms).type = "Shift" => Head(ms).cell \in Exterior
         /\ Head(ms).type = "Enter" /\ Head(ms).cell \in Exterior => l \in Exterior
<1> DEFINE t == Tail(ms)
           n == Len(ms)
           l1 == IF Centres(ms[1]) THEN ms[1].cell ELSE l
<1>1. /\ n \in Nat \ {0} /\ DOMAIN ms = 1..n /\ DOMAIN t = 1..n - 1 /\ Head(ms) = ms[1]
      /\ \A k \in 1..n - 1 : t[k] = ms[k + 1]
      /\ Len(t) = n - 1
  BY TailIs
<1>2. Loads(ms, l, n, c)
  BY DEF Centred
<1>3. \A k \in DOMAIN ms :
        /\ ms[k].type = "Shift" => ms[k].cell \in Exterior
        /\ ms[k].type = "Enter" /\ ms[k].cell \in Exterior =>
             \E y \in Exterior : Loads(ms, l, k - 1, y)
  BY DEF Centred
<1> HIDE DEF t, n
<1>4. \A k \in DOMAIN t : k + 1 \in DOMAIN ms /\ t[k] = ms[k + 1]
  BY <1>1
<1>5. 1 \in DOMAIN ms /\ \A j \in DOMAIN ms : j = 1 \/ (j - 1 \in DOMAIN t /\ t[j - 1] = ms[j])
  BY <1>1
<1>6. ASSUME NEW k \in 0..n - 1, NEW x, Loads(ms, l, k + 1, x) PROVE Loads(t, l1, k, x)
  <2>1. \A i \in DOMAIN t : i <= k => i + 1 <= k + 1
    BY <1>1
  <2>2. 1 <= k + 1
    BY <1>1
  <2>3. CASE x = l /\ \A j \in DOMAIN ms : j <= k + 1 => ~Centres(ms[j])
    <3>1. ~Centres(ms[1])
      BY <1>5, <2>2, <2>3
    <3>2. \A i \in DOMAIN t : i <= k => ~Centres(t[i])
      BY <1>4, <2>1, <2>3
    <3> QED
      BY <2>3, <3>1, <3>2 DEF Loads
  <2>4. ASSUME NEW j \in DOMAIN ms, j <= k + 1, Centres(ms[j]), ms[j].cell = x,
               \A i \in DOMAIN ms : j < i /\ i <= k + 1 => ~Centres(ms[i])
        PROVE  Loads(t, l1, k, x)
    <3>1. CASE j = 1
      <4>1. \A i \in DOMAIN t : j < i + 1
        BY <1>1, <3>1
      <4>2. \A i \in DOMAIN t : i <= k => ~Centres(t[i])
        BY <1>4, <2>1, <2>4, <4>1
      <4> QED
        BY <2>4, <3>1, <4>2 DEF Loads
    <3>2. CASE j # 1
      <4>1. j - 1 \in DOMAIN t /\ t[j - 1] = ms[j] /\ j - 1 <= k
        BY <1>1, <1>5, <2>4, <3>2
      <4>2. \A i \in DOMAIN t : j - 1 < i => j < i + 1
        BY <1>1
      <4>3. \A i \in DOMAIN t : j - 1 < i /\ i <= k => ~Centres(t[i])
        BY <1>4, <2>1, <2>4, <4>2
      <4> QED
        BY <2>4, <4>1, <4>3 DEF Loads
    <3> QED
      BY <3>1, <3>2
  <2> QED
    BY <1>6, <2>3, <2>4 DEF Loads
<1>7. Loads(t, l1, Len(t), c)
  <2>1. Len(t) \in 0..n - 1 /\ Len(t) + 1 = n
    BY <1>1
  <2> QED
    BY <1>2, <1>6, <2>1
<1>8. ASSUME NEW k \in DOMAIN t
      PROVE  /\ t[k].type = "Shift" => t[k].cell \in Exterior
             /\ t[k].type = "Enter" /\ t[k].cell \in Exterior =>
                  \E y \in Exterior : Loads(t, l1, k - 1, y)
  <2>1. k - 1 \in 0..n - 1 /\ (k + 1) - 1 = (k - 1) + 1
    BY <1>1
  <2> QED
    BY <1>3, <1>4, <1>6, <2>1
<1>9. ASSUME NEW y, Loads(ms, l, 1 - 1, y) PROVE y = l
  <2>1. \A j \in DOMAIN ms : ~(j <= 1 - 1)
    BY <1>1
  <2> QED
    BY <1>9, <2>1 DEF Loads
<1>10. Centred(t, l1, c)
  BY <1>7, <1>8 DEF Centred
<1> HIDE DEF l1
<1>11. ms[1].type = "Enter" /\ ms[1].cell \in Exterior => l \in Exterior
  BY <1>3, <1>5, <1>9
<1> QED
  BY <1>1, <1>3, <1>5, <1>10, <1>11 DEF t, l1

-----------------------------------------------------------------------------
(* Notices read, and notices that come.                                    *)

Spares(t, q) == \A i \in DOMAIN t : t[i] # Removal(q)
Tells(t, q) == \E i \in DOMAIN t : t[i].who = q /\ t[i].type # "Remove"

LEMMA HasRead ==
  ASSUME NEW known, NEW s \in Seq(Notice), s # <<>>, NEW q, Has(known, s, q), NEW p
  PROVE  Has(Take(p, known, Head(s)), Tail(s), q)
<1> DEFINE t == Tail(s)
           n == Len(s)
<1>1. /\ n \in Nat \ {0} /\ DOMAIN s = 1..n /\ DOMAIN t = 1..n - 1 /\ Head(s) = s[1]
      /\ s[1] \in Notice /\ \A k \in 1..n - 1 : t[k] = s[k + 1]
  BY TailIs
<1> HIDE DEF t, n
<1>2. 1 \in DOMAIN s /\ \A k \in DOMAIN t : k + 1 \in DOMAIN s /\ t[k] = s[k + 1] /\ k + 1 > 1
  BY <1>1
<1>3. CASE q \in known /\ \A i \in DOMAIN s : s[i] # Removal(q)
  <2>1. q \in Take(p, known, s[1])
    BY <1>1, <1>2, <1>3, NoticeTypes DEF Take
  <2> QED
    BY <1>1, <1>2, <1>3, <2>1 DEF Has, t
<1>4. ASSUME NEW i \in DOMAIN s, s[i].who = q, s[i].type # "Remove",
             \A j \in DOMAIN s : j > i => s[j] # Removal(q)
      PROVE  Has(Take(p, known, s[1]), t, q)
  <2>1. CASE i = 1
    <3>1. q \in Take(p, known, s[1])
      BY <1>4, <2>1 DEF Take
    <3> QED
      BY <1>2, <1>4, <2>1, <3>1 DEF Has
  <2>2. CASE i # 1
    <3>1. i - 1 \in DOMAIN t /\ t[i - 1] = s[i]
      BY <1>1, <2>2
    <3>2. \A j \in DOMAIN t : j > i - 1 => j + 1 > i
      BY <1>1
    <3>3. \A j \in DOMAIN t : j > i - 1 => t[j] # Removal(q)
      BY <1>2, <1>4, <3>2
    <3> QED
      BY <1>4, <3>1, <3>3 DEF Has
  <2> QED
    BY <2>1, <2>2
<1> QED
  BY <1>1, <1>3, <1>4 DEF Has, t

LEMMA HasMore ==
  ASSUME NEW known, NEW s \in Seq(Notice), NEW t \in Seq(Notice), NEW q,
         Spares(t, q), Has(known, s, q) \/ Tells(t, q)
  PROVE  Has(known, s \o t, q)
<1> DEFINE u == s \o t
           n == Len(s)
<1>1. /\ n \in Nat /\ Len(t) \in Nat /\ Len(u) = n + Len(t)
      /\ DOMAIN s = 1..n /\ DOMAIN t = 1..Len(t) /\ DOMAIN u = 1..n + Len(t)
      /\ \A i \in 1..n + Len(t) : u[i] = IF i <= n THEN s[i] ELSE t[i - n]
  OBVIOUS
<1> HIDE DEF u, n
<1>2. \A i \in DOMAIN s : i \in DOMAIN u /\ u[i] = s[i]
  BY <1>1
<1>3. \A i \in DOMAIN t : n + i \in DOMAIN u /\ u[n + i] = t[i]
  <2> SUFFICES ASSUME NEW i \in DOMAIN t PROVE n + i \in DOMAIN u /\ u[n + i] = t[i]
    OBVIOUS
  <2>1. n + i \in 1..n + Len(t) /\ ~(n + i <= n) /\ (n + i) - n = i
    BY <1>1
  <2> QED
    BY <1>1, <2>1
<1>4. \A i \in DOMAIN u : i \in DOMAIN s \/ (i - n \in DOMAIN t /\ u[i] = t[i - n])
  BY <1>1
<1>5. \A i \in DOMAIN u : i \in DOMAIN s \/ u[i] # Removal(q)
  BY <1>4 DEF Spares
<1>6. CASE q \in known /\ \A i \in DOMAIN s : s[i] # Removal(q)
  BY <1>2, <1>5, <1>6 DEF Has, u
<1>7. ASSUME NEW i \in DOMAIN s, s[i].who = q, s[i].type # "Remove",
             \A j \in DOMAIN s : j > i => s[j] # Removal(q)
      PROVE  Has(known, u, q)
  BY <1>2, <1>5, <1>7 DEF Has
<1>8. ASSUME NEW i \in DOMAIN t, t[i].who = q, t[i].type # "Remove"
      PROVE  Has(known, u, q)
  <2>1. \A j \in DOMAIN u : j > n + i => j \notin DOMAIN s
    BY <1>1
  <2>2. \A j \in DOMAIN u : j > n + i => u[j] # Removal(q)
    BY <1>5, <2>1
  <2> QED
    BY <1>3, <1>8, <2>2 DEF Has
<1> QED
  BY <1>6, <1>7, <1>8 DEF Has, Tells, u

(* Whoever has a seat gets what the server posts. *)
LEMMA HasPosted ==
  ASSUME TypeOK, NEW notes \in [Players -> Seq(Notice)], Post(notes), UNCHANGED <<phase, knows>>,
         NEW v \in Players, NEW q, Spares(notes[v], q),
         \/ Has(knows[v], down[v], q)
         \/ v \in seated /\ phase[v] = "in" /\ Tells(notes[v], q)
  PROVE  Has(knows'[v], down'[v], q)
<1>1. down[v] \in Seq(Notice) /\ notes[v] \in Seq(Notice)
  BY DEF TypeOK
<1>2. down'[v] = IF v \in seated /\ phase[v] = "in" THEN down[v] \o notes[v] ELSE down[v]
  BY DEF Post
<1>3. CASE v \in seated /\ phase[v] = "in"
  <2>1. Has(knows[v], down[v] \o notes[v], q)
    BY <1>1, HasMore
  <2> QED
    BY <1>2, <1>3, <2>1
<1>4. CASE ~(v \in seated /\ phase[v] = "in")
  BY <1>2, <1>4
<1> QED
  BY <1>3, <1>4

(* Who is judged wrongly stays so until he is shown. *)
LEMMA MissedPairs ==
  ASSUME NEW A, NEW B, Judged(A, B), NEW m, m \notin A, m \in missed \/ m \in B
  PROVE  m \in missed'
BY DEF Judged

(* What a request is. *)
LEMMA RequestIs ==
  ASSUME NEW x \in Places
  PROVE  /\ Shift(x) \in Request /\ Shift(x).cell = x /\ Shift(x).type = "Shift"
         /\ Enter(x) \in Request /\ Enter(x).cell = x /\ Enter(x).type = "Enter"
         /\ Move(x) \in Request /\ Move(x).cell = x /\ Move(x).type = "Move"
         /\ Assign(x) \in Request /\ Assign(x).cell = x /\ Assign(x).type = "Assign"
         /\ ~Sites(Shift(x)) /\ Sites(Enter(x)) /\ ~Sites(Move(x)) /\ Sites(Assign(x))
         /\ Centres(Shift(x)) /\ ~Centres(Move(x)) /\ ~Centres(Assign(x))
         /\ Centres(Enter(x)) <=> x \in Interior
<1>1. {Shift(x), Enter(x), Move(x), Assign(x)} \subseteq Request
  BY RequestTypes
<1> QED
  BY <1>1 DEF Shift, Enter, Move, Assign, Sites, Centres

LEMMA RangeIs ==
  ASSUME NEW x \in Places \cup {Nowhere}, NEW y \in Places
  PROVE  /\ InRange(x, y) => InRange(y, x)
         /\ x = Nowhere => ~InRange(x, y)
         /\ x \in Interior \/ y \in Interior => (InRange(x, y) => x = y)
         /\ Exterior \cap Interior = {} /\ Places = Exterior \cup Interior
         /\ Exterior \subseteq Int /\ Nowhere \notin Places
<1>1. /\ Exterior \cap Interior = {} /\ Exterior \subseteq Int /\ Nowhere \notin Places
      /\ Places = Exterior \cup Interior
  BY VisibilityAssumption DEF Places
<1>2. InRange(x, y) => InRange(y, x)
  BY DEF InRange
<1>3. (x \in Exterior /\ y \in Exterior) \/ (InRange(x, y) => x = y)
  BY DEF InRange
<1> QED
  BY <1>1, <1>2, <1>3

-----------------------------------------------------------------------------
(* The steps of a client.                                                  *)

(* A step that only sends, and moves the player. *)
LEMMA SentShown ==
  ASSUME ShownInv, NEW p \in Players, p \in seated,
         UNCHANGED <<seated, cell, characters, at, phase, knows, down, loaded, missed>>,
         \A q \in Players \ {p} : up'[q] = up[q] /\ pos'[q] = pos[q] /\ centre'[q] = centre[q],
         Sited(up'[p], pos'[p]), Centred(up'[p], loaded[p], centre'[p]),
         centre'[p] = pos'[p] \/ {centre'[p], pos'[p]} \subseteq Exterior,
         SitesIn(up'[p]) \/ (pos'[p] = pos[p] /\ ~SitesIn(up[p]))
  PROVE  ShownInv'
<1>1. ASSUME NEW q \in Players PROVE (Routed(q) /\ Recorded(q) /\ Located(q))'
  <2>1. Routed(q) /\ Recorded(q) /\ Located(q)
    BY DEF ShownInv
  <2>2. CASE q = p
    BY <2>1, <2>2 DEF Routed, Recorded, Located
  <2>3. CASE q # p
    <3>1. up'[q] = up[q] /\ pos'[q] = pos[q] /\ centre'[q] = centre[q]
      BY <2>3
    <3> QED
      BY <2>1, <3>1 DEF Routed, Recorded, Located
  <2> QED
    BY <2>2, <2>3
<1>2. ASSUME NEW v \in Players, NEW q \in Players PROVE Told(v, q)'
  <2>1. Told(v, q)
    BY DEF ShownInv
  <2>2. SitesIn(up'[q]) \/ (pos'[q] = pos[q] /\ ~SitesIn(up[q])) \/ (pos'[q] = pos[q] /\ up'[q] = up[q])
    BY <1>2
  <2> QED
    BY <2>1, <2>2 DEF Told
<1> QED
  BY <1>1, <1>2 DEF ShownInv

(* What a player who is connected has on its way. *)
LEMMA RouteIs ==
  ASSUME TypeOK, Seats, ShownInv, NEW p \in Players, phase[p] = "in"
  PROVE  /\ p \in seated /\ up[p] \in Seq(Request) /\ pos[p] \in Places /\ centre[p] \in Places
         /\ Sited(up[p], pos[p]) /\ Centred(up[p], loaded[p], centre[p])
         /\ centre[p] = pos[p] \/ {centre[p], pos[p]} \subseteq Exterior
<1>1. p \in seated /\ Routed(p)
  BY DEF Seats, ShownInv
<1> QED
  BY <1>1 DEF Routed, TypeOK

LEMMA IntroduceShown ==
  ASSUME TypeOK, Seats, ShownInv, NEW p \in Players, Introduce(p)
  PROVE  ShownInv'
<1> DEFINE m == Assign(pos[p])
<1>1. /\ p \in seated /\ up[p] \in Seq(Request) /\ pos[p] \in Places /\ centre[p] \in Places
      /\ Sited(up[p], pos[p]) /\ Centred(up[p], loaded[p], centre[p])
      /\ centre[p] = pos[p] \/ {centre[p], pos[p]} \subseteq Exterior
  BY RouteIs DEF Introduce
<1>2. m \in Request /\ m.cell = pos[p] /\ m.type = "Assign" /\ Sites(m) /\ ~Centres(m)
  BY <1>1, RequestIs
<1> HIDE DEF m
<1>3. Sited(up[p] \o <<m>>, pos[p]) /\ SitesIn(up[p] \o <<m>>)
  BY <1>1, <1>2, SitedMore
<1>4. Centred(up[p] \o <<m>>, loaded[p], centre[p])
  BY <1>1, <1>2, CentredMore
<1>5. up'[p] = up[p] \o <<m>> /\ \A q \in Players \ {p} : up'[q] = up[q]
  BY DEF Introduce, Send, TypeOK, m
<1>6. UNCHANGED <<seated, cell, characters, at, phase, pos, centre, knows, down, loaded, missed>>
  BY DEF Introduce, serverVars, history
<1> QED
  BY <1>1, <1>3, <1>4, <1>5, <1>6, SentShown

LEMMA RecentreShown ==
  ASSUME TypeOK, Seats, ShownInv, NEW p \in Players, Recentre(p)
  PROVE  ShownInv'
<1> DEFINE m == Shift(pos[p])
<1>1. /\ p \in seated /\ up[p] \in Seq(Request) /\ pos[p] \in Places /\ centre[p] \in Places
      /\ Sited(up[p], pos[p]) /\ Centred(up[p], loaded[p], centre[p])
      /\ pos[p] \in Exterior
  BY RouteIs DEF Recentre
<1>2. m \in Request /\ m.cell = pos[p] /\ m.type = "Shift" /\ ~Sites(m) /\ Centres(m)
  BY <1>1, RequestIs
<1> HIDE DEF m
<1>3. Sited(up[p] \o <<m>>, pos[p]) /\ (SitesIn(up[p] \o <<m>>) <=> SitesIn(up[p]))
  BY <1>1, <1>2, SitedMore
<1>4. Centred(up[p] \o <<m>>, loaded[p], pos[p])
  BY <1>1, <1>2, CentredMore
<1>5. /\ up'[p] = up[p] \o <<m>> /\ centre'[p] = pos[p]
      /\ \A q \in Players \ {p} : up'[q] = up[q] /\ centre'[q] = centre[q]
  BY DEF Recentre, Send, TypeOK, m
<1>6. UNCHANGED <<seated, cell, characters, at, phase, pos, knows, down, loaded, missed>>
  BY DEF Recentre, serverVars, history
<1>7. SitesIn(up'[p]) \/ (pos'[p] = pos[p] /\ ~SitesIn(up[p]))
  BY <1>3, <1>5, <1>6
<1> QED
  BY <1>1, <1>3, <1>4, <1>5, <1>6, <1>7, SentShown

LEMMA ReportShown ==
  ASSUME TypeOK, Seats, ShownInv, NEW p \in Players, Report(p)
  PROVE  ShownInv'
<1> DEFINE m == Move(pos[p])
<1>1. /\ p \in seated /\ up[p] \in Seq(Request) /\ pos[p] \in Places /\ centre[p] \in Places
      /\ Sited(up[p], pos[p]) /\ Centred(up[p], loaded[p], centre[p])
      /\ centre[p] = pos[p] \/ {centre[p], pos[p]} \subseteq Exterior
  BY RouteIs DEF Report
<1>2. m \in Request /\ m.cell = pos[p] /\ m.type = "Move" /\ ~Sites(m) /\ ~Centres(m)
  BY <1>1, RequestIs
<1> HIDE DEF m
<1>3. Sited(up[p] \o <<m>>, pos[p]) /\ (SitesIn(up[p] \o <<m>>) <=> SitesIn(up[p]))
  BY <1>1, <1>2, SitedMore
<1>4. Centred(up[p] \o <<m>>, loaded[p], centre[p])
  BY <1>1, <1>2, CentredMore
<1>5. up'[p] = up[p] \o <<m>> /\ \A q \in Players \ {p} : up'[q] = up[q]
  BY DEF Report, Send, TypeOK, m
<1>6. UNCHANGED <<seated, cell, characters, at, phase, pos, centre, knows, down, loaded, missed>>
  BY DEF Report, serverVars, history
<1>7. SitesIn(up'[p]) \/ (pos'[p] = pos[p] /\ ~SitesIn(up[p]))
  BY <1>3, <1>5, <1>6
<1> QED
  BY <1>1, <1>3, <1>4, <1>5, <1>6, <1>7, SentShown

(* What a player sends who crosses into cell x, whatever he sent before. *)
LEMMA CrossingIs ==
  ASSUME NEW ms \in Seq(Request), NEW l, NEW c, Centred(ms, l, c), NEW x \in Places, NEW shifts,
         shifts \/ x \in Interior \/ c \in Exterior
  PROVE  /\ Sited(ms \o Crossing(x, shifts), x) /\ SitesIn(ms \o Crossing(x, shifts))
         /\ Centred(ms \o Crossing(x, shifts), l, IF x \in Interior \/ shifts THEN x ELSE c)
<1> DEFINE a == Shift(x)
           b == Enter(x)
<1>1. /\ a \in Request /\ a.cell = x /\ a.type = "Shift" /\ Centres(a)
      /\ b \in Request /\ b.cell = x /\ b.type = "Enter" /\ Sites(b)
      /\ Centres(b) <=> x \in Interior
  BY RequestIs
<1>2. Exterior \cap Interior = {} /\ Places = Exterior \cup Interior
  BY RangeIs
<1>3. Crossing(x, shifts) = (IF x \in Exterior /\ shifts THEN <<a>> ELSE <<>>) \o <<b>>
  BY DEF Crossing
<1> HIDE DEF a, b
<1>4. CASE x \in Exterior /\ shifts
  <2> DEFINE n == ms \o <<a>>
  <2>1. n \in Seq(Request) /\ Centred(n, l, x)
    BY <1>1, <1>4, AddedIs, CentredMore
  <2>2. ms \o Crossing(x, shifts) = n \o <<b>>
    <3>1. <<a>> \in Seq(Request) /\ <<b>> \in Seq(Request)
      BY <1>1
    <3>2. Crossing(x, shifts) = <<a>> \o <<b>>
      BY <1>3, <1>4
    <3> QED
      BY <3>1, <3>2, ConcatAssociative
  <2> HIDE DEF n
  <2>3. Sited(n \o <<b>>, x) /\ SitesIn(n \o <<b>>)
    BY <1>1, <2>1, SitedMore
  <2>4. Centred(n \o <<b>>, l, x)
    BY <1>1, <1>4, <2>1, CentredMore
  <2> QED
    BY <1>4, <2>2, <2>3, <2>4
<1>5. CASE ~(x \in Exterior /\ shifts)
  <2>1. Crossing(x, shifts) = <<b>>
    <3>1. <<b>> \in Seq(Request)
      BY <1>1
    <3>2. Crossing(x, shifts) = <<>> \o <<b>>
      BY <1>3, <1>5
    <3> QED
      BY <3>1, <3>2, ConcatEmptySeq
  <2>2. Sited(ms \o <<b>>, x) /\ SitesIn(ms \o <<b>>)
    BY <1>1, SitedMore
  <2> DEFINE c1 == IF x \in Interior \/ shifts THEN x ELSE c
  <2>3. c1 = IF Centres(b) THEN b.cell ELSE c
    BY <1>1, <1>2, <1>5
  <2>4. b.type = "Shift" => b.cell \in Exterior
    BY <1>1
  <2>5. b.type = "Enter" /\ b.cell \in Exterior => c \in Exterior
    BY <1>1, <1>2, <1>5
  <2> HIDE DEF c1
  <2>6. Centred(ms \o <<b>>, l, c1)
    BY <1>1, <2>3, <2>4, <2>5, CentredMore
  <2> QED
    BY <2>1, <2>2, <2>6 DEF c1
<1> QED
  BY <1>4, <1>5

LEMMA GoShown ==
  ASSUME TypeOK, Seats, ShownInv, NEW p \in Players, NEW x \in Places, Go(p, x)
  PROVE  ShownInv'
<1>1. /\ p \in seated /\ up[p] \in Seq(Request) /\ pos[p] \in Places /\ centre[p] \in Places
      /\ Centred(up[p], loaded[p], centre[p])
  BY RouteIs DEF Go
<1>2. UNCHANGED <<seated, cell, characters, at, phase, knows, down, loaded, missed>>
  BY DEF Go, serverVars, history
<1>3. pos'[p] = x /\ \A q \in Players \ {p} : pos'[q] = pos[q]
  BY DEF Go, TypeOK
<1>4. Exterior \cap Interior = {} /\ Places = Exterior \cup Interior
  BY RangeIs
<1>5. /\ Sited(up'[p], x) /\ SitesIn(up'[p]) /\ Centred(up'[p], loaded[p], centre'[p])
      /\ centre'[p] = x \/ {centre'[p], x} \subseteq Exterior
      /\ \A q \in Players \ {p} : up'[q] = up[q] /\ centre'[q] = centre[q]
  <2>1. CASE centre' = [centre EXCEPT ![p] = x] /\ Send(p, Crossing(x, x # centre[p]))
    <3> DEFINE shifts == x # centre[p]
    <3>1. /\ up'[p] = up[p] \o Crossing(x, shifts) /\ centre'[p] = x
          /\ \A q \in Players \ {p} : up'[q] = up[q] /\ centre'[q] = centre[q]
      BY <2>1 DEF Send, TypeOK
    <3>2. shifts \/ x \in Interior \/ centre[p] \in Exterior
      BY <1>4
    <3>3. x = IF x \in Interior \/ shifts THEN x ELSE centre[p]
      OBVIOUS
    <3> HIDE DEF shifts
    <3>4. /\ Sited(up'[p], x) /\ SitesIn(up'[p])
          /\ Centred(up'[p], loaded[p], IF x \in Interior \/ shifts THEN x ELSE centre[p])
      BY <1>1, <3>1, <3>2, CrossingIs
    <3> QED
      BY <3>1, <3>3, <3>4
  <2>2. CASE {x, centre[p]} \subseteq Exterior /\ UNCHANGED centre /\ Send(p, Crossing(x, FALSE))
    <3>1. /\ up'[p] = up[p] \o Crossing(x, FALSE) /\ centre'[p] = centre[p]
          /\ \A q \in Players \ {p} : up'[q] = up[q] /\ centre'[q] = centre[q]
      BY <2>2 DEF Send, TypeOK
    <3>2. /\ Sited(up'[p], x) /\ SitesIn(up'[p])
          /\ Centred(up'[p], loaded[p], IF x \in Interior \/ FALSE THEN x ELSE centre[p])
      BY <1>1, <2>2, <3>1, CrossingIs
    <3>3. x \notin Interior
      BY <1>4, <2>2
    <3> QED
      BY <2>2, <3>1, <3>2, <3>3
  <2> QED
    BY <2>1, <2>2 DEF Go
<1> QED
  BY <1>1, <1>2, <1>3, <1>5, SentShown

(* What a player sends who has just connected. *)
LEMMA VisitIs ==
  ASSUME NEW ms \in Seq(Request), NEW l, NEW c0, Centred(ms, l, c0),
         NEW c \in Places, NEW x \in Places, c = x \/ {c, x} \subseteq Exterior,
         NEW visit, visit = (IF c \in Exterior THEN <<Shift(c)>> ELSE <<>>) \o <<Enter(x)>>
  PROVE  Sited(ms \o visit, x) /\ SitesIn(ms \o visit) /\ Centred(ms \o visit, l, c)
<1> DEFINE a == Shift(c)
           b == Enter(x)
<1>1. /\ a \in Request /\ a.cell = c /\ a.type = "Shift" /\ Centres(a)
      /\ b \in Request /\ b.cell = x /\ b.type = "Enter" /\ Sites(b)
      /\ Centres(b) <=> x \in Interior
  BY RequestIs
<1>2. Exterior \cap Interior = {} /\ Places = Exterior \cup Interior
  BY RangeIs
<1>3. visit = (IF c \in Exterior THEN <<a>> ELSE <<>>) \o <<b>>
  OBVIOUS
<1> HIDE DEF a, b
<1>4. CASE c \in Exterior
  <2> DEFINE n == ms \o <<a>>
  <2>1. n \in Seq(Request) /\ Centred(n, l, c)
    BY <1>1, <1>4, AddedIs, CentredMore
  <2>2. ms \o visit = n \o <<b>>
    <3>1. <<a>> \in Seq(Request) /\ <<b>> \in Seq(Request)
      BY <1>1
    <3>2. visit = <<a>> \o <<b>>
      BY <1>3, <1>4
    <3>3. (ms \o <<a>>) \o <<b>> = ms \o (<<a>> \o <<b>>)
      BY <3>1, ConcatAssociative
    <3> QED
      BY <3>2, <3>3
  <2> HIDE DEF n
  <2>3. Sited(n \o <<b>>, x) /\ SitesIn(n \o <<b>>)
    BY <1>1, <2>1, SitedMore
  <2>4. ~Centres(b)
    BY <1>1, <1>2, <1>4
  <2>5. Centred(n \o <<b>>, l, c)
    BY <1>1, <1>4, <2>1, <2>4, CentredMore
  <2> QED
    BY <2>2, <2>3, <2>5
<1>5. CASE c \notin Exterior
  <2>1. visit = <<b>>
    <3>1. <<b>> \in Seq(Request)
      BY <1>1
    <3>2. visit = <<>> \o <<b>>
      BY <1>3, <1>5
    <3> QED
      BY <3>1, <3>2, ConcatEmptySeq
  <2>2. Sited(ms \o <<b>>, x) /\ SitesIn(ms \o <<b>>)
    BY <1>1, SitedMore
  <2>3. c = x /\ x \in Interior /\ x \notin Exterior
    BY <1>2, <1>5
  <2>4. Centred(ms \o <<b>>, l, c)
    <3>1. c = IF Centres(b) THEN b.cell ELSE c0
      BY <1>1, <2>3
    <3>2. b.type # "Shift" /\ b.cell \notin Exterior
      BY <1>1, <2>3
    <3> QED
      BY <1>1, <3>1, <3>2, CentredMore
  <2> QED
    BY <2>1, <2>2, <2>4
<1> QED
  BY <1>4, <1>5

LEMMA NothingCentred == \A l : Centred(<<>>, l, l)
<1>1. DOMAIN <<>> = {}
  OBVIOUS
<1> QED
  BY <1>1 DEF Centred, Loads

LEMMA JoinShown ==
  ASSUME TypeOK, Seats, ShownInv, NEW p \in Players, Join(p)
  PROVE  ShownInv'
<1> DEFINE visit == (IF centre[p] \in Exterior THEN <<Shift(centre[p])>> ELSE <<>>)
                      \o <<Enter(pos[p])>>
           a == Assign(pos[p])
<1>1. /\ p \notin seated /\ up[p] = <<>> /\ p \notin characters /\ loaded[p] = Nowhere
      /\ pos[p] \in Places /\ centre[p] \in Places
      /\ centre[p] = pos[p] \/ {centre[p], pos[p]} \subseteq Exterior
  BY DEF Join, ShownInv, Routed, TypeOK
<1>2. a \in Request /\ a.cell = pos[p] /\ a.type = "Assign" /\ ~Centres(a)
  BY <1>1, RequestIs
<1>3. \/ up' = [up EXCEPT ![p] = visit]
      \/ up' = [up EXCEPT ![p] = <<a>> \o visit]
  BY DEF Join
<1>4. visit = (IF centre[p] \in Exterior THEN <<Shift(centre[p])>> ELSE <<>>) \o <<Enter(pos[p])>>
  OBVIOUS
<1>5. visit \in Seq(Request)
  <2> DEFINE shift == IF centre[p] \in Exterior THEN <<Shift(centre[p])>> ELSE <<>>
  <2>1. shift \in Seq(Request) /\ <<Enter(pos[p])>> \in Seq(Request)
    BY <1>1, RequestTypes
  <2> QED
    BY <2>1, ConcatProperties
<1> HIDE DEF visit, a
<1>6. /\ Sited(up'[p], pos[p]) /\ SitesIn(up'[p]) /\ Centred(up'[p], Nowhere, centre[p])
      /\ \A q \in Players \ {p} : up'[q] = up[q]
  <2> DEFINE c == centre[p]
             x == pos[p]
  <2>1. c \in Places /\ x \in Places /\ (c = x \/ {c, x} \subseteq Exterior)
        /\ visit = (IF c \in Exterior THEN <<Shift(c)>> ELSE <<>>) \o <<Enter(x)>>
    BY <1>1, <1>4
  <2> HIDE DEF c, x
  <2>2. <<>> \in Seq(Request) /\ Centred(<<>>, Nowhere, Nowhere)
    BY NothingCentred
  <2>3. <<a>> \in Seq(Request) /\ Centred(<<a>>, Nowhere, Nowhere)
    <3>1. <<a>> \in Seq(Request) /\ <<>> \o <<a>> = <<a>>
      BY <1>2, ConcatEmptySeq
    <3>2. a.type # "Shift" /\ a.type # "Enter"
      BY <1>2
    <3>3. Centred(<<>> \o <<a>>, Nowhere, Nowhere)
      BY <1>2, <2>2, <3>2, CentredMore
    <3> QED
      BY <3>1, <3>3
  <2>4. ASSUME NEW ms \in Seq(Request), Centred(ms, Nowhere, Nowhere)
        PROVE  Sited(ms \o visit, x) /\ SitesIn(ms \o visit) /\ Centred(ms \o visit, Nowhere, c)
    BY <2>1, <2>4, VisitIs
  <2>5. visit = <<>> \o visit
    BY <1>5, ConcatEmptySeq
  <2>6. up'[p] = <<>> \o visit \/ up'[p] = <<a>> \o visit
    BY <1>3, <2>5 DEF TypeOK
  <2>7. Sited(up'[p], x) /\ SitesIn(up'[p]) /\ Centred(up'[p], Nowhere, c)
    BY <2>2, <2>3, <2>4, <2>6
  <2>8. \A q \in Players \ {p} : up'[q] = up[q]
    BY <1>3 DEF TypeOK
  <2> QED
    BY <2>7, <2>8 DEF c, x
<1>7. /\ UNCHANGED <<cell, characters, at, pos, centre, knows, down, loaded, missed>>
      /\ seated' = seated \cup {p} /\ phase'[p] = "in"
      /\ \A q \in Players \ {p} : phase'[q] = phase[q]
  BY DEF Join, history, TypeOK
<1>8. ASSUME NEW q \in Players PROVE (Routed(q) /\ Recorded(q) /\ Located(q))'
  <2>1. Routed(q) /\ Recorded(q) /\ Located(q)
    BY DEF ShownInv
  <2>2. CASE q = p
    BY <1>1, <1>6, <1>7, <2>1, <2>2 DEF Routed, Recorded, Located
  <2>3. CASE q # p
    <3>1. up'[q] = up[q] /\ phase'[q] = phase[q] /\ (q \in seated' <=> q \in seated)
      BY <1>6, <1>7, <2>3
    <3> QED
      BY <1>7, <2>1, <3>1 DEF Routed, Recorded, Located
  <2> QED
    BY <2>2, <2>3
<1>9. ASSUME NEW v \in Players, NEW q \in Players PROVE Told(v, q)'
  <2>1. Told(v, q)
    BY DEF ShownInv
  <2>2. CASE v = p
    <3>1. ~InRange(loaded[v], pos[q])
      <4>1. pos[q] \in Places /\ loaded[v] = Nowhere
        BY <1>1, <2>2 DEF TypeOK
      <4> QED
        BY <4>1, RangeIs
    <3> QED
      BY <1>7, <3>1 DEF Told
  <2>3. CASE v # p
    <3>1. phase'[v] = phase[v] /\ (SitesIn(up'[q]) \/ up'[q] = up[q])
      BY <1>6, <1>7, <2>3
    <3> QED
      BY <1>7, <2>1, <3>1 DEF Told
  <2> QED
    BY <2>2, <2>3
<1> QED
  BY <1>8, <1>9 DEF ShownInv

LEMMA ReceiveShown ==
  ASSUME TypeOK, Seats, ShownInv, NEW p \in Players, Receive(p)
  PROVE  ShownInv'
<1>1. /\ UNCHANGED <<seated, cell, characters, at, phase, pos, centre, up, loaded, missed>>
      /\ down[p] # <<>> /\ down[p] \in Seq(Notice)
      /\ knows'[p] = Take(p, knows[p], Head(down[p])) /\ down'[p] = Tail(down[p])
      /\ \A q \in Players \ {p} : knows'[q] = knows[q] /\ down'[q] = down[q]
  BY DEF Receive, serverVars, history, TypeOK
<1>2. ASSUME NEW q \in Players PROVE (Routed(q) /\ Recorded(q) /\ Located(q))'
  <2>1. Routed(q) /\ Recorded(q) /\ Located(q)
    BY DEF ShownInv
  <2> QED
    BY <1>1, <2>1 DEF Routed, Recorded, Located
<1>3. ASSUME NEW v \in Players, NEW q \in Players PROVE Told(v, q)'
  <2>1. Told(v, q)
    BY DEF ShownInv
  <2>2. Has(knows[v], down[v], q) => Has(knows'[v], down'[v], q)
    <3>1. CASE v = p
      <4> DEFINE k == knows[p]
                 s == down[p]
      <4>1. s \in Seq(Notice) /\ s # <<>>
        BY <1>1
      <4> HIDE DEF k, s
      <4>2. Has(k, s, q) => Has(Take(p, k, Head(s)), Tail(s), q)
        BY <4>1, HasRead
      <4> QED
        BY <1>1, <3>1, <4>2 DEF k, s
    <3>2. CASE v # p
      BY <1>1, <3>2
    <3> QED
      BY <3>1, <3>2
  <2> QED
    BY <1>1, <2>1, <2>2 DEF Told
<1> QED
  BY <1>2, <1>3 DEF ShownInv

LEMMA LeaveShown ==
  ASSUME TypeOK, Seats, ShownInv, NEW p \in Players, Leave(p)
  PROVE  ShownInv'
<1>1. /\ UNCHANGED <<seated, cell, characters, at, pos, centre, up, loaded, missed>>
      /\ phase[p] = "in" /\ phase'[p] = "gone"
      /\ \A q \in Players \ {p} : knows'[q] = knows[q] /\ down'[q] = down[q] /\ phase'[q] = phase[q]
  BY DEF Leave, serverVars, history, TypeOK
<1>2. ASSUME NEW q \in Players PROVE (Routed(q) /\ Recorded(q) /\ Located(q))'
  <2>1. Routed(q) /\ Recorded(q) /\ Located(q)
    BY DEF ShownInv
  <2>2. phase'[q] = "out" => phase[q] = "out"
    BY <1>1
  <2> QED
    BY <1>1, <2>1, <2>2 DEF Routed, Recorded, Located
<1>3. ASSUME NEW v \in Players, NEW q \in Players PROVE Told(v, q)'
  <2>1. Told(v, q)
    BY DEF ShownInv
  <2>2. CASE v = p
    BY <1>1, <2>2 DEF Told
  <2>3. CASE v # p
    <3>1. knows'[v] = knows[v] /\ down'[v] = down[v] /\ phase'[v] = phase[v]
      BY <1>1, <2>3
    <3> QED
      BY <1>1, <2>1, <3>1 DEF Told
  <2> QED
    BY <2>2, <2>3
<1> QED
  BY <1>2, <1>3 DEF ShownInv

-----------------------------------------------------------------------------
(* The steps of the server.                                                *)

LEMMA RequestRead ==
  ASSUME TypeOK, ShownInv, NEW p \in Players, NEW m, Hears(p, m), Heard(p)
  PROVE  /\ p \in seated
         /\ Sited(up'[p], pos[p]) /\ (~SitesIn(up'[p]) => m.cell = pos[p])
         /\ SitesIn(up[p]) <=> Sites(m) \/ SitesIn(up'[p])
         /\ Centred(up'[p], IF Centres(m) THEN m.cell ELSE loaded[p], centre[p])
         /\ m.type = "Shift" => m.cell \in Exterior
         /\ m.type = "Enter" /\ m.cell \in Exterior => loaded[p] \in Exterior
         /\ \A q \in Players \ {p} : up'[q] = up[q]
<1> DEFINE ms == up[p]
<1>1. ms \in Seq(Request) /\ ms # <<>> /\ Head(ms) = m /\ Routed(p)
  BY DEF TypeOK, Hears, ShownInv
<1>2. p \in seated /\ Sited(ms, pos[p]) /\ Centred(ms, loaded[p], centre[p])
  BY <1>1 DEF Routed
<1>3. up'[p] = Tail(ms) /\ \A q \in Players \ {p} : up'[q] = up[q]
  BY DEF Heard, TypeOK
<1> HIDE DEF ms
<1>4. /\ Sited(Tail(ms), pos[p]) /\ (~SitesIn(Tail(ms)) => Head(ms).cell = pos[p])
      /\ SitesIn(ms) <=> Sites(Head(ms)) \/ SitesIn(Tail(ms))
  BY <1>1, <1>2, SitedRead
<1>5. /\ Centred(Tail(ms), IF Centres(Head(ms)) THEN Head(ms).cell ELSE loaded[p], centre[p])
      /\ Head(ms).type = "Shift" => Head(ms).cell \in Exterior
      /\ Head(ms).type = "Enter" /\ Head(ms).cell \in Exterior => loaded[p] \in Exterior
  BY <1>1, <1>2, CentredRead
<1> QED
  BY <1>1, <1>2, <1>3, <1>4, <1>5 DEF ms

(* What is left to show of the handler of a request. *)
LEMMA HandledShown ==
  ASSUME TypeOK, ShownInv, NEW p \in Players, NEW m, Hears(p, m), Heard(p),
         UNCHANGED <<seated, phase, pos, centre>>,
         loaded'[p] = IF Centres(m) THEN m.cell ELSE loaded[p],
         \A q \in Players \ {p} : /\ loaded'[q] = loaded[q] /\ cell'[q] = cell[q] /\ at'[q] = at[q]
                                  /\ q \in characters' <=> q \in characters,
         Recorded(p)', Located(p)', \A v, q \in Players : Told(v, q)'
  PROVE  ShownInv'
<1>1. /\ p \in seated /\ Sited(up'[p], pos[p])
      /\ Centred(up'[p], IF Centres(m) THEN m.cell ELSE loaded[p], centre[p])
      /\ \A q \in Players \ {p} : up'[q] = up[q]
  BY RequestRead
<1>2. ASSUME NEW q \in Players PROVE (Routed(q) /\ Recorded(q) /\ Located(q))'
  <2>1. Routed(q) /\ Recorded(q) /\ Located(q)
    BY DEF ShownInv
  <2>2. CASE q = p
    <3>1. Centred(up'[p], loaded'[p], centre[p])
      BY <1>1
    <3> QED
      BY <1>1, <2>1, <2>2, <3>1 DEF Routed
  <2>3. CASE q # p
    <3>1. /\ up'[q] = up[q] /\ loaded'[q] = loaded[q] /\ cell'[q] = cell[q] /\ at'[q] = at[q]
          /\ q \in characters' <=> q \in characters
      BY <1>1, <2>3
    <3> QED
      BY <2>1, <3>1 DEF Routed, Recorded, Located
  <2> QED
    BY <2>2, <2>3
<1> QED
  BY <1>2 DEF ShownInv

LEMMA MoveShown ==
  ASSUME GhostInv, ShownInv, NEW p \in Players, NEW x \in Places, OnReferencesMoveRequest(p, x)
  PROVE  ShownInv'
<1> DEFINE m == Move(x)
<1>1. /\ TypeOK /\ Hears(p, m) /\ Heard(p)
      /\ UNCHANGED <<seated, cell, characters, phase, pos, centre, knows, down, loaded, missed>>
  BY DEF GhostInv, OnReferencesMoveRequest, clientVars, history
<1>2. m.cell = x /\ ~Sites(m) /\ ~Centres(m)
  BY RequestIs
<1>3. /\ p \in characters => at'[p] = x
      /\ \A q \in Players \ {p} : at'[q] = at[q]
  BY <1>1 DEF OnReferencesMoveRequest, TypeOK
<1> HIDE DEF m
<1>4. /\ ~SitesIn(up'[p]) => x = pos[p]
      /\ SitesIn(up[p]) <=> SitesIn(up'[p])
      /\ \A q \in Players \ {p} : up'[q] = up[q]
  BY <1>1, <1>2, RequestRead
<1>5. Recorded(p)'
  BY <1>1 DEF ShownInv, Recorded
<1>6. Located(p)'
  BY <1>1, <1>3, <1>4 DEF Located
<1>7. ASSUME NEW v \in Players, NEW q \in Players PROVE Told(v, q)'
  <2>1. Told(v, q)
    BY DEF ShownInv
  <2>2. SitesIn(up[q]) <=> SitesIn(up'[q])
    BY <1>4
  <2> QED
    BY <1>1, <2>1, <2>2 DEF Told
<1> QED
  BY <1>1, <1>2, <1>3, <1>5, <1>6, <1>7, HandledShown

(* Notices about p say nothing of the others. *)
LEMMA NoteIs ==
  ASSUME NEW p \in Players, NEW q \in Players
  PROVE  /\ Spares(<<>>, q) /\ ~Tells(<<>>, q)
         /\ Spares(<<Spawn(p)>>, q) /\ Spares(<<Assigned(p)>>, q) /\ Tells(<<Spawn(p)>>, p)
         /\ q # p => Spares(<<Removal(p)>>, q)
<1>1. /\ Spawn(p).type = "Spawn" /\ Assigned(p).type = "Assigned" /\ Removal(q).type = "Remove"
      /\ Spawn(p).who = p /\ Removal(p).who = p /\ Removal(q).who = q
  BY DEF Spawn, Assigned, Removal
<1>2. Spawn(p) # Removal(q) /\ Assigned(p) # Removal(q) /\ (q # p => Removal(p) # Removal(q))
  BY <1>1
<1>3. DOMAIN <<>> = {} /\ \A a : DOMAIN <<a>> = {1} /\ <<a>>[1] = a
  OBVIOUS
<1> QED
  BY <1>1, <1>2, <1>3 DEF Spares, Tells

(* A list of spawns tells of every character in it. *)
LEMMA SpawnsTell ==
  ASSUME NEW qs \in SUBSET Players, IsFiniteSet(qs)
  PROVE  /\ \A q : Spares(Spawns(qs), q)
         /\ \A q \in qs : Tells(Spawns(qs), q)
<1>1. /\ \A i \in DOMAIN Spawns(qs) : Spawns(qs)[i].type = "Spawn"
      /\ \A q \in qs : \E i \in DOMAIN Spawns(qs) : Spawns(qs)[i] = Spawn(q)
  BY SpawnTypes
<1>2. \A q : Spawn(q).who = q /\ Spawn(q).type # "Remove" /\ Removal(q).type # "Spawn"
  BY DEF Spawn, Removal
<1> QED
  BY <1>1, <1>2 DEF Spares, Tells

LEMMA ShiftShown ==
  ASSUME GhostInv, ShownInv, NEW p \in Players, NEW x \in Places, HandleGridCellShift(p, x)
  PROVE  ShownInv'
<1> DEFINE m == Shift(x)
           others == characters \ {p}
           shown == {q \in others : InRange(x, at[q])}
           late == {q \in others : InRange(x, cell[q])}
           notes == [v \in Players |-> IF v = p THEN Spawns(shown) ELSE <<>>]
<1>1. /\ TypeOK /\ Hears(p, m) /\ Heard(p) /\ IsFiniteSet(characters)
      /\ UNCHANGED <<seated, characters, at, phase, pos, centre, knows>>
      /\ \A v \in Players : phase[v] = "in" => v \in seated
  BY DEF GhostInv, Seats, HandleGridCellShift, clientVars
<1>2. /\ cell'[p] = x /\ loaded'[p] = x
      /\ \A q \in Players \ {p} : cell'[q] = cell[q] /\ loaded'[q] = loaded[q]
  BY <1>1 DEF HandleGridCellShift, TypeOK
<1>3. m.cell = x /\ m.type = "Shift" /\ ~Sites(m) /\ Centres(m)
  BY RequestIs
<1>4. shown \in SUBSET Players /\ IsFiniteSet(shown)
  BY <1>1, FS_Subset DEF TypeOK
<1>5. Post(notes) /\ Judged({p} \X shown, {p} \X late)
  BY DEF HandleGridCellShift
<1>6. notes \in [Players -> Seq(Notice)]
  <2>1. Spawns(shown) \in Seq(Notice) /\ <<>> \in Seq(Notice)
    BY <1>4, SpawnTypes
  <2> QED
    BY <2>1
<1>7. /\ notes[p] = Spawns(shown) /\ \A v \in Players \ {p} : notes[v] = <<>>
      /\ \A q \in Players : q \in shown <=> q \in others /\ InRange(x, at[q])
      /\ \A q \in Players : q \in late <=> q \in others /\ InRange(x, cell[q])
  OBVIOUS
<1> HIDE DEF m, shown, late, notes
<1>8. /\ ~SitesIn(up'[p]) => x = pos[p]
      /\ SitesIn(up[p]) <=> SitesIn(up'[p])
      /\ x \in Exterior
      /\ \A q \in Players \ {p} : up'[q] = up[q]
  BY <1>1, <1>3, RequestRead
<1>9. Recorded(p)'
  BY <1>2, RangeIs DEF Recorded
<1>10. Located(p)'
  BY <1>1, <1>2, <1>8 DEF Located
<1>11. ASSUME NEW v \in Players, NEW q \in Players PROVE Told(v, q)'
  <2>1. Told(v, q) /\ Located(q)
    BY DEF ShownInv
  <2>2. SitesIn(up[q]) <=> SitesIn(up'[q])
    BY <1>8
  <2>3. CASE v # p
    <3>1. Spares(notes[v], q) /\ <<v, q>> \notin {p} \X shown
      BY <1>7, <2>3, NoteIs
    <3>2. Has(knows[v], down[v], q) => Has(knows'[v], down'[v], q)
      BY <1>1, <1>5, <1>6, <3>1, HasPosted
    <3>3. <<v, q>> \in missed => <<v, q>> \in missed'
      BY <1>5, <3>1, MissedPairs
    <3>4. loaded'[v] = loaded[v]
      BY <1>2, <2>3
    <3> QED
      BY <1>1, <2>1, <2>2, <3>2, <3>3, <3>4 DEF Told
  <2>4. CASE v = p
    <3> SUFFICES ASSUME phase[p] = "in", q \in others, ~SitesIn(up[q]), InRange(x, pos[q])
                 PROVE  Has(knows'[p], down'[p], q) \/ <<p, q>> \in missed'
      BY <1>1, <1>2, <2>2, <2>4 DEF Told
    <3>1. at[q] = pos[q] \/ cell[q] = pos[q]
      BY <2>1 DEF Located
    <3>2. CASE q \in shown
      <4>1. Spares(notes[p], q) /\ Tells(notes[p], q)
        BY <1>4, <1>7, <3>2, SpawnsTell
      <4> QED
        BY <1>1, <1>5, <1>6, <4>1, HasPosted
    <3>3. CASE q \notin shown
      <4>1. q \in late
        BY <1>7, <3>1, <3>3
      <4>2. <<p, q>> \in {p} \X late /\ <<p, q>> \notin {p} \X shown
        BY <3>3, <4>1
      <4> QED
        BY <1>5, <4>2, MissedPairs
    <3> QED
      BY <3>2, <3>3
  <2> QED
    BY <2>3, <2>4
<1> QED
  BY <1>1, <1>2, <1>3, <1>9, <1>10, <1>11, HandledShown

(* What everybody else is told of a crossing into x. *)
LEMMA CrossingTold ==
  ASSUME NEW p \in Players, NEW x, NEW v \in Players \ {p}
  PROVE  /\ CrossingNotes(p, x) \in [Players -> Seq(Notice)] /\ CrossingNotes(p, x)[p] = <<>>
         /\ \A q \in Players \ {p} : Spares(CrossingNotes(p, x)[v], q)
         /\ InRange(cell[v], x) => /\ Spares(CrossingNotes(p, x)[v], p)
                                   /\ Tells(CrossingNotes(p, x)[v], p)
<1>1. CrossingNotes(p, x)[v] = IF InRange(cell[v], x) THEN <<Spawn(p)>> ELSE <<Removal(p)>>
  BY DEF CrossingNotes
<1>2. CrossingNotes(p, x)[p] = <<>>
  BY DEF CrossingNotes
<1>3. CrossingNotes(p, x) \in [Players -> Seq(Notice)]
  BY CrossingTypes
<1>4. \A q \in Players \ {p} : Spares(CrossingNotes(p, x)[v], q)
  <2> SUFFICES ASSUME NEW q \in Players \ {p} PROVE Spares(CrossingNotes(p, x)[v], q)
    OBVIOUS
  <2>1. Spares(<<Spawn(p)>>, q) /\ Spares(<<Removal(p)>>, q)
    BY NoteIs
  <2> QED
    BY <1>1, <2>1
<1>5. Spares(<<Spawn(p)>>, p) /\ Tells(<<Spawn(p)>>, p)
  BY NoteIs
<1> QED
  BY <1>1, <1>2, <1>3, <1>4, <1>5

LEMMA ExteriorShown ==
  ASSUME GhostInv, ShownInv, NEW p \in Players, NEW x \in Places, HandleExteriorCellEnter(p, x)
  PROVE  ShownInv'
<1> DEFINE m == Enter(x)
           notes == CrossingNotes(p, x)
           A == Beside(p, x) \X {p}
           B == Overlooking(p, x) \X {p}
<1>1. /\ TypeOK /\ Hears(p, m) /\ Heard(p) /\ x \in Exterior
      /\ UNCHANGED <<seated, characters, at, phase, pos, centre, knows, loaded>>
      /\ \A v \in Players : phase[v] = "in" => v \in seated
  BY DEF GhostInv, Seats, HandleExteriorCellEnter, clientVars
<1>2. m.cell = x /\ m.type = "Enter" /\ Sites(m) /\ ~Centres(m)
  BY <1>1, RequestIs, RangeIs
<1>3. \A q \in Players \ {p} : cell'[q] = cell[q]
  BY <1>1 DEF HandleExteriorCellEnter, TypeOK
<1>4. /\ \A v \in Players : <<v, p>> \in A <=> v \in seated /\ v # p /\ InRange(cell[v], x)
      /\ \A v \in Players : <<v, p>> \in B <=> v \in seated /\ v # p /\ InRange(loaded[v], x)
      /\ \A v \in Players : \A q \in Players \ {p} : <<v, q>> \notin A
  BY DEF Beside, Overlooking, Others
<1>5. \/ p \notin characters /\ UNCHANGED <<cell, down, missed>>
      \/ cell[p] = Nowhere /\ UNCHANGED <<down, missed>> /\ cell'[p] = x
      \/ Post(notes) /\ Judged(A, B) /\ cell'[p] = x
  BY <1>1 DEF HandleExteriorCellEnter, GetCharacter, TypeOK
<1> HIDE DEF m, notes, A, B
<1>6. /\ ~SitesIn(up'[p]) => x = pos[p]
      /\ loaded[p] \in Exterior
      /\ SitesIn(up[p])
      /\ \A q \in Players \ {p} : up'[q] = up[q]
  BY <1>1, <1>2, RequestRead
<1>7. Recorded(p) /\ cell[p] # Nowhere
  <2>1. loaded[p] # Nowhere
    BY <1>6, RangeIs DEF Places
  <2> QED
    BY <2>1 DEF ShownInv, Recorded
<1>8. Recorded(p)'
  <2>1. loaded[p] \notin Interior /\ x # Nowhere
    BY <1>6, RangeIs
  <2> QED
    BY <1>1, <1>5, <1>7, <2>1 DEF Recorded
<1>9. Located(p)'
  BY <1>1, <1>5, <1>6 DEF Located
<1>10. ASSUME NEW v \in Players, NEW q \in Players PROVE Told(v, q)'
  <2>1. Told(v, q)
    BY DEF ShownInv
  <2>2. CASE p \notin characters /\ UNCHANGED <<cell, down, missed>>
    <3>1. q \in characters => SitesIn(up'[q]) = SitesIn(up[q])
      BY <1>6, <2>2
    <3> QED
      BY <1>1, <2>1, <2>2, <3>1 DEF Told
  <2>3. CASE Post(notes) /\ Judged(A, B) /\ cell'[p] = x
    <3>1. CASE v = p
      <4>1. q # p => up'[q] = up[q] /\ <<v, q>> \notin A
        BY <1>4, <1>6, <3>1
      <4>2. Has(knows[v], down[v], q) => Has(knows'[v], down'[v], q)
        <5>1. notes \in [Players -> Seq(Notice)] /\ notes[p] = <<>>
          <6>1. notes \in [Players -> Seq(Notice)]
            BY CrossingTypes DEF notes
          <6> QED
            BY <6>1 DEF notes, CrossingNotes
        <5>2. Spares(notes[v], q)
          BY <3>1, <5>1, NoteIs
        <5> QED
          BY <1>1, <2>3, <5>1, <5>2, HasPosted
      <4>3. q # p /\ <<v, q>> \in missed => <<v, q>> \in missed'
        BY <2>3, <4>1, MissedPairs
      <4> QED
        BY <1>1, <2>1, <3>1, <4>1, <4>2, <4>3 DEF Told
    <3>2. CASE v # p /\ q # p
      <4>1. up'[q] = up[q] /\ <<v, q>> \notin A
        BY <1>4, <1>6, <3>2
      <4>2. notes \in [Players -> Seq(Notice)] /\ Spares(notes[v], q)
        BY <3>2, CrossingTold DEF notes
      <4>3. Has(knows[v], down[v], q) => Has(knows'[v], down'[v], q)
        BY <1>1, <2>3, <4>2, HasPosted
      <4>4. <<v, q>> \in missed => <<v, q>> \in missed'
        BY <2>3, <4>1, MissedPairs
      <4> QED
        BY <1>1, <2>1, <4>1, <4>3, <4>4 DEF Told
    <3>3. CASE v # p /\ q = p
      <4> SUFFICES ASSUME phase[v] = "in", ~SitesIn(up'[p]), InRange(loaded[v], pos[p])
                   PROVE  Has(knows'[v], down'[v], p) \/ <<v, p>> \in missed'
        BY <1>1, <3>3 DEF Told
      <4>1. v \in seated /\ x = pos[p] /\ <<v, p>> \in B
        BY <1>1, <1>4, <1>6, <3>3
      <4>2. CASE InRange(cell[v], x)
        <5>1. notes \in [Players -> Seq(Notice)] /\ Spares(notes[v], p) /\ Tells(notes[v], p)
          BY <3>3, <4>2, CrossingTold DEF notes
        <5> QED
          BY <1>1, <2>3, <4>1, <5>1, HasPosted
      <4>3. CASE ~InRange(cell[v], x)
        <5>1. <<v, p>> \notin A
          BY <1>4, <4>3
        <5> QED
          BY <2>3, <4>1, <5>1, MissedPairs
      <4> QED
        BY <4>2, <4>3
    <3> QED
      BY <3>1, <3>2, <3>3
  <2> QED
    BY <1>5, <1>7, <2>2, <2>3
<1>11. loaded'[p] = IF Centres(m) THEN m.cell ELSE loaded[p]
  BY <1>1, <1>2
<1> QED
  BY <1>1, <1>3, <1>8, <1>9, <1>10, <1>11, HandledShown

LEMMA InteriorShown ==
  ASSUME GhostInv, ShownInv, NEW p \in Players, NEW x \in Places, HandleInteriorCellEnter(p, x)
  PROVE  ShownInv'
<1> DEFINE m == Enter(x)
           others == characters \ {p}
           shown == {q \in others : at[q] = x}
           late == {q \in others : cell[q] = x}
           told == IF p \in characters THEN Beside(p, x) \X {p} ELSE {}
           notes == [v \in Players |-> IF v = p THEN Spawns(shown)
                                       ELSE IF p \in characters THEN CrossingNotes(p, x)[v] ELSE <<>>]
           A == told \cup ({p} \X shown)
           B == {p} \X late
<1>1. /\ TypeOK /\ Hears(p, m) /\ Heard(p) /\ IsFiniteSet(characters) /\ x \in Interior
      /\ UNCHANGED <<seated, characters, at, phase, pos, centre, knows>>
      /\ \A v \in Players : phase[v] = "in" => v \in seated
  BY DEF GhostInv, Seats, HandleInteriorCellEnter, clientVars
<1>2. /\ cell'[p] = x /\ loaded'[p] = x
      /\ \A q \in Players \ {p} : cell'[q] = cell[q] /\ loaded'[q] = loaded[q]
  BY <1>1 DEF HandleInteriorCellEnter, TypeOK
<1>3. m.cell = x /\ m.type = "Enter" /\ Sites(m) /\ Centres(m)
  BY <1>1, RequestIs
<1>4. shown \in SUBSET Players /\ IsFiniteSet(shown)
  BY <1>1, FS_Subset DEF TypeOK
<1>5. Post(notes) /\ Judged(A, B)
  BY DEF HandleInteriorCellEnter
<1>6. notes \in [Players -> Seq(Notice)]
  <2>1. Spawns(shown) \in Seq(Notice) /\ <<>> \in Seq(Notice)
    BY <1>4, SpawnTypes
  <2>2. \A v \in Players : CrossingNotes(p, x)[v] \in Seq(Notice)
    BY CrossingTypes
  <2> QED
    BY <2>1, <2>2
<1>7. /\ notes[p] = Spawns(shown)
      /\ \A v \in Players \ {p} : notes[v] = IF p \in characters THEN CrossingNotes(p, x)[v] ELSE <<>>
      /\ \A q \in Players : q \in shown <=> q \in others /\ at[q] = x
      /\ \A q \in Players : q \in late <=> q \in others /\ cell[q] = x
  OBVIOUS
<1>8. /\ \A v, q \in Players : v # p /\ q # p => <<v, q>> \notin A
      /\ \A q \in Players \ {p} : <<p, q>> \in A => q \in shown
      /\ \A q \in late : <<p, q>> \in B
  OBVIOUS
<1> HIDE DEF m, shown, late, notes, told, A, B
<1>9. /\ ~SitesIn(up'[p]) => x = pos[p]
      /\ \A q \in Players \ {p} : up'[q] = up[q]
  BY <1>1, <1>3, RequestRead
<1>10. Recorded(p)'
  BY <1>2, RangeIs DEF Recorded
<1>11. Located(p)'
  BY <1>1, <1>2, <1>9 DEF Located
<1>12. ASSUME NEW v \in Players, NEW q \in Players PROVE Told(v, q)'
  <2>1. Told(v, q) /\ Located(q) /\ Recorded(v)
    BY DEF ShownInv
  <2>2. CASE v = p
    <3> SUFFICES ASSUME phase[p] = "in", q \in others, ~SitesIn(up[q]), InRange(x, pos[q])
                 PROVE  Has(knows'[p], down'[p], q) \/ <<p, q>> \in missed'
      BY <1>1, <1>2, <1>9, <2>2 DEF Told
    <3>1. x = pos[q]
      BY <1>1, RangeIs DEF TypeOK
    <3>2. at[q] = x \/ cell[q] = x
      BY <2>1, <3>1 DEF Located
    <3>3. CASE q \in shown
      <4>1. Spares(notes[p], q) /\ Tells(notes[p], q)
        BY <1>4, <1>7, <3>3, SpawnsTell
      <4> QED
        BY <1>1, <1>5, <1>6, <4>1, HasPosted
    <3>4. CASE q \notin shown
      <4>1. q \in late
        BY <1>7, <3>2, <3>4
      <4>2. <<p, q>> \in B /\ <<p, q>> \notin A
        BY <1>8, <3>4, <4>1
      <4> QED
        BY <1>5, <4>2, MissedPairs
    <3> QED
      BY <3>3, <3>4
  <2>3. CASE v # p /\ q # p
    <3>1. up'[q] = up[q] /\ loaded'[v] = loaded[v] /\ <<v, q>> \notin A
      BY <1>2, <1>8, <1>9, <2>3
    <3>2. Spares(notes[v], q)
      BY <1>7, <2>3, CrossingTold, NoteIs
    <3>3. Has(knows[v], down[v], q) => Has(knows'[v], down'[v], q)
      BY <1>1, <1>5, <1>6, <3>2, HasPosted
    <3>4. <<v, q>> \in missed => <<v, q>> \in missed'
      BY <1>5, <3>1, MissedPairs
    <3> QED
      BY <1>1, <2>1, <3>1, <3>3, <3>4 DEF Told
  <2>4. CASE v # p /\ q = p
    <3> SUFFICES ASSUME phase[v] = "in", p \in characters, ~SitesIn(up'[p]), InRange(loaded[v], pos[p])
                 PROVE  Has(knows'[v], down'[v], p)
      BY <1>1, <1>2, <2>4 DEF Told
    <3>1. x = pos[p] /\ v \in seated
      BY <1>1, <1>9
    <3>2. loaded[v] = x
      BY <1>1, <3>1, RangeIs DEF TypeOK
    <3>3. InRange(cell[v], x)
      BY <1>1, <2>1, <3>2 DEF Recorded, InRange
    <3>4. Spares(notes[v], p) /\ Tells(notes[v], p)
      BY <1>7, <2>4, <3>3, CrossingTold
    <3> QED
      BY <1>1, <1>5, <1>6, <3>1, <3>4, HasPosted
  <2> QED
    BY <2>2, <2>3, <2>4
<1> QED
  BY <1>1, <1>2, <1>3, <1>10, <1>11, <1>12, HandledShown

LEMMA AssignShown ==
  ASSUME GhostInv, ShownInv, NEW p \in Players, NEW x \in Places, OnAssignCharacterRequest(p, x)
  PROVE  ShownInv'
<1> DEFINE m == Assign(x)
           notes == [v \in Players |-> IF v = p THEN <<Assigned(p)>>
                                       ELSE IF InRange(x, cell[v]) THEN <<Spawn(p)>> ELSE <<>>]
           A == Beside(p, x) \X {p}
           B == Overlooking(p, x) \X {p}
<1>1. /\ TypeOK /\ Hears(p, m) /\ Heard(p)
      /\ UNCHANGED <<seated, cell, phase, pos, centre, knows, loaded>>
      /\ characters' = characters \cup {p}
      /\ \A v \in Players : phase[v] = "in" => v \in seated
  BY DEF GhostInv, Seats, OnAssignCharacterRequest, clientVars
<1>2. m.cell = x /\ m.type = "Assign" /\ Sites(m) /\ ~Centres(m)
  BY RequestIs
<1>3. at'[p] = x /\ \A q \in Players \ {p} : at'[q] = at[q]
  BY <1>1 DEF OnAssignCharacterRequest, TypeOK
<1>4. Post(notes) /\ Judged(A, B)
  BY DEF OnAssignCharacterRequest
<1>5. notes \in [Players -> Seq(Notice)]
  <2>1. Assigned(p) \in Notice /\ Spawn(p) \in Notice
    BY NoticeTypes
  <2>2. <<Assigned(p)>> \in Seq(Notice) /\ <<Spawn(p)>> \in Seq(Notice) /\ <<>> \in Seq(Notice)
    BY <2>1
  <2> QED
    BY <2>2
<1>6. /\ notes[p] = <<Assigned(p)>>
      /\ \A v \in Players \ {p} : notes[v] = IF InRange(x, cell[v]) THEN <<Spawn(p)>> ELSE <<>>
  OBVIOUS
<1>7. /\ \A v \in Players : <<v, p>> \in A <=> v \in seated /\ v # p /\ InRange(cell[v], x)
      /\ \A v \in Players : <<v, p>> \in B <=> v \in seated /\ v # p /\ InRange(loaded[v], x)
      /\ \A v \in Players : \A q \in Players \ {p} : <<v, q>> \notin A
  BY DEF Beside, Overlooking, Others
<1> HIDE DEF m, notes, A, B
<1>8. /\ ~SitesIn(up'[p]) => x = pos[p]
      /\ \A q \in Players \ {p} : up'[q] = up[q]
  BY <1>1, <1>2, RequestRead
<1>9. Recorded(p)'
  BY <1>1 DEF ShownInv, Recorded
<1>10. Located(p)'
  BY <1>1, <1>3, <1>8 DEF Located
<1>11. ASSUME NEW v \in Players, NEW q \in Players PROVE Told(v, q)'
  <2>1. Told(v, q)
    BY DEF ShownInv
  <2>2. CASE q # p
    <3>1. up'[q] = up[q] /\ <<v, q>> \notin A
      BY <1>7, <1>8, <2>2
    <3>2. Spares(notes[v], q)
      <4>1. Spares(<<Assigned(p)>>, q) /\ Spares(<<Spawn(p)>>, q) /\ Spares(<<>>, q)
        BY NoteIs
      <4> QED
        BY <1>6, <4>1
    <3>3. Has(knows[v], down[v], q) => Has(knows'[v], down'[v], q)
      BY <1>1, <1>4, <1>5, <3>2, HasPosted
    <3>4. <<v, q>> \in missed => <<v, q>> \in missed'
      BY <1>4, <3>1, MissedPairs
    <3> QED
      BY <1>1, <2>1, <2>2, <3>1, <3>3, <3>4 DEF Told
  <2>3. CASE q = p
    <3> SUFFICES ASSUME phase[v] = "in", v # p, ~SitesIn(up'[p]), InRange(loaded[v], pos[p])
                 PROVE  Has(knows'[v], down'[v], p) \/ <<v, p>> \in missed'
      BY <1>1, <2>3 DEF Told
    <3>1. v \in seated /\ x = pos[p] /\ <<v, p>> \in B
      BY <1>1, <1>7, <1>8
    <3>2. CASE InRange(cell[v], x)
      <4>1. InRange(x, cell[v])
        BY <3>2, RangeIs, <1>1 DEF TypeOK
      <4>2. Spares(notes[v], p) /\ Tells(notes[v], p)
        BY <1>6, <4>1, NoteIs
      <4> QED
        BY <1>1, <1>4, <1>5, <3>1, <4>2, HasPosted
    <3>3. CASE ~InRange(cell[v], x)
      <4>1. <<v, p>> \notin A
        BY <1>7, <3>3
      <4> QED
        BY <1>4, <3>1, <4>1, MissedPairs
    <3> QED
      BY <3>2, <3>3
  <2> QED
    BY <2>2, <2>3
<1>12. loaded'[p] = IF Centres(m) THEN m.cell ELSE loaded[p]
  BY <1>1, <1>2
<1>13. \A q \in Players \ {p} : q \in characters' <=> q \in characters
  BY <1>1
<1> QED
  BY <1>1, <1>3, <1>9, <1>10, <1>11, <1>12, <1>13, HandledShown

(* Whoever leaves takes what he was shown with him, and the notices about  *)
(* his character take away no other body.                                  *)
LEMMA DisconnectionShown ==
  ASSUME GhostInv, ShownInv, NEW p \in Players, OnDisconnection(p)
  PROVE  ShownInv'
<1> DEFINE doomed == Doomed(p)
           notes == [v \in Players |-> SetToSeq({Removal(q) : q \in doomed})]
<1>1. /\ TypeOK /\ IsFiniteSet(characters) /\ phase[p] = "gone"
      /\ UNCHANGED <<phase, pos, centre, knows>>
      /\ seated' = seated \ {p} /\ characters' = characters \ doomed
  BY DEF GhostInv, OnDisconnection, clientVars
<1>2. /\ cell'[p] = Nowhere /\ loaded'[p] = Nowhere /\ up'[p] = <<>>
      /\ \A q \in Players \ {p} : cell'[q] = cell[q] /\ loaded'[q] = loaded[q] /\ up'[q] = up[q]
      /\ \A q \in Players \ doomed : at'[q] = at[q]
  BY <1>1 DEF OnDisconnection, TypeOK
<1>3. /\ doomed \subseteq characters /\ (p \in characters => p \in doomed)
  BY DEF Doomed, Own
<1>4. Post(notes) /\ \A v \in Players : \A q \in Players \ doomed :
                       v # p /\ <<v, q>> \in missed => <<v, q>> \in missed'
  BY DEF OnDisconnection
<1>5. /\ notes \in [Players -> Seq(Notice)]
      /\ \A v \in Players : \A q \in Players \ doomed : Spares(notes[v], q)
  <2> DEFINE S == {Removal(q) : q \in doomed}
  <2>1. IsFiniteSet(S)
    <3>1. IsFiniteSet(doomed)
      BY <1>1, <1>3, FS_Subset
    <3> DEFINE f == [q \in doomed |-> Removal(q)]
    <3>2. f \in Surjection(doomed, S)
      BY DEF Surjection
    <3> QED
      BY <3>1, <3>2, FS_Surjection
  <2>2. doomed \subseteq Players
    BY <1>1, <1>3 DEF TypeOK
  <2>3. S \subseteq Notice /\ \A m \in S : m.who \in doomed
    BY <2>2, NoticeTypes
  <2>4. \A q : Removal(q).who = q
    BY NoticeTypes
  <2> HIDE DEF S, doomed
  <2>5. SetToSeq(S) \in Seq(S)
    BY <2>1, Listed
  <2>6. SetToSeq(S) \in Seq(Notice)
    BY <2>3, <2>5
  <2>7. \A i \in DOMAIN SetToSeq(S) : SetToSeq(S)[i] \in S
    BY <2>5
  <2>8. \A q \in Players \ doomed : Spares(SetToSeq(S), q)
    BY <2>3, <2>4, <2>7 DEF Spares
  <2>9. \A v \in Players : notes[v] = SetToSeq(S)
    BY DEF S
  <2>10. notes = [v \in Players |-> notes[v]]
    OBVIOUS
  <2> HIDE DEF notes
  <2> QED
    BY <2>6, <2>8, <2>9, <2>10
<1> HIDE DEF doomed, notes
<1>6. ASSUME NEW q \in Players PROVE (Routed(q) /\ Recorded(q) /\ Located(q))'
  <2>1. Routed(q) /\ Recorded(q) /\ Located(q)
    BY DEF ShownInv
  <2>2. CASE q = p
    <3>1. Sited(<<>>, pos[p])
      BY DEF Sited
    <3>2. p \notin seated' /\ p \notin characters' /\ Nowhere \notin Interior
      BY <1>1, <1>3, RangeIs DEF Places, TypeOK
    <3> QED
      BY <1>1, <1>2, <2>1, <2>2, <3>1, <3>2 DEF Routed, Recorded, Located
  <2>3. CASE q # p
    <3>1. /\ up'[q] = up[q] /\ loaded'[q] = loaded[q] /\ cell'[q] = cell[q]
          /\ (q \in seated' <=> q \in seated) /\ (q \in characters' => q \in characters /\ at'[q] = at[q])
      BY <1>1, <1>2, <2>3
    <3> QED
      BY <1>1, <2>1, <3>1 DEF Routed, Recorded, Located
  <2> QED
    BY <2>2, <2>3
<1>7. ASSUME NEW v \in Players, NEW q \in Players PROVE Told(v, q)'
  <2>1. Told(v, q)
    BY DEF ShownInv
  <2>2. CASE v = p \/ q \in doomed
    BY <1>1, <2>2 DEF Told
  <2>3. CASE v # p /\ q \notin doomed
    <3>1. q \in characters => up'[q] = up[q]
      BY <1>2, <1>3, <2>3
    <3>2. loaded'[v] = loaded[v] /\ (<<v, q>> \in missed => <<v, q>> \in missed')
      BY <1>2, <1>4, <2>3
    <3>3. Spares(notes[v], q)
      BY <1>5, <2>3
    <3>4. Has(knows[v], down[v], q) => Has(knows'[v], down'[v], q)
      BY <1>1, <1>4, <1>5, <3>3, HasPosted
    <3> QED
      BY <1>1, <2>1, <3>1, <3>2, <3>4 DEF Told
  <2> QED
    BY <2>2, <2>3
<1> QED
  BY <1>6, <1>7 DEF ShownInv

-----------------------------------------------------------------------------

LEMMA InitShown == Init => ShownInv
<1> SUFFICES ASSUME Init PROVE ShownInv
  OBVIOUS
<1>1. \A x : Sited(<<>>, x)
  BY DEF Sited
<1>2. ASSUME NEW p \in Players PROVE Routed(p) /\ Recorded(p) /\ Located(p)
  <2>1. Nowhere \notin Interior
    BY VisibilityAssumption DEF Places
  <2> QED
    BY <1>1, <2>1 DEF Init, Routed, Recorded, Located
<1>3. ASSUME NEW p \in Players, NEW q \in Players PROVE Told(p, q)
  BY DEF Init, Told
<1> QED
  BY <1>2, <1>3 DEF ShownInv

LEMMA NextShown == GhostInv /\ ShownInv /\ [Next]_vars => ShownInv'
<1> SUFFICES ASSUME GhostInv, ShownInv, [Next]_vars PROVE ShownInv'
  OBVIOUS
<1>1. CASE UNCHANGED vars
  <2>1. /\ UNCHANGED <<seated, cell, characters, at, phase, pos, centre, knows, up, down>>
        /\ UNCHANGED <<loaded, missed>>
    BY <1>1 DEF vars, serverVars, clientVars, history
  <2> QED
    BY <2>1 DEF ShownInv, Routed, Recorded, Located, Told
<1>2. TypeOK /\ Seats
  BY DEF GhostInv
<1>3. ASSUME NEW p \in Players,
             Join(p) \/ Introduce(p) \/ Recentre(p) \/ Report(p) \/ Receive(p) \/ Leave(p)
      PROVE  ShownInv'
  BY <1>2, <1>3, JoinShown, IntroduceShown, RecentreShown, ReportShown, ReceiveShown, LeaveShown
<1>4. ASSUME NEW p \in Players, NEW x \in Places, Go(p, x) PROVE ShownInv'
  BY <1>2, <1>4, GoShown
<1>5. ASSUME NEW p \in Players, Handle(p) PROVE ShownInv'
  BY <1>5, ShiftShown, ExteriorShown, InteriorShown, MoveShown, AssignShown DEF Handle
<1>6. ASSUME NEW p \in Players, OnDisconnection(p) PROVE ShownInv'
  BY <1>6, DisconnectionShown
<1> QED
  BY <1>1, <1>3, <1>4, <1>5, <1>6 DEF Next

(* Once everything has arrived, a client has a body for each character in  *)
(* the cells it has loaded, but for those the server judged wrongly: what  *)
(* HandleGridCellShift, the two handlers of a cell that is entered and     *)
(* OnCharacterSpawned send is enough, whatever order requests come in.     *)
THEOREM EverybodyShown == Spec => []Shown
<1>1. GhostInv /\ ShownInv => Shown
  <2> SUFFICES ASSUME GhostInv, ShownInv, NEW p \in Players, NEW q \in Players,
                      phase[p] = "in", up[p] = <<>>, up[q] = <<>>, down[p] = <<>>,
                      q \in characters \ {p}, InRange(centre[p], pos[q])
               PROVE  q \in knows[p] \/ <<p, q>> \in missed
    BY DEF Shown, Settled, InView
  <2>1. p \in seated /\ Routed(p) /\ Told(p, q)
    BY DEF GhostInv, Seats, ShownInv
  <2>2. DOMAIN <<>> = {}
    OBVIOUS
  <2>3. centre[p] = loaded[p]
    BY <2>1, <2>2 DEF Routed, Centred, Loads
  <2>4. ~SitesIn(up[q])
    BY <2>2 DEF SitesIn
  <2>5. Has(knows[p], down[p], q) \/ <<p, q>> \in missed
    BY <2>1, <2>3, <2>4 DEF Told
  <2> QED
    BY <2>2, <2>5 DEF Has
<1> QED
  BY <1>1, InitShown, NextShown, InitGhost, NextGhost, PTL DEF Spec
=============================================================================
