---------------------------- MODULE SessionProofs ----------------------------
(* Proofs about Session: what its messages say always arrives.             *)
(*                                                                         *)
(* The heart is Route: what a client has now, changed by the notices on    *)
(* their way to it one after the other, ends at what the server believes   *)
(* it to have.                                                             *)
EXTENDS Session, FiniteSetTheorems, SequenceTheorems, TLAPS

Standing == [known : Nat, rows : [Conns -> Nat]]

(* Reading `m` takes a client from `x` to `y`, and `m` fits what it has. *)
Reads(m, x, y) ==
  /\ m.type = "Update" =>
       /\ m.start = x.known
       /\ y = [known |-> x.known + Len(m.values), rows |-> x.rows]
  /\ m.type = "Joined" =>
       y = [known |-> x.known,
            rows |-> [k \in Conns |-> x.rows[k] + (IF k \in m.who THEN 1 ELSE 0)]]
  /\ m.type = "Left" =>
       y = [known |-> x.known, rows |-> [k \in Conns |-> IF k = m.who THEN 0 ELSE x.rows[k]]]
  /\ m.type \in {"Accepted", "Refused"} => y = x
  /\ m.type = "Play" => y = x /\ (m.id # NoId => m.id < x.known)

Path(q, a, b) ==
  \E r \in [0 .. Len(q) -> Standing] :
    /\ r[0] = a /\ r[Len(q)] = b
    /\ \A i \in 1 .. Len(q) : Reads(q[i], r[i - 1], r[i])

LEMMA PathEmpty ==
  ASSUME NEW a \in Standing
  PROVE  Path(<<>>, a, a)
<1> DEFINE r == [i \in 0 .. 0 |-> a]
<1>1. Len(<<>>) = 0
  OBVIOUS
<1>2. r \in [0 .. Len(<<>>) -> Standing] /\ r[0] = a /\ r[Len(<<>>)] = a
  BY <1>1
<1>3. \A i \in 1 .. Len(<<>>) : Reads(<<>>[i], r[i - 1], r[i])
  BY <1>1
<1> QED
  BY <1>2, <1>3 DEF Path

LEMMA PathNowhere ==
  ASSUME NEW a, NEW b, Path(<<>>, a, b)
  PROVE  a = b
BY DEF Path

LEMMA PathTail ==
  ASSUME NEW q \in Seq(Notice), q # <<>>, NEW a \in Standing, NEW b, Path(q, a, b)
  PROVE  \E x \in Standing : Reads(Head(q), a, x) /\ Path(Tail(q), x, b)
<1>1. PICK r \in [0 .. Len(q) -> Standing] :
        /\ r[0] = a /\ r[Len(q)] = b
        /\ \A i \in 1 .. Len(q) : Reads(q[i], r[i - 1], r[i])
  BY DEF Path
<1>2. Len(q) \in Nat \ {0} /\ Len(Tail(q)) = Len(q) - 1 /\ Head(q) = q[1]
      /\ \A i \in 1 .. Len(q) - 1 : Tail(q)[i] = q[i + 1]
  OBVIOUS
<1> DEFINE n == Len(q) - 1
           s == [i \in 0 .. n |-> r[i + 1]]
<1>3. r[1] \in Standing /\ Reads(Head(q), a, r[1])
  <2>1. 1 \in 1 .. Len(q) /\ 1 \in 0 .. Len(q)
    BY <1>2
  <2>2. Reads(q[1], r[1 - 1], r[1])
    BY <1>1, <2>1
  <2> QED
    BY <1>1, <1>2, <2>1, <2>2
<1>4. s \in [0 .. Len(Tail(q)) -> Standing] /\ s[0] = r[1] /\ s[Len(Tail(q))] = b
  BY <1>1, <1>2
<1>5. \A i \in 1 .. Len(Tail(q)) : Reads(Tail(q)[i], s[i - 1], s[i])
  <2> SUFFICES ASSUME NEW i \in 1 .. Len(Tail(q)) PROVE Reads(Tail(q)[i], s[i - 1], s[i])
    OBVIOUS
  <2>1. i + 1 \in 1 .. Len(q) /\ (i + 1) - 1 = i /\ i \in 0 .. n /\ i - 1 \in 0 .. n
    BY <1>2
  <2>2. s[i] = r[i + 1] /\ s[i - 1] = r[i] /\ Tail(q)[i] = q[i + 1]
    BY <1>2, <2>1
  <2> QED
    BY <1>1, <2>1, <2>2
<1> QED
  BY <1>3, <1>4, <1>5 DEF Path

LEMMA PathAppend ==
  ASSUME NEW q \in Seq(Notice), NEW a, NEW b, NEW m, NEW y \in Standing,
         Path(q, a, b), Reads(m, b, y)
  PROVE  Path(Append(q, m), a, y)
<1>1. PICK r \in [0 .. Len(q) -> Standing] :
        /\ r[0] = a /\ r[Len(q)] = b
        /\ \A i \in 1 .. Len(q) : Reads(q[i], r[i - 1], r[i])
  BY DEF Path
<1> DEFINE n == Len(q) + 1
           p == Append(q, m)
           s == [i \in 0 .. n |-> IF i = n THEN y ELSE r[i]]
<1>2. Len(q) \in Nat /\ Len(p) = n /\ p[n] = m /\ \A i \in 1 .. Len(q) : p[i] = q[i]
  OBVIOUS
<1>3. s \in [0 .. Len(p) -> Standing] /\ s[0] = a /\ s[Len(p)] = y
  BY <1>1, <1>2
<1>4. \A i \in 1 .. Len(p) : Reads(p[i], s[i - 1], s[i])
  <2> SUFFICES ASSUME NEW i \in 1 .. n PROVE Reads(p[i], s[i - 1], s[i])
    BY <1>2
  <2>1. CASE i = n
    <3>1. s[i] = y /\ s[i - 1] = r[Len(q)] /\ p[i] = m
      BY <1>2, <2>1
    <3> QED
      BY <1>1, <3>1
  <2>2. CASE i # n
    <3>1. i \in 1 .. Len(q) /\ s[i] = r[i] /\ s[i - 1] = r[i - 1] /\ p[i] = q[i]
      BY <1>2, <2>2
    <3> QED
      BY <1>1, <3>1
  <2> QED
    BY <2>1, <2>2
<1> QED
  BY <1>3, <1>4 DEF Path

LEMMA PathThree ==
  ASSUME NEW m1 \in Notice, NEW m2 \in Notice, NEW m3 \in Notice,
         NEW a \in Standing, NEW b \in Standing, NEW c \in Standing, NEW d \in Standing,
         Reads(m1, a, b), Reads(m2, b, c), Reads(m3, c, d)
  PROVE  Path(<<m1, m2, m3>>, a, d)
<1> DEFINE q == <<m1, m2, m3>>
           r == [i \in 0 .. 3 |-> IF i = 0 THEN a ELSE IF i = 1 THEN b ELSE IF i = 2 THEN c ELSE d]
<1>1. Len(q) = 3 /\ q[1] = m1 /\ q[2] = m2 /\ q[3] = m3
  OBVIOUS
<1>2. r \in [0 .. 3 -> Standing] /\ r[0] = a /\ r[1] = b /\ r[2] = c /\ r[3] = d
  OBVIOUS
<1> HIDE DEF q, r
<1>3. \A i \in 1 .. 3 : Reads(q[i], r[i - 1], r[i])
  <2> SUFFICES ASSUME NEW i \in 1 .. 3 PROVE Reads(q[i], r[i - 1], r[i])
    OBVIOUS
  <2>1. CASE i = 1
    BY <1>1, <1>2, <2>1
  <2>2. CASE i = 2
    BY <1>1, <1>2, <2>2
  <2>3. CASE i = 3
    BY <1>1, <1>2, <2>3
  <2> QED
    BY <2>1, <2>2, <2>3
<1>4. Path(q, a, d)
  BY <1>1, <1>2, <1>3 DEF Path
<1> QED
  BY <1>4 DEF q

-----------------------------------------------------------------------------
(* The inductive invariant.                                                *)

(* Connections are numbered in the order they are made; each has one       *)
(* client, and a client without one is offline.                            *)
Links ==
  /\ made <= MaxConns /\ players \subseteq open /\ open \subseteq 1 .. made
  /\ \A c \in Clients : conn[c] \in 1 .. made \/ (conn[c] = NoConn /\ ~online[c])
  /\ \A c, d \in Clients : conn[c] = conn[d] /\ conn[c] # NoConn => c = d

(* Before it is let in a client is told nothing and knows nothing, and a   *)
(* connection carries one request to be let in, the first it carries.      *)
Quiet ==
  /\ \A k \in Conns \ Attached : down[k] = <<>>
  /\ \A k \in Conns \ players : down[k] = <<>> \/ down[k] = <<Refused>>
  /\ \A k \in open \ players : down[k] = <<>>
  /\ \A c \in Clients : conn[c] \in open \ players => ~online[c]
  /\ \A c \in Clients : ~online[c] => cache[c] = <<>>
  /\ \A k \in Conns \ open : up[k] = <<>>
  /\ \A k \in Conns : \A i \in DOMAIN up[k] : up[k][i].type = "Auth" => i = 1 /\ k \notin players

(* The answer is the first thing a client that was let in reads. *)
Answered ==
  \A c \in Clients : Live(c) =>
    /\ ~online[c] => down[conn[c]] # <<>> /\ down[conn[c]][1].type = "Accepted"
    /\ \A i \in DOMAIN down[conn[c]] : down[conn[c]][i].type = "Accepted" => i = 1 /\ ~online[c]

CachesFollow ==
  \A c \in Clients : Live(c) =>
    Len(cache[c]) <= Len(table) /\ \A i \in 1 .. Len(cache[c]) : cache[c][i] = table[i]

TableSound ==
  /\ \A i, j \in 1 .. Len(table) : table[i] = table[j] => i = j
  /\ \A k \in players : cacheId[k] = Len(table)

(* A message that is right about the table `t`. *)
RightSay(m, t) ==
  m.type = "Say" /\ m.id # NoId => m.id < Len(t) /\ t[m.id + 1] = m.text

RightNotice(m, t) ==
  /\ m.type = "Update" => m.start + Len(m.values) <= Len(t)
       /\ \A j \in 1 .. Len(m.values) : m.values[j] = t[m.start + j]
  /\ m.type = "Play" /\ m.id # NoId => m.id < Len(t) /\ t[m.id + 1] = m.text

SaysRight == \A k \in Conns : \A i \in 1 .. Len(up[k]) : RightSay(up[k][i], table)
NoticesRight == \A k \in players : \A i \in 1 .. Len(down[k]) : RightNotice(down[k][i], table)

Now(c) == [known |-> IF online[c] THEN Len(cache[c]) ELSE 0,
           rows |-> IF online[c] THEN roster[c] ELSE Nobody]
Meant(k) == [known |-> cacheId[k],
             rows |-> [j \in Conns |-> IF j \in players \ {k} THEN 1 ELSE 0]]

(* What is on its way to a client makes up for what it lacks. *)
Route == \A c \in Clients : Live(c) => Path(down[conn[c]], Now(c), Meant(conn[c]))

SessionInv ==
  TypeOK /\ Links /\ Quiet /\ Answered /\ CachesFollow /\ TableSound
  /\ SaysRight /\ NoticesRight /\ Route

LEMMA Standings ==
  ASSUME TypeOK
  PROVE  /\ \A c \in Clients : Now(c) \in Standing
         /\ \A k \in Conns : Meant(k) \in Standing
<1>1. Nobody \in [Conns -> Nat]
  BY DEF Nobody
<1>2. \A c \in Clients : Len(cache[c]) \in Nat
  BY DEF TypeOK
<1> QED
  BY <1>1, <1>2 DEF Now, Meant, Standing, TypeOK

LEMMA LiveConn ==
  ASSUME TypeOK, Links, NEW c \in Clients, Live(c)
  PROVE  conn[c] \in Conns /\ conn[c] # NoConn /\ conn[c] \in Attached /\ conn[c] \in open
<1>1. conn[c] \in Conns /\ conn[c] \in open
  BY DEF TypeOK, Links, Live
<1>2. conn[c] # NoConn
  BY <1>1, SessionAssumption DEF Conns
<1> QED
  BY <1>1, <1>2 DEF Attached

LEMMA NoticeTypes ==
  /\ Accepted \in Notice /\ Refused \in Notice
  /\ \A ps \in SUBSET Conns : Joined(ps) \in Notice
  /\ \A k \in Conns : Left(k) \in Notice
  /\ \A m \in Notice : m.type = "Update" => m.start \in Nat /\ m.values \in Seq(Strings)
  /\ \A m \in Notice : m.type = "Play" => m.id \in Nat \cup {NoId} /\ m.text \in Strings \cup {Empty}
  /\ \A m \in Notice : m.type = "Joined" => m.who \in SUBSET Conns
  /\ \A m \in Notice : m.type = "Left" => m.who \in Conns
  /\ \A m \in Notice : m.type \in {"Accepted", "Refused", "Update", "Joined", "Left", "Play"}
BY DEF Notice, Accepted, Refused, Joined, Left

LEMMA RequestTypes ==
  /\ \A fit \in BOOLEAN : [type |-> "Auth", fit |-> fit] \in Request
  /\ \A m \in Request : m.type = "Auth" => m.fit \in BOOLEAN
  /\ \A m \in Request : m.type = "Say" => m.text \in Strings /\ m.id \in Nat \cup {NoId}
  /\ \A m \in Request : m.type \in {"Auth", "Say"}
BY DEF Request

LEMMA IdOfType ==
  ASSUME NEW t \in Seq(Strings), NEW s
  PROVE  /\ IdOf(t, s) \in Nat \cup {NoId}
         /\ IdOf(t, s) # NoId => IdOf(t, s) < Len(t) /\ t[IdOf(t, s) + 1] = s
<1>1. CASE Knows(t, s)
  <2>1. PICK i \in DOMAIN t : t[i] = s
    BY <1>1 DEF Knows
  <2> DEFINE j == CHOOSE x \in DOMAIN t : t[x] = s
  <2>2. j \in DOMAIN t /\ t[j] = s
    BY <2>1
  <2>3. IdOf(t, s) = j - 1
    BY <1>1 DEF IdOf
  <2> HIDE DEF j
  <2>4. j \in 1 .. Len(t)
    BY <2>2
  <2> QED
    BY <2>2, <2>3, <2>4 DEF NoId
<1>2. CASE ~Knows(t, s)
  BY <1>2 DEF IdOf
<1> QED
  BY <1>1, <1>2

LEMMA PlayRight ==
  ASSUME NEW t \in Seq(Strings), NEW s \in Strings \cup {Empty}
  PROVE  Play(t, s) \in Notice /\ RightNotice(Play(t, s), t) /\ Play(t, s).type = "Play"
BY IdOfType DEF Play, Notice, RightNotice

LEMMA SayRight ==
  ASSUME NEW t \in Seq(Strings), NEW s \in Strings
  PROVE  Say(t, s) \in Request /\ RightSay(Say(t, s), t) /\ Say(t, s).type = "Say"
BY IdOfType DEF Say, Request, RightSay

LEMMA UpdateRight ==
  ASSUME NEW t \in Seq(Strings), NEW n \in 0 .. Len(t)
  PROVE  /\ Update(t, n) \in Notice /\ RightNotice(Update(t, n), t)
         /\ Update(t, n).type = "Update" /\ Update(t, n).start = n
         /\ Len(Update(t, n).values) = Len(t) - n
<1> DEFINE v == SubSeq(t, n + 1, Len(t))
<1>1. v \in Seq(Strings) /\ Len(v) = Len(t) - n /\ \A j \in 1 .. Len(v) : v[j] = t[n + j]
  <2>1. n + 1 \in 1 .. Len(t) + 1 /\ Len(t) \in Nat
    OBVIOUS
  <2> QED
    BY <2>1, SubSeqProperties
<1>2. Update(t, n) = [type |-> "Update", start |-> n, values |-> v]
  BY DEF Update
<1> HIDE DEF v
<1>3. n + Len(v) <= Len(t)
  BY <1>1
<1>4. Update(t, n) \in Notice
  BY <1>1, <1>2 DEF Notice
<1> QED
  BY <1>1, <1>2, <1>3, <1>4 DEF RightNotice

(* Sending is appending to the queues of the attached. *)
LEMMA Sending ==
  ASSUME TypeOK, NEW out \in [Conns -> Seq(Notice)], Send(out)
  PROVE  /\ down' \in [Conns -> Seq(Notice)]
         /\ \A k \in Attached : down'[k] = down[k] \o out[k]
         /\ \A k \in Conns \ Attached : down'[k] = down[k]
BY DEF TypeOK, Send, Attached

LEMMA ConcatOne ==
  ASSUME NEW S, NEW q \in Seq(S), NEW m \in S
  PROVE  /\ q \o <<m>> = Append(q, m) /\ Append(q, m) \in Seq(S)
         /\ Len(Append(q, m)) = Len(q) + 1 /\ Append(q, m)[Len(q) + 1] = m
         /\ \A i \in 1 .. Len(q) : Append(q, m)[i] = q[i]
OBVIOUS

LEMMA Joining ==
  ASSUME NEW S, NEW q \in Seq(S), NEW r \in Seq(S)
  PROVE  /\ q \o r \in Seq(S) /\ Len(q \o r) = Len(q) + Len(r)
         /\ \A i \in 1 .. Len(q) : (q \o r)[i] = q[i]
         /\ \A i \in Len(q) + 1 .. Len(q) + Len(r) : (q \o r)[i] = r[i - Len(q)]
OBVIOUS

LEMMA TailOf ==
  ASSUME NEW S, NEW q \in Seq(S), q # <<>>
  PROVE  /\ Tail(q) \in Seq(S) /\ Len(Tail(q)) = Len(q) - 1 /\ Len(q) \in Nat \ {0}
         /\ Head(q) = q[1] /\ Head(q) \in S
         /\ \A i \in 1 .. Len(q) - 1 : Tail(q)[i] = q[i + 1]
OBVIOUS

-----------------------------------------------------------------------------
(* The steps.                                                              *)

LEMMA InvInit == Init => SessionInv
<1> SUFFICES ASSUME Init PROVE SessionInv
  OBVIOUS
<1> USE DEF Init
<1>1. TypeOK
  BY DEF TypeOK, Nobody, Conns
<1>2. Links /\ Quiet
  BY SessionAssumption DEF Links, Quiet, Attached, Conns
<1>3. \A c \in Clients : ~Live(c)
  BY DEF Live
<1>4. Answered /\ CachesFollow /\ TableSound /\ SaysRight /\ NoticesRight /\ Route
  BY <1>3 DEF Answered, CachesFollow, TableSound, SaysRight, NoticesRight, Route
<1> QED
  BY <1>1, <1>2, <1>4 DEF SessionInv

LEMMA InvConnect ==
  ASSUME SessionInv, NEW c \in Clients, Connect(c) PROVE SessionInv'
<1> USE DEF SessionInv
<1> DEFINE k == made + 1
<1>1. /\ conn[c] = NoConn /\ made' = k /\ k \in Conns /\ k \notin open /\ k \notin players
      /\ conn' = [conn EXCEPT ![c] = k] /\ open' = open \cup {k}
      /\ UNCHANGED <<players, cacheId, table, wanted, online, cache, roster, down, said, restarts>>
  <2>1. made \in Nat /\ made < MaxConns /\ k \in Conns /\ k \notin 1 .. made
    BY SessionAssumption DEF Connect, Conns, TypeOK
  <2>2. k \notin open /\ k \notin players
    BY <2>1 DEF Links
  <2> QED
    BY <2>1, <2>2 DEF Connect
<1>0. \A d \in Clients : conn[d] # k
  <2>1. k \notin 1 .. made /\ k # NoConn
    BY <1>1, SessionAssumption DEF TypeOK, Conns
  <2> QED
    BY <2>1 DEF Links
<1>2. PICK fit \in BOOLEAN : up' = [up EXCEPT ![k] = <<[type |-> "Auth", fit |-> fit]>>]
  BY <1>1 DEF Connect
<1> DEFINE m == [type |-> "Auth", fit |-> fit]
<1>3. m \in Request /\ m.type = "Auth"
  BY RequestTypes
<1> HIDE DEF m
<1>4. /\ \A d \in Clients : conn'[d] = IF d = c THEN k ELSE conn[d]
      /\ \A j \in Conns : up'[j] = IF j = k THEN <<m>> ELSE up[j]
  BY <1>1, <1>2 DEF TypeOK, m
<1>5. TypeOK'
  <2>1. up' \in [Conns -> Seq(Request)]
    BY <1>1, <1>2, <1>3 DEF TypeOK, m
  <2>2. open' \subseteq Conns /\ made' \in Nat
    BY <1>1 DEF TypeOK, Conns
  <2>3. conn' \in [Clients -> Conns \cup {NoConn}]
    BY <1>1 DEF TypeOK
  <2> QED
    BY <1>1, <2>1, <2>2, <2>3 DEF TypeOK
<1>6. Links'
  <2>1. made' <= MaxConns /\ players' \subseteq open' /\ open' \subseteq 1 .. made'
    BY <1>1 DEF Links, Conns, TypeOK
  <2>2. \A d \in Clients : conn'[d] \in 1 .. made' \/ (conn'[d] = NoConn /\ ~online'[d])
    BY <1>1, <1>4 DEF Links, TypeOK
  <2>3. \A d, e \in Clients : conn'[d] = conn'[e] /\ conn'[d] # NoConn => d = e
    BY <1>0, <1>4 DEF Links
  <2> QED
    BY <2>1, <2>2, <2>3 DEF Links
<1>7. \A d \in Clients : Live(d)' => d # c /\ Live(d) /\ conn'[d] = conn[d]
  BY <1>1, <1>4 DEF Live
<1>8. Quiet'
  <2>1. Attached \subseteq Attached'
    BY <1>1, <1>4, SessionAssumption DEF Attached, Conns
  <2>2. k \notin Attached
    BY <1>0 DEF Attached
  <2>3. \A j \in Conns \ Attached' : down'[j] = <<>>
    BY <1>1, <2>1 DEF Quiet
  <2>4. /\ \A j \in Conns \ players' : down'[j] = <<>> \/ down'[j] = <<Refused>>
        /\ \A j \in open' \ players' : down'[j] = <<>>
    BY <1>1, <2>2 DEF Quiet
  <2>5. /\ \A d \in Clients : conn'[d] \in open' \ players' => ~online'[d]
        /\ \A d \in Clients : ~online'[d] => cache'[d] = <<>>
    <3>1. ~online[c]
      BY <1>1, SessionAssumption DEF Links, Conns, TypeOK
    <3>2. \A d \in Clients : conn[d] # k
      BY <2>2, <1>1 DEF Attached
    <3> QED
      BY <1>1, <1>4, <3>1, <3>2 DEF Quiet
  <2>6. \A j \in Conns \ open' : up'[j] = <<>>
    BY <1>1, <1>4 DEF Quiet
  <2>7. \A j \in Conns : \A i \in DOMAIN up'[j] : up'[j][i].type = "Auth" => i = 1 /\ j \notin players'
    BY <1>1, <1>4 DEF Quiet
  <2> QED
    BY <2>3, <2>4, <2>5, <2>6, <2>7 DEF Quiet
<1>9. Answered' /\ CachesFollow'
  BY <1>1, <1>7 DEF Answered, CachesFollow
<1>10. TableSound' /\ NoticesRight'
  BY <1>1 DEF TableSound, NoticesRight
<1>11. SaysRight'
  BY <1>1, <1>3, <1>4 DEF SaysRight, RightSay
<1>12. Route'
  BY <1>1, <1>7 DEF Route, Now, Meant
<1> QED
  BY <1>5, <1>6, <1>8, <1>9, <1>10, <1>11, <1>12

LEMMA InvSay ==
  ASSUME SessionInv, NEW c \in Clients, NEW s \in Strings, OnScriptAnimationEvent(c, s)
  PROVE  SessionInv'
<1> USE DEF SessionInv
<1> DEFINE k == conn[c]
           m == Say(cache[c], s)
<1>1. /\ k # NoConn /\ k \in Conns /\ said' = said + 1
      /\ UNCHANGED <<open, players, cacheId, table, wanted, conn, online, cache, roster, down, made, restarts>>
  BY DEF OnScriptAnimationEvent, TypeOK, serverVars, clientVars
<1>2. m \in Request /\ m.type = "Say" /\ RightSay(m, cache[c])
  BY SayRight DEF TypeOK
<1>3. up' = IF k \in open THEN [up EXCEPT ![k] = Append(@, m)] ELSE up
  BY DEF OnScriptAnimationEvent
<1>4. k \in open => RightSay(m, table)
  <2>1. CASE k \in players
    <3>1. Live(c) /\ cache[c] \in Seq(Strings) /\ table \in Seq(Strings)
      BY <2>1 DEF Live, TypeOK
    <3>2. Len(cache[c]) <= Len(table) /\ \A i \in 1 .. Len(cache[c]) : cache[c][i] = table[i]
      BY <3>1 DEF CachesFollow
    <3>3. m.id \in Nat \cup {NoId}
      BY <1>2, RequestTypes
    <3> QED
      BY <1>2, <3>1, <3>2, <3>3 DEF RightSay, NoId
  <2>2. CASE k \in open \ players
    <3>1. cache[c] = <<>>
      BY <2>2 DEF Quiet
    <3>2. m.id \in Nat \cup {NoId}
      BY <1>2, RequestTypes
    <3> QED
      BY <1>2, <3>1, <3>2 DEF RightSay
  <2> QED
    BY <2>1, <2>2
<1> HIDE DEF m, k
<1>5. \A j \in Conns : up'[j] = IF j = k /\ k \in open THEN Append(up[j], m) ELSE up[j]
  BY <1>1, <1>3 DEF TypeOK
<1>6. \A j \in Conns : up[j] \in Seq(Request)
  BY DEF TypeOK
<1>7. TypeOK'
  <2>1. up' \in [Conns -> Seq(Request)]
    BY <1>1, <1>2, <1>3 DEF TypeOK
  <2> QED
    BY <1>1, <2>1 DEF TypeOK
<1>8. Attached' = Attached /\ \A d \in Clients : Live(d)' = Live(d)
  BY <1>1 DEF Attached, Live
<1>9. Links' /\ Answered' /\ CachesFollow' /\ TableSound' /\ NoticesRight' /\ Route'
  BY <1>1, <1>8 DEF Links, Answered, CachesFollow, TableSound, NoticesRight, Route, Now, Meant
<1>10. Quiet'
  <2>1. \A j \in Conns \ open' : up'[j] = <<>>
    BY <1>1, <1>5 DEF Quiet
  <2>2. \A j \in Conns : \A i \in DOMAIN up'[j] : up'[j][i].type = "Auth" => i = 1 /\ j \notin players'
    <3> SUFFICES ASSUME NEW j \in Conns, NEW i \in DOMAIN up'[j], up'[j][i].type = "Auth"
                 PROVE  i = 1 /\ j \notin players
      BY <1>1
    <3>1. up'[j] = up[j] \/ up'[j] = Append(up[j], m)
      BY <1>5
    <3>2. i \in DOMAIN up[j] /\ up[j][i].type = "Auth"
      BY <1>2, <1>6, <3>1
    <3> QED
      BY <3>2 DEF Quiet
  <2> QED
    BY <1>1, <1>8, <2>1, <2>2 DEF Quiet
<1>11. SaysRight'
  <2> SUFFICES ASSUME NEW j \in Conns, NEW i \in 1 .. Len(up'[j]) PROVE RightSay(up'[j][i], table)
    BY <1>1 DEF SaysRight
  <2>1. CASE up'[j] = up[j]
    BY <2>1 DEF SaysRight
  <2>2. CASE k \in open /\ up'[j] = Append(up[j], m)
    <3>1. (i \in 1 .. Len(up[j]) /\ up'[j][i] = up[j][i]) \/ up'[j][i] = m
      BY <1>6, <2>2
    <3> QED
      BY <1>4, <2>2, <3>1 DEF SaysRight, k, m
  <2> QED
    BY <1>5, <2>1, <2>2
<1> QED
  BY <1>7, <1>9, <1>10, <1>11

(* What is known of a connection whose request to be let in is read. *)
LEMMA Applicant ==
  ASSUME SessionInv, NEW k \in Conns, k \in open, up[k] # <<>>, Head(up[k]).type = "Auth"
  PROVE  /\ k \notin players /\ down[k] = <<>>
         /\ \A c \in Clients : conn[c] = k => ~online[c] /\ cache[c] = <<>> /\ ~Live(c)
<1> USE DEF SessionInv
<1>1. up[k] \in Seq(Request)
  BY DEF TypeOK
<1>2. 1 \in DOMAIN up[k] /\ up[k][1].type = "Auth"
  BY <1>1
<1>3. k \notin players
  BY <1>2 DEF Quiet
<1> QED
  BY <1>3 DEF Quiet, Live

(* The same holds of a queue to the server that is cut short. *)
LEMMA UpShortened ==
  ASSUME SessionInv, NEW k \in Conns, up[k] # <<>>, Received(k)
  PROVE  /\ up' \in [Conns -> Seq(Request)]
         /\ \A j \in Conns : j # k => up'[j] = up[j]
         /\ \A j \in Conns : \A i \in DOMAIN up'[j] : up'[j][i].type # "Auth" \/ (j # k /\ i = 1 /\ j \notin players)
         /\ \A j \in Conns : \A i \in 1 .. Len(up'[j]) : RightSay(up'[j][i], table)
<1> USE DEF SessionInv
<1>1. up[k] \in Seq(Request) /\ up' = [up EXCEPT ![k] = Tail(up[k])]
  BY DEF TypeOK, Received
<1>2. /\ Tail(up[k]) \in Seq(Request) /\ Len(Tail(up[k])) = Len(up[k]) - 1 /\ Len(up[k]) \in Nat \ {0}
      /\ \A i \in 1 .. Len(up[k]) - 1 : Tail(up[k])[i] = up[k][i + 1]
  BY <1>1, TailOf
<1>3. up' \in [Conns -> Seq(Request)] /\ \A j \in Conns : up'[j] = IF j = k THEN Tail(up[k]) ELSE up[j]
  BY <1>1, <1>2 DEF TypeOK
<1>4. ASSUME NEW i \in 1 .. Len(Tail(up[k]))
      PROVE  Tail(up[k])[i].type # "Auth" /\ RightSay(Tail(up[k])[i], table)
  <2>1. i + 1 \in 1 .. Len(up[k]) /\ i + 1 # 1 /\ Tail(up[k])[i] = up[k][i + 1]
    BY <1>2
  <2>2. i + 1 \in DOMAIN up[k]
    BY <1>1, <2>1
  <2> QED
    BY <2>1, <2>2 DEF Quiet, SaysRight
<1>5. \A j \in Conns : \A i \in DOMAIN up'[j] : up'[j][i].type # "Auth" \/ (j # k /\ i = 1 /\ j \notin players)
  <2> SUFFICES ASSUME NEW j \in Conns, NEW i \in DOMAIN up'[j], up'[j][i].type = "Auth"
               PROVE  j # k /\ i = 1 /\ j \notin players
    OBVIOUS
  <2>1. j # k
    <3> SUFFICES ASSUME j = k PROVE FALSE
      OBVIOUS
    <3>1. up'[j] = Tail(up[k])
      BY <1>3
    <3>2. i \in 1 .. Len(Tail(up[k]))
      BY <1>2, <3>1
    <3> QED
      BY <1>4, <3>1, <3>2
  <2>2. up'[j] = up[j]
    BY <1>3, <2>1
  <2> QED
    BY <2>1, <2>2 DEF Quiet
<1>6. \A j \in Conns : \A i \in 1 .. Len(up'[j]) : RightSay(up'[j][i], table)
  BY <1>3, <1>4 DEF SaysRight
<1> QED
  BY <1>3, <1>5, <1>6

LEMMA UpCleared ==
  ASSUME SessionInv, NEW k \in Conns, up' = [up EXCEPT ![k] = <<>>]
  PROVE  /\ up' \in [Conns -> Seq(Request)]
         /\ \A j \in Conns : up'[j] = IF j = k THEN <<>> ELSE up[j]
         /\ \A j \in Conns : \A i \in DOMAIN up'[j] : up'[j][i].type # "Auth" \/ (j # k /\ i = 1 /\ j \notin players)
         /\ \A j \in Conns : \A i \in 1 .. Len(up'[j]) : RightSay(up'[j][i], table)
<1> USE DEF SessionInv
<1>1. up' \in [Conns -> Seq(Request)] /\ \A j \in Conns : up'[j] = IF j = k THEN <<>> ELSE up[j]
  BY DEF TypeOK
<1> QED
  BY <1>1 DEF Quiet, SaysRight

(* A connection without a player is closed, with at most a refusal. *)
LEMMA InvKick ==
  ASSUME SessionInv, NEW k \in Conns, k \in open, k \notin players, Kick(k),
         down[k] = <<>>, down' \in [Conns -> Seq(Notice)],
         \A j \in Conns : j # k => down'[j] = down[j],
         down'[k] = <<>> \/ (k \in Attached /\ down'[k] = <<Refused>>),
         UNCHANGED <<players, cacheId, table, conn, online, cache, roster, made, said, restarts>>,
         wanted' \subseteq Strings
  PROVE  SessionInv'
<1> USE DEF SessionInv
<1>1. open' = open \ {k} /\ up' = [up EXCEPT ![k] = <<>>]
  BY DEF Kick
<1>2. /\ up' \in [Conns -> Seq(Request)]
      /\ \A j \in Conns : up'[j] = IF j = k THEN <<>> ELSE up[j]
      /\ \A j \in Conns : \A i \in DOMAIN up'[j] : up'[j][i].type # "Auth" \/ (j # k /\ i = 1 /\ j \notin players)
      /\ \A j \in Conns : \A i \in 1 .. Len(up'[j]) : RightSay(up'[j][i], table)
  BY <1>1, UpCleared
<1>3. TypeOK'
  BY <1>1, <1>2 DEF TypeOK
<1>4. Attached' = Attached /\ \A d \in Clients : Live(d)' = Live(d) /\ (Live(d) => conn[d] # k)
  BY DEF Attached, Live
<1>5. Links'
  BY <1>1 DEF Links
<1>6. Quiet'
  <2>1. \A j \in Conns \ Attached' : down'[j] = <<>>
    BY <1>4 DEF Quiet
  <2>2. \A j \in Conns \ players' : down'[j] = <<>> \/ down'[j] = <<Refused>>
    BY DEF Quiet
  <2>3. \A j \in open' \ players' : down'[j] = <<>>
    BY <1>1 DEF Quiet, TypeOK
  <2>4. /\ \A d \in Clients : conn'[d] \in open' \ players' => ~online'[d]
        /\ \A d \in Clients : ~online'[d] => cache'[d] = <<>>
    BY <1>1 DEF Quiet
  <2>5. \A j \in Conns \ open' : up'[j] = <<>>
    BY <1>1, <1>2 DEF Quiet
  <2>6. \A j \in Conns : \A i \in DOMAIN up'[j] : up'[j][i].type = "Auth" => i = 1 /\ j \notin players'
    BY <1>2
  <2> QED
    BY <2>1, <2>2, <2>3, <2>4, <2>5, <2>6 DEF Quiet
<1>7. \A d \in Clients : Live(d) => conn[d] \in Conns /\ down'[conn[d]] = down[conn[d]]
  BY <1>4, LiveConn
<1>8. Answered' /\ CachesFollow' /\ TableSound' /\ SaysRight'
  BY <1>2, <1>4, <1>7 DEF Answered, CachesFollow, TableSound, SaysRight
<1>9. NoticesRight'
  BY DEF NoticesRight, TypeOK
<1>10. Route'
  BY <1>4, <1>7 DEF Route, Now, Meant
<1> QED
  BY <1>3, <1>5, <1>6, <1>8, <1>9, <1>10

LEMMA Appended ==
  ASSUME NEW q \in Seq(Notice), NEW m \in Notice, m.type # "Accepted", NEW p, p = Append(q, m)
  PROVE  /\ q # <<>> => p # <<>> /\ p[1] = q[1]
         /\ \A i \in DOMAIN p : p[i].type = "Accepted" => i \in DOMAIN q /\ q[i] = p[i]
         /\ \A t : (\A i \in 1 .. Len(q) : RightNotice(q[i], t)) /\ RightNotice(m, t)
                  => \A i \in 1 .. Len(p) : RightNotice(p[i], t)
<1>1. /\ p \in Seq(Notice) /\ Len(p) = Len(q) + 1 /\ p[Len(q) + 1] = m /\ Len(q) \in Nat
      /\ \A i \in 1 .. Len(q) : p[i] = q[i]
  OBVIOUS
<1>2. q # <<>> => p # <<>> /\ p[1] = q[1]
  BY <1>1
<1>3. DOMAIN p = 1 .. Len(q) + 1 /\ DOMAIN q = 1 .. Len(q)
  BY <1>1
<1> QED
  BY <1>1, <1>2, <1>3

(* One message for each attached player that takes what he is meant to     *)
(* have to what he is meant to have next.                                  *)
LEMMA Broadcast ==
  ASSUME TypeOK, Links, Answered, Route, NoticesRight, TypeOK',
         UNCHANGED <<conn, online, cache, roster>>,
         NEW ps \in SUBSET (players \cap players'),
         NEW out \in [Conns -> Notice],
         \A j \in ps \cap Attached : down'[j] = Append(down[j], out[j]),
         \A j \in ps : /\ out[j].type # "Accepted" /\ Reads(out[j], Meant(j), Meant(j)')
                       /\ RightNotice(out[j], table'),
         \A j \in ps \ Attached : down'[j] = <<>>,
         \A j \in ps : \A i \in 1 .. Len(down[j]) : RightNotice(down[j][i], table')
  PROVE  /\ \A j \in ps : \A i \in 1 .. Len(down'[j]) : RightNotice(down'[j][i], table')
         /\ \A c \in Clients : conn[c] \in ps =>
              /\ ~online[c] => down'[conn[c]] # <<>> /\ down'[conn[c]][1].type = "Accepted"
              /\ \A i \in DOMAIN down'[conn[c]] :
                   down'[conn[c]][i].type = "Accepted" => i = 1 /\ ~online[c]
              /\ Path(down'[conn[c]], Now(c)', Meant(conn[c])')
<1>1. \A j \in ps : j \in Conns /\ j \in players /\ j \in players' /\ down[j] \in Seq(Notice) /\ out[j] \in Notice
  BY DEF TypeOK
<1>2. ASSUME NEW j \in ps, NEW i \in 1 .. Len(down'[j])
      PROVE  RightNotice(down'[j][i], table')
  <2>1. CASE j \in Attached
    BY <1>1, <1>2, <2>1, Appended
  <2>2. CASE j \notin Attached
    BY <1>2, <2>2
  <2> QED
    BY <2>1, <2>2
<1>3. ASSUME NEW c \in Clients, conn[c] \in ps
      PROVE  /\ ~online[c] => down'[conn[c]] # <<>> /\ down'[conn[c]][1].type = "Accepted"
             /\ \A i \in DOMAIN down'[conn[c]] :
                  down'[conn[c]][i].type = "Accepted" => i = 1 /\ ~online[c]
             /\ Path(down'[conn[c]], Now(c)', Meant(conn[c])')
  <2> DEFINE j == conn[c]
  <2>1. Live(c) /\ j \in Attached
    BY <1>1, <1>3 DEF Live, Attached
  <2>2. Now(c)' = Now(c) /\ Meant(j)' \in Standing /\ Meant(j) \in Standing
    <3>1. Now(c)' = Now(c)
      BY DEF Now, Nobody
    <3>2. Meant(j) \in Standing
      BY <1>1, <1>3, Standings
    <3>3. Meant(j)' \in Standing
      BY <1>1, <1>3 DEF Meant, Standing, TypeOK
    <3> QED
      BY <3>1, <3>2, <3>3
  <2>3. down'[j] = Append(down[j], out[j])
    BY <1>3, <2>1
  <2>4. Path(down'[j], Now(c), Meant(j)')
    <3>1. Path(down[j], Now(c), Meant(j))
      BY <2>1 DEF Route
    <3>2. Reads(out[j], Meant(j), Meant(j)') /\ down[j] \in Seq(Notice) /\ out[j] \in Notice
      BY <1>1, <1>3
    <3> QED
      BY <2>2, <2>3, <3>1, <3>2, PathAppend
  <2>5. /\ down[j] # <<>> => down'[j] # <<>> /\ down'[j][1] = down[j][1]
        /\ \A i \in DOMAIN down'[j] : down'[j][i].type = "Accepted" => i \in DOMAIN down[j] /\ down[j][i] = down'[j][i]
    <3>1. down[j] \in Seq(Notice) /\ out[j] \in Notice /\ out[j].type # "Accepted"
      BY <1>1, <1>3
    <3> HIDE DEF j
    <3> QED
      BY <2>3, <3>1, Appended
  <2> QED
    BY <2>1, <2>2, <2>4, <2>5 DEF Answered
<1> QED
  BY <1>2, <1>3

LEMMA SayDecodes ==
  ASSUME NEW t \in Seq(Strings), NEW m \in Request, m.type = "Say", RightSay(m, t)
  PROVE  Decode(t, m) = m.text /\ m.text \in Strings
<1>1. m.id \in Nat \cup {NoId} /\ m.text \in Strings
  BY RequestTypes
<1>2. CASE m.id = NoId
  BY <1>1, <1>2 DEF Decode
<1>3. CASE m.id # NoId
  <2>1. m.id \in 0 .. Len(t) - 1 /\ t[m.id + 1] = m.text
    BY <1>1, <1>3 DEF RightSay
  <2> QED
    BY <1>1, <1>3, <2>1 DEF Decode, StringOf
<1> QED
  BY <1>2, <1>3

LEMMA InvHandleSay ==
  ASSUME SessionInv, NEW k \in Conns, HandleSay(k)
  PROVE  SessionInv'
<1> USE DEF SessionInv
<1> DEFINE m == Head(up[k])
           w == Decode(table, m)
<1>1. /\ k \in open /\ up[k] # <<>> /\ m.type = "Say" /\ m \in Request /\ RightSay(m, table)
      /\ UNCHANGED <<conn, online, cache, roster, players, cacheId, made, said, restarts>>
      /\ table \in Seq(Strings)
  <2>1. up[k] # <<>> /\ up[k] \in Seq(Request)
    BY DEF HandleSay, TypeOK
  <2>2. m = up[k][1] /\ m \in Request /\ 1 \in 1 .. Len(up[k])
    BY <2>1
  <2> QED
    BY <2>1, <2>2 DEF HandleSay, SaysRight, clientVars, TypeOK
<1>2. CASE k \notin players
  <2>1. Kick(k) /\ UNCHANGED <<down, table, wanted>>
    BY <1>2 DEF HandleSay
  <2>2. down[k] = <<>>
    BY <1>1, <1>2 DEF Quiet
  <2> QED
    BY <1>1, <1>2, <2>1, <2>2, InvKick DEF TypeOK
<1>3. CASE k \in players
  <2>1. Received(k) /\ Relay(m) /\ UNCHANGED open
    BY <1>3 DEF HandleSay
  <2>2. w \in Strings
    BY <1>1, SayDecodes
  <2> DEFINE p == Play(table, w)
             out == [j \in Conns |-> p]
  <2>3. p \in Notice /\ RightNotice(p, table) /\ p.type = "Play"
    BY <1>1, <2>2, PlayRight
  <2>4. table' = table /\ wanted' \subseteq Strings /\ Send(ToEach(players, p))
    BY <2>1, <2>2 DEF Relay, TypeOK
  <2>5. /\ up' \in [Conns -> Seq(Request)]
        /\ \A j \in Conns : j # k => up'[j] = up[j]
        /\ \A j \in Conns : \A i \in DOMAIN up'[j] : up'[j][i].type # "Auth" \/ (j # k /\ i = 1 /\ j \notin players)
        /\ \A j \in Conns : \A i \in 1 .. Len(up'[j]) : RightSay(up'[j][i], table)
    BY <1>1, <2>1, UpShortened
  <2> HIDE DEF p
  <2>6. /\ down' \in [Conns -> Seq(Notice)]
        /\ \A j \in Conns : down'[j] = IF j \in players \cap Attached THEN Append(down[j], p) ELSE down[j]
    <3> DEFINE o == ToEach(players, p)
    <3>1. o \in [Conns -> Seq(Notice)] /\ \A j \in Conns : o[j] = IF j \in players THEN <<p>> ELSE <<>>
      BY <2>3 DEF ToEach
    <3> HIDE DEF o
    <3>2. /\ down' \in [Conns -> Seq(Notice)]
          /\ \A j \in Attached : down'[j] = down[j] \o o[j]
          /\ \A j \in Conns \ Attached : down'[j] = down[j]
      BY <2>4, <3>1, Sending DEF o
    <3>3. ASSUME NEW j \in Conns
          PROVE  down'[j] = IF j \in players \cap Attached THEN Append(down[j], p) ELSE down[j]
      <4>1. down[j] \in Seq(Notice)
        BY DEF TypeOK
      <4>2. down[j] \o <<p>> = Append(down[j], p) /\ down[j] \o <<>> = down[j]
        BY <2>3, <4>1
      <4> QED
        BY <3>1, <3>2, <4>2
    <3> QED
      BY <3>2, <3>3
  <2>7. TypeOK'
    BY <1>1, <2>1, <2>4, <2>5, <2>6 DEF TypeOK
  <2>8. Attached' = Attached /\ \A c \in Clients : Live(c)' = Live(c)
    BY <1>1 DEF Attached, Live
  <2>9. Links' /\ CachesFollow' /\ TableSound'
    BY <1>1, <2>1, <2>4, <2>8 DEF Links, CachesFollow, TableSound
  <2>10. \A j \in players \ Attached : j \in Conns /\ down'[j] = <<>>
    BY <2>6 DEF Quiet, TypeOK
  <2>11. \A j \in players : Meant(j)' = Meant(j)
    BY <1>1 DEF Meant
  <2>12. \A j \in players : Reads(p, Meant(j), Meant(j)')
    <3> SUFFICES ASSUME NEW j \in players PROVE Reads(p, Meant(j), Meant(j))
      BY <2>11
    <3>1. Meant(j).known = Len(table)
      BY DEF Meant, TableSound
    <3> QED
      BY <2>3, <3>1 DEF Reads, RightNotice
  <2>13. /\ \A j \in players : \A i \in 1 .. Len(down'[j]) : RightNotice(down'[j][i], table')
         /\ \A c \in Clients : conn[c] \in players =>
              /\ ~online[c] => down'[conn[c]] # <<>> /\ down'[conn[c]][1].type = "Accepted"
              /\ \A i \in DOMAIN down'[conn[c]] :
                   down'[conn[c]][i].type = "Accepted" => i = 1 /\ ~online[c]
              /\ Path(down'[conn[c]], Now(c)', Meant(conn[c])')
    <3>1. out \in [Conns -> Notice] /\ \A j \in Conns : out[j] = p
      BY <2>3
    <3>2. \A j \in players : j \in Conns
      BY DEF TypeOK
    <3> HIDE DEF out
    <3>3. players \in SUBSET (players \cap players')
      BY <1>1
    <3>4. \A j \in players \cap Attached : down'[j] = Append(down[j], out[j])
      BY <2>6, <3>1, <3>2
    <3>5. \A j \in players : /\ out[j].type # "Accepted" /\ Reads(out[j], Meant(j), Meant(j)')
                           /\ RightNotice(out[j], table')
      BY <2>3, <2>4, <2>12, <3>1, <3>2
    <3>6. \A j \in players : \A i \in 1 .. Len(down[j]) : RightNotice(down[j][i], table')
      BY <2>4 DEF NoticesRight
    <3> QED
      BY <1>1, <2>7, <2>10, <3>1, <3>3, <3>4, <3>5, <3>6, Broadcast
  <2>14. Answered' /\ NoticesRight' /\ Route'
    BY <1>1, <2>8, <2>13 DEF Answered, NoticesRight, Route, Live
  <2>15. SaysRight'
    BY <2>4, <2>5 DEF SaysRight
  <2>16. Quiet'
    <3>1. \A j \in Conns \ Attached' : down'[j] = <<>>
      BY <2>6, <2>8 DEF Quiet
    <3>2. /\ \A j \in Conns \ players' : down'[j] = <<>> \/ down'[j] = <<Refused>>
          /\ \A j \in open' \ players' : down'[j] = <<>>
      BY <1>1, <2>1, <2>6 DEF Quiet, TypeOK
    <3>3. /\ \A d \in Clients : conn'[d] \in open' \ players' => ~online'[d]
          /\ \A d \in Clients : ~online'[d] => cache'[d] = <<>>
      BY <1>1, <2>1 DEF Quiet
    <3>4. \A j \in Conns \ open' : up'[j] = <<>>
      BY <1>1, <2>1, <2>5 DEF Quiet
    <3>5. \A j \in Conns : \A i \in DOMAIN up'[j] : up'[j][i].type = "Auth" => i = 1 /\ j \notin players'
      BY <1>1, <2>5
    <3> QED
      BY <3>1, <3>2, <3>3, <3>4, <3>5 DEF Quiet
  <2> QED
    BY <2>7, <2>9, <2>14, <2>15, <2>16
<1> QED
  BY <1>2, <1>3

LEMMA InvAuthentication ==
  ASSUME SessionInv, NEW k \in Conns, HandleAuthenticationRequest(k)
  PROVE  SessionInv'
<1> USE DEF SessionInv
<1>1. /\ k \in open /\ up[k] # <<>> /\ Head(up[k]).type = "Auth"
      /\ UNCHANGED <<conn, online, cache, roster, table, wanted, made, said, restarts>>
      /\ Accept(k) \/ Cancel(k) \/ Refuse(k)
  BY DEF HandleAuthenticationRequest, clientVars
<1>2. /\ k \notin players /\ down[k] = <<>>
      /\ \A c \in Clients : conn[c] = k => ~online[c] /\ cache[c] = <<>> /\ ~Live(c)
  BY <1>1, Applicant
<1>3. CASE Cancel(k)
  <2>1. Kick(k) /\ UNCHANGED <<players, cacheId, down>>
    BY <1>3 DEF Cancel
  <2> QED
    BY <1>1, <1>2, <2>1, InvKick DEF TypeOK
<1>4. CASE Refuse(k)
  <2>1. Kick(k) /\ Send(ToEach({k}, Refused)) /\ UNCHANGED <<players, cacheId>>
    BY <1>4 DEF Refuse
  <2> DEFINE o == ToEach({k}, Refused)
  <2>2. o \in [Conns -> Seq(Notice)] /\ \A j \in Conns : o[j] = IF j = k THEN <<Refused>> ELSE <<>>
    BY NoticeTypes DEF ToEach
  <2> HIDE DEF o
  <2>3. /\ down' \in [Conns -> Seq(Notice)]
        /\ \A j \in Attached : down'[j] = down[j] \o o[j]
        /\ \A j \in Conns \ Attached : down'[j] = down[j]
    BY <2>1, <2>2, Sending DEF o
  <2>4. \A j \in Conns : j # k => down'[j] = down[j]
    <3> SUFFICES ASSUME NEW j \in Conns, j # k PROVE down'[j] = down[j]
      OBVIOUS
    <3>1. down[j] \in Seq(Notice) /\ o[j] = <<>>
      BY <2>2 DEF TypeOK
    <3>2. down[j] \o <<>> = down[j]
      BY <3>1
    <3> QED
      BY <2>3, <3>1, <3>2
  <2>5. down'[k] = <<>> \/ (k \in Attached /\ down'[k] = <<Refused>>)
    <3>1. <<>> \o <<Refused>> = <<Refused>>
      BY NoticeTypes
    <3> QED
      BY <1>2, <2>2, <2>3, <3>1
  <2> QED
    BY <1>1, <1>2, <2>1, <2>3, <2>4, <2>5, InvKick DEF TypeOK
<1>5. CASE Accept(k)
  <2> DEFINE new == Update(table, 0)
             joined == Joined({k})
             all == Joined(players)
             o == [j \in Conns |->
                     IF j = k THEN <<Accepted, new, all>>
                     ELSE IF j \in players THEN <<joined>> ELSE <<>>]
             ps == players
  <2>1. /\ Received(k) /\ players' = players \cup {k} /\ cacheId' = Served({k}, table)
        /\ Send(o) /\ UNCHANGED open
    BY <1>5 DEF Accept
  <2>2. table \in Seq(Strings) /\ 0 \in 0 .. Len(table) /\ players \in SUBSET Conns /\ {k} \in SUBSET Conns
    BY DEF TypeOK
  <2>3. /\ new \in Notice /\ RightNotice(new, table) /\ new.type = "Update" /\ new.start = 0
        /\ Len(new.values) = Len(table)
    BY <2>2, UpdateRight
  <2>4. /\ joined \in Notice /\ joined.type = "Joined" /\ joined.who = {k}
        /\ all \in Notice /\ all.type = "Joined" /\ all.who = players
        /\ Accepted \in Notice /\ Accepted.type = "Accepted"
    BY <2>2, NoticeTypes DEF Joined, Accepted
  <2> HIDE DEF new, joined, all
  <2>5. o \in [Conns -> Seq(Notice)]
    BY <2>3, <2>4
  <2>6. /\ down' \in [Conns -> Seq(Notice)]
        /\ \A j \in Conns : down'[j] =
             IF j \in players \cap Attached THEN Append(down[j], joined)
             ELSE IF j = k /\ k \in Attached THEN <<Accepted, new, all>> ELSE down[j]
    <3> HIDE DEF o
    <3>1. /\ down' \in [Conns -> Seq(Notice)]
          /\ \A j \in Attached : down'[j] = down[j] \o o[j]
          /\ \A j \in Conns \ Attached : down'[j] = down[j]
      BY <2>1, <2>5, Sending
    <3> SUFFICES ASSUME NEW j \in Conns
                 PROVE  down'[j] =
                          IF j \in players \cap Attached THEN Append(down[j], joined)
                          ELSE IF j = k /\ k \in Attached THEN <<Accepted, new, all>> ELSE down[j]
      BY <3>1
    <3>2. down[j] \in Seq(Notice)
      BY DEF TypeOK
    <3>3. down[j] \o <<joined>> = Append(down[j], joined) /\ down[j] \o <<>> = down[j]
      BY <2>4, <3>2
    <3>4. <<>> \o <<Accepted, new, all>> = <<Accepted, new, all>>
      BY <2>3, <2>4
    <3>5. o[j] = IF j = k THEN <<Accepted, new, all>> ELSE IF j \in players THEN <<joined>> ELSE <<>>
      BY DEF o
    <3>6. CASE j = k
      BY <1>2, <3>1, <3>4, <3>5, <3>6
    <3>7. CASE j # k
      BY <3>1, <3>3, <3>5, <3>7
    <3> QED
      BY <3>6, <3>7
  <2>7. /\ up' \in [Conns -> Seq(Request)]
        /\ \A j \in Conns : j # k => up'[j] = up[j]
        /\ \A j \in Conns : \A i \in DOMAIN up'[j] : up'[j][i].type # "Auth" \/ (j # k /\ i = 1 /\ j \notin players)
        /\ \A j \in Conns : \A i \in 1 .. Len(up'[j]) : RightSay(up'[j][i], table)
    BY <1>1, <2>1, UpShortened
  <2> HIDE DEF o
  <2>8. cacheId' \in [Conns -> Nat] /\ \A j \in Conns : cacheId'[j] = IF j = k THEN Len(table) ELSE cacheId[j]
    BY <2>1, <2>2 DEF Served, TypeOK
  <2>9. TypeOK'
    BY <1>1, <2>1, <2>6, <2>7, <2>8 DEF TypeOK
  <2>10. Attached' = Attached /\ \A c \in Clients : Live(c)' <=> Live(c) \/ conn[c] = k
    BY <1>1, <2>1 DEF Attached, Live
  <2>11. Links'
    BY <1>1, <2>1 DEF Links
  <2>12. CachesFollow' /\ TableSound' /\ SaysRight'
    <3>1. CachesFollow'
      BY <1>1, <1>2, <2>2, <2>10 DEF CachesFollow
    <3>2. TableSound'
      <4>1. \A j \in players' : j \in Conns /\ (j = k \/ j \in players)
        BY <2>1, <2>2
      <4> QED
        BY <1>1, <2>8, <4>1 DEF TableSound
    <3> QED
      BY <1>1, <2>7, <3>1, <3>2 DEF SaysRight
  <2>13. Quiet'
    <3>1. \A j \in Conns \ Attached' : down'[j] = <<>>
      BY <1>2, <2>6, <2>10 DEF Quiet
    <3>2. /\ \A j \in Conns \ players' : down'[j] = <<>> \/ down'[j] = <<Refused>>
          /\ \A j \in open' \ players' : down'[j] = <<>>
      BY <1>1, <2>1, <2>6 DEF Quiet, TypeOK
    <3>3. /\ \A d \in Clients : conn'[d] \in open' \ players' => ~online'[d]
          /\ \A d \in Clients : ~online'[d] => cache'[d] = <<>>
      BY <1>1, <2>1 DEF Quiet
    <3>4. \A j \in Conns \ open' : up'[j] = <<>>
      BY <1>1, <2>1, <2>7 DEF Quiet
    <3>5. \A j \in Conns : \A i \in DOMAIN up'[j] : up'[j][i].type = "Auth" => i = 1 /\ j \notin players'
      BY <1>1, <2>1, <2>7
    <3> QED
      BY <3>1, <3>2, <3>3, <3>4, <3>5 DEF Quiet
  <2>14. \A j \in players : Reads(joined, Meant(j), Meant(j)')
    <3> SUFFICES ASSUME NEW j \in players PROVE Reads(joined, Meant(j), Meant(j)')
      OBVIOUS
    <3>1. j # k /\ j \in Conns
      BY <1>2, <2>2
    <3>2. Meant(j) = [known |-> cacheId[j], rows |-> [i \in Conns |-> IF i \in players \ {j} THEN 1 ELSE 0]]
      BY DEF Meant
    <3>3. Meant(j)' = [known |-> cacheId[j], rows |-> [i \in Conns |-> IF i \in (players \cup {k}) \ {j} THEN 1 ELSE 0]]
      BY <2>1, <2>8, <3>1 DEF Meant
    <3>4. [i \in Conns |-> IF i \in (players \cup {k}) \ {j} THEN 1 ELSE 0]
            = [i \in Conns |-> (IF i \in players \ {j} THEN 1 ELSE 0) + (IF i \in {k} THEN 1 ELSE 0)]
      BY <1>2, <3>1
    <3> QED
      BY <2>4, <3>2, <3>3, <3>4 DEF Reads
  <2>15. /\ \A j \in players : \A i \in 1 .. Len(down'[j]) : RightNotice(down'[j][i], table')
         /\ \A c \in Clients : conn[c] \in players =>
              /\ ~online[c] => down'[conn[c]] # <<>> /\ down'[conn[c]][1].type = "Accepted"
              /\ \A i \in DOMAIN down'[conn[c]] :
                   down'[conn[c]][i].type = "Accepted" => i = 1 /\ ~online[c]
              /\ Path(down'[conn[c]], Now(c)', Meant(conn[c])')
    <3> DEFINE out == [j \in Conns |-> joined]
    <3>1. out \in [Conns -> Notice] /\ \A j \in Conns : out[j] = joined
      BY <2>4
    <3> HIDE DEF out
    <3>2. players \in SUBSET (players \cap players') /\ \A j \in players : j \in Conns
      BY <2>1, <2>2
    <3>3. \A j \in players \cap Attached : down'[j] = Append(down[j], out[j])
      BY <2>6, <3>1, <3>2
    <3>4. \A j \in players : /\ out[j].type # "Accepted" /\ Reads(out[j], Meant(j), Meant(j)')
                           /\ RightNotice(out[j], table')
      BY <2>4, <2>14, <3>1, <3>2 DEF RightNotice
    <3>5. \A j \in players : \A i \in 1 .. Len(down[j]) : RightNotice(down[j][i], table')
      BY <1>1 DEF NoticesRight
    <3>6. \A j \in players \ Attached : down'[j] = <<>>
      BY <1>2, <2>6, <3>2 DEF Quiet
    <3> QED
      BY <1>1, <2>9, <2>10, <3>1, <3>2, <3>3, <3>4, <3>5, <3>6, Broadcast
  <2>16. ASSUME NEW c \in Clients, conn[c] = k
         PROVE  /\ ~online[c] /\ down'[k] = <<Accepted, new, all>>
                /\ Path(down'[k], Now(c)', Meant(k)')
    <3>1. ~online[c] /\ k \in Attached /\ down'[k] = <<Accepted, new, all>>
      BY <1>2, <2>6, <2>16 DEF Attached
    <3> DEFINE a == [known |-> 0, rows |-> Nobody]
               b == [known |-> Len(table), rows |-> Nobody]
               z == [known |-> Len(table), rows |-> [j \in Conns |-> IF j \in players THEN 1 ELSE 0]]
    <3>2. a \in Standing /\ b \in Standing /\ z \in Standing
      BY <2>2 DEF Standing, Nobody
    <3>3. Now(c)' = a
      BY <1>1, <3>1 DEF Now, Nobody
    <3>4. Meant(k)' = z
      <4>1. players' \ {k} = players
        BY <1>2, <2>1
      <4> QED
        BY <2>8, <4>1 DEF Meant
    <3>5. Reads(Accepted, a, a) /\ Reads(new, a, b)
      BY <2>3, <2>4 DEF Reads
    <3>6. Reads(all, b, z)
      BY <2>4 DEF Reads, Nobody
    <3> HIDE DEF a, b, z
    <3>7. Path(<<Accepted, new, all>>, a, z)
      BY <2>3, <2>4, <3>2, <3>5, <3>6, PathThree
    <3> QED
      BY <3>1, <3>3, <3>4, <3>7
  <2>17. Answered'
    <3> SUFFICES ASSUME NEW c \in Clients, Live(c)'
                 PROVE  /\ ~online[c] => down'[conn[c]] # <<>> /\ down'[conn[c]][1].type = "Accepted"
                        /\ \A i \in DOMAIN down'[conn[c]] :
                             down'[conn[c]][i].type = "Accepted" => i = 1 /\ ~online[c]
      BY <1>1 DEF Answered
    <3>1. CASE conn[c] = k
      <4>1. ~online[c] /\ down'[k] = <<Accepted, new, all>>
        BY <2>16, <3>1
      <4>2. \A i \in DOMAIN <<Accepted, new, all>> : <<Accepted, new, all>>[i].type = "Accepted" => i = 1
        BY <2>3, <2>4
      <4> QED
        BY <2>4, <3>1, <4>1, <4>2
    <3>2. CASE conn[c] # k
      BY <2>10, <2>15, <3>2 DEF Live
    <3> QED
      BY <3>1, <3>2
  <2>18. NoticesRight'
    <3>1. \A i \in 1 .. Len(<<Accepted, new, all>>) : RightNotice(<<Accepted, new, all>>[i], table)
      BY <2>3, <2>4 DEF RightNotice
    <3>2. \A i \in 1 .. Len(down'[k]) : RightNotice(down'[k][i], table)
      BY <1>2, <2>6, <3>1
    <3> QED
      BY <1>1, <2>1, <2>15, <3>2 DEF NoticesRight
  <2>19. Route'
    <3> SUFFICES ASSUME NEW c \in Clients, Live(c)' PROVE Path(down'[conn[c]], Now(c)', Meant(conn[c])')
      BY <1>1 DEF Route
    <3>1. CASE conn[c] = k
      BY <1>1, <2>16, <3>1 DEF Meant
    <3>2. CASE conn[c] # k
      BY <2>10, <2>15, <3>2 DEF Live
    <3> QED
      BY <3>1, <3>2
  <2> QED
    BY <2>9, <2>11, <2>12, <2>13, <2>17, <2>18, <2>19
<1> QED
  BY <1>1, <1>3, <1>4, <1>5

(* The new strings follow the table, and none was there. *)
LEMMA TableGrows ==
  ASSUME SessionInv, NEW new \in Additions
  PROVE  /\ table \o new \in Seq(Strings) /\ Len(table) <= Len(table \o new)
         /\ \A i \in 1 .. Len(table) : (table \o new)[i] = table[i]
         /\ \A i, j \in 1 .. Len(table \o new) : (table \o new)[i] = (table \o new)[j] => i = j
<1> DEFINE S == {s \in wanted : ~Knows(table, s)}
           n == Cardinality(S)
           t == table \o new
<1>1. S \subseteq Strings /\ IsFiniteSet(S)
  BY FS_Subset, SessionAssumption DEF SessionInv, TypeOK
<1>2. n \in Nat
  BY <1>1, FS_CardinalityType
<1>3. new \in [1 .. n -> S] /\ \A i, j \in 1 .. n : i # j => new[i] # new[j]
  BY DEF Additions, SetToSeqs
<1>4. \A s \in S : \A i \in DOMAIN table : table[i] # s
  BY DEF Knows
<1> HIDE DEF n, S
<1>5. new \in Seq(Strings) /\ Len(new) = n
  BY <1>1, <1>2, <1>3
<1>6. table \in Seq(Strings) /\ \A i, j \in 1 .. Len(table) : table[i] = table[j] => i = j
  BY DEF SessionInv, TypeOK, TableSound
<1>7. /\ t \in Seq(Strings) /\ Len(t) = Len(table) + n /\ Len(table) \in Nat
      /\ \A i \in 1 .. Len(table) : t[i] = table[i]
      /\ \A i \in Len(table) + 1 .. Len(t) : t[i] = new[i - Len(table)]
  BY <1>2, <1>5, <1>6
<1> HIDE DEF t
<1>8. \A i \in 1 .. Len(table), j \in Len(table) + 1 .. Len(t) : t[i] # t[j]
  <2> SUFFICES ASSUME NEW i \in 1 .. Len(table), NEW j \in Len(table) + 1 .. Len(t) PROVE t[i] # t[j]
    OBVIOUS
  <2>1. j - Len(table) \in 1 .. n /\ i \in DOMAIN table
    BY <1>2, <1>6, <1>7
  <2> QED
    BY <1>3, <1>4, <1>7, <2>1
<1>9. \A i, j \in Len(table) + 1 .. Len(t) : t[i] = t[j] => i = j
  <2> SUFFICES ASSUME NEW i \in Len(table) + 1 .. Len(t), NEW j \in Len(table) + 1 .. Len(t), i # j
               PROVE  t[i] # t[j]
    OBVIOUS
  <2>1. i - Len(table) \in 1 .. n /\ j - Len(table) \in 1 .. n /\ i - Len(table) # j - Len(table)
    BY <1>2, <1>7
  <2> QED
    BY <1>3, <1>7, <2>1
<1>10. \A i, j \in 1 .. Len(t) : t[i] = t[j] => i = j
  <2> SUFFICES ASSUME NEW i \in 1 .. Len(t), NEW j \in 1 .. Len(t), t[i] = t[j] PROVE i = j
    OBVIOUS
  <2>1. i \in 1 .. Len(table) \/ i \in Len(table) + 1 .. Len(t)
    BY <1>2, <1>7
  <2>2. j \in 1 .. Len(table) \/ j \in Len(table) + 1 .. Len(t)
    BY <1>2, <1>7
  <2> QED
    BY <1>6, <1>7, <1>8, <1>9, <2>1, <2>2
<1> QED
  BY <1>2, <1>7, <1>10 DEF t

(* What is right about a table is right about a longer one. *)
LEMMA StaysRight ==
  ASSUME NEW t \in Seq(Strings), NEW u \in Seq(Strings), Len(t) <= Len(u),
         \A i \in 1 .. Len(t) : u[i] = t[i]
  PROVE  /\ \A m \in Notice : RightNotice(m, t) => RightNotice(m, u)
         /\ \A m \in Request : RightSay(m, t) => RightSay(m, u)
<1>1. Len(t) \in Nat /\ Len(u) \in Nat
  OBVIOUS
<1>2. ASSUME NEW m \in Notice, RightNotice(m, t) PROVE RightNotice(m, u)
  <2>1. CASE m.type = "Update"
    <3>1. m.start \in Nat /\ m.values \in Seq(Strings) /\ Len(m.values) \in Nat
      BY <2>1, NoticeTypes
    <3>2. \A j \in 1 .. Len(m.values) : m.start + j \in 1 .. Len(t) /\ m.values[j] = t[m.start + j]
      BY <1>1, <1>2, <2>1, <3>1 DEF RightNotice
    <3>3. m.start + Len(m.values) <= Len(u)
      BY <1>1, <1>2, <2>1, <3>1 DEF RightNotice
    <3> QED
      BY <2>1, <3>2, <3>3 DEF RightNotice
  <2>2. CASE m.type = "Play"
    <3>1. m.id \in Nat \cup {NoId}
      BY <2>2, NoticeTypes
    <3> QED
      BY <1>1, <1>2, <2>2, <3>1 DEF RightNotice
  <2>3. CASE m.type \notin {"Update", "Play"}
    BY <2>3 DEF RightNotice
  <2> QED
    BY <2>1, <2>2, <2>3
<1>3. ASSUME NEW m \in Request, RightSay(m, t) PROVE RightSay(m, u)
  <2>1. CASE m.type = "Say"
    <3>1. m.id \in Nat \cup {NoId}
      BY <2>1, RequestTypes
    <3> QED
      BY <1>1, <1>3, <2>1, <3>1 DEF RightSay
  <2>2. CASE m.type # "Say"
    BY <2>2 DEF RightSay
  <2> QED
    BY <2>1, <2>2
<1> QED
  BY <1>2, <1>3

LEMMA InvUpdate ==
  ASSUME SessionInv, HandleUpdate
  PROVE  SessionInv'
<1> USE DEF SessionInv
<1>1. PICK new \in Additions : table' = table \o new
  BY DEF HandleUpdate
<1>2. /\ wanted' = {} /\ cacheId' = Served(players, table')
      /\ Send([k \in Conns |-> IF k \in players THEN <<Update(table', cacheId[k])>> ELSE <<>>])
      /\ UNCHANGED <<conn, online, cache, roster, open, players, up, made, said, restarts>>
  BY DEF HandleUpdate, clientVars
<1>3. /\ table \in Seq(Strings) /\ table' \in Seq(Strings) /\ Len(table) <= Len(table')
      /\ \A i \in 1 .. Len(table) : table'[i] = table[i]
      /\ \A i, j \in 1 .. Len(table') : table'[i] = table'[j] => i = j
  BY <1>1, TableGrows DEF TypeOK
<1> DEFINE o == [k \in Conns |-> IF k \in players THEN <<Update(table', cacheId[k])>> ELSE <<>>]
           mm == Update(table', Len(table))
<1>4. /\ mm \in Notice /\ RightNotice(mm, table') /\ mm.type = "Update" /\ mm.start = Len(table)
      /\ Len(mm.values) = Len(table') - Len(table)
  BY <1>3, UpdateRight
<1>5. o = [k \in Conns |-> IF k \in players THEN <<mm>> ELSE <<>>]
  BY DEF TableSound
<1> HIDE DEF mm, o
<1>6. o \in [Conns -> Seq(Notice)] /\ \A k \in Conns : o[k] = IF k \in players THEN <<mm>> ELSE <<>>
  <2>1. <<mm>> \in Seq(Notice) /\ <<>> \in Seq(Notice)
    BY <1>4
  <2> QED
    BY <1>5, <2>1
<1>7. /\ down' \in [Conns -> Seq(Notice)]
      /\ \A k \in Conns : down'[k] = IF k \in players \cap Attached THEN Append(down[k], mm) ELSE down[k]
  <2>1. /\ down' \in [Conns -> Seq(Notice)]
        /\ \A k \in Attached : down'[k] = down[k] \o o[k]
        /\ \A k \in Conns \ Attached : down'[k] = down[k]
    BY <1>2, <1>6, Sending DEF o
  <2> SUFFICES ASSUME NEW k \in Conns
               PROVE  down'[k] = IF k \in players \cap Attached THEN Append(down[k], mm) ELSE down[k]
    BY <2>1
  <2>2. down[k] \in Seq(Notice)
    BY DEF TypeOK
  <2>3. down[k] \o <<mm>> = Append(down[k], mm) /\ down[k] \o <<>> = down[k]
    BY <1>4, <2>2
  <2> QED
    BY <1>6, <2>1, <2>3
<1>8. cacheId' \in [Conns -> Nat] /\ \A k \in players : k \in Conns /\ cacheId'[k] = Len(table')
  BY <1>2, <1>3 DEF Served, TypeOK
<1>9. TypeOK'
  BY <1>2, <1>3, <1>7, <1>8 DEF TypeOK
<1>10. Attached' = Attached /\ \A c \in Clients : Live(c)' = Live(c)
  BY <1>2 DEF Attached, Live
<1>11. Links' /\ TableSound'
  BY <1>2, <1>3, <1>8 DEF Links, TableSound
<1>12. CachesFollow'
  <2> SUFFICES ASSUME NEW c \in Clients, Live(c)
               PROVE  Len(cache[c]) <= Len(table') /\ \A i \in 1 .. Len(cache[c]) : cache[c][i] = table'[i]
    BY <1>2, <1>10 DEF CachesFollow
  <2>1. Len(cache[c]) \in Nat /\ Len(table) \in Nat /\ Len(table') \in Nat
    BY <1>3 DEF TypeOK
  <2> QED
    BY <1>3, <2>1 DEF CachesFollow
<1>13. SaysRight'
  <2> SUFFICES ASSUME NEW k \in Conns, NEW i \in 1 .. Len(up[k]) PROVE RightSay(up[k][i], table')
    BY <1>2 DEF SaysRight
  <2>1. up[k][i] \in Request
    BY DEF TypeOK
  <2> QED
    BY <1>3, <2>1, StaysRight DEF SaysRight
<1>14. Quiet'
  <2>1. \A j \in Conns \ Attached' : down'[j] = <<>>
    BY <1>7, <1>10 DEF Quiet
  <2>2. /\ \A j \in Conns \ players' : down'[j] = <<>> \/ down'[j] = <<Refused>>
        /\ \A j \in open' \ players' : down'[j] = <<>>
    BY <1>2, <1>7 DEF Quiet, TypeOK
  <2> QED
    BY <1>2, <2>1, <2>2 DEF Quiet
<1>15. \A k \in players : Reads(mm, Meant(k), Meant(k)')
  <2> SUFFICES ASSUME NEW k \in players PROVE Reads(mm, Meant(k), Meant(k)')
    OBVIOUS
  <2>1. Meant(k).known = Len(table) /\ Meant(k)' = [known |-> Len(table'), rows |-> Meant(k).rows]
    BY <1>2, <1>8 DEF Meant, TableSound
  <2>2. Len(table) + Len(mm.values) = Len(table')
    BY <1>3, <1>4
  <2> QED
    BY <1>4, <2>1, <2>2 DEF Reads
<1>16. /\ \A j \in players : \A i \in 1 .. Len(down'[j]) : RightNotice(down'[j][i], table')
       /\ \A c \in Clients : conn[c] \in players =>
            /\ ~online[c] => down'[conn[c]] # <<>> /\ down'[conn[c]][1].type = "Accepted"
            /\ \A i \in DOMAIN down'[conn[c]] :
                 down'[conn[c]][i].type = "Accepted" => i = 1 /\ ~online[c]
            /\ Path(down'[conn[c]], Now(c)', Meant(conn[c])')
  <2> DEFINE out == [k \in Conns |-> mm]
  <2>1. out \in [Conns -> Notice] /\ \A k \in Conns : out[k] = mm
    BY <1>4
  <2> HIDE DEF out
  <2>2. players \in SUBSET (players \cap players') /\ \A j \in players : j \in Conns
    BY <1>2 DEF TypeOK
  <2>3. \A j \in players \cap Attached : down'[j] = Append(down[j], out[j])
    BY <1>7, <2>1, <2>2
  <2>4. \A j \in players : /\ out[j].type # "Accepted" /\ Reads(out[j], Meant(j), Meant(j)')
                         /\ RightNotice(out[j], table')
    BY <1>4, <1>15, <2>1, <2>2
  <2>5. \A j \in players : \A i \in 1 .. Len(down[j]) : RightNotice(down[j][i], table')
    <3> SUFFICES ASSUME NEW j \in players, NEW i \in 1 .. Len(down[j]) PROVE RightNotice(down[j][i], table')
      OBVIOUS
    <3>1. down[j][i] \in Notice
      BY <2>2 DEF TypeOK
    <3> QED
      BY <1>3, <3>1, StaysRight DEF NoticesRight
  <2>6. \A j \in players \ Attached : down'[j] = <<>>
    BY <1>7, <2>2 DEF Quiet
  <2> QED
    BY <1>2, <1>9, <2>1, <2>2, <2>3, <2>4, <2>5, <2>6, Broadcast
<1>17. Answered' /\ NoticesRight' /\ Route'
  BY <1>2, <1>10, <1>16 DEF Answered, NoticesRight, Route, Live
<1> QED
  BY <1>9, <1>11, <1>12, <1>13, <1>14, <1>17

LEMMA InvOnDisconnection ==
  ASSUME SessionInv, NEW k \in Conns, OnDisconnection(k)
  PROVE  SessionInv'
<1> USE DEF SessionInv
<1>1. /\ k \in open /\ open' = open \ {k} /\ players' = players \ {k} /\ up' = [up EXCEPT ![k] = <<>>]
      /\ UNCHANGED <<conn, online, cache, roster, cacheId, table, wanted, made, said, restarts>>
  BY DEF OnDisconnection, clientVars
<1> DEFINE m == Left(k)
<1>2. m \in Notice /\ m.type = "Left" /\ m.who = k
  BY NoticeTypes DEF Left
<1> HIDE DEF m
<1>3. /\ down' \in [Conns -> Seq(Notice)]
      /\ \A j \in Conns : down'[j] =
           IF j = k THEN <<>>
           ELSE IF k \in players /\ j \in players \cap Attached THEN Append(down[j], m) ELSE down[j]
  BY <1>2 DEF OnDisconnection, TypeOK, m
<1>4. /\ up' \in [Conns -> Seq(Request)]
      /\ \A j \in Conns : up'[j] = IF j = k THEN <<>> ELSE up[j]
      /\ \A j \in Conns : \A i \in DOMAIN up'[j] : up'[j][i].type # "Auth" \/ (j # k /\ i = 1 /\ j \notin players)
      /\ \A j \in Conns : \A i \in 1 .. Len(up'[j]) : RightSay(up'[j][i], table)
  BY <1>1, UpCleared
<1>5. TypeOK'
  BY <1>1, <1>3, <1>4 DEF TypeOK
<1>6. Attached' = Attached /\ \A c \in Clients : Live(c)' <=> Live(c) /\ conn[c] # k
  BY <1>1 DEF Attached, Live
<1>7. Links' /\ CachesFollow' /\ TableSound' /\ SaysRight'
  BY <1>1, <1>4, <1>6 DEF Links, CachesFollow, TableSound, SaysRight
<1>8. Quiet'
  <2>1. \A j \in Conns \ Attached' : down'[j] = <<>>
    BY <1>3, <1>6 DEF Quiet
  <2>2. /\ \A j \in Conns \ players' : down'[j] = <<>> \/ down'[j] = <<Refused>>
        /\ \A j \in open' \ players' : down'[j] = <<>>
    BY <1>1, <1>3 DEF Quiet, TypeOK
  <2>3. /\ \A d \in Clients : conn'[d] \in open' \ players' => ~online'[d]
        /\ \A d \in Clients : ~online'[d] => cache'[d] = <<>>
    BY <1>1 DEF Quiet
  <2>4. \A j \in Conns \ open' : up'[j] = <<>>
    BY <1>1, <1>4 DEF Quiet
  <2>5. \A j \in Conns : \A i \in DOMAIN up'[j] : up'[j][i].type = "Auth" => i = 1 /\ j \notin players'
    BY <1>1, <1>4
  <2> QED
    BY <2>1, <2>2, <2>3, <2>4, <2>5 DEF Quiet
<1>9. CASE k \notin players
  <2>1. players' = players
    BY <1>1, <1>9
  <2>2. \A c \in Clients : Live(c)' => Live(c) /\ conn[c] \in Conns /\ down'[conn[c]] = down[conn[c]]
    BY <1>3, <1>6, <1>9, LiveConn
  <2>3. Answered' /\ Route'
    BY <1>1, <2>1, <2>2 DEF Answered, Route, Now, Meant
  <2>4. NoticesRight'
    BY <1>1, <1>3, <1>9, <2>1 DEF NoticesRight, TypeOK
  <2> QED
    BY <1>5, <1>7, <1>8, <2>3, <2>4
<1>10. CASE k \in players
  <2> DEFINE ps == players \ {k}
             out == [j \in Conns |-> m]
  <2>1. \A j \in ps : Reads(m, Meant(j), Meant(j)')
    <3> SUFFICES ASSUME NEW j \in ps PROVE Reads(m, Meant(j), Meant(j)')
      OBVIOUS
    <3>1. j # k
      OBVIOUS
    <3>2. Meant(j) = [known |-> cacheId[j], rows |-> [i \in Conns |-> IF i \in players \ {j} THEN 1 ELSE 0]]
      BY DEF Meant
    <3>3. Meant(j)' = [known |-> cacheId[j], rows |-> [i \in Conns |-> IF i \in (players \ {k}) \ {j} THEN 1 ELSE 0]]
      BY <1>1 DEF Meant
    <3>4. [i \in Conns |-> IF i \in (players \ {k}) \ {j} THEN 1 ELSE 0]
            = [i \in Conns |-> IF i = k THEN 0 ELSE IF i \in players \ {j} THEN 1 ELSE 0]
      OBVIOUS
    <3> QED
      BY <1>2, <3>2, <3>3, <3>4 DEF Reads
  <2>2. out \in [Conns -> Notice] /\ \A j \in Conns : out[j] = m
    BY <1>2
  <2> HIDE DEF out
  <2>3. ps \in SUBSET (players \cap players') /\ \A j \in ps : j \in Conns /\ j # k
    BY <1>1 DEF TypeOK
  <2>4. \A j \in ps \cap Attached : down'[j] = Append(down[j], out[j])
    BY <1>3, <1>10, <2>2, <2>3
  <2>5. \A j \in ps : /\ out[j].type # "Accepted" /\ Reads(out[j], Meant(j), Meant(j)')
                    /\ RightNotice(out[j], table')
    BY <1>2, <2>1, <2>2, <2>3 DEF RightNotice
  <2>6. \A j \in ps : \A i \in 1 .. Len(down[j]) : RightNotice(down[j][i], table')
    BY <1>1 DEF NoticesRight
  <2>7. \A j \in ps \ Attached : down'[j] = <<>>
    BY <1>3, <2>3 DEF Quiet
  <2> HIDE DEF ps
  <2>8. /\ \A j \in ps : \A i \in 1 .. Len(down'[j]) : RightNotice(down'[j][i], table')
        /\ \A c \in Clients : conn[c] \in ps =>
             /\ ~online[c] => down'[conn[c]] # <<>> /\ down'[conn[c]][1].type = "Accepted"
             /\ \A i \in DOMAIN down'[conn[c]] :
                  down'[conn[c]][i].type = "Accepted" => i = 1 /\ ~online[c]
             /\ Path(down'[conn[c]], Now(c)', Meant(conn[c])')
    BY <1>1, <1>5, <2>2, <2>3, <2>4, <2>5, <2>6, <2>7, Broadcast
  <2>9. ps = players' /\ \A c \in Clients : Live(c)' => conn[c] \in ps
    BY <1>1, <1>6 DEF Live, ps
  <2>10. Answered' /\ NoticesRight' /\ Route'
    BY <1>1, <2>8, <2>9 DEF Answered, NoticesRight, Route
  <2> QED
    BY <1>5, <1>7, <1>8, <2>10
<1> QED
  BY <1>9, <1>10

LEMMA InvRestart ==
  ASSUME SessionInv, Restart
  PROVE  SessionInv'
<1> USE DEF SessionInv
<1>1. /\ open' = {} /\ players' = {} /\ table' = <<>> /\ wanted' = {}
      /\ up' = [k \in Conns |-> <<>>] /\ down' = [k \in Conns |-> <<>>]
      /\ restarts' = restarts + 1
      /\ UNCHANGED <<conn, online, cache, roster, cacheId, made, said>>
  BY DEF Restart, clientVars
<1>2. TypeOK'
  BY <1>1 DEF TypeOK
<1>3. Links' /\ Quiet'
  BY <1>1 DEF Links, Quiet
<1>4. \A c \in Clients : ~Live(c)'
  BY <1>1 DEF Live
<1>5. Answered' /\ CachesFollow' /\ TableSound' /\ SaysRight' /\ NoticesRight' /\ Route'
  BY <1>1, <1>4 DEF Answered, CachesFollow, TableSound, SaysRight, NoticesRight, Route
<1> QED
  BY <1>2, <1>3, <1>5

LEMMA InvOnDisconnected ==
  ASSUME SessionInv, NEW c \in Clients, OnDisconnected(c)
  PROVE  SessionInv'
<1> USE DEF SessionInv
<1> DEFINE k == conn[c]
<1>1. /\ k # NoConn /\ conn' = [conn EXCEPT ![c] = NoConn] /\ online' = [online EXCEPT ![c] = FALSE]
      /\ cache' = [cache EXCEPT ![c] = <<>>] /\ roster' = [roster EXCEPT ![c] = Nobody]
      /\ down' = [down EXCEPT ![k] = <<>>]
      /\ UNCHANGED <<open, players, cacheId, table, wanted, up, made, said, restarts>>
  BY DEF OnDisconnected, serverVars
<1>2. k \in Conns /\ Nobody \in [Conns -> Nat]
  BY <1>1 DEF TypeOK, Nobody
<1> HIDE DEF k
<1>3. /\ \A d \in Clients : conn'[d] = IF d = c THEN NoConn ELSE conn[d]
      /\ \A d \in Clients : online'[d] = IF d = c THEN FALSE ELSE online[d]
      /\ \A d \in Clients : cache'[d] = IF d = c THEN <<>> ELSE cache[d]
      /\ \A d \in Clients : roster'[d] = IF d = c THEN Nobody ELSE roster[d]
      /\ \A j \in Conns : down'[j] = IF j = k THEN <<>> ELSE down[j]
  BY <1>1, <1>2 DEF TypeOK
<1>4. TypeOK'
  <2>1. conn' \in [Clients -> Conns \cup {NoConn}] /\ online' \in [Clients -> BOOLEAN]
    BY <1>1 DEF TypeOK
  <2>2. cache' \in [Clients -> Seq(Strings)]
    BY <1>1 DEF TypeOK
  <2>3. roster' \in [Clients -> [Conns -> Nat]]
    BY <1>1, <1>2 DEF TypeOK
  <2>4. down' \in [Conns -> Seq(Notice)]
    BY <1>1, <1>2 DEF TypeOK
  <2> QED
    BY <1>1, <2>1, <2>2, <2>3, <2>4 DEF TypeOK
<1>5. NoConn \notin Conns
  BY SessionAssumption DEF Conns
<1>6. \A d \in Clients : Live(d)' => Live(d) /\ d # c /\ conn[d] # k /\ conn[d] \in Conns /\ conn'[d] = conn[d]
  BY <1>1, <1>3, <1>5 DEF Live, Links, TypeOK, k
<1>7. Links'
  <2>1. \A d \in Clients : conn'[d] \in 1 .. made' \/ (conn'[d] = NoConn /\ ~online'[d])
    BY <1>1, <1>3 DEF Links
  <2>2. \A d, e \in Clients : conn'[d] = conn'[e] /\ conn'[d] # NoConn => d = e
    BY <1>3 DEF Links
  <2> QED
    BY <1>1, <2>1, <2>2 DEF Links
<1>8. Attached' = Attached \ {k}
  BY <1>1, <1>3, <1>5 DEF Attached, Links, k
<1>9. Quiet'
  <2>1. \A j \in Conns \ Attached' : down'[j] = <<>>
    BY <1>3, <1>8 DEF Quiet
  <2>2. /\ \A j \in Conns \ players' : down'[j] = <<>> \/ down'[j] = <<Refused>>
        /\ \A j \in open' \ players' : down'[j] = <<>>
    BY <1>1, <1>3 DEF Quiet, TypeOK
  <2>3. /\ \A d \in Clients : conn'[d] \in open' \ players' => ~online'[d]
        /\ \A d \in Clients : ~online'[d] => cache'[d] = <<>>
    BY <1>1, <1>3 DEF Quiet
  <2> QED
    BY <1>1, <2>1, <2>2, <2>3 DEF Quiet
<1>10. Answered' /\ CachesFollow' /\ TableSound' /\ SaysRight'
  BY <1>1, <1>3, <1>6 DEF Answered, CachesFollow, TableSound, SaysRight
<1>11. NoticesRight'
  BY <1>1, <1>3 DEF NoticesRight, TypeOK
<1>12. Route'
  BY <1>1, <1>3, <1>6 DEF Route, Now, Meant
<1> QED
  BY <1>4, <1>7, <1>9, <1>10, <1>11, <1>12

(* What the head of a queue is, and what reading it does. *)
LEMMA FirstNotice ==
  ASSUME SessionInv, NEW c \in Clients, conn[c] # NoConn, down[conn[c]] # <<>>, NEW m, m = Next1(c)
  PROVE  /\ conn[c] \in Conns /\ down[conn[c]] \in Seq(Notice) /\ m \in Notice /\ m = down[conn[c]][1]
         /\ ~Live(c) => m.type = "Refused"
         /\ Live(c) =>
              /\ (m.type = "Accepted") <=> ~online[c]
              /\ RightNotice(m, table)
              /\ \E x \in Standing : Reads(m, Now(c), x) /\ Path(Tail(down[conn[c]]), x, Meant(conn[c]))
<1> USE DEF SessionInv
<1> DEFINE k == conn[c]
           q == down[k]
<1>1. k \in Conns /\ q \in Seq(Notice) /\ m = Head(q) /\ q # <<>>
  BY DEF TypeOK, Next1
<1>2. m = q[1] /\ 1 \in 1 .. Len(q) /\ m \in Notice /\ 1 \in DOMAIN q
  BY <1>1
<1>3. ~Live(c) => m.type = "Refused"
  BY <1>1, <1>2 DEF Live, Quiet, Refused
<1>4. ASSUME Live(c)
      PROVE  /\ (m.type = "Accepted") <=> ~online[c]
             /\ RightNotice(m, table)
             /\ \E x \in Standing : Reads(m, Now(c), x) /\ Path(Tail(q), x, Meant(k))
  <2>1. (m.type = "Accepted") <=> ~online[c]
    BY <1>2, <1>4 DEF Answered, TypeOK
  <2>2. RightNotice(m, table)
    BY <1>2, <1>4 DEF NoticesRight, Live
  <2>3. Path(q, Now(c), Meant(k)) /\ Now(c) \in Standing
    BY <1>4, Standings DEF Route
  <2> HIDE DEF q, k
  <2>4. \E x \in Standing : Reads(Head(q), Now(c), x) /\ Path(Tail(q), x, Meant(k))
    BY <1>1, <2>3, PathTail DEF q
  <2> QED
    BY <1>1, <2>1, <2>2, <2>4
<1> QED
  BY <1>1, <1>2, <1>3, <1>4

(* A new string is one the table holds after those the client knows. *)
LEMMA FreshValues ==
  ASSUME SessionInv, NEW c \in Clients, Live(c), online[c], NEW m \in Notice, m.type = "Update",
         RightNotice(m, table), m.start = Len(cache[c])
  PROVE  /\ \A i \in DOMAIN m.values : ~Knows(cache[c], m.values[i])
         /\ Learn(cache[c], m.values) = cache[c] \o m.values
         /\ cache[c] \o m.values \in Seq(Strings)
         /\ Len(cache[c] \o m.values) = Len(cache[c]) + Len(m.values)
         /\ Len(cache[c] \o m.values) <= Len(table)
         /\ \A i \in 1 .. Len(cache[c] \o m.values) : (cache[c] \o m.values)[i] = table[i]
<1> USE DEF SessionInv
<1> DEFINE old == cache[c]
           v == m.values
           n == Len(old)
           l == Len(v)
<1>1. old \in Seq(Strings) /\ v \in Seq(Strings) /\ n \in Nat /\ l \in Nat
  BY NoticeTypes DEF TypeOK
<1>2. n <= Len(table) /\ \A i \in 1 .. n : old[i] = table[i]
  BY DEF CachesFollow
<1>3. n + l <= Len(table) /\ \A j \in 1 .. l : v[j] = table[n + j]
  BY DEF RightNotice
<1>4. table \in Seq(Strings) /\ \A i, j \in 1 .. Len(table) : table[i] = table[j] => i = j
  BY DEF TypeOK, TableSound
<1>5. DOMAIN old = 1 .. n /\ DOMAIN v = 1 .. l
  BY <1>1
<1>7. /\ old \o v \in Seq(Strings) /\ Len(old \o v) = n + l
      /\ \A i \in 1 .. n : (old \o v)[i] = old[i]
      /\ \A i \in n + 1 .. n + l : (old \o v)[i] = v[i - n]
  <2> HIDE DEF old, v
  <2> QED
    BY <1>1, Joining
<1> HIDE DEF old, v, n, l
<1>6. \A i \in DOMAIN v : ~Knows(old, v[i])
  <2> SUFFICES ASSUME NEW j \in 1 .. l, NEW i \in 1 .. n, old[i] = v[j] PROVE FALSE
    BY <1>5 DEF Knows
  <2>1. n + j \in 1 .. Len(table) /\ i \in 1 .. Len(table) /\ i # n + j
    BY <1>1, <1>2, <1>3, <1>4
  <2> QED
    BY <1>2, <1>3, <1>4, <2>1
<1>8. \A i \in n + 1 .. n + l : (old \o v)[i] = table[i]
  <2> SUFFICES ASSUME NEW i \in n + 1 .. n + l PROVE (old \o v)[i] = table[i]
    OBVIOUS
  <2>1. i - n \in 1 .. l /\ n + (i - n) = i
    BY <1>1
  <2> QED
    BY <1>3, <1>7, <2>1
<1>9. \A i \in 1 .. n + l : (old \o v)[i] = table[i]
  BY <1>1, <1>2, <1>7, <1>8
<1>10. Learn(old, v) = old \o v
  BY <1>6 DEF Learn
<1> QED
  BY <1>3, <1>6, <1>7, <1>9, <1>10 DEF old, v, n, l

LEMMA InvConsume ==
  ASSUME SessionInv, NEW c \in Clients, Consume(c)
  PROVE  SessionInv'
<1> USE DEF SessionInv
<1> DEFINE k == conn[c]
           q == down[k]
           m == Next1(c)
<1>1. /\ k # NoConn /\ q # <<>> /\ down' = [down EXCEPT ![k] = Tail(q)]
      /\ UNCHANGED <<open, players, cacheId, table, wanted, conn, up, made, said, restarts>>
      /\ \/ m.type = "Accepted" /\ Welcome(c)
         \/ m.type = "Update" /\ HandleStringCacheUpdate(c, m)
         \/ m.type = "Joined" /\ OnPlayerJoined(c, m.who)
         \/ m.type = "Left" /\ OnPlayerLeft(c, m.who)
         \/ m.type \in {"Refused", "Play"} /\ UNCHANGED <<online, cache, roster>>
  BY DEF Consume, Next1, serverVars
<1> HIDE DEF m
<1>2. /\ k \in Conns /\ q \in Seq(Notice) /\ m \in Notice
      /\ ~Live(c) => m.type = "Refused"
      /\ Live(c) =>
           /\ (m.type = "Accepted") <=> ~online[c]
           /\ RightNotice(m, table)
           /\ \E x \in Standing : Reads(m, Now(c), x) /\ Path(Tail(q), x, Meant(k))
  <2> HIDE DEF k, q
  <2>1. conn[c] # NoConn /\ down[conn[c]] # <<>> /\ m = Next1(c)
    BY <1>1 DEF k, q, m
  <2> QED
    BY <2>1, FirstNotice DEF k, q
<1>3. /\ Tail(q) \in Seq(Notice) /\ Len(Tail(q)) = Len(q) - 1 /\ Len(q) \in Nat \ {0}
      /\ \A i \in 1 .. Len(q) - 1 : Tail(q)[i] = q[i + 1]
  <2> HIDE DEF q
  <2> QED
    BY <1>1, <1>2, TailOf
<1> DEFINE t == Tail(q)
<1> HIDE DEF k, q, t
<1>4. down' \in [Conns -> Seq(Notice)] /\ \A j \in Conns : down'[j] = IF j = k THEN t ELSE down[j]
  BY <1>1, <1>2, <1>3 DEF TypeOK, t
<1>5. \A d \in Clients \ {c} : conn[d] # k /\ online'[d] = online[d] /\ cache'[d] = cache[d] /\ roster'[d] = roster[d]
  <2>1. \A d \in Clients \ {c} : conn[d] # k
    BY <1>1 DEF Links, k
  <2>2. /\ \A d \in Clients \ {c} : online'[d] = online[d]
        /\ \A d \in Clients \ {c} : cache'[d] = cache[d]
        /\ \A d \in Clients \ {c} : roster'[d] = roster[d]
    BY <1>1 DEF Welcome, HandleStringCacheUpdate, OnPlayerJoined, OnPlayerLeft, TypeOK
  <2> QED
    BY <2>1, <2>2
<1>6. Attached' = Attached /\ \A d \in Clients : Live(d)' = Live(d)
  BY <1>1 DEF Attached, Live
(* What becomes of the client itself. *)
<1>7. /\ online' \in [Clients -> BOOLEAN] /\ cache' \in [Clients -> Seq(Strings)]
      /\ roster' \in [Clients -> [Conns -> Nat]]
      /\ Live(c) => online'[c] /\ Path(t, Now(c)', Meant(k))
      /\ ~online'[c] => cache'[c] = <<>>
      /\ Live(c) => /\ Len(cache'[c]) <= Len(table)
                    /\ \A i \in 1 .. Len(cache'[c]) : cache'[c][i] = table[i]
      /\ ~Live(c) => online'[c] = online[c]
  <2>0. /\ roster[c] \in [Conns -> Nat] /\ Nobody \in [Conns -> Nat]
        /\ cache[c] \in Seq(Strings) /\ online[c] \in BOOLEAN
        /\ ~online[c] => cache[c] = <<>>
        /\ Live(c) => Len(cache[c]) <= Len(table) /\ \A i \in 1 .. Len(cache[c]) : cache[c][i] = table[i]
    BY DEF TypeOK, Nobody, Quiet, CachesFollow
  <2>1. CASE m.type = "Accepted" /\ Welcome(c)
    <3>1. /\ online' = [online EXCEPT ![c] = TRUE] /\ cache' = [cache EXCEPT ![c] = <<>>]
          /\ roster' = [roster EXCEPT ![c] = Nobody]
      BY <2>1 DEF Welcome
    <3>2. /\ online' \in [Clients -> BOOLEAN] /\ cache' \in [Clients -> Seq(Strings)]
          /\ roster' \in [Clients -> [Conns -> Nat]]
          /\ online'[c] /\ cache'[c] = <<>> /\ roster'[c] = Nobody
      BY <2>0, <3>1 DEF TypeOK
    <3>3. Live(c)
      BY <1>2, <2>1
    <3>4. Now(c)' = [known |-> 0, rows |-> Nobody] /\ Now(c) = [known |-> 0, rows |-> Nobody]
      BY <1>2, <2>1, <3>2, <3>3 DEF Now, Nobody
    <3>5. PICK x \in Standing : Reads(m, Now(c), x) /\ Path(t, x, Meant(k))
      BY <1>2, <3>3 DEF t
    <3>6. x = Now(c)'
      BY <2>1, <3>4, <3>5 DEF Reads
    <3> QED
      BY <3>2, <3>3, <3>5, <3>6 DEF TypeOK
  <2>2. CASE m.type = "Update" /\ HandleStringCacheUpdate(c, m)
    <3>1. Live(c) /\ online[c] /\ RightNotice(m, table)
      BY <1>2, <2>2
    <3>2. PICK x \in Standing : Reads(m, Now(c), x) /\ Path(t, x, Meant(k))
      BY <1>2, <3>1 DEF t
    <3>3. /\ m.start = Len(cache[c])
          /\ x = [known |-> Len(cache[c]) + Len(m.values), rows |-> roster[c]]
      BY <2>2, <3>1, <3>2 DEF Reads, Now
    <3> DEFINE new == cache[c] \o m.values
    <3>4. /\ Learn(cache[c], m.values) = new /\ new \in Seq(Strings)
          /\ Len(new) = Len(cache[c]) + Len(m.values) /\ Len(new) <= Len(table)
          /\ \A i \in 1 .. Len(new) : new[i] = table[i]
      BY <1>2, <2>2, <3>1, <3>3, FreshValues
    <3> HIDE DEF new
    <3>5. cache' = [cache EXCEPT ![c] = new] /\ UNCHANGED <<online, roster>>
      BY <2>2, <3>4 DEF HandleStringCacheUpdate
    <3>6. cache' \in [Clients -> Seq(Strings)] /\ cache'[c] = new
      BY <3>4, <3>5 DEF TypeOK
    <3>7. Now(c)' = x
      BY <3>1, <3>3, <3>4, <3>5, <3>6 DEF Now, Nobody
    <3> QED
      BY <3>1, <3>2, <3>4, <3>5, <3>6, <3>7 DEF TypeOK
  <2>3. CASE m.type = "Joined" /\ OnPlayerJoined(c, m.who)
    <3>1. Live(c) /\ online[c]
      BY <1>2, <2>3
    <3>2. PICK x \in Standing : Reads(m, Now(c), x) /\ Path(t, x, Meant(k))
      BY <1>2, <3>1 DEF t
    <3> DEFINE new == [j \in Conns |-> roster[c][j] + (IF j \in m.who THEN 1 ELSE 0)]
    <3>3. new \in [Conns -> Nat]
      BY <2>0
    <3>4. UNCHANGED <<online, cache>> /\ roster' = [roster EXCEPT ![c] = new]
      BY <2>3 DEF OnPlayerJoined
    <3>5. x = [known |-> Len(cache[c]), rows |-> new]
      BY <2>3, <3>1, <3>2 DEF Reads, Now
    <3> HIDE DEF new
    <3>6. roster' \in [Clients -> [Conns -> Nat]] /\ roster'[c] = new
      BY <3>3, <3>4 DEF TypeOK
    <3>7. Now(c)' = x
      BY <3>1, <3>4, <3>5, <3>6 DEF Now, Nobody
    <3> QED
      BY <2>0, <3>1, <3>2, <3>4, <3>6, <3>7 DEF TypeOK
  <2>4. CASE m.type = "Left" /\ OnPlayerLeft(c, m.who)
    <3>1. Live(c) /\ online[c]
      BY <1>2, <2>4
    <3>2. PICK x \in Standing : Reads(m, Now(c), x) /\ Path(t, x, Meant(k))
      BY <1>2, <3>1 DEF t
    <3> DEFINE new == [j \in Conns |-> IF j = m.who THEN 0 ELSE roster[c][j]]
    <3>3. new \in [Conns -> Nat]
      BY <2>0
    <3>4. UNCHANGED <<online, cache>> /\ roster' = [roster EXCEPT ![c] = [roster[c] EXCEPT ![m.who] = 0]]
      BY <2>4 DEF OnPlayerLeft
    <3>5. x = [known |-> Len(cache[c]), rows |-> new]
      BY <2>4, <3>1, <3>2 DEF Reads, Now
    <3>6. roster' \in [Clients -> [Conns -> Nat]] /\ roster'[c] = new
      <4>1. [roster[c] EXCEPT ![m.who] = 0] = new
        BY <2>0
      <4> QED
        BY <3>3, <3>4, <4>1 DEF TypeOK
    <3> HIDE DEF new
    <3>7. Now(c)' = x
      BY <3>1, <3>4, <3>5, <3>6 DEF Now, Nobody
    <3> QED
      BY <2>0, <3>1, <3>2, <3>4, <3>6, <3>7 DEF TypeOK
  <2>5. CASE m.type \in {"Refused", "Play"} /\ UNCHANGED <<online, cache, roster>>
    <3>1. ASSUME Live(c) PROVE online[c] /\ Path(t, Now(c)', Meant(k))
      <4>1. PICK x \in Standing : Reads(m, Now(c), x) /\ Path(t, x, Meant(k))
        BY <1>2, <3>1 DEF t
      <4>2. x = Now(c) /\ Now(c)' = Now(c)
        BY <2>5, <4>1 DEF Reads, Now, Nobody
      <4> QED
        BY <1>2, <2>0, <2>5, <3>1, <4>1, <4>2
    <3> QED
      BY <2>0, <2>5, <3>1 DEF TypeOK
  <2> QED
    BY <1>1, <2>1, <2>2, <2>3, <2>4, <2>5
<1>8. TypeOK'
  BY <1>1, <1>4, <1>7 DEF TypeOK
<1>9. Links'
  <2>1. conn[c] # NoConn
    BY <1>1 DEF k
  <2>2. \A d \in Clients : conn'[d] \in 1 .. made' \/ (conn'[d] = NoConn /\ ~online'[d])
    BY <1>1, <1>5, <2>1 DEF Links
  <2> QED
    BY <1>1, <2>2 DEF Links
<1>10. Quiet'
  <2>1. \A j \in Conns \ Attached' : down'[j] = <<>>
    <3>1. k \in Attached
      BY <1>2 DEF Attached, k
    <3> QED
      BY <1>4, <1>6, <3>1 DEF Quiet
  <2>2. /\ \A j \in Conns \ players' : down'[j] = <<>> \/ down'[j] = <<Refused>>
        /\ \A j \in open' \ players' : down'[j] = <<>>
    <3>1. k \notin players => q = <<Refused>> /\ k \notin open
      BY <1>1, <1>2 DEF Quiet, q, k
    <3>2. k \notin players => t = <<>>
      <4> SUFFICES ASSUME k \notin players PROVE t = <<>>
        OBVIOUS
      <4>1. Len(q) = 1
        BY <3>1
      <4>2. t \in Seq(Notice) /\ Len(t) = Len(q) - 1
        BY <1>3 DEF t
      <4>3. Len(t) = 0
        BY <4>1, <4>2
      <4> QED
        BY <4>2, <4>3
    <3> QED
      BY <1>1, <1>4, <3>1, <3>2 DEF Quiet, TypeOK
  <2>3. /\ \A d \in Clients : conn'[d] \in open' \ players' => ~online'[d]
        /\ \A d \in Clients : ~online'[d] => cache'[d] = <<>>
    <3>1. conn[c] \in open \ players => ~online'[c]
      BY <1>7 DEF Quiet, Live
    <3> QED
      BY <1>1, <1>5, <1>7, <3>1 DEF Quiet
  <2> QED
    BY <1>1, <2>1, <2>2, <2>3 DEF Quiet
<1>11. Answered'
  <2> SUFFICES ASSUME NEW d \in Clients, Live(d)
               PROVE  /\ ~online'[d] => down'[conn[d]] # <<>> /\ down'[conn[d]][1].type = "Accepted"
                      /\ \A i \in DOMAIN down'[conn[d]] :
                           down'[conn[d]][i].type = "Accepted" => i = 1 /\ ~online'[d]
    BY <1>1, <1>6 DEF Answered
  <2>1. CASE d = c
    <3>1. online'[c] /\ down'[conn[c]] = t
      BY <1>2, <1>4, <1>7, <2>1 DEF k
    <3>2. ASSUME NEW i \in DOMAIN t PROVE t[i].type # "Accepted"
      <4>1. i \in 1 .. Len(q) - 1 /\ t[i] = q[i + 1] /\ i + 1 # 1 /\ i + 1 \in DOMAIN q
        BY <1>2, <1>3 DEF t
      <4> QED
        BY <2>1, <4>1 DEF Answered, q, k
    <3> QED
      BY <2>1, <3>1, <3>2
  <2>2. CASE d # c
    <3>1. conn[d] \in Conns /\ conn[d] # k /\ online'[d] = online[d]
      BY <1>5, <2>2, LiveConn
    <3> QED
      BY <1>4, <3>1 DEF Answered
  <2> QED
    BY <2>1, <2>2
<1>12. CachesFollow'
  <2> SUFFICES ASSUME NEW d \in Clients, Live(d)
               PROVE  /\ Len(cache'[d]) <= Len(table)
                      /\ \A i \in 1 .. Len(cache'[d]) : cache'[d][i] = table[i]
    BY <1>1, <1>6 DEF CachesFollow
  <2>1. CASE d = c
    BY <1>7, <2>1
  <2>2. CASE d # c
    BY <1>5, <2>2 DEF CachesFollow
  <2> QED
    BY <2>1, <2>2
<1>13. TableSound' /\ SaysRight'
  BY <1>1 DEF TableSound, SaysRight
<1>14. NoticesRight'
  <2> SUFFICES ASSUME NEW j \in players, NEW i \in 1 .. Len(down'[j]) PROVE RightNotice(down'[j][i], table)
    BY <1>1 DEF NoticesRight
  <2>1. CASE j = k
    <3>1. down'[j] = t
      BY <1>2, <1>4, <2>1
    <3>2. t[i] = q[i + 1] /\ i + 1 \in 1 .. Len(q)
      BY <1>3, <3>1 DEF t
    <3> QED
      BY <2>1, <3>1, <3>2 DEF NoticesRight, q
  <2>2. CASE j # k
    BY <1>4, <2>2 DEF NoticesRight, TypeOK
  <2> QED
    BY <2>1, <2>2
<1>15. Route'
  <2> SUFFICES ASSUME NEW d \in Clients, Live(d) PROVE Path(down'[conn[d]], Now(d)', Meant(conn[d]))
    BY <1>1, <1>6 DEF Route, Meant
  <2>1. CASE d = c
    <3>1. conn[c] = k /\ down'[k] = t
      BY <1>2, <1>4 DEF k
    <3> QED
      BY <1>7, <2>1, <3>1
  <2>2. CASE d # c
    <3>1. conn[d] \in Conns /\ conn[d] # k /\ Now(d)' = Now(d)
      BY <1>5, <2>2, LiveConn DEF Now, Nobody
    <3> QED
      BY <1>4, <3>1 DEF Route
  <2> QED
    BY <2>1, <2>2
<1> QED
  BY <1>8, <1>9, <1>10, <1>11, <1>12, <1>13, <1>14, <1>15

LEMMA InvNext ==
  ASSUME SessionInv, [Next]_vars
  PROVE  SessionInv'
<1>1. CASE UNCHANGED vars
  BY <1>1 DEF SessionInv, vars, serverVars, clientVars, TypeOK, Links, Quiet, Answered, CachesFollow,
     TableSound, SaysRight, NoticesRight, Route, Now, Meant, Live, Attached, Nobody
<1>2. CASE Next
  BY <1>2, InvConnect, InvConsume, InvOnDisconnected, InvSay, InvAuthentication, InvHandleSay,
     InvOnDisconnection, InvUpdate, InvRestart DEF Next
<1> QED
  BY <1>1, <1>2

(* SessionInv holds throughout: sessions, caches and lists of players keep *)
(* together over every order of messages, endings and restarts.            *)
THEOREM Inductive == Spec => []SessionInv
BY InvInit, InvNext, PTL DEF Spec

-----------------------------------------------------------------------------
(* The properties.                                                         *)

LEMMA Fit ==
  ASSUME SessionInv
  PROVE  Contiguous
<1> USE DEF SessionInv
<1> SUFFICES ASSUME NEW c \in Clients, conn[c] # NoConn, down[conn[c]] # <<>>,
                    Next1(c).type = "Update"
             PROVE  /\ Next1(c).start = Len(cache[c])
                    /\ \A i \in DOMAIN Next1(c).values : ~Knows(cache[c], Next1(c).values[i])
  BY DEF Contiguous
<1> DEFINE m == Next1(c)
<1>1. /\ m \in Notice /\ Live(c) /\ online[c] /\ RightNotice(m, table)
      /\ \E x \in Standing : Reads(m, Now(c), x)
  BY FirstNotice
<1>2. m.type = "Update"
  OBVIOUS
<1> HIDE DEF m
<1>3. m.start = Len(cache[c])
  BY <1>1, <1>2 DEF Reads, Now
<1>4. \A i \in DOMAIN m.values : ~Knows(cache[c], m.values[i])
  BY <1>1, <1>2, <1>3, FreshValues
<1> QED
  BY <1>3, <1>4 DEF m

LEMMA Legible ==
  ASSUME SessionInv
  PROVE  Decodable
<1> USE DEF SessionInv
<1>1. ASSUME NEW k \in players, up[k] # <<>>, Head(up[k]).type = "Say"
      PROVE  Decode(table, Head(up[k])) = Head(up[k]).text
  <2>1. k \in Conns /\ up[k] \in Seq(Request) /\ table \in Seq(Strings)
    BY DEF TypeOK
  <2> DEFINE q == up[k]
  <2>2. Head(q) \in Request /\ Head(q) = q[1] /\ 1 \in 1 .. Len(q)
    <3>1. q \in Seq(Request) /\ q # <<>>
      BY <1>1, <2>1
    <3> HIDE DEF q
    <3> QED
      BY <3>1, TailOf
  <2>3. RightSay(Head(q), table)
    BY <2>1, <2>2 DEF SaysRight
  <2> QED
    BY <1>1, <2>1, <2>2, <2>3, SayDecodes
<1>2. ASSUME NEW c \in Clients, conn[c] # NoConn, down[conn[c]] # <<>>, Next1(c).type = "Play"
      PROVE  Decode(cache[c], Next1(c)) = Next1(c).text
  <2> DEFINE m == Next1(c)
  <2>1. /\ m \in Notice /\ Live(c) /\ online[c] /\ RightNotice(m, table)
        /\ \E x \in Standing : Reads(m, Now(c), x)
    BY <1>2, FirstNotice
  <2>2. m.type = "Play" /\ cache[c] \in Seq(Strings)
    BY <1>2 DEF TypeOK
  <2> HIDE DEF m
  <2>3. /\ m.id \in Nat \cup {NoId}
        /\ m.id # NoId => m.id < Len(cache[c]) /\ m.id < Len(table) /\ table[m.id + 1] = m.text
    BY <2>1, <2>2, NoticeTypes DEF Reads, Now, RightNotice
  <2>4. \A i \in 1 .. Len(cache[c]) : cache[c][i] = table[i]
    BY <2>1 DEF CachesFollow
  <2>5. CASE m.id = NoId
    BY <2>5 DEF Decode, m
  <2>6. CASE m.id # NoId
    <3>1. m.id \in 0 .. Len(cache[c]) - 1 /\ m.id + 1 \in 1 .. Len(cache[c])
      BY <2>2, <2>3, <2>6 DEF NoId
    <3> QED
      BY <2>3, <2>4, <2>6, <3>1 DEF Decode, StringOf, m
  <2> QED
    BY <2>5, <2>6
<1> QED
  BY <1>1, <1>2 DEF Decodable

LEMMA Shown ==
  ASSUME SessionInv
  PROVE  RosterAgrees
<1> USE DEF SessionInv
<1> SUFFICES ASSUME NEW c \in Clients, Live(c), down[conn[c]] = <<>>, NEW k \in Conns
             PROVE  roster[c][k] = IF k \in players \ {conn[c]} THEN 1 ELSE 0
  BY DEF RosterAgrees
<1>1. online[c]
  BY DEF Answered
<1>2. Now(c) = Meant(conn[c])
  BY PathNowhere DEF Route
<1>3. roster[c] = [j \in Conns |-> IF j \in players \ {conn[c]} THEN 1 ELSE 0]
  BY <1>1, <1>2 DEF Now, Meant
<1> QED
  BY <1>3

(* One client's copy becomes the first `n` strings of the table. *)
LEMMA OneReader ==
  ASSUME SessionInv, NEW c \in Clients, UNCHANGED table, NEW n \in 0 .. Len(table),
         n = 0 \/ n >= Len(copies[c]), copies'[c] = SubSeq(table, 1, n),
         \A d \in Clients \ {c} : copies'[d] = copies[d]
  PROVE  Log!LogNext
<1>1. copies' = [copies EXCEPT ![c] = SubSeq(table, 1, n)]
  BY DEF copies
<1>2. Log!Follow(c)
  BY <1>1 DEF Log!Follow
<1> QED
  BY <1>2 DEF Log!LogNext

LEMMA NoReader ==
  ASSUME UNCHANGED table, \A d \in Clients : copies'[d] = copies[d]
  PROVE  UNCHANGED Log!logVars
BY DEF Log!logVars, copies

LEMMA LogConsume ==
  ASSUME SessionInv, NEW c \in Clients, Consume(c)
  PROVE  Log!LogNext \/ UNCHANGED Log!logVars
<1> USE DEF SessionInv
<1> DEFINE m == Next1(c)
<1>1. /\ conn[c] # NoConn /\ down[conn[c]] # <<>> /\ UNCHANGED <<conn, players, table>>
      /\ \/ m.type = "Accepted" /\ Welcome(c)
         \/ m.type = "Update" /\ HandleStringCacheUpdate(c, m)
         \/ m.type = "Joined" /\ OnPlayerJoined(c, m.who)
         \/ m.type = "Left" /\ OnPlayerLeft(c, m.who)
         \/ m.type \in {"Refused", "Play"} /\ UNCHANGED <<online, cache, roster>>
  BY DEF Consume, Next1, serverVars
<1>2. /\ m \in Notice /\ (~Live(c) => m.type = "Refused")
      /\ Live(c) => /\ (m.type = "Accepted") <=> ~online[c]
                    /\ RightNotice(m, table)
                    /\ \E x \in Standing : Reads(m, Now(c), x)
  BY <1>1, FirstNotice
<1> HIDE DEF m
<1>3. \A d \in Clients : Live(d)' = Live(d)
  BY <1>1 DEF Live
<1>4. \A d \in Clients \ {c} : copies'[d] = copies[d]
  <2>1. /\ \A d \in Clients \ {c} : online'[d] = online[d]
        /\ \A d \in Clients \ {c} : cache'[d] = cache[d]
    BY <1>1 DEF Welcome, HandleStringCacheUpdate, OnPlayerJoined, OnPlayerLeft, TypeOK
  <2> QED
    BY <1>3, <2>1 DEF copies
<1>5. CASE m.type = "Accepted" /\ Welcome(c)
  <2>1. Live(c) /\ ~online[c]
    BY <1>2, <1>5
  <2>2. cache'[c] = <<>>
    BY <1>5 DEF Welcome, TypeOK
  <2>3. copies'[c] = copies[c]
    BY <1>3, <2>1, <2>2 DEF copies
  <2> QED
    BY <1>1, <1>4, <2>3, NoReader
<1>6. CASE m.type = "Update" /\ HandleStringCacheUpdate(c, m)
  <2>1. Live(c) /\ online[c] /\ RightNotice(m, table)
    BY <1>2, <1>6
  <2>2. m.start = Len(cache[c])
    BY <1>2, <1>6, <2>1 DEF Reads, Now
  <2> DEFINE new == cache[c] \o m.values
  <2>3. /\ Learn(cache[c], m.values) = new /\ new \in Seq(Strings)
        /\ Len(new) = Len(cache[c]) + Len(m.values) /\ Len(new) <= Len(table)
        /\ \A i \in 1 .. Len(new) : new[i] = table[i]
    BY <1>2, <1>6, <2>1, <2>2, FreshValues
  <2>4. Len(cache[c]) \in Nat /\ Len(m.values) \in Nat /\ table \in Seq(Strings) /\ Len(table) \in Nat
    BY <1>2, <1>6, NoticeTypes DEF TypeOK
  <2> HIDE DEF new
  <2>9. /\ new \in Seq(Strings) /\ Len(new) \in Nat /\ Len(new) >= Len(cache[c]) /\ Len(new) <= Len(table)
        /\ Len(new) \in 0 .. Len(table)
    <3>1. /\ Len(new) = Len(cache[c]) + Len(m.values) /\ Len(new) <= Len(table) /\ new \in Seq(Strings)
      BY <2>3
    <3> DEFINE a == Len(cache[c])
               b == Len(m.values)
               l == Len(new)
               t == Len(table)
    <3>2. a \in Nat /\ b \in Nat /\ t \in Nat /\ l = a + b /\ l <= t
      BY <2>4, <3>1
    <3> HIDE DEF a, b, l, t
    <3>3. l \in Nat /\ l >= a /\ l <= t /\ l \in 0 .. t
      BY <3>2
    <3> QED
      BY <3>1, <3>3 DEF a, l, t
  <2>5. online' = online /\ cache'[c] = new
    BY <1>6, <2>3 DEF HandleStringCacheUpdate, TypeOK
  <2>6. copies'[c] = new /\ copies[c] = cache[c]
    BY <1>3, <2>1, <2>5 DEF copies
  <2>7. new = SubSeq(table, 1, Len(new))
    <3> DEFINE n == Len(new)
    <3>1. n \in 0 .. Len(table)
      BY <2>9
    <3> HIDE DEF n
    <3>2. SubSeq(table, 1, n) \in Seq(Strings) /\ Len(SubSeq(table, 1, n)) = n
          /\ \A i \in 1 .. n : SubSeq(table, 1, n)[i] = table[i]
      BY <2>4, <3>1
    <3>3. new \in Seq(Strings) /\ Len(new) = n /\ \A i \in 1 .. n : new[i] = table[i]
      BY <2>3 DEF n
    <3>4. new = SubSeq(table, 1, n)
      BY <3>2, <3>3
    <3> QED
      BY <3>4 DEF n
  <2>8. Len(new) \in 0 .. Len(table) /\ Len(new) >= Len(copies[c])
    BY <2>6, <2>9
  <2> QED
    BY <1>1, <1>4, <2>6, <2>7, <2>8, OneReader
<1>7. CASE UNCHANGED <<online, cache>>
  <2>1. copies'[c] = copies[c]
    BY <1>3, <1>7 DEF copies
  <2> QED
    BY <1>1, <1>4, <2>1, NoReader
<1> QED
  BY <1>1, <1>5, <1>6, <1>7 DEF OnPlayerJoined, OnPlayerLeft

(* When a client's copy falls to nothing and the others keep theirs. *)
LEMMA Forgets ==
  ASSUME SessionInv, NEW c \in Clients, UNCHANGED table, copies'[c] = <<>>,
         \A d \in Clients \ {c} : copies'[d] = copies[d]
  PROVE  Log!LogNext
<1>1. table \in Seq(Strings)
  BY DEF SessionInv, TypeOK
<1>2. 0 \in 0 .. Len(table) /\ SubSeq(table, 1, 0) = <<>>
  BY <1>1
<1> QED
  BY <1>2, OneReader

LEMMA LogUpdate ==
  ASSUME SessionInv, HandleUpdate
  PROVE  Log!LogNext
<1>1. PICK new \in Additions : table' = table \o new
  BY DEF HandleUpdate
<1>2. UNCHANGED <<players, conn, online, cache>>
  BY DEF HandleUpdate, clientVars
<1>3. /\ table \in Seq(Strings) /\ table' \in Seq(Strings) /\ Len(table) <= Len(table')
      /\ \A i \in 1 .. Len(table) : table'[i] = table[i]
      /\ \A i, j \in 1 .. Len(table') : table'[i] = table'[j] => i = j
  BY <1>1, TableGrows DEF SessionInv, TypeOK
<1>4. copies' = copies
  BY <1>2 DEF copies, Live
<1> DEFINE t == table
           u == table'
<1> HIDE DEF t, u
<1>5. /\ t \in Seq(Strings) /\ u \in Seq(Strings) /\ Len(t) <= Len(u)
      /\ \A i \in 1 .. Len(t) : u[i] = t[i]
  BY <1>3 DEF t, u
<1>6. SubSeq(t, 1, Len(t)) = SubSeq(u, 1, Len(t))
  <2>1. /\ SubSeq(t, 1, Len(t)) \in Seq(Strings) /\ SubSeq(u, 1, Len(t)) \in Seq(Strings)
        /\ Len(SubSeq(t, 1, Len(t))) = Len(t) /\ Len(SubSeq(u, 1, Len(t))) = Len(t)
        /\ \A i \in 1 .. Len(t) : SubSeq(t, 1, Len(t))[i] = t[i]
        /\ \A i \in 1 .. Len(t) : SubSeq(u, 1, Len(t))[i] = u[i]
    BY <1>5
  <2> QED
    BY <1>5, <2>1
<1>7. Log!IsPrefix(table, table')
  BY <1>5, <1>6 DEF Log!IsPrefix, t, u
<1>8. Log!Distinct(table')
  BY <1>3 DEF Log!Distinct
<1>9. Log!Grow
  BY <1>3, <1>4, <1>7, <1>8 DEF Log!Grow
<1> QED
  BY <1>9 DEF Log!LogNext

LEMMA LogStep ==
  ASSUME SessionInv, [Next]_vars
  PROVE  [Log!LogNext]_(Log!logVars)
<1> USE DEF SessionInv
<1>1. CASE UNCHANGED vars
  <2>1. copies' = copies /\ UNCHANGED table
    BY <1>1 DEF vars, serverVars, clientVars, copies, Live
  <2> QED
    BY <2>1 DEF Log!logVars
<1>2. ASSUME NEW c \in Clients, Connect(c) PROVE UNCHANGED Log!logVars
  <2>1. /\ conn[c] = NoConn /\ conn' = [conn EXCEPT ![c] = made + 1]
        /\ UNCHANGED <<players, online, cache, table>>
    BY <1>2 DEF Connect
  <2>2. conn[c] \notin players
    <3>1. NoConn \notin Conns
      BY SessionAssumption DEF Conns
    <3> QED
      BY <2>1, <3>1 DEF TypeOK
  <2>3. made + 1 \notin players /\ conn'[c] = made + 1
    BY <2>1 DEF Links, TypeOK
  <2>4. \A d \in Clients : Live(d)' = Live(d)
    BY <2>1, <2>2, <2>3 DEF Live, TypeOK
  <2>5. copies' = copies
    BY <2>1, <2>4 DEF copies
  <2> QED
    BY <2>1, <2>5 DEF Log!logVars
<1>3. ASSUME NEW c \in Clients, OnDisconnected(c) PROVE Log!LogNext
  <2>1. /\ conn' = [conn EXCEPT ![c] = NoConn] /\ online' = [online EXCEPT ![c] = FALSE]
        /\ cache' = [cache EXCEPT ![c] = <<>>] /\ UNCHANGED <<players, table>>
    BY <1>3 DEF OnDisconnected, serverVars
  <2>2. online'[c] = FALSE
    BY <2>1 DEF TypeOK
  <2>3. copies'[c] = <<>>
    BY <2>2 DEF copies
  <2>4. \A d \in Clients \ {c} : conn'[d] = conn[d] /\ online'[d] = online[d] /\ cache'[d] = cache[d]
    BY <2>1 DEF TypeOK
  <2>5. \A d \in Clients \ {c} : copies'[d] = copies[d]
    BY <2>1, <2>4 DEF copies, Live
  <2> QED
    BY <2>1, <2>3, <2>5, Forgets
<1>4. ASSUME NEW c \in Clients, NEW s \in Strings, OnScriptAnimationEvent(c, s)
      PROVE  UNCHANGED Log!logVars
  BY <1>4 DEF OnScriptAnimationEvent, serverVars, clientVars, copies, Live, Log!logVars
<1>5. ASSUME NEW k \in Conns, HandleAuthenticationRequest(k) PROVE UNCHANGED Log!logVars
  <2>1. /\ k \in open /\ up[k] # <<>> /\ Head(up[k]).type = "Auth"
        /\ UNCHANGED <<conn, online, cache, table>>
        /\ players' = players \/ players' = players \cup {k}
    BY <1>5 DEF HandleAuthenticationRequest, clientVars, Accept, Cancel, Refuse
  <2>2. k \notin players
    BY <2>1, Applicant
  <2>3. \A d \in Clients : conn[d] = k => ~online[d]
    BY <2>1, <2>2 DEF Quiet
  <2>4. \A d \in Clients : copies'[d] = copies[d]
    BY <2>1, <2>3 DEF copies, Live
  <2> QED
    BY <2>1, <2>4, NoReader
<1>6. ASSUME NEW k \in Conns, HandleSay(k) PROVE UNCHANGED Log!logVars
  <2>1. UNCHANGED <<conn, online, cache, players, table>>
    BY <1>6 DEF HandleSay, Relay, clientVars
  <2> QED
    BY <2>1 DEF copies, Live, Log!logVars
<1>7. ASSUME NEW k \in Conns, OnDisconnection(k) PROVE [Log!LogNext]_(Log!logVars)
  <2>1. players' = players \ {k} /\ UNCHANGED <<conn, online, cache, table>>
    BY <1>7 DEF OnDisconnection, clientVars
  <2>2. \A d \in Clients : conn[d] # k => copies'[d] = copies[d]
    BY <2>1 DEF copies, Live
  <2>3. CASE \E c \in Clients : conn[c] = k
    <3>1. PICK c \in Clients : conn[c] = k
      BY <2>3
    <3>2. copies'[c] = <<>>
      BY <2>1, <3>1 DEF copies, Live
    <3>3. \A d \in Clients \ {c} : conn[d] # k
      <4>1. k # NoConn
        BY SessionAssumption DEF Conns
      <4> QED
        BY <3>1, <4>1 DEF Links
    <3> QED
      BY <2>1, <2>2, <3>2, <3>3, Forgets
  <2>4. CASE ~ \E c \in Clients : conn[c] = k
    BY <2>1, <2>2, <2>4, NoReader
  <2> QED
    BY <2>3, <2>4
<1>8. ASSUME Restart PROVE Log!LogNext
  <2>1. table' = <<>> /\ players' = {}
    BY <1>8 DEF Restart
  <2>2. copies' = [c \in Clients |-> <<>>]
    BY <2>1 DEF copies, Live
  <2>3. Log!Lose
    BY <2>1, <2>2 DEF Log!Lose
  <2> QED
    BY <2>3 DEF Log!LogNext
<1> QED
  BY <1>1, <1>2, <1>3, <1>4, <1>5, <1>6, <1>7, <1>8, LogConsume, LogUpdate DEF Next

(* Every value a variable takes is of its type, whatever the bounds. *)
THEOREM SessionTypes == Spec => []TypeOK
BY Inductive, PTL DEF SessionInv

(* StringCache::Deserialize's assertion holds of every update that any     *)
(* client ever reads, over joins, reconnections and restarts.              *)
THEOREM UpdatesContiguous == Spec => []Contiguous
BY Inductive, Fit, PTL

(* An id that arrives, at the server or at a client, is known there and    *)
(* stands for the string its sender meant.                                 *)
THEOREM StringsDecodable == Spec => []Decodable
BY Inductive, Legible, PTL

(* A client that has read what was sent to it shows every other player     *)
(* once, and nobody else.                                                  *)
THEOREM RosterCorrect == Spec => []RosterAgrees
BY Inductive, Shown, PTL

(* The table and the clients' caches behave as StringLog says: strings are *)
(* only added at the end, and what a client has is always a prefix.        *)
THEOREM LogImplemented == Spec => ImplementsLog
<1>1. Init => Log!LogInit
  <2> SUFFICES ASSUME Init PROVE Log!LogInit
    OBVIOUS
  <2>1. \A c \in Clients : ~Live(c)
    BY DEF Init, Live
  <2> QED
    BY <2>1 DEF Init, Log!LogInit, copies
<1>2. SessionInv /\ [Next]_vars => [Log!LogNext]_(Log!logVars)
  BY LogStep
<1> QED
  BY <1>1, <1>2, Inductive, PTL DEF Spec, ImplementsLog, Log!LogSpec
=============================================================================
