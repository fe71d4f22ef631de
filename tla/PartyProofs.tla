---------------------------- MODULE PartyProofs ----------------------------
(* Membership is consistent and what is on its way to a client brings its  *)
(* view up to date, for any players and any number of requests.            *)
EXTENDS Party, SequenceTheorems, FiniteSetTheorems, TLAPS

(* What a client sees after a message that it does not ignore. *)
Shown(m) ==
  IF m.type = "Left" THEN Outside
  ELSE [inParty |-> TRUE, leader |-> m.leader, members |-> m.members]

(* A client that sees v and reads all of s then sees w: an Info is never   *)
(* read outside a party, and so the last message tells all.                *)
Tells(s, v, w) ==
  /\ IF s = <<>> THEN w = v ELSE w = Shown(s[Len(s)])
  /\ \A k \in 1..Len(s) : s[k].type = "Info" =>
       IF k = 1 THEN v.inParty ELSE s[k-1].type # "Left"

NewsTell == \A p \in Reachable : Tells(news[p], view[p], PartyOf(p))

(* Party ids are not given twice. *)
IdsUsed == \A id \in DOMAIN parties : id < nextId

(* A session that has not begun knows nothing. *)
FreshIsOutside ==
  /\ connected \subseteq used /\ online \subseteq used
  /\ \A p \in Players \ used : news[p] = <<>> /\ view[p] = Outside

PartyInv == TypeOK /\ Membership /\ IdsUsed /\ FreshIsOutside /\ NewsTell

-----------------------------------------------------------------------------
(* Sequences of news.                                                      *)

LEMMA NewsTypes ==
  ASSUME NEW l \in Players, NEW ms \in Seq(Players)
  PROVE  /\ JoinedNews(l, ms) \in News /\ InfoNews(l, ms) \in News /\ LeftNews \in News
         /\ JoinedNews(l, ms).type = "Joined" /\ InfoNews(l, ms).type = "Info" /\ LeftNews.type = "Left"
         /\ Shown(JoinedNews(l, ms)) = [inParty |-> TRUE, leader |-> l, members |-> ms]
         /\ Shown(InfoNews(l, ms)) = [inParty |-> TRUE, leader |-> l, members |-> ms]
         /\ Shown(LeftNews) = Outside
  BY DEF JoinedNews, InfoNews, LeftNews, News, Shown

LEMMA TellsNothing == ASSUME NEW v PROVE Tells(<<>>, v, v)
  BY DEF Tells

LEMMA TellsOne ==
  ASSUME NEW m \in News, NEW v, m.type # "Info" \/ v.inParty
  PROVE  Tells(<<m>>, v, Shown(m))
  BY DEF Tells

LEMMA TellsTwo ==
  ASSUME NEW m \in News, NEW n \in News, NEW v, m.type = "Joined", n.type = "Info"
  PROVE  Tells(<<m, n>>, v, Shown(n))
  BY DEF Tells

LEMMA ShownInParty ==
  ASSUME NEW m \in News PROVE Shown(m).inParty <=> m.type # "Left"
  BY DEF Shown, Outside, News

LEMMA TellsConcat ==
  ASSUME NEW s \in Seq(News), NEW t \in Seq(News), NEW v, NEW w, NEW x,
         Tells(s, v, w), Tells(t, w, x)
  PROVE  Tells(s \o t, v, x)
  <1> DEFINE u == s \o t
  <1>1. /\ u \in Seq(News) /\ Len(u) = Len(s) + Len(t)
        /\ \A i \in 1..Len(s) + Len(t) : u[i] = IF i <= Len(s) THEN s[i] ELSE t[i - Len(s)]
    BY ConcatProperties
  <1>2. Len(s) \in Nat /\ Len(t) \in Nat /\ Len(u) \in Nat
    BY <1>1
  <1>3. (s = <<>> <=> Len(s) = 0) /\ (t = <<>> <=> Len(t) = 0) /\ (u = <<>> <=> Len(u) = 0)
    BY <1>1
  <1> HIDE DEF u
  <1>4. CASE t = <<>>
    <2>1. u = s
      BY <1>4, ConcatEmptySeq DEF u
    <2>2. x = w
      BY <1>4 DEF Tells
    <2> QED BY <2>1, <2>2 DEF u
  <1>5. CASE t # <<>>
    <2>1. u # <<>> /\ u[Len(u)] = t[Len(t)]
      BY <1>1, <1>2, <1>3, <1>5
    <2>2. x = Shown(u[Len(u)])
      BY <2>1, <1>5 DEF Tells
    <2>3. ASSUME NEW k \in 1..Len(u), u[k].type = "Info", k <= Len(s)
          PROVE  IF k = 1 THEN v.inParty ELSE u[k-1].type # "Left"
      <3>1. k \in 1..Len(s) /\ s[k].type = "Info" /\ (k # 1 => u[k-1] = s[k-1])
        BY <2>3, <1>1, <1>2
      <3> QED BY <3>1 DEF Tells
    <2>4. ASSUME NEW k \in 1..Len(u), u[k].type = "Info", k > Len(s) + 1
          PROVE  k # 1 /\ u[k-1].type # "Left"
      <3> DEFINE j == k - Len(s)
      <3>1. j \in 1..Len(t) /\ j # 1 /\ u[k] = t[j] /\ u[k-1] = t[j-1]
        BY <2>4, <1>1, <1>2
      <3>2. k # 1
        BY <2>4, <1>2
      <3> HIDE DEF j
      <3> QED BY <3>1, <3>2, <2>4 DEF Tells
    <2>5. ASSUME NEW k \in 1..Len(u), u[k].type = "Info", k = Len(s) + 1
          PROVE  IF k = 1 THEN v.inParty ELSE u[k-1].type # "Left"
      <3>1. 1 \in 1..Len(t) /\ u[k] = t[1]
        BY <2>5, <1>1, <1>2
      <3>2. w.inParty
        BY <3>1, <2>5 DEF Tells
      <3>3. CASE s = <<>>
        BY <3>2, <3>3, <1>3, <2>5 DEF Tells
      <3>4. CASE s # <<>>
        <4>1. k # 1 /\ u[k-1] = s[Len(s)] /\ s[Len(s)] \in News
          BY <3>4, <2>5, <1>1, <1>2, <1>3
        <4>2. w = Shown(s[Len(s)])
          BY <3>4 DEF Tells
        <4> QED BY <4>1, <4>2, <3>2, ShownInParty
      <3> QED BY <3>3, <3>4
    <2>6. \A k \in 1..Len(u) : k <= Len(s) \/ k = Len(s) + 1 \/ k > Len(s) + 1
      BY <1>2
    <2>7. \A k \in 1..Len(u) : u[k].type = "Info" =>
            IF k = 1 THEN v.inParty ELSE u[k-1].type # "Left"
      BY <2>3, <2>4, <2>5, <2>6
    <2>8. Tells(u, v, x)
      BY <2>1, <2>2, <2>7 DEF Tells
    <2> QED BY <2>8 DEF u
  <1> QED BY <1>4, <1>5

LEMMA TellsTail ==
  ASSUME NEW s \in Seq(News), s # <<>>, NEW v, NEW w, Tells(s, v, w)
  PROVE  Tells(Tail(s), Read(v, Head(s)), w)
  <1> DEFINE t == Tail(s)
  <1> DEFINE r == Read(v, Head(s))
  <1>1. /\ t \in Seq(News) /\ Len(t) = Len(s) - 1 /\ Len(s) \in Nat /\ Len(s) > 0
        /\ \A i \in 1..Len(t) : t[i] = s[i+1]
    BY HeadTailProperties
  <1>2. Head(s) = s[1] /\ s[1] \in News
    BY <1>1
  <1>3. r = Shown(s[1])
    <2>1. s[1].type = "Info" => v.inParty
      BY <1>1 DEF Tells
    <2>2. s[1].type \in {"Joined", "Info", "Left"}
      BY <1>2 DEF News
    <2> QED BY <2>1, <2>2, <1>2 DEF Read, Shown
  <1> HIDE DEF t, r
  <1>4. w = Shown(s[Len(s)])
    BY DEF Tells
  <1>5. CASE t = <<>>
    <2>1. Len(s) = 1 /\ Len(t) = 0
      BY <1>1, <1>5
    <2>2. w = r
      BY <2>1, <1>3, <1>4
    <2>3. Tells(t, r, w)
      BY <2>1, <2>2, <1>5 DEF Tells
    <2> QED BY <2>3 DEF t, r
  <1>6. CASE t # <<>>
    <2>1. Len(t) > 0 /\ t[Len(t)] = s[Len(s)]
      BY <1>1, <1>6
    <2>2. ASSUME NEW k \in 1..Len(t), t[k].type = "Info"
          PROVE  IF k = 1 THEN r.inParty ELSE t[k-1].type # "Left"
      <3>1. k+1 \in 1..Len(s) /\ k+1 # 1 /\ s[k+1].type = "Info"
        BY <1>1, <2>2
      <3>2. s[(k+1)-1].type # "Left"
        BY <3>1 DEF Tells
      <3>3. CASE k = 1
        BY <3>2, <3>3, <1>2, <1>3, ShownInParty
      <3>4. CASE k # 1
        <4>1. k-1 \in 1..Len(t) /\ (k-1)+1 = k
          BY <3>4
        <4>2. t[k-1] = s[k]
          BY <4>1, <1>1
        <4> QED BY <4>2, <3>2, <3>4
      <3> QED BY <3>3, <3>4
    <2> QED BY <2>1, <2>2, <1>4, <1>6 DEF Tells, t, r
  <1> QED BY <1>5, <1>6
-----------------------------------------------------------------------------
(* Sequences of members.                                                   *)

Distinct(ms) == \A i, j \in DOMAIN ms : ms[i] = ms[j] => i = j

LEMMA AppendMember ==
  ASSUME NEW ms \in Seq(Players), NEW p \in Players, Distinct(ms), p \notin Range(ms)
  PROVE  /\ Append(ms, p) \in Seq(Players) /\ Distinct(Append(ms, p))
         /\ Range(Append(ms, p)) = Range(ms) \cup {p}
  <1> DEFINE us == Append(ms, p)
  <1>1. /\ us \in Seq(Players) /\ Len(us) = Len(ms) + 1 /\ us[Len(ms) + 1] = p
        /\ \A i \in 1..Len(ms) : us[i] = ms[i]
    BY AppendProperties
  <1>2. Len(ms) \in Nat /\ DOMAIN ms = 1..Len(ms) /\ DOMAIN us = 1..(Len(ms) + 1)
    BY <1>1
  <1> HIDE DEF us
  <1>3. \A i \in DOMAIN us : (i \in DOMAIN ms /\ us[i] = ms[i]) \/ (i = Len(ms) + 1 /\ us[i] = p)
    BY <1>1, <1>2
  <1>4. \A i \in DOMAIN ms : i \in DOMAIN us /\ us[i] = ms[i] /\ ms[i] # p
    BY <1>1, <1>2 DEF Range
  <1>5. Distinct(us)
    BY <1>3, <1>4 DEF Distinct
  <1>6. Range(us) \subseteq Range(ms) \cup {p}
    BY <1>3 DEF Range
  <1>7. Len(ms) + 1 \in DOMAIN us
    BY <1>2
  <1>8. Range(ms) \cup {p} \subseteq Range(us)
    BY <1>1, <1>4, <1>7 DEF Range
  <1> QED BY <1>1, <1>5, <1>6, <1>8 DEF us

LEMMA EraseMember ==
  ASSUME NEW ms \in Seq(Players), NEW p \in Range(ms), Distinct(ms)
  PROVE  /\ Erase(ms, p) \in Seq(Players) /\ Distinct(Erase(ms, p))
         /\ Range(Erase(ms, p)) = Range(ms) \ {p}
  <1> DEFINE at == CHOOSE i \in DOMAIN ms : ms[i] = p
  <1> DEFINE us == RemoveAt(ms, at)
  <1>1. at \in DOMAIN ms /\ ms[at] = p
    BY DEF Range
  <1>2. Len(ms) \in Nat /\ DOMAIN ms = 1..Len(ms) /\ at \in Int /\ 1 <= at /\ at <= Len(ms)
    BY <1>1
  <1> HIDE DEF at
  <1> DEFINE front == SubSeq(ms, 1, at - 1)
  <1> DEFINE back == SubSeq(ms, at + 1, Len(ms))
  <1>3. /\ front \in Seq(Players) /\ Len(front) = at - 1
        /\ \A i \in 1..at - 1 : front[i] = ms[i]
    <2>1. \A i \in 1..at - 1 : ms[i] \in Players
      BY <1>2
    <2> QED BY <2>1, <1>2, SubSeqProperties
  <1>4. /\ back \in Seq(Players) /\ Len(back) = Len(ms) - at
        /\ \A i \in 1..Len(ms) - at : back[i] = ms[at + i]
    <2>1. \A i \in at + 1..Len(ms) : ms[i] \in Players
      BY <1>2
    <2>2. at + 1 \in Int /\ Len(ms) \in Int /\ Len(ms) - (at + 1) + 1 = Len(ms) - at
      BY <1>2
    <2>3. /\ back \in Seq(Players)
          /\ Len(back) = IF at + 1 <= Len(ms) THEN Len(ms) - (at + 1) + 1 ELSE 0
          /\ \A i \in 1..Len(ms) - (at + 1) + 1 : back[i] = ms[(at + 1) + i - 1]
      BY <2>1, <2>2, SubSeqProperties
    <2> HIDE DEF back
    <2>4. Len(back) = Len(ms) - at
      <3>1. Len(back) = IF at + 1 <= Len(ms) THEN Len(ms) - at ELSE 0
        BY <2>2, <2>3
      <3>2. ASSUME ~(at + 1 <= Len(ms)) PROVE Len(ms) - at = 0
        <4> DEFINE m == Len(ms)
        <4>1. m \in Int /\ at \in Int /\ at <= m
          BY <1>2
        <4> HIDE DEF m
        <4>2. ~(at + 1 <= m)
          BY <3>2 DEF m
        <4>3. m - at = 0
          BY <4>1, <4>2
        <4> QED BY <4>3 DEF m
      <3> QED BY <3>1, <3>2
    <2>5. ASSUME NEW i \in 1..Len(ms) - at PROVE back[i] = ms[at + i]
      <3>1. (at + 1) + i - 1 = at + i
        BY <1>2
      <3> QED BY <3>1, <2>2, <2>3
    <2> QED BY <2>3, <2>4, <2>5
  <1>5. us = front \o back
    BY DEF RemoveAt
  <1> HIDE DEF front, back, us
  <1>6. /\ us \in Seq(Players) /\ Len(us) = Len(ms) - 1
        /\ \A i \in 1..Len(ms) - 1 : us[i] = IF i < at THEN ms[i] ELSE ms[i + 1]
    <2>1. /\ us \in Seq(Players) /\ Len(us) = Len(front) + Len(back)
          /\ \A i \in 1..Len(front) + Len(back) : us[i] =
                IF i <= Len(front) THEN front[i] ELSE back[i - Len(front)]
      BY <1>3, <1>4, <1>5, ConcatProperties
    <2> DEFINE m == Len(ms)
    <2>4. m \in Nat /\ Len(front) = at - 1 /\ Len(back) = m - at /\ (at - 1) + (m - at) = m - 1
      BY <1>2, <1>3, <1>4
    <2> HIDE DEF m
    <2>5. \A i \in 1..m - 1 : us[i] = IF i <= at - 1 THEN front[i] ELSE back[i - (at - 1)]
      BY <2>1, <2>4
    <2>2. ASSUME NEW i \in 1..Len(ms) - 1, i < at PROVE us[i] = ms[i]
      <3>1. i \in 1..at - 1 /\ i <= at - 1
        BY <2>2, <1>2
      <3> QED BY <3>1, <2>5, <1>3 DEF m
    <2>3. ASSUME NEW i \in 1..Len(ms) - 1, ~(i < at) PROVE us[i] = ms[i + 1]
      <3>1. us[i] = back[i - (at - 1)] /\ i - (at - 1) \in 1..Len(ms) - at
        BY <2>5, <2>3, <1>2 DEF m
      <3>2. at + (i - (at - 1)) = i + 1
        BY <1>2
      <3> QED BY <3>1, <3>2, <1>4
    <2> QED BY <2>1, <2>2, <2>3, <2>4 DEF m
  <1>7. DOMAIN us = 1..Len(ms) - 1
    BY <1>6, <1>2
  <1>8. \A i \in DOMAIN us : \E j \in DOMAIN ms :
          j # at /\ us[i] = ms[j] /\ j = IF i < at THEN i ELSE i + 1
    BY <1>2, <1>6, <1>7
  <1>9. \A j \in DOMAIN ms : j # at => \E i \in DOMAIN us : us[i] = ms[j]
    <2> SUFFICES ASSUME NEW j \in DOMAIN ms, j # at PROVE \E i \in DOMAIN us : us[i] = ms[j]
      OBVIOUS
    <2>1. CASE j < at
      BY <2>1, <1>2, <1>6, <1>7
    <2>2. CASE j > at
      <3>1. j - 1 \in DOMAIN us /\ ~(j - 1 < at) /\ (j - 1) + 1 = j
        BY <2>2, <1>2, <1>7
      <3> QED BY <3>1, <1>6, <1>7
    <2> QED BY <2>1, <2>2, <1>2
  <1>10. Distinct(us)
    <2> SUFFICES ASSUME NEW i \in DOMAIN us, NEW j \in DOMAIN us, us[i] = us[j] PROVE i = j
      BY DEF Distinct
    <2>1. PICK k \in DOMAIN ms : us[i] = ms[k] /\ k = IF i < at THEN i ELSE i + 1
      BY <1>8
    <2>2. PICK l \in DOMAIN ms : us[j] = ms[l] /\ l = IF j < at THEN j ELSE j + 1
      BY <1>8
    <2>3. k = l
      BY <2>1, <2>2 DEF Distinct
    <2> QED BY <2>1, <2>2, <2>3, <1>2, <1>7
  <1>11. Range(us) \subseteq Range(ms) \ {p}
    <2>1. \A j \in DOMAIN ms : j # at => ms[j] # p
      BY <1>1 DEF Distinct
    <2> QED BY <2>1, <1>8 DEF Range
  <1>12. Range(ms) \ {p} \subseteq Range(us)
    BY <1>1, <1>9 DEF Range
  <1>13. us = Erase(ms, p)
    BY DEF us, at, Erase
  <1> QED BY <1>6, <1>10, <1>11, <1>12, <1>13

LEMMA RangeMembers ==
  ASSUME NEW ms \in Seq(Players)
  PROVE  /\ Range(ms) \subseteq Players
         /\ ms # <<>> => ms[1] \in Range(ms)
         /\ ms = <<>> => Range(ms) = {}
  BY DEF Range
-----------------------------------------------------------------------------
(* What a change of one party does.                                        *)

Sound(party, id, j) ==
  /\ party.leader \in Range(party.members)
  /\ Distinct(party.members)
  /\ \A p \in Players : p \in Range(party.members) <=> j[p] = id

Consistent ==
  /\ \A p \in Players : joined[p] # NoParty => joined[p] \in DOMAIN parties
  /\ \A id \in DOMAIN parties : Sound(parties[id], id, joined)

LEMMA MembershipParts ==
  Membership <=> Consistent /\ \A p \in Players : joined[p] # NoParty => p \in connected
  BY DEF Membership, Consistent, Sound, Distinct

PartiesTyped ==
  /\ DOMAIN parties \subseteq Nat /\ parties \in [DOMAIN parties -> Party]
  /\ joined \in [Players -> Nat \cup {NoParty}]

(* A player who is in a party sees it, once told. *)
See(l, ms) == [inParty |-> TRUE, leader |-> l, members |-> ms]

LEMMA SetPartyFacts ==
  ASSUME PartiesTyped, NEW id \in Nat, NEW l \in Players, NEW ms \in Seq(Players), SetParty(id, l, ms)
  PROVE  /\ DOMAIN parties' = DOMAIN parties \cup {id}
         /\ DOMAIN parties' \subseteq Nat /\ parties' \in [DOMAIN parties' -> Party]
         /\ parties'[id].leader = l /\ parties'[id].members = ms
         /\ \A i \in DOMAIN parties : i # id => parties'[i] = parties[i]
  <1>1. [leader |-> l, members |-> ms] \in Party
    BY DEF Party
  <1> QED BY <1>1 DEF SetParty, PartiesTyped

LEMMA PartySet ==
  ASSUME PartiesTyped, Consistent,
         NEW id \in Nat, NEW l, NEW ms \in Seq(Players), Distinct(ms), l \in Range(ms),
         SetParty(id, l, ms),
         joined' \in [Players -> Nat \cup {NoParty}],
         \A q \in Players : q \in Range(ms) <=> joined'[q] = id,
         \A q \in Players : joined'[q] # id => joined'[q] \in {joined[q], NoParty},
         \A q \in Players : joined[q] # joined'[q] => joined[q] \in {id, NoParty}
  PROVE  /\ PartiesTyped' /\ Consistent'
         /\ DOMAIN parties' = DOMAIN parties \cup {id}
         /\ \A q \in Range(ms) : PartyOf(q)' = See(l, ms)
         /\ \A q \in Players : joined[q] # id /\ joined'[q] = joined[q] => PartyOf(q)' = PartyOf(q)
  <1>1. Range(ms) \subseteq Players
    BY RangeMembers
  <1>2. /\ DOMAIN parties' = DOMAIN parties \cup {id}
        /\ DOMAIN parties' \subseteq Nat /\ parties' \in [DOMAIN parties' -> Party]
        /\ parties'[id].leader = l /\ parties'[id].members = ms
        /\ \A i \in DOMAIN parties : i # id => parties'[i] = parties[i]
    BY <1>1, SetPartyFacts
  <1>3. PartiesTyped'
    BY <1>2 DEF PartiesTyped
  <1>4. ASSUME NEW i \in DOMAIN parties' PROVE Sound(parties'[i], i, joined')
    <2>1. CASE i = id
      BY <2>1, <1>2 DEF Sound
    <2>2. CASE i # id
      <3>1. i \in DOMAIN parties /\ parties'[i] = parties[i] /\ i # NoParty
        BY <2>2, <1>2 DEF PartiesTyped, NoParty
      <3>2. \A q \in Players : joined'[q] = i <=> joined[q] = i
        BY <2>2, <3>1
      <3> QED BY <3>1, <3>2 DEF Consistent, Sound
    <2> QED BY <2>1, <2>2
  <1>5. Consistent'
    <2>1. \A p \in Players : joined'[p] # NoParty => joined'[p] \in DOMAIN parties'
      BY <1>2 DEF Consistent
    <2> QED BY <2>1, <1>4 DEF Consistent
  <1>6. \A q \in Range(ms) : PartyOf(q)' = See(l, ms)
    <2> SUFFICES ASSUME NEW q \in Range(ms) PROVE PartyOf(q)' = See(l, ms)
      OBVIOUS
    <2>1. joined'[q] = id /\ id # NoParty
      BY <1>1 DEF NoParty
    <2> QED BY <2>1, <1>2 DEF PartyOf, See
  <1>7. ASSUME NEW q \in Players, joined[q] # id, joined'[q] = joined[q]
        PROVE  PartyOf(q)' = PartyOf(q)
    <2>1. joined[q] # NoParty => parties'[joined[q]] = parties[joined[q]]
      BY <1>2, <1>7 DEF Consistent
    <2> QED BY <2>1, <1>7 DEF PartyOf
  <1> QED BY <1>2, <1>3, <1>5, <1>6, <1>7

-----------------------------------------------------------------------------
(* q is sent what brings him from the party he was in to the one he is in. *)
Informed(q) ==
  \E out \in Seq(News) : news'[q] = news[q] \o out /\ Tells(out, PartyOf(q), PartyOf(q)')

LEMMA InformedTells ==
  ASSUME NEW q \in Players, news[q] \in Seq(News), Tells(news[q], view[q], PartyOf(q)),
         Informed(q), view'[q] = view[q]
  PROVE  news'[q] \in Seq(News) /\ Tells(news'[q], view'[q], PartyOf(q)')
  <1>1. PICK out \in Seq(News) : news'[q] = news[q] \o out /\ Tells(out, PartyOf(q), PartyOf(q)')
    BY DEF Informed
  <1>2. Tells(news[q] \o out, view[q], PartyOf(q)')
    BY <1>1, TellsConcat
  <1>3. news[q] \o out \in Seq(News)
    BY ConcatProperties
  <1> QED BY <1>1, <1>2, <1>3

LEMMA InformedNothing ==
  ASSUME NEW q \in Players, news[q] \in Seq(News), news'[q] = news[q] \/ news'[q] = news[q] \o <<>>,
         PartyOf(q)' = PartyOf(q)
  PROVE  Informed(q)
  <1>1. <<>> \in Seq(News) /\ news'[q] = news[q] \o <<>>
    BY ConcatEmptySeq
  <1>2. Tells(<<>>, PartyOf(q), PartyOf(q)')
    BY TellsNothing
  <1> QED BY <1>1, <1>2 DEF Informed

LEMMA InformedInfo ==
  ASSUME NEW q \in Players, NEW l \in Players, NEW ms \in Seq(Players),
         news'[q] = news[q] \o <<InfoNews(l, ms)>>,
         PartyOf(q).inParty, PartyOf(q)' = See(l, ms)
  PROVE  Informed(q)
  <1>1. InfoNews(l, ms) \in News /\ Shown(InfoNews(l, ms)) = See(l, ms)
    BY NewsTypes DEF See
  <1>2. Tells(<<InfoNews(l, ms)>>, PartyOf(q), See(l, ms))
    BY <1>1, TellsOne
  <1>3. <<InfoNews(l, ms)>> \in Seq(News)
    BY <1>1
  <1> QED BY <1>2, <1>3 DEF Informed

LEMMA InformedWelcome ==
  ASSUME NEW q \in Players, NEW l \in Players, NEW ms \in Seq(Players), NEW early \in Seq(Players),
         \/ news'[q] = news[q] \o <<JoinedNews(l, early), InfoNews(l, ms)>>
         \/ news'[q] = news[q] \o <<JoinedNews(l, early)>> /\ early = ms,
         PartyOf(q)' = See(l, ms)
  PROVE  Informed(q)
  <1>1. /\ InfoNews(l, ms) \in News /\ Shown(InfoNews(l, ms)) = See(l, ms)
        /\ InfoNews(l, ms).type = "Info"
        /\ JoinedNews(l, early) \in News /\ Shown(JoinedNews(l, early)) = See(l, early)
        /\ JoinedNews(l, early).type = "Joined"
    BY NewsTypes DEF See
  <1> DEFINE j == JoinedNews(l, early)
  <1> DEFINE i == InfoNews(l, ms)
  <1> HIDE DEF j, i
  <1>2. Tells(<<j, i>>, PartyOf(q), See(l, ms)) /\ <<j, i>> \in Seq(News)
    BY <1>1, TellsTwo DEF j, i
  <1>3. Tells(<<j>>, PartyOf(q), See(l, early)) /\ <<j>> \in Seq(News)
    BY <1>1, TellsOne DEF j
  <1> QED BY <1>2, <1>3 DEF Informed, i, j

LEMMA InformedLeft ==
  ASSUME NEW q \in Players, news'[q] = news[q] \o <<LeftNews>>, PartyOf(q)' = Outside
  PROVE  Informed(q)
  <1>1. LeftNews \in News /\ Shown(LeftNews) = Outside /\ LeftNews.type = "Left"
    BY DEF LeftNews, News, Shown
  <1>2. Tells(<<LeftNews>>, PartyOf(q), Outside) /\ <<LeftNews>> \in Seq(News)
    BY <1>1, TellsOne
  <1> QED BY <1>2 DEF Informed
-----------------------------------------------------------------------------
(* The handlers.                                                           *)

(* What holds of parties, joined and news before a handler ... *)
Before == PartiesTyped /\ Consistent /\ news \in [Players -> Seq(News)]

(* ... and after it, if it reaches the clients of `audience`. *)
Done(audience) ==
  /\ PartiesTyped' /\ Consistent'
  /\ news' = [q \in Players |-> news'[q]]
  /\ \A q \in Players : q \in audience => Informed(q)
  /\ \A q \in Players : q \notin audience => news'[q] = news[q]

LEMMA DoneNothing ==
  ASSUME Before, NEW audience, UNCHANGED <<parties, joined, news>>
  PROVE  Done(audience)
  <1>1. PartiesTyped' /\ Consistent'
    BY DEF Before, PartiesTyped, Consistent, Sound
  <1>2. \A q \in Players : PartyOf(q)' = PartyOf(q)
    BY DEF PartyOf
  <1>3. \A q \in Players : Informed(q)
    BY <1>2, InformedNothing DEF Before
  <1> QED BY <1>1, <1>3 DEF Done, Before

LEMMA EraseFacts ==
  ASSUME PartiesTyped, Consistent, NEW id \in DOMAIN parties, EraseParty(id),
         joined' \in [Players -> Nat \cup {NoParty}],
         \A q \in Players : joined'[q] = IF joined[q] = id THEN NoParty ELSE joined[q]
  PROVE  /\ PartiesTyped' /\ Consistent'
         /\ \A q \in Players : joined[q] # id => PartyOf(q)' = PartyOf(q)
  <1>1. /\ DOMAIN parties' = DOMAIN parties \ {id}
        /\ \A i \in DOMAIN parties' : parties'[i] = parties[i]
        /\ parties' \in [DOMAIN parties' -> Party]
    BY DEF EraseParty, PartiesTyped
  <1>2. PartiesTyped'
    BY <1>1 DEF PartiesTyped
  <1>3. \A p \in Players : joined'[p] # NoParty => joined'[p] \in DOMAIN parties'
    BY <1>1 DEF Consistent
  <1>4. ASSUME NEW i \in DOMAIN parties' PROVE Sound(parties'[i], i, joined')
    <2>1. i # NoParty /\ i # id /\ Sound(parties[i], i, joined) /\ parties'[i] = parties[i]
      BY <1>1 DEF PartiesTyped, NoParty, Consistent
    <2>2. \A q \in Players : joined'[q] = i <=> joined[q] = i
      BY <2>1
    <2> QED BY <2>1, <2>2 DEF Sound
  <1>5. ASSUME NEW q \in Players, joined[q] # id PROVE PartyOf(q)' = PartyOf(q)
    <2>1. joined'[q] = joined[q] /\ (joined[q] # NoParty => parties'[joined[q]] = parties[joined[q]])
      BY <1>1, <1>5 DEF Consistent
    <2> QED BY <2>1 DEF PartyOf
  <1> QED BY <1>2, <1>3, <1>4, <1>5 DEF Consistent

LEMMA RemoveDone ==
  ASSUME Before, NEW p \in Players, NEW audience, RemovePlayerFromParty(p, audience)
  PROVE  /\ Done(audience)
         /\ DOMAIN parties' \subseteq DOMAIN parties
         /\ joined'[p] = NoParty
         /\ \A q \in Players : q # p => joined'[q] = joined[q]
  <1>1. CASE joined[p] = NoParty
    BY <1>1, DoneNothing DEF RemovePlayerFromParty
  <1>2. CASE joined[p] # NoParty
    <2> DEFINE id == joined[p]
    <2> DEFINE ms == parties[id].members
    <2> DEFINE rest == Erase(ms, p)
    <2> DEFINE leader == IF parties[id].leader = p THEN rest[1] ELSE parties[id].leader
    <2> DEFINE out == [Info(leader, rest) EXCEPT ![p] = <<LeftNews>>]
    <2>1. /\ joined' = [joined EXCEPT ![p] = NoParty]
          /\ IF rest = <<>> THEN EraseParty(id) ELSE SetParty(id, leader, rest)
          /\ TellThose(audience, out)
      BY <1>2 DEF RemovePlayerFromParty
    <2>2. id \in DOMAIN parties /\ id \in Nat /\ id # NoParty /\ Sound(parties[id], id, joined)
          /\ ms \in Seq(Players)
      BY <1>2 DEF Before, Consistent, PartiesTyped, Party
    <2>3. p \in Range(ms) /\ Distinct(ms) /\ parties[id].leader \in Range(ms)
          /\ \A q \in Players : q \in Range(ms) <=> joined[q] = id
      BY <2>2 DEF Sound
    <2>4. rest \in Seq(Players) /\ Distinct(rest) /\ Range(rest) = Range(ms) \ {p}
      BY <2>2, <2>3, EraseMember
    <2>5. joined' \in [Players -> Nat \cup {NoParty}] /\ joined'[p] = NoParty
          /\ \A q \in Players : q # p => joined'[q] = joined[q]
      BY <2>1 DEF Before, PartiesTyped
    <2>6. out = [q \in Players |-> IF q = p THEN <<LeftNews>>
                                  ELSE IF q \in Range(rest) THEN <<InfoNews(leader, rest)>> ELSE <<>>]
      BY DEF Info
    <2> HIDE DEF out
    <2>7. news' = [q \in Players |-> IF q \in audience THEN news[q] \o out[q] ELSE news[q]]
      BY <2>1 DEF TellThose
    <2>8. PartyOf(p)' = Outside
      BY <2>5 DEF PartyOf
    <2>9. p \in audience => Informed(p)
      BY <2>6, <2>7, <2>8, InformedLeft
    <2> HIDE DEF ms
    <2>10. CASE rest = <<>>
      <3>1. EraseParty(id)
        BY <2>1, <2>10
      <3>2. Range(rest) = {}
        BY <2>10, RangeMembers, <2>4
      <3>3. \A q \in Players : joined'[q] = IF joined[q] = id THEN NoParty ELSE joined[q]
        BY <3>2, <2>3, <2>4, <2>5
      <3> HIDE DEF rest, leader
      <3>4. PartiesTyped' /\ Consistent' /\ \A q \in Players : joined[q] # id => PartyOf(q)' = PartyOf(q)
        BY <3>1, <3>3, <2>2, <2>5, EraseFacts DEF Before
      <3>5. ASSUME NEW q \in Players, q \in audience, q # p PROVE Informed(q)
        <4>1. out[q] = <<>> /\ joined[q] # id
          BY <3>2, <3>5, <2>3, <2>4, <2>6
        <4>2. news'[q] = news[q] \o <<>> /\ PartyOf(q)' = PartyOf(q)
          BY <4>1, <3>4, <3>5, <2>7
        <4> QED BY <4>2, InformedNothing DEF Before
      <3>6. DOMAIN parties' \subseteq DOMAIN parties
        BY <3>1 DEF EraseParty
      <3> QED BY <3>4, <3>5, <3>6, <2>5, <2>7, <2>9 DEF Done
    <2>11. CASE rest # <<>>
      <3>1. SetParty(id, leader, rest)
        BY <2>1, <2>11
      <3>2. leader \in Range(rest)
        BY <2>3, <2>4, <2>11, RangeMembers
      <3>3. leader \in Players
        BY <3>2, <2>4, RangeMembers
      <3> HIDE DEF rest, leader
      <3>4. \A q \in Players : q \in Range(rest) <=> joined'[q] = id
        BY <2>2, <2>3, <2>4, <2>5
      <3>5. \A q \in Players : joined'[q] # id => joined'[q] \in {joined[q], NoParty}
        BY <2>5
      <3>6. \A q \in Players : joined[q] # joined'[q] => joined[q] \in {id, NoParty}
        BY <2>5
      <3> HIDE DEF id
      <3>7. /\ PartiesTyped' /\ Consistent'
            /\ DOMAIN parties' = DOMAIN parties \cup {id}
            /\ \A q \in Range(rest) : PartyOf(q)' = See(leader, rest)
            /\ \A q \in Players : joined[q] # id /\ joined'[q] = joined[q] => PartyOf(q)' = PartyOf(q)
        BY <3>1, <3>2, <3>4, <3>5, <3>6, <2>2, <2>4, <2>5, PartySet DEF Before
      <3>8. ASSUME NEW q \in Players, q \in audience, q # p PROVE Informed(q)
        <4>1. CASE q \in Range(rest)
          <5>1. joined[q] = id
            BY <4>1, <2>3, <2>4
          <5>2. PartyOf(q).inParty
            BY <5>1, <2>2 DEF PartyOf
          <5>3. news'[q] = news[q] \o <<InfoNews(leader, rest)>>
            BY <4>1, <3>8, <2>6, <2>7
          <5> QED BY <5>2, <5>3, <4>1, <3>3, <3>7, <2>4, InformedInfo
        <4>2. CASE q \notin Range(rest)
          <5>1. joined[q] # id /\ joined'[q] = joined[q]
            BY <4>2, <3>8, <2>3, <2>4, <2>5
          <5>2. news'[q] = news[q] \o <<>>
            BY <4>2, <3>8, <2>6, <2>7
          <5> QED BY <5>1, <5>2, <3>7, InformedNothing DEF Before
        <4> QED BY <4>1, <4>2
      <3>9. DOMAIN parties' \subseteq DOMAIN parties
        BY <3>7, <2>2
      <3> QED BY <3>7, <3>8, <3>9, <2>5, <2>7, <2>9 DEF Done
    <2> QED BY <2>10, <2>11
  <1> QED BY <1>1, <1>2

(* p joins party id, led by l, as its last member. *)
LEMMA JoinFacts ==
  ASSUME PartiesTyped, Consistent, NEW p \in Players, NEW id \in DOMAIN parties, joined[p] = NoParty,
         SetParty(id, parties[id].leader, Append(parties[id].members, p)),
         joined' = [joined EXCEPT ![p] = id]
  PROVE  LET l == parties[id].leader
             ms == Append(parties[id].members, p)
         IN /\ PartiesTyped' /\ Consistent' /\ DOMAIN parties' = DOMAIN parties
            /\ l \in Players /\ ms \in Seq(Players) /\ p \in Range(ms)
            /\ PartyOf(p)' = See(l, ms)
            /\ \A q \in Players : q # p =>
                 /\ q \in Range(ms) => PartyOf(q).inParty /\ PartyOf(q)' = See(l, ms)
                 /\ q \notin Range(ms) => PartyOf(q)' = PartyOf(q)
  <1> DEFINE old == parties[id].members
  <1> DEFINE l == parties[id].leader
  <1> DEFINE ms == Append(old, p)
  <1>1. /\ id \in Nat /\ id # NoParty /\ old \in Seq(Players) /\ l \in Range(old) /\ Distinct(old)
        /\ \A q \in Players : q \in Range(old) <=> joined[q] = id
    BY DEF PartiesTyped, Consistent, Sound, Party, NoParty
  <1>2. p \notin Range(old)
    BY <1>1
  <1>3. l \in Players /\ SetParty(id, l, ms)
    BY <1>1, RangeMembers
  <1> HIDE DEF old, l
  <1>4. ms \in Seq(Players) /\ Distinct(ms) /\ Range(ms) = Range(old) \cup {p}
    BY <1>1, <1>2, AppendMember
  <1>5. joined' \in [Players -> Nat \cup {NoParty}] /\ joined'[p] = id
        /\ \A q \in Players : q # p => joined'[q] = joined[q]
    BY <1>1 DEF PartiesTyped
  <1> HIDE DEF ms
  <1>6. \A q \in Players : q \in Range(ms) <=> joined'[q] = id
    BY <1>1, <1>4, <1>5
  <1>7. \A q \in Players : joined'[q] # id => joined'[q] \in {joined[q], NoParty}
    BY <1>5
  <1>8. \A q \in Players : joined[q] # joined'[q] => joined[q] \in {id, NoParty}
    BY <1>5
  <1>9. /\ PartiesTyped' /\ Consistent'
        /\ DOMAIN parties' = DOMAIN parties \cup {id}
        /\ \A q \in Range(ms) : PartyOf(q)' = See(l, ms)
        /\ \A q \in Players : joined[q] # id /\ joined'[q] = joined[q] => PartyOf(q)' = PartyOf(q)
    BY <1>1, <1>3, <1>4, <1>5, <1>6, <1>7, <1>8, PartySet
  <1>10. \A q \in Players : q # p =>
           /\ q \in Range(ms) => PartyOf(q).inParty /\ PartyOf(q)' = See(l, ms)
           /\ q \notin Range(ms) => PartyOf(q)' = PartyOf(q)
    <2> SUFFICES ASSUME NEW q \in Players, q # p
                 PROVE  /\ q \in Range(ms) => PartyOf(q).inParty /\ PartyOf(q)' = See(l, ms)
                        /\ q \notin Range(ms) => PartyOf(q)' = PartyOf(q)
      OBVIOUS
    <2>1. joined'[q] = joined[q]
      BY <1>5
    <2>2. q \in Range(ms) => PartyOf(q).inParty
      BY <2>1, <1>1, <1>6 DEF PartyOf
    <2> QED BY <2>1, <2>2, <1>6, <1>9
  <1> QED BY <1>3, <1>4, <1>9, <1>10 DEF old, l, ms

LEMMA AcceptDone ==
  ASSUME Before, NEW p \in Players, NEW who \in Players, OnPartyAcceptInvite(p, who)
  PROVE  /\ Done(Reachable) /\ DOMAIN parties' = DOMAIN parties
         /\ \A q \in Players : joined'[q] = joined[q] \/ (q = p /\ joined[q] = NoParty)
  <1>1. CASE ~MayAccept(p, who)
    <2>1. UNCHANGED <<parties, joined, news>>
      BY <1>1 DEF OnPartyAcceptInvite
    <2> QED BY <2>1, DoneNothing
  <1>2. CASE MayAccept(p, who)
    <2> DEFINE id == joined[who]
    <2> DEFINE l == parties[id].leader
    <2> DEFINE ms == Append(parties[id].members, p)
    <2>1. /\ SetParty(id, who, ms) /\ joined' = [joined EXCEPT ![p] = id]
          /\ Tell([Info(who, ms) EXCEPT ![p] = <<JoinedNews(who, ms), InfoNews(who, ms)>>])
      BY <1>2 DEF OnPartyAcceptInvite
    <2>2. l = who /\ joined[p] = NoParty /\ id \in DOMAIN parties
      BY <1>2 DEF MayAccept, Before, Consistent
    <2> HIDE DEF id
    <2>3. /\ PartiesTyped' /\ Consistent' /\ DOMAIN parties' = DOMAIN parties
          /\ l \in Players /\ ms \in Seq(Players) /\ p \in Range(ms)
          /\ PartyOf(p)' = See(l, ms)
          /\ \A q \in Players : q # p =>
               /\ q \in Range(ms) => PartyOf(q).inParty /\ PartyOf(q)' = See(l, ms)
               /\ q \notin Range(ms) => PartyOf(q)' = PartyOf(q)
      BY <2>1, <2>2, JoinFacts DEF Before
    <2> HIDE DEF l, ms
    <2>4. news' = [q \in Players |-> IF q \in Reachable
            THEN news[q] \o (IF q = p THEN <<JoinedNews(l, ms), InfoNews(l, ms)>>
                             ELSE IF q \in Range(ms) THEN <<InfoNews(l, ms)>> ELSE <<>>)
            ELSE news[q]]
      BY <2>1, <2>2 DEF Tell, TellThose, Info
    <2>5. ASSUME NEW q \in Players, q \in Reachable PROVE Informed(q)
      <3>1. CASE q = p
        <4>1. news'[q] = news[q] \o <<JoinedNews(l, ms), InfoNews(l, ms)>>
          BY <2>4, <2>5, <3>1
        <4> QED BY <4>1, <3>1, <2>3, InformedWelcome
      <3>2. CASE q # p /\ q \in Range(ms)
        <4>1. news'[q] = news[q] \o <<InfoNews(l, ms)>>
          BY <2>4, <2>5, <3>2
        <4> QED BY <4>1, <3>2, <2>3, InformedInfo
      <3>3. CASE q # p /\ q \notin Range(ms)
        <4>1. news'[q] = news[q] \o <<>>
          BY <2>4, <2>5, <3>3
        <4> QED BY <4>1, <3>3, <2>3, InformedNothing DEF Before
      <3> QED BY <3>1, <3>2, <3>3
    <2>6. \A q \in Players : joined'[q] = joined[q] \/ (q = p /\ joined[q] = NoParty)
      BY <2>1, <2>2 DEF Before, PartiesTyped
    <2> QED BY <2>3, <2>4, <2>5, <2>6 DEF Done
  <1> QED BY <1>1, <1>2

LEMMA ChangeLeaderDone ==
  ASSUME Before, NEW p \in Players, NEW who \in Players, OnPartyChangeLeader(p, who)
  PROVE  Done(Reachable) /\ DOMAIN parties' = DOMAIN parties /\ joined' = joined
  <1> DEFINE id == joined[p]
  <1> DEFINE ms == parties[id].members
  <1>1. joined' = joined
    BY DEF OnPartyChangeLeader
  <1>2. CASE UNCHANGED <<parties, news>>
    BY <1>1, <1>2, DoneNothing
  <1>3. CASE /\ id # NoParty /\ who \in Range(ms)
             /\ SetParty(id, who, ms) /\ Tell(Info(who, ms))
    <2>1. /\ id \in DOMAIN parties /\ id \in Nat /\ ms \in Seq(Players) /\ Distinct(ms)
          /\ \A q \in Players : q \in Range(ms) <=> joined[q] = id
      BY <1>3 DEF Before, PartiesTyped, Consistent, Sound, Party
    <2>2. joined' \in [Players -> Nat \cup {NoParty}]
      BY <1>1 DEF Before, PartiesTyped
    <2> HIDE DEF id, ms
    <2>3. /\ PartiesTyped' /\ Consistent'
          /\ DOMAIN parties' = DOMAIN parties \cup {id}
          /\ \A q \in Range(ms) : PartyOf(q)' = See(who, ms)
          /\ \A q \in Players : joined[q] # id /\ joined'[q] = joined[q] => PartyOf(q)' = PartyOf(q)
      BY <1>1, <1>3, <2>1, <2>2, PartySet DEF Before
    <2>4. news' = [q \in Players |-> IF q \in Reachable
            THEN news[q] \o (IF q \in Range(ms) THEN <<InfoNews(who, ms)>> ELSE <<>>) ELSE news[q]]
      BY <1>3 DEF Tell, TellThose, Info
    <2>5. ASSUME NEW q \in Players, q \in Reachable PROVE Informed(q)
      <3>1. CASE q \in Range(ms)
        <4>1. news'[q] = news[q] \o <<InfoNews(who, ms)>>
          BY <2>4, <2>5, <3>1
        <4>2. PartyOf(q).inParty
          BY <3>1, <2>1 DEF PartyOf, NoParty
        <4> QED BY <4>1, <4>2, <3>1, <2>1, <2>3, InformedInfo
      <3>2. CASE q \notin Range(ms)
        <4>1. news'[q] = news[q] \o <<>>
          BY <2>4, <2>5, <3>2
        <4> QED BY <4>1, <3>2, <1>1, <2>1, <2>3, InformedNothing DEF Before
      <3> QED BY <3>1, <3>2
    <2> QED BY <1>1, <2>1, <2>3, <2>4, <2>5 DEF Done
  <1> QED BY <1>2, <1>3 DEF OnPartyChangeLeader

(* The creator followed by the others, each once. *)
LEMMA SweptMembers ==
  ASSUME NEW p \in Players, NEW S \in SUBSET Players, p \notin S, NEW others \in SetToSeqs(S)
  PROVE  LET ms == <<p>> \o others
         IN ms \in Seq(Players) /\ Distinct(ms) /\ p \in Range(ms) /\ Range(ms) \subseteq S \cup {p}
  <1> DEFINE ms == <<p>> \o others
  <1> DEFINE n == Cardinality(S)
  <1>1. IsFiniteSet(S)
    BY PartyAssumption, FS_Subset
  <1>2. n \in Nat
    BY <1>1, FS_CardinalityType
  <1>3. others \in [1..n -> S] /\ \A i, j \in 1..n : i # j => others[i] # others[j]
    BY DEF SetToSeqs
  <1> HIDE DEF n
  <1>4. others \in Seq(Players) /\ Len(others) = n
    BY <1>2, <1>3
  <1>5. <<p>> \in Seq(Players) /\ Len(<<p>>) = 1 /\ <<p>>[1] = p
    OBVIOUS
  <1>6. /\ ms \in Seq(Players) /\ Len(ms) = 1 + n
        /\ \A i \in 1..1 + n : ms[i] = IF i <= 1 THEN <<p>>[i] ELSE others[i - 1]
    BY <1>4, <1>5, ConcatProperties
  <1> HIDE DEF ms
  <1>7. DOMAIN ms = 1..1 + n /\ ms[1] = p
    BY <1>2, <1>5, <1>6
  <1>8. \A i \in DOMAIN ms : i # 1 => i - 1 \in 1..n /\ ms[i] = others[i - 1] /\ ms[i] \in S
    BY <1>2, <1>3, <1>6, <1>7
  <1>9. Distinct(ms)
    <2> SUFFICES ASSUME NEW i \in DOMAIN ms, NEW j \in DOMAIN ms, ms[i] = ms[j] PROVE i = j
      BY DEF Distinct
    <2>1. i = 1 <=> j = 1
      BY <1>7, <1>8
    <2>2. i # 1 /\ j # 1 => i - 1 = j - 1
      BY <1>3, <1>8
    <2> QED BY <2>1, <2>2, <1>2, <1>7
  <1>10. p \in Range(ms) /\ Range(ms) \subseteq S \cup {p}
    <2>1. 1 \in DOMAIN ms
      BY <1>2, <1>7
    <2> QED BY <2>1, <1>7, <1>8 DEF Range
  <1> QED BY <1>6, <1>9, <1>10 DEF ms

LEMMA CreateDone ==
  ASSUME Before, IdsUsed, nextId \in Nat, connected \subseteq Players,
         NEW p \in Players, OnPartyCreate(p)
  PROVE  /\ Done(Reachable) /\ IdsUsed' /\ nextId' \in Nat
         /\ \A q \in Players : joined'[q] = joined[q] \/ (joined[q] = NoParty /\ q \in connected)
  <1>1. CASE joined[p] # NoParty
    <2>1. UNCHANGED <<parties, nextId, joined, news>>
      BY <1>1 DEF OnPartyCreate
    <2> QED BY <2>1, DoneNothing DEF IdsUsed
  <1>2. CASE joined[p] = NoParty
    <2> DEFINE S == IF Sweeps THEN connected \ {p} ELSE {}
    <2>1. PICK others \in SetToSeqs(S) :
            LET members == <<p>> \o others IN
            /\ SetParty(nextId, p, members)
            /\ nextId' = nextId + 1
            /\ joined' = [q \in Players |-> IF q \in Range(members) THEN nextId ELSE joined[q]]
            /\ Tell([q \in Players |->
                 IF q \notin Range(members) THEN <<>>
                 ELSE LET k == CHOOSE k \in DOMAIN members : members[k] = q
                          welcome == JoinedNews(p, SubSeq(members, 1, k))
                      IN IF Sweeps THEN <<welcome, InfoNews(p, members)>> ELSE <<welcome>>])
      BY <1>2 DEF OnPartyCreate
    <2> DEFINE ms == <<p>> \o others
    <2> DEFINE at(q) == CHOOSE k \in DOMAIN ms : ms[k] = q
    <2> DEFINE early(q) == SubSeq(ms, 1, at(q))
    <2>2. p \in connected
      BY DEF OnPartyCreate, Receive
    <2>3. S \in SUBSET Players /\ p \notin S /\ S \subseteq connected
      OBVIOUS
    <2>4. \A q \in S : joined[q] = NoParty
      BY DEF Sweeps, Before, Consistent
    <2>5. ~Sweeps => ms = <<p>>
      <3>1. ~Sweeps => others \in [1..0 -> {}]
        <4>1. ~Sweeps => S = {}
          OBVIOUS
        <4>2. Cardinality({}) = 0
          BY FS_EmptySet
        <4> QED BY <4>1, <4>2 DEF SetToSeqs
      <3>2. ~Sweeps => others = <<>>
        BY <3>1
      <3>3. <<p>> \o <<>> = <<p>>
        OBVIOUS
      <3> QED BY <3>2, <3>3
    <2>6. ms \in Seq(Players) /\ Distinct(ms) /\ p \in Range(ms) /\ Range(ms) \subseteq S \cup {p}
      BY <2>3, SweptMembers
    <2>7. SetParty(nextId, p, ms) /\ nextId' = nextId + 1
          /\ joined' = [q \in Players |-> IF q \in Range(ms) THEN nextId ELSE joined[q]]
          /\ Tell([q \in Players |->
                 IF q \notin Range(ms) THEN <<>>
                 ELSE IF Sweeps THEN <<JoinedNews(p, early(q)), InfoNews(p, ms)>>
                      ELSE <<JoinedNews(p, early(q))>>])
      BY <2>1
    <2>8. ~Sweeps => early(p) = ms
      <3>1. ~Sweeps => at(p) = 1
        BY <2>5
      <3>2. SubSeq(<<p>>, 1, 1) = <<p>>
        <4>1. <<p>> \in Seq(Players) /\ Len(<<p>>) = 1
          OBVIOUS
        <4> QED BY <4>1, SubSeqFull
      <3> QED BY <3>1, <3>2, <2>5
    <2>9. ASSUME NEW q \in Range(ms) PROVE early(q) \in Seq(Players)
      <3>1. at(q) \in DOMAIN ms
        BY <2>9 DEF Range
      <3> HIDE DEF at, ms
      <3>2. at(q) \in 1..Len(ms) /\ at(q) \in Int
        BY <3>1, <2>6
      <3>3. \A i \in 1..at(q) : ms[i] \in Players
        BY <3>2, <2>6
      <3> QED BY <3>2, <3>3, SubSeqProperties
    <2>10. \A q \in Players : q \in Range(ms) => joined[q] = NoParty /\ q \in connected
      BY <1>2, <2>2, <2>3, <2>4, <2>6
    <2>11. Range(ms) \subseteq {p} \/ Sweeps
      BY <2>6
    <2> HIDE DEF ms, at, early, S
    <2>12. joined' \in [Players -> Nat \cup {NoParty}]
      BY <2>7 DEF Before, PartiesTyped
    <2>13. \A q \in Players : joined[q] # nextId
      BY DEF Before, Consistent, IdsUsed, NoParty
    <2>14. \A q \in Players : q \in Range(ms) <=> joined'[q] = nextId
      BY <2>7, <2>13
    <2>15. \A q \in Players : joined'[q] # nextId => joined'[q] \in {joined[q], NoParty}
      BY <2>7
    <2>16. \A q \in Players : joined[q] # joined'[q] => joined[q] \in {nextId, NoParty}
      BY <2>7, <2>10
    <2>17. /\ PartiesTyped' /\ Consistent'
           /\ DOMAIN parties' = DOMAIN parties \cup {nextId}
           /\ \A q \in Range(ms) : PartyOf(q)' = See(p, ms)
           /\ \A q \in Players : joined[q] # nextId /\ joined'[q] = joined[q] => PartyOf(q)' = PartyOf(q)
      BY <2>6, <2>7, <2>12, <2>14, <2>15, <2>16, PartySet DEF Before
    <2>18. news' = [q \in Players |-> IF q \in Reachable
            THEN news[q] \o (IF q \notin Range(ms) THEN <<>>
                 ELSE IF Sweeps THEN <<JoinedNews(p, early(q)), InfoNews(p, ms)>>
                      ELSE <<JoinedNews(p, early(q))>>)
            ELSE news[q]]
      BY <2>7 DEF Tell, TellThose
    <2>19. ASSUME NEW q \in Players, q \in Reachable PROVE Informed(q)
      <3>1. CASE q \in Range(ms)
        <4>1. \/ news'[q] = news[q] \o <<JoinedNews(p, early(q)), InfoNews(p, ms)>>
              \/ news'[q] = news[q] \o <<JoinedNews(p, early(q))>> /\ early(q) = ms
          <5>1. CASE Sweeps
            BY <5>1, <3>1, <2>18, <2>19
          <5>2. CASE ~Sweeps
            BY <5>2, <3>1, <2>8, <2>11, <2>18, <2>19
          <5> QED BY <5>1, <5>2
        <4> QED BY <4>1, <3>1, <2>6, <2>9, <2>17, InformedWelcome
      <3>2. CASE q \notin Range(ms)
        <4>1. news'[q] = news[q] \o <<>>
          BY <3>2, <2>18, <2>19
        <4> QED BY <4>1, <3>2, <2>7, <2>13, <2>17, InformedNothing DEF Before
      <3> QED BY <3>1, <3>2
    <2>20. IdsUsed'
      <3>1. DOMAIN parties \subseteq Nat
        BY DEF Before, PartiesTyped
      <3> QED BY <3>1, <2>7, <2>17 DEF IdsUsed
    <2> QED BY <2>7, <2>10, <2>17, <2>18, <2>19, <2>20 DEF Done
  <1> QED BY <1>1, <1>2

LEMMA JoinDone ==
  ASSUME Before, NEW p \in Players, joined[p] = NoParty, news[p] = <<>>,
         NEW id \in DOMAIN parties,
         LET members == Append(parties[id].members, p)
             leader == parties[id].leader
         IN /\ SetParty(id, leader, members)
            /\ joined' = [joined EXCEPT ![p] = id]
            /\ news' = [q \in Players |->
                 IF q = p THEN <<JoinedNews(leader, members), InfoNews(leader, members)>>
                 ELSE IF q \in Reachable /\ q \in Range(members)
                 THEN Append(news[q], InfoNews(leader, members))
                 ELSE news[q]]
  PROVE  Done(Reachable \cup {p}) /\ DOMAIN parties' = DOMAIN parties
  <1> DEFINE l == parties[id].leader
  <1> DEFINE ms == Append(parties[id].members, p)
  <1>1. /\ PartiesTyped' /\ Consistent' /\ DOMAIN parties' = DOMAIN parties
        /\ l \in Players /\ ms \in Seq(Players) /\ p \in Range(ms)
        /\ PartyOf(p)' = See(l, ms)
        /\ \A q \in Players : q # p =>
             /\ q \in Range(ms) => PartyOf(q).inParty /\ PartyOf(q)' = See(l, ms)
             /\ q \notin Range(ms) => PartyOf(q)' = PartyOf(q)
    BY JoinFacts DEF Before
  <1>2. news' = [q \in Players |->
                 IF q = p THEN <<JoinedNews(l, ms), InfoNews(l, ms)>>
                 ELSE IF q \in Reachable /\ q \in Range(ms) THEN Append(news[q], InfoNews(l, ms))
                 ELSE news[q]]
    OBVIOUS
  <1> HIDE DEF l, ms
  <1>3. InfoNews(l, ms) \in News /\ JoinedNews(l, ms) \in News
    BY <1>1, NewsTypes
  <1>4. Informed(p)
    <2>1. <<JoinedNews(l, ms), InfoNews(l, ms)>> \in Seq(News)
      BY <1>3
    <2>2. <<>> \o <<JoinedNews(l, ms), InfoNews(l, ms)>> = <<JoinedNews(l, ms), InfoNews(l, ms)>>
      BY <2>1, ConcatEmptySeq
    <2>3. news'[p] = news[p] \o <<JoinedNews(l, ms), InfoNews(l, ms)>>
      BY <2>2, <1>2
    <2> QED BY <2>3, <1>1, InformedWelcome
  <1>5. ASSUME NEW q \in Players, q \in Reachable, q # p PROVE Informed(q)
    <2>1. CASE q \in Range(ms)
      <3>1. Append(news[q], InfoNews(l, ms)) = news[q] \o <<InfoNews(l, ms)>>
        BY <1>3, AppendIsConcat DEF Before
      <3>2. news'[q] = news[q] \o <<InfoNews(l, ms)>>
        BY <3>1, <2>1, <1>2, <1>5
      <3> QED BY <3>2, <2>1, <1>1, <1>5, InformedInfo
    <2>2. CASE q \notin Range(ms)
      BY <2>2, <1>1, <1>2, <1>5, InformedNothing DEF Before
    <2> QED BY <2>1, <2>2
  <1> QED BY <1>1, <1>2, <1>4, <1>5 DEF Done
-----------------------------------------------------------------------------
(* The invariant.                                                          *)

LEMMA InvBefore == PartyInv => Before
  BY DEF PartyInv, TypeOK, Before, PartiesTyped, Membership, Consistent, Sound, Distinct

LEMMA DoneTells ==
  ASSUME Before, NEW audience, Done(audience), view' = view,
         \A q \in Players : q \in audience => Tells(news[q], view[q], PartyOf(q))
  PROVE  /\ news' \in [Players -> Seq(News)]
         /\ \A q \in Players : q \in audience => Tells(news'[q], view'[q], PartyOf(q)')
  <1>1. ASSUME NEW q \in Players, q \in audience
        PROVE  news'[q] \in Seq(News) /\ Tells(news'[q], view'[q], PartyOf(q)')
    BY <1>1, InformedTells DEF Before, Done
  <1>2. \A q \in Players : news'[q] \in Seq(News)
    BY <1>1 DEF Before, Done
  <1>3. news' \in [Players -> Seq(News)]
    BY <1>2 DEF Done
  <1> QED BY <1>1, <1>3

(* A handler of a request reaches the clients that can be reached and      *)
(* changes nothing about who is there.                                     *)
LEMMA HandlerInv ==
  ASSUME PartyInv, Done(Reachable), IdsUsed', nextId' \in Nat,
         UNCHANGED <<used, connected, tick, clientVars>>,
         \A q \in Players : joined'[q] \in {joined[q], NoParty} \/ q \in connected,
         invitations' \in [Players -> [Players -> Nat]],
         up' \in [Players -> Seq(Requests)],
         mail' \in [Players -> Seq(Mail)]
  PROVE  PartyInv'
  <1>1. Before
    BY InvBefore
  <1>2. \A q \in Players : q \in Reachable => Tells(news[q], view[q], PartyOf(q))
    BY DEF PartyInv, NewsTell
  <1>3. view' = view
    BY DEF clientVars
  <1>4. /\ news' \in [Players -> Seq(News)]
        /\ \A q \in Players : q \in Reachable => Tells(news'[q], view'[q], PartyOf(q)')
    BY <1>1, <1>2, <1>3, DoneTells
  <1>5. TypeOK'
    BY <1>4 DEF PartyInv, TypeOK, Done, PartiesTyped, clientVars
  <1>6. Membership'
    <2>1. \A q \in Players : joined'[q] # NoParty => q \in connected'
      BY DEF PartyInv, Membership
    <2>2. Consistent'
      BY DEF Done
    <2> QED BY <2>1, <2>2 DEF Membership, Consistent, Sound, Distinct
  <1>7. FreshIsOutside'
    <2>1. ASSUME NEW q \in Players \ used PROVE news'[q] = news[q]
      BY <2>1 DEF PartyInv, FreshIsOutside, Reachable, Done
    <2> QED BY <2>1 DEF PartyInv, FreshIsOutside, clientVars
  <1>8. NewsTell'
    <2>1. Reachable' = Reachable
      BY DEF Reachable, clientVars
    <2>2. Reachable \subseteq Players
      BY DEF Reachable, PartyInv, TypeOK
    <2> QED BY <1>4, <2>1, <2>2 DEF NewsTell
  <1> QED BY <1>5, <1>6, <1>7, <1>8 DEF PartyInv

LEMMA ReceiveType ==
  ASSUME TypeOK, NEW p \in Players, NEW t, NEW who, Receive(p, t, who)
  PROVE  up' \in [Players -> Seq(Requests)]
  <1>1. up' = [up EXCEPT ![p] = Tail(up[p])] /\ up[p] # <<>> /\ up[p] \in Seq(Requests)
    BY DEF Receive, TypeOK
  <1>2. Tail(up[p]) \in Seq(Requests)
    BY <1>1, HeadTailProperties
  <1> QED BY <1>1, <1>2 DEF TypeOK

LEMMA PostType ==
  ASSUME mail \in [Players -> Seq(Mail)], NEW out \in [Players -> Seq(Mail)], Post(out)
  PROVE  mail' \in [Players -> Seq(Mail)]
  <1>1. \A q \in Players : mail[q] \o out[q] \in Seq(Mail)
    BY ConcatProperties
  <1> QED BY <1>1 DEF Post

LEMMA ListType ==
  ASSUME mail \in [Players -> Seq(Mail)], NEW ps \in SUBSET Players, BroadcastPlayerList(ps)
  PROVE  mail' \in [Players -> Seq(Mail)]
  <1>1. \A q \in Players : PlayerList(ps \ {q}) \in Mail
    BY DEF PlayerList, Mail
  <1> DEFINE out == [q \in Players |-> IF q \in ps THEN <<PlayerList(ps \ {q})>> ELSE <<>>]
  <1>2. out \in [Players -> Seq(Mail)]
    <2>1. \A q \in Players : <<PlayerList(ps \ {q})>> \in Seq(Mail) /\ <<>> \in Seq(Mail)
      BY <1>1
    <2> HIDE DEF PlayerList
    <2> QED BY <2>1
  <1> HIDE DEF out
  <1> QED BY <1>2, PostType DEF BroadcastPlayerList, out

LEMMA InitInv == Init => PartyInv
  <1> SUFFICES ASSUME Init PROVE PartyInv
    OBVIOUS
  <1>1. DOMAIN parties = {} /\ parties \in [DOMAIN parties -> Party]
    BY DEF Init
  <1>2. Outside \in View /\ NoInvites \in [Players -> Nat]
    BY DEF Outside, View, NoInvites
  <1>3. <<>> \in Seq(Requests) /\ <<>> \in Seq(News) /\ <<>> \in Seq(Mail)
    OBVIOUS
  <1>4. TypeOK
    BY <1>1, <1>2, <1>3 DEF Init, TypeOK
  <1>5. Membership /\ IdsUsed
    BY <1>1 DEF Init, Membership, IdsUsed
  <1>6. FreshIsOutside /\ NewsTell
    BY DEF Init, FreshIsOutside, NewsTell, Reachable
  <1> QED BY <1>4, <1>5, <1>6 DEF PartyInv

LEMMA ServerStepInv ==
  ASSUME PartyInv, NEW p \in Players, ServerStep(p)
  PROVE  PartyInv'
  <1>0. Before /\ TypeOK /\ IdsUsed /\ connected \subseteq Players /\ nextId \in Nat
    BY InvBefore DEF PartyInv, TypeOK
  <1>1. CASE OnPartyCreate(p)
    <2>1. up' \in [Players -> Seq(Requests)]
      BY <1>0, <1>1, ReceiveType DEF OnPartyCreate
    <2>2. /\ Done(Reachable) /\ IdsUsed' /\ nextId' \in Nat
          /\ \A q \in Players : joined'[q] = joined[q] \/ (joined[q] = NoParty /\ q \in connected)
      BY <1>0, <1>1, CreateDone
    <2>3. UNCHANGED <<invitations, used, connected, tick, clientVars, mail>>
      BY <1>1 DEF OnPartyCreate
    <2> QED BY <1>0, <2>1, <2>2, <2>3, HandlerInv DEF TypeOK
  <1>2. CASE OnPartyLeave(p)
    <2>1. up' \in [Players -> Seq(Requests)]
      BY <1>0, <1>2, ReceiveType DEF OnPartyLeave
    <2>2. /\ Done(Reachable) /\ DOMAIN parties' \subseteq DOMAIN parties /\ joined'[p] = NoParty
          /\ \A q \in Players : q # p => joined'[q] = joined[q]
      BY <1>0, <1>2, RemoveDone DEF OnPartyLeave
    <2>3. UNCHANGED <<nextId, invitations, used, connected, tick, clientVars, mail>>
      BY <1>2 DEF OnPartyLeave
    <2>4. IdsUsed'
      BY <1>0, <2>2, <2>3 DEF IdsUsed
    <2> QED BY <1>0, <2>1, <2>2, <2>3, <2>4, HandlerInv DEF TypeOK
  <1>3. ASSUME NEW who \in Players, OnPartyChangeLeader(p, who) PROVE PartyInv'
    <2>1. up' \in [Players -> Seq(Requests)]
      BY <1>0, <1>3, ReceiveType DEF OnPartyChangeLeader
    <2>2. Done(Reachable) /\ DOMAIN parties' = DOMAIN parties /\ joined' = joined
      BY <1>0, <1>3, ChangeLeaderDone
    <2>3. UNCHANGED <<nextId, invitations, used, connected, tick, clientVars, mail>>
      BY <1>3 DEF OnPartyChangeLeader
    <2>4. IdsUsed'
      BY <1>0, <2>2, <2>3 DEF IdsUsed
    <2> QED BY <1>0, <2>1, <2>2, <2>3, <2>4, HandlerInv DEF TypeOK
  <1>4. ASSUME NEW who \in Players, OnPartyKick(p, who) PROVE PartyInv'
    <2>1. up' \in [Players -> Seq(Requests)]
      BY <1>0, <1>4, ReceiveType DEF OnPartyKick
    <2>2. UNCHANGED <<nextId, invitations, used, connected, tick, clientVars>>
      BY <1>4 DEF OnPartyKick
    <2>3. CASE RemovePlayerFromParty(who, Reachable) /\ BroadcastPlayerList(connected \ {who})
      <3>1. /\ Done(Reachable) /\ DOMAIN parties' \subseteq DOMAIN parties /\ joined'[who] = NoParty
            /\ \A q \in Players : q # who => joined'[q] = joined[q]
        BY <1>0, <2>3, RemoveDone
      <3>2. connected \ {who} \in SUBSET Players
        BY <1>0
      <3>3. mail' \in [Players -> Seq(Mail)]
        BY <1>0, <2>3, <3>2, ListType DEF TypeOK
      <3>4. IdsUsed'
        BY <1>0, <2>2, <3>1 DEF IdsUsed
      <3> QED BY <1>0, <2>1, <2>2, <3>1, <3>3, <3>4, HandlerInv DEF TypeOK
    <2>4. CASE UNCHANGED <<parties, joined, news, mail>>
      <3>1. Done(Reachable)
        BY <1>0, <2>4, DoneNothing
      <3>2. IdsUsed'
        BY <1>0, <2>2, <2>4 DEF IdsUsed
      <3> QED BY <1>0, <2>1, <2>2, <2>4, <3>1, <3>2, HandlerInv DEF TypeOK
    <2> QED BY <1>4, <2>3, <2>4 DEF OnPartyKick
  <1>5. ASSUME NEW who \in Players, OnPartyInvite(p, who) PROVE PartyInv'
    <2>1. up' \in [Players -> Seq(Requests)]
      BY <1>0, <1>5, ReceiveType DEF OnPartyInvite
    <2>2. UNCHANGED <<parties, nextId, joined, used, connected, tick, clientVars, news>>
      BY <1>5 DEF OnPartyInvite
    <2>3. Done(Reachable) /\ IdsUsed'
      BY <1>0, <2>2, DoneNothing DEF IdsUsed
    <2>4. tick + InviteLife \in Nat
      BY <1>0, PartyAssumption DEF TypeOK
    <2>5. invitations' \in [Players -> [Players -> Nat]]
      <3>1. CASE invitations' = [invitations EXCEPT ![who] = [@ EXCEPT ![p] = tick + InviteLife]]
        <4>1. [invitations[who] EXCEPT ![p] = tick + InviteLife] \in [Players -> Nat]
          BY <1>0, <2>4 DEF TypeOK
        <4> QED BY <1>0, <3>1, <4>1 DEF TypeOK
      <3>2. CASE UNCHANGED invitations
        BY <1>0, <3>2 DEF TypeOK
      <3> QED BY <1>5, <3>1, <3>2 DEF OnPartyInvite
    <2>6. mail' \in [Players -> Seq(Mail)]
      <3> DEFINE out == [q \in Players |-> IF q = who THEN <<InviteMail(p, tick + InviteLife)>> ELSE <<>>]
      <3>1. CASE Post(out)
        <4>1. InviteMail(p, tick + InviteLife) \in Mail
          BY <2>4 DEF InviteMail, Mail
        <4>2. out \in [Players -> Seq(Mail)]
          <5>1. <<InviteMail(p, tick + InviteLife)>> \in Seq(Mail) /\ <<>> \in Seq(Mail)
            BY <4>1
          <5> HIDE DEF InviteMail
          <5> QED BY <5>1
        <4> HIDE DEF out
        <4> QED BY <1>0, <3>1, <4>2, PostType DEF TypeOK
      <3>2. CASE UNCHANGED mail
        BY <1>0, <3>2 DEF TypeOK
      <3> QED BY <1>5, <3>1, <3>2 DEF OnPartyInvite
    <2> QED BY <1>0, <2>1, <2>2, <2>3, <2>5, <2>6, HandlerInv
  <1>6. ASSUME NEW who \in Players, OnPartyAcceptInvite(p, who) PROVE PartyInv'
    <2>1. up' \in [Players -> Seq(Requests)]
      BY <1>0, <1>6, ReceiveType DEF OnPartyAcceptInvite
    <2>2. /\ Done(Reachable) /\ DOMAIN parties' = DOMAIN parties
          /\ \A q \in Players : joined'[q] = joined[q] \/ (q = p /\ joined[q] = NoParty)
      BY <1>0, <1>6, AcceptDone
    <2>3. UNCHANGED <<nextId, invitations, used, connected, tick, clientVars, mail>> /\ p \in connected
      BY <1>6 DEF OnPartyAcceptInvite, Receive
    <2>4. IdsUsed'
      BY <1>0, <2>2, <2>3 DEF IdsUsed
    <2> QED BY <1>0, <2>1, <2>2, <2>3, <2>4, HandlerInv DEF TypeOK
  <1> QED BY <1>1, <1>2, <1>3, <1>4, <1>5, <1>6 DEF ServerStep

LEMMA PlayerJoinInv ==
  ASSUME PartyInv, NEW p \in Players, OnPlayerJoin(p)
  PROVE  PartyInv'
  <1>0. Before /\ TypeOK /\ IdsUsed
    BY InvBefore DEF PartyInv
  <1>1. /\ p \notin used /\ p \notin connected /\ p \notin online
        /\ news[p] = <<>> /\ view[p] = Outside /\ joined[p] = NoParty
    BY DEF OnPlayerJoin, PartyInv, FreshIsOutside, Membership
  <1>2. /\ used' = used \cup {p} /\ connected' = connected \cup {p} /\ online' = online \cup {p}
        /\ Reachable' = Reachable \cup {p}
        /\ UNCHANGED <<nextId, tick, view, players, invites, asked, up>>
    BY <1>1 DEF OnPlayerJoin, Reachable
  <1>3. /\ Done(Reachable \cup {p}) /\ DOMAIN parties' = DOMAIN parties
        /\ \A q \in Players : q # p => joined'[q] = joined[q]
    <2>1. CASE UNCHANGED <<parties, joined, news>>
      BY <1>0, <2>1, DoneNothing
    <2>2. CASE ~UNCHANGED <<parties, joined, news>>
      <3>1. PICK host \in {q \in connected : joined[q] # NoParty} :
              LET id == joined[host]
                  members == Append(parties[id].members, p)
                  leader == parties[id].leader
              IN /\ SetParty(id, leader, members)
                 /\ joined' = [joined EXCEPT ![p] = id]
                 /\ news' = [q \in Players |->
                      IF q = p THEN <<JoinedNews(leader, members), InfoNews(leader, members)>>
                      ELSE IF q \in Reachable /\ q \in Range(members)
                      THEN Append(news[q], InfoNews(leader, members))
                      ELSE news[q]]
        BY <2>2 DEF OnPlayerJoin
      <3>2. host \in Players /\ joined[host] \in DOMAIN parties
        BY <1>0 DEF TypeOK, Before, Consistent
      <3> DEFINE id == joined[host]
      <3>3. joined' = [joined EXCEPT ![p] = id]
        BY <3>1
      <3>4. Done(Reachable \cup {p}) /\ DOMAIN parties' = DOMAIN parties
        BY <1>0, <1>1, <3>1, <3>2, JoinDone
      <3> QED BY <1>0, <3>3, <3>4 DEF TypeOK
    <2> QED BY <2>1, <2>2
  <1>4. \A q \in Players : q \in Reachable \cup {p} => Tells(news[q], view[q], PartyOf(q))
    <2>1. PartyOf(p) = Outside
      BY <1>1 DEF PartyOf
    <2>2. Tells(news[p], view[p], PartyOf(p))
      BY <1>1, <2>1, TellsNothing
    <2> QED BY <2>2 DEF PartyInv, NewsTell
  <1>5. /\ news' \in [Players -> Seq(News)]
        /\ \A q \in Players : q \in Reachable \cup {p} => Tells(news'[q], view'[q], PartyOf(q)')
    BY <1>0, <1>2, <1>3, <1>4, DoneTells
  <1>6. invitations' \in [Players -> [Players -> Nat]]
    <2>1. PICK old \in (used \ connected) \cup {NoPlayer} : InheritInvitations(p, old)
      BY DEF OnPlayerJoin
    <2>2. CASE old = NoPlayer
      BY <1>0, <2>1, <2>2 DEF InheritInvitations, TypeOK
    <2>3. CASE old # NoPlayer
      <3>1. old \in Players
        BY <1>0, <2>3 DEF TypeOK
      <3>2. \A q \in Players :
              [invitations[q] EXCEPT ![p] = invitations[q][old], ![old] = 0] \in [Players -> Nat]
        <4> SUFFICES ASSUME NEW q \in Players
                     PROVE [invitations[q] EXCEPT ![p] = invitations[q][old], ![old] = 0] \in [Players -> Nat]
          OBVIOUS
        <4> DEFINE f == invitations[q]
        <4>1. f \in [Players -> Nat] /\ f[old] \in Nat
          BY <1>0, <3>1 DEF TypeOK
        <4> HIDE DEF f
        <4>2. [f EXCEPT ![p] = f[old], ![old] = 0] \in [Players -> Nat]
          BY <4>1
        <4> QED BY <4>2 DEF f
      <3> QED BY <2>1, <2>3, <3>2 DEF InheritInvitations
    <2> QED BY <2>2, <2>3
  <1>7. mail' \in [Players -> Seq(Mail)]
    <2>1. /\ PlayerList(connected) \in Mail
          /\ \A q \in Players : PlayerList((connected \cup {p}) \ {q}) \in Mail
      BY <1>0 DEF TypeOK, PlayerList, Mail
    <2>2. <<PlayerList(connected)>> \in Seq(Mail)
      BY <2>1
    <2>3. \A q \in Players : Append(mail[q], PlayerList((connected \cup {p}) \ {q})) \in Seq(Mail)
      BY <1>0, <2>1, AppendProperties DEF TypeOK
    <2>4. mail' = [q \in Players |->
                IF q = p THEN <<PlayerList(connected)>>
                ELSE IF q \in Reachable
                THEN Append(mail[q], PlayerList((connected \cup {p}) \ {q}))
                ELSE mail[q]]
      BY DEF OnPlayerJoin
    <2> HIDE DEF PlayerList
    <2> QED BY <1>0, <2>2, <2>3, <2>4 DEF TypeOK
  <1>8. TypeOK'
    BY <1>0, <1>2, <1>3, <1>5, <1>6, <1>7 DEF TypeOK, Done, PartiesTyped
  <1>9. Membership'
    <2>1. \A q \in Players : joined'[q] # NoParty => q \in connected'
      BY <1>2, <1>3 DEF PartyInv, Membership
    <2> QED BY <1>3, <2>1 DEF Done, Membership, Consistent, Sound, Distinct
  <1>10. IdsUsed'
    BY <1>0, <1>2, <1>3 DEF IdsUsed
  <1>11. FreshIsOutside'
    <2>1. ASSUME NEW q \in Players \ used' PROVE news'[q] = <<>> /\ view'[q] = Outside
      <3>1. q \in Players \ used /\ q # p
        BY <1>2, <2>1
      <3>2. q \notin Reachable
        BY <3>1 DEF PartyInv, FreshIsOutside, Reachable
      <3> QED BY <1>2, <1>3, <3>1, <3>2 DEF Done, PartyInv, FreshIsOutside
    <2> QED BY <1>2, <2>1 DEF PartyInv, FreshIsOutside
  <1>12. NewsTell'
    <2>1. Reachable \cup {p} \subseteq Players
      BY <1>0 DEF TypeOK, Reachable
    <2> QED BY <1>2, <1>5, <2>1 DEF NewsTell
  <1> QED BY <1>8, <1>9, <1>10, <1>11, <1>12 DEF PartyInv

LEMMA PlayerLeaveInv ==
  ASSUME PartyInv, NEW p \in Players, OnPlayerLeave(p)
  PROVE  PartyInv'
  <1>0. Before /\ TypeOK /\ IdsUsed
    BY InvBefore DEF PartyInv
  <1> DEFINE audience == Reachable \ {p}
  <1>1. /\ connected' = connected \ {p} /\ Reachable' = audience
        /\ invitations' = [invitations EXCEPT ![p] = NoInvites] /\ up' = [up EXCEPT ![p] = <<>>]
        /\ UNCHANGED <<nextId, used, tick, clientVars>>
        /\ BroadcastPlayerList(connected \ {p}) /\ RemovePlayerFromParty(p, audience)
    BY DEF OnPlayerLeave, Reachable, clientVars
  <1> HIDE DEF audience
  <1>2. /\ Done(audience) /\ DOMAIN parties' \subseteq DOMAIN parties /\ joined'[p] = NoParty
        /\ \A q \in Players : q # p => joined'[q] = joined[q]
    BY <1>0, <1>1, RemoveDone
  <1>3. audience \subseteq Reachable /\ Reachable \subseteq Players
    BY <1>0 DEF audience, TypeOK, Reachable
  <1>4. /\ news' \in [Players -> Seq(News)]
        /\ \A q \in Players : q \in audience => Tells(news'[q], view'[q], PartyOf(q)')
    <2>1. \A q \in Players : q \in audience => Tells(news[q], view[q], PartyOf(q))
      BY <1>3 DEF PartyInv, NewsTell
    <2>2. view' = view
      BY <1>1 DEF clientVars
    <2> QED BY <1>0, <1>2, <2>1, <2>2, DoneTells
  <1>5. mail' \in [Players -> Seq(Mail)]
    <2>1. connected \ {p} \in SUBSET Players
      BY <1>0 DEF TypeOK
    <2> QED BY <1>0, <1>1, <2>1, ListType DEF TypeOK
  <1>6. invitations' \in [Players -> [Players -> Nat]] /\ up' \in [Players -> Seq(Requests)]
    <2>1. NoInvites \in [Players -> Nat] /\ <<>> \in Seq(Requests)
      BY DEF NoInvites
    <2> QED BY <1>0, <1>1, <2>1 DEF TypeOK
  <1>7. TypeOK'
    BY <1>0, <1>1, <1>2, <1>4, <1>5, <1>6 DEF TypeOK, Done, PartiesTyped, clientVars
  <1>8. Membership'
    <2>1. \A q \in Players : joined'[q] # NoParty => q \in connected'
      BY <1>1, <1>2 DEF PartyInv, Membership
    <2> QED BY <1>2, <2>1 DEF Done, Membership, Consistent, Sound, Distinct
  <1>9. IdsUsed'
    BY <1>0, <1>1, <1>2 DEF IdsUsed
  <1>10. FreshIsOutside'
    <2>1. ASSUME NEW q \in Players \ used PROVE news'[q] = news[q]
      <3>1. q \notin audience
        BY <1>3, <2>1 DEF PartyInv, FreshIsOutside, Reachable
      <3> QED BY <1>2, <3>1 DEF Done
    <2> QED BY <1>1, <2>1 DEF PartyInv, FreshIsOutside, clientVars
  <1>11. NewsTell'
    BY <1>1, <1>3, <1>4 DEF NewsTell
  <1> QED BY <1>7, <1>8, <1>9, <1>10, <1>11 DEF PartyInv

(* What a client does leaves the parties as they are. *)
LEMMA PartiesKept ==
  ASSUME PartyInv, UNCHANGED <<parties, nextId, joined, connected>>
  PROVE  Membership' /\ IdsUsed' /\ \A p \in Players : PartyOf(p)' = PartyOf(p)
  BY DEF PartyInv, Membership, IdsUsed, PartyOf

LEMMA OnNewsInv ==
  ASSUME PartyInv, NEW p \in Players, OnNews(p)
  PROVE  PartyInv'
  <1>1. /\ p \in online /\ news[p] # <<>> /\ news' = [news EXCEPT ![p] = Tail(news[p])]
        /\ view' = [view EXCEPT ![p] = Read(view[p], Head(news[p]))]
        /\ UNCHANGED <<serverVars, online, players, invites, asked, up, mail>>
    BY DEF OnNews
  <1>2. news[p] \in Seq(News) /\ view[p] \in View
    BY DEF PartyInv, TypeOK
  <1>3. Head(news[p]) \in News /\ Tail(news[p]) \in Seq(News)
    BY <1>1, <1>2, HeadTailProperties
  <1>4. Read(view[p], Head(news[p])) \in View
    BY <1>2, <1>3 DEF Read, View, News, Outside
  <1>5. TypeOK'
    BY <1>1, <1>3, <1>4 DEF PartyInv, TypeOK, serverVars
  <1>6. Membership' /\ IdsUsed' /\ \A q \in Players : PartyOf(q)' = PartyOf(q)
    BY <1>1, PartiesKept DEF serverVars
  <1>7. FreshIsOutside'
    BY <1>1 DEF PartyInv, FreshIsOutside, serverVars
  <1>8. NewsTell'
    <2>1. Reachable' = Reachable /\ Reachable \subseteq Players
      BY <1>1 DEF Reachable, serverVars, PartyInv, TypeOK
    <2>2. ASSUME NEW q \in Reachable, q = p PROVE Tells(news'[q], view'[q], PartyOf(q)')
      <3>1. Tells(Tail(news[p]), Read(view[p], Head(news[p])), PartyOf(p))
        BY <1>1, <1>2, <2>2, TellsTail DEF PartyInv, NewsTell
      <3>2. news'[p] = Tail(news[p]) /\ view'[p] = Read(view[p], Head(news[p]))
        BY <1>1 DEF PartyInv, TypeOK
      <3> QED BY <1>6, <2>2, <3>1, <3>2
    <2>3. ASSUME NEW q \in Reachable, q # p PROVE Tells(news'[q], view'[q], PartyOf(q)')
      <3>1. news'[q] = news[q] /\ view'[q] = view[q]
        BY <1>1, <2>1, <2>3 DEF PartyInv, TypeOK
      <3> QED BY <1>6, <2>1, <2>3, <3>1 DEF PartyInv, NewsTell
    <2> QED BY <2>1, <2>2, <2>3 DEF NewsTell
  <1> QED BY <1>5, <1>6, <1>7, <1>8 DEF PartyInv

(* A step that touches neither the parties nor what anyone is told of them.*)
LEMMA AsideInv ==
  ASSUME PartyInv, TypeOK',
         UNCHANGED <<parties, nextId, joined, used, connected, online, view, news>>
  PROVE  PartyInv'
  <1>1. Membership' /\ IdsUsed' /\ \A q \in Players : PartyOf(q)' = PartyOf(q)
    BY PartiesKept
  <1>2. FreshIsOutside'
    BY DEF PartyInv, FreshIsOutside
  <1>3. Reachable' = Reachable /\ Reachable \subseteq Players
    BY DEF Reachable, PartyInv, TypeOK
  <1>4. NewsTell'
    BY <1>1, <1>3 DEF PartyInv, NewsTell
  <1> QED BY <1>1, <1>2, <1>4 DEF PartyInv

LEMMA OnMailInv ==
  ASSUME PartyInv, NEW p \in Players, OnMail(p)
  PROVE  PartyInv'
  <1>0. TypeOK
    BY DEF PartyInv
  <1>1. mail[p] # <<>> /\ mail' = [mail EXCEPT ![p] = Tail(mail[p])] /\ mail[p] \in Seq(Mail)
        /\ UNCHANGED <<serverVars, online, view, asked, up, news>>
    BY <1>0 DEF OnMail, TypeOK
  <1>2. Head(mail[p]) \in Mail /\ Tail(mail[p]) \in Seq(Mail)
    BY <1>1, HeadTailProperties
  <1> DEFINE m == Head(mail[p])
  <1>3. m.players \in SUBSET Players /\ m.expiry \in Nat
    BY <1>2 DEF Mail
  <1>4. CASE players' = [players EXCEPT ![p] = m.players] /\ UNCHANGED invites
    <2>1. TypeOK'
      BY <1>0, <1>1, <1>2, <1>3, <1>4 DEF TypeOK, serverVars
    <2> QED BY <1>1, <2>1, AsideInv DEF serverVars
  <1>5. CASE invites' = [invites EXCEPT ![p] = [@ EXCEPT ![m.who] = m.expiry]] /\ UNCHANGED players
    <2>1. [invites[p] EXCEPT ![m.who] = m.expiry] \in [Players -> Nat]
      BY <1>0, <1>3 DEF TypeOK
    <2>2. invites' \in [Players -> [Players -> Nat]]
      BY <1>0, <1>5, <2>1 DEF TypeOK
    <2>3. TypeOK'
      BY <1>0, <1>1, <1>2, <1>5, <2>2 DEF TypeOK, serverVars
    <2> QED BY <1>1, <2>3, AsideInv DEF serverVars
  <1> QED BY <1>4, <1>5 DEF OnMail

LEMMA OnDisconnectedInv ==
  ASSUME PartyInv, NEW p \in Players, OnDisconnected(p)
  PROVE  PartyInv'
  <1>1. /\ online' = online \ {p} /\ view' = [view EXCEPT ![p] = Outside]
        /\ news' = [news EXCEPT ![p] = <<>>] /\ mail' = [mail EXCEPT ![p] = <<>>]
        /\ UNCHANGED <<serverVars, players, invites, asked, up>>
    BY DEF OnDisconnected
  <1>2. Outside \in View /\ <<>> \in Seq(News) /\ <<>> \in Seq(Mail)
    BY DEF Outside, View
  <1>3. TypeOK'
    BY <1>1, <1>2 DEF PartyInv, TypeOK, serverVars
  <1>4. Membership' /\ IdsUsed' /\ \A q \in Players : PartyOf(q)' = PartyOf(q)
    BY <1>1, PartiesKept DEF serverVars
  <1>5. FreshIsOutside'
    BY <1>1 DEF PartyInv, TypeOK, FreshIsOutside, serverVars
  <1>6. NewsTell'
    <2>1. Reachable' = Reachable \ {p} /\ Reachable \subseteq Players
      BY <1>1 DEF Reachable, serverVars, PartyInv, TypeOK
    <2>2. \A q \in Reachable \ {p} : news'[q] = news[q] /\ view'[q] = view[q]
      BY <1>1, <2>1 DEF PartyInv, TypeOK
    <2> QED BY <1>4, <2>1, <2>2 DEF PartyInv, NewsTell
  <1> QED BY <1>3, <1>4, <1>5, <1>6 DEF PartyInv

LEMMA UserStepInv ==
  ASSUME PartyInv, NEW p \in Players, UserStep(p)
  PROVE  PartyInv'
  <1>0. TypeOK
    BY DEF PartyInv
  <1>1. PICK t \in {"Create", "Leave", "Invite", "Accept", "Kick", "ChangeLeader"},
             who \in Players \cup {NoPlayer} : Request(p, t, who)
    BY DEF UserStep, CreateParty, LeaveParty, CreateInvite, AcceptInvite, KickPartyMember, ChangePartyLeader
  <1> DEFINE r == [type |-> t, who |-> who]
  <1>2. r \in Requests
    BY DEF Requests
  <1>3. asked' = asked + 1 /\ (up' = [up EXCEPT ![p] = Append(up[p], r)] \/ up' = up)
        /\ UNCHANGED <<serverVars, online, view, players, invites, news, mail>>
    BY <1>1 DEF Request
  <1> HIDE DEF r
  <1>4. Append(up[p], r) \in Seq(Requests)
    BY <1>0, <1>2, AppendProperties DEF TypeOK
  <1>5. up' \in [Players -> Seq(Requests)] /\ asked' \in Nat
    <2>1. asked' \in Nat
      BY <1>0, <1>3 DEF TypeOK
    <2>2. up \in [Players -> Seq(Requests)]
      BY <1>0 DEF TypeOK
    <2>3. [up EXCEPT ![p] = Append(up[p], r)] \in [Players -> Seq(Requests)]
      BY <1>4, <2>2
    <2> QED BY <1>3, <2>1, <2>2, <2>3
  <1>6. TypeOK'
    BY <1>0, <1>3, <1>5 DEF TypeOK, serverVars
  <1> QED BY <1>3, <1>6, AsideInv DEF serverVars

LEMMA OnUpdateInv ==
  ASSUME PartyInv, OnUpdate
  PROVE  PartyInv'
  <1>0. TypeOK
    BY DEF PartyInv
  <1>1. \A f \in [Players -> Nat], now \in Nat : Purge(f, now) \in [Players -> Nat]
    BY DEF Purge
  <1>2. /\ tick' = tick + 1 /\ tick' \in Nat
        /\ UNCHANGED <<parties, nextId, joined, used, connected, online, view, players, asked, up, news, mail>>
    BY <1>0 DEF OnUpdate, TypeOK
  <1>3. invitations' \in [Players -> [Players -> Nat]] /\ invites' \in [Players -> [Players -> Nat]]
    <2>1. /\ invitations' = [p \in Players |->
                IF p \in PurgedHolders THEN Purge(invitations[p], tick') ELSE invitations[p]]
          /\ invites' = [p \in Players |->
                IF p \in online THEN Purge(invites[p], tick') ELSE invites[p]]
      BY DEF OnUpdate
    <2> QED BY <1>0, <1>1, <1>2, <2>1 DEF TypeOK
  <1>4. TypeOK'
    BY <1>0, <1>2, <1>3 DEF TypeOK
  <1> QED BY <1>2, <1>4, AsideInv

LEMMA NextInv == PartyInv /\ [Next]_vars => PartyInv'
  <1> SUFFICES ASSUME PartyInv, [Next]_vars PROVE PartyInv'
    OBVIOUS
  <1>1. CASE UNCHANGED vars
    <2>1. TypeOK'
      BY <1>1 DEF PartyInv, TypeOK, vars, serverVars, clientVars
    <2> QED BY <1>1, <2>1, AsideInv DEF vars, serverVars, clientVars
  <1>2. CASE OnUpdate
    BY <1>2, OnUpdateInv
  <1>3. ASSUME NEW p \in Players,
               \/ ServerStep(p) \/ OnPlayerJoin(p) \/ OnPlayerLeave(p)
               \/ OnNews(p) \/ OnMail(p) \/ OnDisconnected(p) \/ UserStep(p)
        PROVE  PartyInv'
    BY <1>3, ServerStepInv, PlayerJoinInv, PlayerLeaveInv, OnNewsInv, OnMailInv, OnDisconnectedInv, UserStepInv
  <1> QED BY <1>1, <1>2, <1>3 DEF Next

THEOREM PartyInvariant == Spec => []PartyInv
  <1>1. Init => PartyInv
    BY InitInv
  <1>2. PartyInv /\ [Next]_vars => PartyInv'
    BY NextInv
  <1> QED BY <1>1, <1>2, PTL DEF Spec

-----------------------------------------------------------------------------
(* The types of all variables are kept by every handler. *)
THEOREM PartyTypes == Spec => []TypeOK
  <1>1. PartyInv => TypeOK
    BY DEF PartyInv
  <1> QED BY <1>1, PartyInvariant, PTL

(* A player's party and the parties' members never disagree, whoever       *)
(* creates, joins, leaves, kicks or drops out (PartyService).              *)
THEOREM MembershipHolds == Spec => []Membership
  <1>1. PartyInv => Membership
    BY DEF PartyInv
  <1> QED BY <1>1, PartyInvariant, PTL

(* A client that has read what the server sent it has the right view of    *)
(* its party (PartyService of both ends).                                  *)
THEOREM ViewsAgree == Spec => []ViewAgrees
  <1>1. PartyInv => ViewAgrees
    <2> SUFFICES ASSUME PartyInv, NEW p \in online \cap connected, news[p] = <<>>
                 PROVE  view[p] = PartyOf(p)
      BY DEF ViewAgrees
    <2>1. Tells(news[p], view[p], PartyOf(p))
      BY DEF PartyInv, NewsTell, Reachable
    <2> QED BY <2>1 DEF Tells
  <1> QED BY <1>1, PartyInvariant, PTL

LEMMA StepsPoachNobody ==
  ASSUME PartyInv, [Next]_vars, NEW q \in Players, joined[q] # NoParty
  PROVE  joined'[q] \in {joined[q], NoParty}
  <1>0. Before /\ TypeOK /\ IdsUsed /\ connected \subseteq Players /\ nextId \in Nat
    BY InvBefore DEF PartyInv, TypeOK
  <1>1. ASSUME NEW p \in Players, NEW audience, RemovePlayerFromParty(p, audience)
        PROVE  joined'[q] \in {joined[q], NoParty}
    BY <1>0, <1>1, RemoveDone
  <1>2. ASSUME NEW p \in Players, ServerStep(p) PROVE joined'[q] \in {joined[q], NoParty}
    <2>1. CASE OnPartyCreate(p)
      BY <1>0, <2>1, CreateDone
    <2>2. CASE OnPartyLeave(p)
      BY <1>1, <2>2 DEF OnPartyLeave
    <2>3. ASSUME NEW who \in Players, OnPartyChangeLeader(p, who) PROVE joined' = joined
      BY <2>3 DEF OnPartyChangeLeader
    <2>4. ASSUME NEW who \in Players, OnPartyKick(p, who) PROVE joined'[q] \in {joined[q], NoParty}
      BY <1>1, <2>4 DEF OnPartyKick
    <2>5. ASSUME NEW who \in Players, OnPartyInvite(p, who) PROVE joined' = joined
      BY <2>5 DEF OnPartyInvite
    <2>6. ASSUME NEW who \in Players, OnPartyAcceptInvite(p, who) PROVE joined'[q] = joined[q]
      BY <1>0, <2>6, AcceptDone
    <2> QED BY <1>2, <2>1, <2>2, <2>3, <2>4, <2>5, <2>6 DEF ServerStep
  <1>3. ASSUME NEW p \in Players, OnPlayerJoin(p) PROVE joined'[q] = joined[q]
    <2>1. q # p
      BY <1>3 DEF OnPlayerJoin, PartyInv, Membership, FreshIsOutside
    <2>2. joined' = joined \/ \E id : joined' = [joined EXCEPT ![p] = id]
      BY <1>3 DEF OnPlayerJoin
    <2> QED BY <1>0, <2>1, <2>2 DEF TypeOK
  <1>4. ASSUME NEW p \in Players, OnPlayerLeave(p) PROVE joined'[q] \in {joined[q], NoParty}
    BY <1>1, <1>4 DEF OnPlayerLeave
  <1>5. ASSUME NEW p \in Players, OnNews(p) \/ OnMail(p) \/ OnDisconnected(p) \/ UserStep(p)
        PROVE  joined' = joined
    BY <1>5 DEF OnNews, OnMail, OnDisconnected, UserStep, CreateParty, LeaveParty, CreateInvite,
                AcceptInvite, KickPartyMember, ChangePartyLeader, Request, serverVars
  <1>6. CASE OnUpdate
    BY <1>6 DEF OnUpdate
  <1>7. CASE UNCHANGED vars
    BY <1>7 DEF vars, serverVars
  <1> QED BY <1>2, <1>3, <1>4, <1>5, <1>6, <1>7 DEF Next

(* Nobody is moved from one party straight into another: the joining       *)
(* handlers all look at what the player has joined already.                *)
THEOREM NobodyPoached == Spec => NoPoaching
  <1>1. PartyInv /\ [Next]_vars =>
          [\A p \in Players : joined[p] # NoParty => joined'[p] \in {joined[p], NoParty}]_vars
    BY StepsPoachNobody
  <1> QED BY <1>1, PartyInvariant, PTL DEF Spec, NoPoaching
=============================================================================
