---------------------------- MODULE WorldProofs -----------------------------
(* What the players' worlds have in common. Quest progress in a party, for *)
(* any players and stages and any number of moves: the log follows the     *)
(* game, and members who have heard all agree. The shared clock, for every *)
(* date, any clients, scales and bounds. The two share only the lemmas     *)
(* about numbers.                                                          *)
EXTENDS Quests, Calendar, SequenceTheorems, FiniteSetTheorems, WellFoundedInduction, TLAPS

-----------------------------------------------------------------------------
(* Numbers: induction for a set instead of a predicate, and the greatest   *)
(* of finitely many.                                                       *)

LEMMA LeastNumber ==
  ASSUME NEW S, S \subseteq Nat, S # {}
  PROVE  \E n \in S : \A m \in S : n <= m
  <1> DEFINE R == OpToRel(<, Nat)
  <1>1. IsWellFoundedOn(R, Nat)
    BY NatLessThanWellFounded
  <1>2. \A x, y \in Nat : x < y => <<x, y>> \in R
    BY DEF OpToRel
  <1> HIDE DEF R
  <1>3. PICK n \in S : \A m \in S : ~(<<m, n>> \in R)
    BY <1>1, WFMin
  <1>4. ASSUME NEW m \in S PROVE n <= m
    <2>1. ~(m < n)
      BY <1>2, <1>3
    <2> QED BY <2>1
  <1> QED BY <1>4

LEMMA Induction ==
  ASSUME NEW S, 0 \in S, \A n \in Nat : n \in S => n + 1 \in S
  PROVE  Nat \subseteq S
  <1> SUFFICES ASSUME Nat \ S # {} PROVE FALSE
    OBVIOUS
  <1>1. PICK n \in Nat \ S : \A m \in Nat \ S : n <= m
    BY LeastNumber
  <1>2. n # 0 /\ n - 1 \in Nat
    BY <1>1
  <1> QED BY <1>1, <1>2

LEMMA GreatestIs ==
  ASSUME NEW S, S \subseteq Nat, S # {}, IsFiniteSet(S)
  PROVE  Max(S) \in S
  <1>1. PICK n \in Nat : ExistsSurjection(1..n, S)
    BY FS_NatSurjection
  <1>2. PICK f \in [1..n -> S] : \A x \in S : \E i \in 1..n : f[i] = x
    BY <1>1 DEF ExistsSurjection, Surjection
  <1> DEFINE K == {k \in Nat : k <= n => \E x \in S : \A i \in 1..k : f[i] <= x}
  <1>3. 0 \in K
    <2>1. PICK x \in S : TRUE
      OBVIOUS
    <2>2. \A i \in 1..0 : f[i] <= x
      OBVIOUS
    <2> QED BY <2>1, <2>2
  <1>4. ASSUME NEW k \in Nat, k \in K PROVE k + 1 \in K
    <2> SUFFICES ASSUME k + 1 <= n PROVE \E x \in S : \A i \in 1..k + 1 : f[i] <= x
      OBVIOUS
    <2>1. PICK x \in S : \A i \in 1..k : f[i] <= x
      BY <1>4
    <2>2. f[k + 1] \in S /\ f[k + 1] \in Nat /\ x \in Nat
      <3>1. k + 1 \in 1..n
        OBVIOUS
      <3>2. f[k + 1] \in S
        BY <1>2, <3>1
      <3> QED BY <3>2
    <2>3. \A i \in 1..k + 1 : i \in 1..k \/ i = k + 1
      OBVIOUS
    <2>4. \A i \in 1..k : f[i] \in Nat
      <3> TAKE i \in 1..k
      <3>1. i \in 1..n
        OBVIOUS
      <3>2. f[i] \in S
        BY <1>2, <3>1
      <3> QED BY <3>2
    <2>5. CASE f[k + 1] <= x
      BY <2>1, <2>3, <2>5
    <2>6. CASE x <= f[k + 1]
      <3>1. \A i \in 1..k + 1 : f[i] <= f[k + 1]
        BY <2>1, <2>2, <2>3, <2>4, <2>6
      <3> QED BY <2>2, <3>1
    <2> QED BY <2>2, <2>5, <2>6
  <1>5. n \in K
    <2> HIDE DEF K
    <2> QED BY <1>3, <1>4, Induction
  <1>6. PICK x \in S : \A i \in 1..n : f[i] <= x
    BY <1>5
  <1>7. \A y \in S : x >= y
    BY <1>2, <1>6
  <1> QED BY <1>7 DEF Max

-----------------------------------------------------------------------------
(* Queues of messages.                                                     *)

Elements(s) == {s[i] : i \in DOMAIN s}
Ending(s) == s[Len(s)]

LEMMA Empty ==
  ASSUME NEW S, NEW s \in Seq(S)
  PROVE  (s = <<>>) <=> (Elements(s) = {})
  <1>1. CASE s = <<>>
    BY <1>1 DEF Elements
  <1>2. CASE s # <<>>
    <2>1. 1 \in DOMAIN s
      BY <1>2, EmptySeq, LenProperties
    <2> QED BY <1>2, <2>1 DEF Elements
  <1> QED BY <1>1, <1>2

LEMMA Longer ==
  ASSUME NEW S, NEW s \in Seq(S), NEW u \in Seq(S), u # <<>>
  PROVE  /\ s \o u \in Seq(S) /\ s \o u # <<>> /\ Ending(s \o u) = Ending(u)
         /\ Elements(s \o u) = Elements(s) \cup Elements(u)
  <1>1. /\ s \o u \in Seq(S) /\ Len(s \o u) = Len(s) + Len(u)
        /\ \A i \in 1..Len(s) + Len(u) : (s \o u)[i] = IF i <= Len(s) THEN s[i] ELSE u[i - Len(s)]
    BY ConcatProperties
  <1>2. Len(s) \in Nat /\ Len(u) \in Nat /\ Len(u) > 0
    BY EmptySeq, LenProperties
  <1>3. DOMAIN s = 1..Len(s) /\ DOMAIN u = 1..Len(u) /\ DOMAIN (s \o u) = 1..Len(s) + Len(u)
    BY <1>1, LenProperties
  <1>4. s \o u # <<>>
    BY <1>1, <1>2
  <1>5. Ending(s \o u) = Ending(u)
    <2>1. ~(Len(s) + Len(u) <= Len(s)) /\ (Len(s) + Len(u)) - Len(s) = Len(u)
          /\ Len(s) + Len(u) \in 1..Len(s) + Len(u)
      BY <1>2
    <2> QED BY <1>1, <2>1 DEF Ending
  <1>6. \A i \in 1..Len(s) : (s \o u)[i] = s[i] /\ i \in 1..Len(s) + Len(u)
    BY <1>1, <1>2
  <1>7. \A i \in 1..Len(u) : (s \o u)[Len(s) + i] = u[i] /\ Len(s) + i \in 1..Len(s) + Len(u)
    BY <1>1, <1>2
  <1>8. \A i \in 1..Len(s) + Len(u) : i \in 1..Len(s) \/ \E j \in 1..Len(u) : i = Len(s) + j
    <2> TAKE i \in 1..Len(s) + Len(u)
    <2>1. CASE i <= Len(s)
      BY <2>1
    <2>2. CASE ~(i <= Len(s))
      <3>1. i - Len(s) \in 1..Len(u) /\ i = Len(s) + (i - Len(s))
        BY <1>2, <2>2
      <3> QED BY <3>1
    <2> QED BY <2>1, <2>2
  <1>9. Elements(s \o u) = Elements(s) \cup Elements(u)
    <2>1. ASSUME NEW x \in Elements(s) PROVE x \in Elements(s \o u)
      BY <1>3, <1>6 DEF Elements
    <2>2. ASSUME NEW x \in Elements(u) PROVE x \in Elements(s \o u)
      BY <1>3, <1>7 DEF Elements
    <2>3. ASSUME NEW x \in Elements(s \o u) PROVE x \in Elements(s) \cup Elements(u)
      <3>1. PICK i \in 1..Len(s) + Len(u) : x = (s \o u)[i]
        BY <1>3 DEF Elements
      <3>2. CASE i \in 1..Len(s)
        BY <1>3, <1>6, <3>1, <3>2 DEF Elements
      <3>3. CASE \E j \in 1..Len(u) : i = Len(s) + j
        BY <1>3, <1>7, <3>1, <3>3 DEF Elements
      <3> QED BY <1>8, <3>2, <3>3
    <2> QED BY <2>1, <2>2, <2>3
  <1> QED BY <1>1, <1>4, <1>5, <1>9

LEMMA OneMore ==
  ASSUME NEW S, NEW s \in Seq(S), NEW m \in S
  PROVE  /\ Append(s, m) \in Seq(S) /\ Append(s, m) # <<>>
         /\ Elements(Append(s, m)) = Elements(s) \cup {m}
  <1>1. <<m>> \in Seq(S) /\ <<m>> # <<>>
    OBVIOUS
  <1>2. Append(s, m) = s \o <<m>>
    OBVIOUS
  <1>3. Elements(<<m>>) = {m}
    BY DEF Elements
  <1>4. /\ s \o <<m>> \in Seq(S) /\ s \o <<m>> # <<>>
        /\ Elements(s \o <<m>>) = Elements(s) \cup Elements(<<m>>)
    BY <1>1, Longer
  <1> QED BY <1>2, <1>3, <1>4

LEMMA OneLess ==
  ASSUME NEW S, NEW s \in Seq(S), s # <<>>
  PROVE  /\ Head(s) \in S /\ Tail(s) \in Seq(S)
         /\ Elements(s) = {Head(s)} \cup Elements(Tail(s))
         /\ Tail(s) # <<>> => Ending(Tail(s)) = Ending(s)
         /\ Tail(s) = <<>> => Ending(s) = Head(s)
  <1>1. /\ Head(s) \in S /\ Tail(s) \in Seq(S) /\ Len(Tail(s)) = Len(s) - 1
        /\ \A i \in 1..Len(Tail(s)) : Tail(s)[i] = s[i + 1]
    BY HeadTailProperties
  <1>2. Len(s) \in Nat /\ Len(s) > 0 /\ Head(s) = s[1]
    BY EmptySeq
  <1>3. DOMAIN s = 1..Len(s) /\ DOMAIN Tail(s) = 1..Len(s) - 1
    BY <1>1, LenProperties
  <1>4. Elements(s) = {Head(s)} \cup Elements(Tail(s))
    <2>1. \A i \in 1..Len(s) : i = 1 \/ i - 1 \in 1..Len(s) - 1
      BY <1>2
    <2>2. \A i \in 1..Len(s) : i = 1 \/ Tail(s)[i - 1] = s[i]
      BY <1>1, <1>2, <2>1
    <2>3. \A i \in 1..Len(s) - 1 : i + 1 \in 1..Len(s) /\ Tail(s)[i] = s[i + 1]
      BY <1>1, <1>2
    <2>4. 1 \in 1..Len(s)
      BY <1>2
    <2>5. ASSUME NEW x \in Elements(s) PROVE x \in {Head(s)} \cup Elements(Tail(s))
      BY <1>2, <1>3, <2>1, <2>2 DEF Elements
    <2>6. ASSUME NEW x \in Elements(Tail(s)) PROVE x \in Elements(s)
      BY <1>3, <2>3 DEF Elements
    <2>7. Head(s) \in Elements(s)
      BY <1>2, <1>3, <2>4 DEF Elements
    <2> QED BY <2>5, <2>6, <2>7
  <1>5. ASSUME Tail(s) # <<>> PROVE Ending(Tail(s)) = Ending(s)
    <2>1. Len(Tail(s)) \in Nat /\ Len(Tail(s)) > 0
      BY <1>1, <1>5, EmptySeq
    <2> QED BY <1>1, <1>2, <2>1 DEF Ending
  <1>6. ASSUME Tail(s) = <<>> PROVE Ending(s) = Head(s)
    <2>1. Len(s) = 1
      <3>1. Len(Tail(s)) = 0
        BY <1>6, EmptySeq
      <3>2. Len(Tail(s)) = Len(s) - 1
        BY <1>1
      <3> QED BY <1>2, <3>1, <3>2
    <2> QED BY <1>2, <2>1 DEF Ending
  <1> QED BY <1>1, <1>4, <1>5, <1>6

-----------------------------------------------------------------------------
(* Type correctness, and what the actions do to queues.                    *)

News == QuestUpdate \cup {Joined, Left}

LEMMA NewsAre ==
  /\ \A m \in QuestUpdate : m \in News /\ m.status \in Statuses /\ m.stage \in Stages \cup {0}
  /\ \A m \in News : m.status \notin {"Joined", "Left"} => m \in QuestUpdate
  /\ Joined.status = "Joined" /\ Left.status = "Left" /\ Joined # Left
  /\ \A m \in News : m.status \in {"Joined", "Left"} => m \in {Joined, Left}
  /\ \A s \in Stages \cup {0} : Stage(s) \in QuestUpdate /\ Stage(s).status = "StageUpdate" /\ Stage(s).stage = s
  BY DEF News, QuestUpdate, Joined, Left, Statuses, Stage

LEMMA CurrentStageIs ==
  ASSUME TypeOK, NEW p \in Players
  PROVE  CurrentStage(p) \in done[p] \cup {0} /\ CurrentStage(p) \in Stages \cup {0}
  <1>1. done[p] \subseteq Stages /\ Stages \subseteq Nat /\ IsFiniteSet(Stages)
    BY QuestsAssumption DEF TypeOK
  <1>2. IsFiniteSet(done[p])
    BY <1>1, FS_Subset
  <1>3. {0} \cup done[p] = done[p] \cup {0}
    OBVIOUS
  <1>4. IsFiniteSet({0} \cup done[p])
    BY <1>2, <1>3, FS_AddElement
  <1>5. {0} \cup done[p] \subseteq Nat
    BY <1>1
  <1>6. Max({0} \cup done[p]) \in {0} \cup done[p]
    BY <1>4, <1>5, GreatestIs
  <1> QED BY <1>1, <1>6 DEF CurrentStage

LEMMA StageEventsAre ==
  ASSUME TypeOK, NEW p \in Players, NEW s \in Stages
  PROVE  /\ StageEvents(p, s) \in Seq(QuestUpdate) /\ StageEvents(p, s) # <<>>
         /\ Ending(StageEvents(p, s)) = Stage(s) /\ Stage(s) \in Elements(StageEvents(p, s))
         /\ \A m \in Elements(StageEvents(p, s)) :
              m.status # "Stopped" /\ m.stage \in done[p] \cup {0, s}
  <1> DEFINE a == Stage(s)
             b == StartStop(p, "Started")
  <1>1. a \in QuestUpdate /\ a.status = "StageUpdate" /\ a.stage = s
    BY NewsAre
  <1>2. b \in QuestUpdate /\ b.status = "Started" /\ b.stage \in done[p] \cup {0}
    BY CurrentStageIs DEF QuestUpdate, Statuses, StartStop
  <1>3. StageEvents(p, s) = IF running[p] THEN <<a>> ELSE <<b, a>>
    BY DEF StageEvents
  <1> HIDE DEF a, b
  <1>4. <<a>> \in Seq(QuestUpdate) /\ <<a>> # <<>> /\ Ending(<<a>>) = a /\ Elements(<<a>>) = {a}
    BY <1>1 DEF Ending, Elements
  <1>5. <<b, a>> \in Seq(QuestUpdate) /\ <<b, a>> # <<>> /\ Ending(<<b, a>>) = a
    BY <1>1, <1>2 DEF Ending
  <1>6. Elements(<<b, a>>) = {a, b}
    <2>1. DOMAIN <<b, a>> = {1, 2} /\ <<b, a>>[1] = b /\ <<b, a>>[2] = a
      OBVIOUS
    <2> QED BY <2>1 DEF Elements
  <1>7. CASE running[p]
    BY <1>1, <1>3, <1>4, <1>7 DEF a
  <1>8. CASE ~running[p]
    BY <1>1, <1>2, <1>3, <1>5, <1>6, <1>8 DEF a
  <1> QED BY <1>7, <1>8

LEMMA ReportIs ==
  ASSUME TypeOK, NEW p \in Players, NEW u \in Seq(QuestUpdate), u # <<>>, Report(p, u)
  PROVE  /\ up' \in [Players -> Seq(QuestUpdate)]
         /\ \A q \in Players : q # p => up'[q] = up[q]
         /\ ~inParty[p] => up' = up
         /\ inParty[p] => /\ up'[p] # <<>> /\ Ending(up'[p]) = Ending(u)
                          /\ Elements(up'[p]) = Elements(up[p]) \cup Elements(u)
  <1>1. up[p] \in Seq(QuestUpdate)
    BY DEF TypeOK
  <1>2. /\ up[p] \o u \in Seq(QuestUpdate) /\ up[p] \o u # <<>> /\ Ending(up[p] \o u) = Ending(u)
        /\ Elements(up[p] \o u) = Elements(up[p]) \cup Elements(u)
    BY <1>1, Longer
  <1> QED BY <1>2 DEF Report, TypeOK

LEMMA SetStageIs ==
  ASSUME TypeOK, NEW p \in Players, NEW s \in Stages, SetCurrentStage(p, s)
  PROVE  /\ up' \in [Players -> Seq(QuestUpdate)]
         /\ done' \in [Players -> SUBSET Stages] /\ running' \in [Players -> BOOLEAN]
         /\ done'[p] = done[p] \cup {s} /\ running'[p]
         /\ \A q \in Players : q # p => /\ done'[q] = done[q] /\ running'[q] = running[q]
                                        /\ up'[q] = up[q]
         /\ ~inParty[p] => up' = up
         /\ inParty[p] => /\ up'[p] # <<>> /\ Ending(up'[p]) = Stage(s)
                          /\ Elements(up'[p]) = Elements(up[p]) \cup Elements(StageEvents(p, s))
  <1>1. /\ up' \in [Players -> Seq(QuestUpdate)]
        /\ \A q \in Players : q # p => up'[q] = up[q]
        /\ ~inParty[p] => up' = up
        /\ inParty[p] => /\ up'[p] # <<>> /\ Ending(up'[p]) = Stage(s)
                         /\ Elements(up'[p]) = Elements(up[p]) \cup Elements(StageEvents(p, s))
    <2>1. Report(p, StageEvents(p, s))
      BY DEF SetCurrentStage
    <2> QED BY <2>1, StageEventsAre, ReportIs
  <1> QED BY <1>1 DEF SetCurrentStage, TypeOK

LEMMA TellIs ==
  ASSUME TypeOK, NEW ps, NEW m \in News, Tell(ps, m)
  PROVE  /\ down' \in [Players -> Seq(News)]
         /\ \A q \in Players : /\ q \in ps => /\ down'[q] # <<>>
                                              /\ Elements(down'[q]) = Elements(down[q]) \cup {m}
                               /\ q \notin ps => down'[q] = down[q]
  <1>1. ASSUME NEW q \in Players
        PROVE  /\ Append(down[q], m) \in Seq(News) /\ Append(down[q], m) # <<>>
               /\ Elements(Append(down[q], m)) = Elements(down[q]) \cup {m} /\ down[q] \in Seq(News)
    <2>1. down[q] \in Seq(News)
      BY DEF TypeOK, News
    <2> QED BY <2>1, OneMore
  <1> QED BY <1>1 DEF Tell

(* The message that p's client or the server takes from a queue. *)
LEMMA HeadOfDown ==
  ASSUME TypeOK, NEW p \in Players, down[p] # <<>>, down' = [down EXCEPT ![p] = Tail(@)]
  PROVE  /\ Head(down[p]) \in News /\ down' \in [Players -> Seq(News)]
         /\ Elements(down[p]) = {Head(down[p])} \cup Elements(down'[p])
         /\ \A q \in Players : q # p => down'[q] = down[q]
  <1>1. down[p] \in Seq(News)
    BY DEF TypeOK, News
  <1>2. /\ Head(down[p]) \in News /\ Tail(down[p]) \in Seq(News)
        /\ Elements(down[p]) = {Head(down[p])} \cup Elements(Tail(down[p]))
    BY <1>1, OneLess
  <1> QED BY <1>2 DEF TypeOK, News

LEMMA HeadOfUp ==
  ASSUME TypeOK, NEW p \in Players, up[p] # <<>>, up' = [up EXCEPT ![p] = Tail(@)]
  PROVE  /\ Head(up[p]) \in QuestUpdate /\ up' \in [Players -> Seq(QuestUpdate)]
         /\ Elements(up[p]) = {Head(up[p])} \cup Elements(up'[p])
         /\ up'[p] # <<>> => Ending(up'[p]) = Ending(up[p])
         /\ up'[p] = <<>> => Ending(up[p]) = Head(up[p])
         /\ \A q \in Players : q # p => up'[q] = up[q]
  <1>1. up[p] \in Seq(QuestUpdate)
    BY DEF TypeOK
  <1>2. /\ Head(up[p]) \in QuestUpdate /\ Tail(up[p]) \in Seq(QuestUpdate)
        /\ Elements(up[p]) = {Head(up[p])} \cup Elements(Tail(up[p]))
        /\ Tail(up[p]) # <<>> => Ending(Tail(up[p])) = Ending(up[p])
        /\ Tail(up[p]) = <<>> => Ending(up[p]) = Head(up[p])
    BY <1>1, OneLess
  <1> QED BY <1>2 DEF TypeOK

(* What the server passes on of m, which p told it. *)
Passed(p, m) == IF m.status = "Started" /\ log[p] # NoEntry THEN Stage(m.stage) ELSE m

LEMMA PassedIs ==
  ASSUME NEW p, NEW m \in QuestUpdate
  PROVE  /\ Passed(p, m) \in QuestUpdate /\ Passed(p, m).stage = m.stage
         /\ (Passed(p, m).status = "Stopped") <=> (m.status = "Stopped")
  BY NewsAre DEF Passed

(* What a stage that somebody else has told does in p's game. *)
LEMMA ScriptIs ==
  ASSUME NEW p \in Players, NEW s \in Stages \cup {0}, ScriptSetStage(p, s)
  PROVE  \/ s \in done[p] \cup {0} /\ UNCHANGED <<gameVars, up>>
         \/ s \in Stages \ done[p] /\ SetCurrentStage(p, s)
  BY DEF ScriptSetStage

(* The three things that come of a message. *)
LEMMA ReceiveIs ==
  ASSUME TypeOK, NEW p \in Players, Receive(p)
  PROVE  LET m == Head(down[p]) IN
         /\ down[p] # <<>> /\ down' = [down EXCEPT ![p] = Tail(@)] /\ m \in News
         /\ UNCHANGED <<members, log, moves, changes, owed, crossed, bare>>
         /\ \/ /\ m \in {Joined, Left} /\ inParty' = [inParty EXCEPT ![p] = m = Joined]
               /\ UNCHANGED <<running, done, up>>
            \/ /\ m \in QuestUpdate /\ m.status # "Stopped" /\ UNCHANGED inParty
               /\ \/ m.stage \in done[p] \cup {0} /\ UNCHANGED <<running, done, up>>
                  \/ m.stage \in Stages \ done[p] /\ SetCurrentStage(p, m.stage)
            \/ /\ m \in QuestUpdate /\ m.status = "Stopped" /\ UNCHANGED <<inParty, done, up>>
               /\ running' = [running EXCEPT ![p] = FALSE]
  <1> DEFINE m == Head(down[p])
  <1>1. down[p] # <<>> /\ down' = [down EXCEPT ![p] = Tail(@)]
    BY DEF Receive
  <1>2. m \in News
    BY <1>1, HeadOfDown
  <1>3. \/ /\ m.status \in {"Joined", "Left"}
           /\ inParty' = [inParty EXCEPT ![p] = m = Joined]
           /\ UNCHANGED <<gameVars, up>>
        \/ /\ m.status \in {"Started", "StageUpdate"}
           /\ ScriptSetStage(p, m.stage) /\ UNCHANGED inParty
        \/ /\ m.status = "Stopped"
           /\ StopQuest(p) /\ UNCHANGED inParty
    BY DEF Receive
  <1>4. UNCHANGED <<members, log, moves, changes, owed, crossed, bare>>
    BY DEF Receive, serverVars, bounds, history
  <1> HIDE DEF m
  <1>5. CASE m.status \in {"Joined", "Left"}
    BY <1>1, <1>2, <1>3, <1>4, <1>5, NewsAre DEF gameVars, m
  <1>6. CASE m.status \in {"Started", "StageUpdate"}
    <2>1. m \in QuestUpdate /\ m.stage \in Stages \cup {0}
      BY <1>2, <1>6, NewsAre
    <2>2. ScriptSetStage(p, m.stage) /\ UNCHANGED inParty
      BY <1>3, <1>6
    <2>3. \/ m.stage \in done[p] \cup {0} /\ UNCHANGED <<gameVars, up>>
          \/ m.stage \in Stages \ done[p] /\ SetCurrentStage(p, m.stage)
      BY <2>1, <2>2, ScriptIs
    <2> QED BY <1>1, <1>2, <1>4, <1>6, <2>1, <2>2, <2>3 DEF gameVars, m
  <1>7. CASE m.status = "Stopped"
    <2>1. m \in QuestUpdate
      BY <1>2, <1>7, NewsAre
    <2>2. StopQuest(p) /\ UNCHANGED inParty
      BY <1>3, <1>7
    <2> QED BY <1>1, <1>2, <1>4, <1>7, <2>1, <2>2 DEF StopQuest, m
  <1> QED BY <1>3, <1>5, <1>6, <1>7

LEMMA StartStopIs ==
  ASSUME TypeOK, NEW p \in Players, NEW status \in Statuses
  PROVE  LET m == StartStop(p, status)
         IN  /\ <<m>> \in Seq(QuestUpdate) /\ <<m>> # <<>> /\ Ending(<<m>>) = m /\ Elements(<<m>>) = {m}
             /\ m.status = status /\ m.stage \in done[p] \cup {0}
  <1> DEFINE m == StartStop(p, status)
  <1>1. m \in QuestUpdate /\ m.status = status /\ m.stage \in done[p] \cup {0}
    BY CurrentStageIs DEF QuestUpdate, StartStop
  <1> HIDE DEF m
  <1>2. <<m>> \in Seq(QuestUpdate) /\ <<m>> # <<>> /\ Ending(<<m>>) = m /\ Elements(<<m>>) = {m}
    BY <1>1 DEF Ending, Elements
  <1> QED BY <1>1, <1>2 DEF m

LEMMA TypeInit ==
  Init => TypeOK
  <1> SUFFICES ASSUME Init PROVE TypeOK
    OBVIOUS
  <1>1. MaxMoves \in Nat /\ MaxChanges \in Nat
    BY QuestsAssumption
  <1>2. moves \in 0..MaxMoves /\ changes \in 0..MaxChanges
    BY <1>1 DEF Init
  <1>3. up \in [Players -> Seq(QuestUpdate)] /\ down \in [Players -> Seq(QuestUpdate \cup {Joined, Left})]
    BY DEF Init
  <1>4. \A p \in Players : (p \in members) \in BOOLEAN
    OBVIOUS
  <1>5. inParty \in [Players -> BOOLEAN]
    BY <1>4 DEF Init
  <1>6. /\ log \in [Players -> Stages \cup {0, NoEntry}] /\ running \in [Players -> BOOLEAN]
        /\ done \in [Players -> SUBSET Stages] /\ owed \in [Players -> SUBSET Stages]
        /\ crossed \in BOOLEAN /\ bare \in BOOLEAN /\ members \subseteq Players
    BY DEF Init
  <1> QED BY <1>2, <1>3, <1>5, <1>6 DEF TypeOK

LEMMA TypeStep ==
  TypeOK /\ [Next]_vars => TypeOK'
  <1> SUFFICES ASSUME TypeOK, [Next]_vars PROVE TypeOK'
    OBVIOUS
  <1>0. MaxMoves \in Nat /\ MaxChanges \in Nat
    BY QuestsAssumption
  <1>1. ASSUME NEW p \in Players, NEW s \in Stages, GetOn(p, s) PROVE TypeOK'
    <2>1. SetCurrentStage(p, s) /\ moves' \in 0..MaxMoves
      BY <1>0, <1>1 DEF GetOn, TypeOK
    <2>2. /\ up' \in [Players -> Seq(QuestUpdate)]
          /\ done' \in [Players -> SUBSET Stages] /\ running' \in [Players -> BOOLEAN]
      BY <2>1, SetStageIs
    <2>3. crossed' \in BOOLEAN /\ bare' \in BOOLEAN
      BY <1>1 DEF GetOn, StopAbout, TypeOK
    <2> QED BY <1>1, <2>1, <2>2, <2>3 DEF GetOn, TypeOK, serverVars
  <1>2. ASSUME NEW p \in Players, Start(p) \/ Stop(p) PROVE TypeOK'
    <2>1. up' \in [Players -> Seq(QuestUpdate)]
      <3>1. ASSUME NEW status \in Statuses, Report(p, <<StartStop(p, status)>>)
            PROVE  up' \in [Players -> Seq(QuestUpdate)]
        BY <3>1, StartStopIs, ReportIs
      <3> QED BY <1>2, <3>1 DEF Start, Stop, Statuses
    <2>2. moves' \in 0..MaxMoves
      BY <1>0, <1>2 DEF Start, Stop, TypeOK
    <2>3. crossed' \in BOOLEAN /\ bare' \in BOOLEAN
      BY <1>2 DEF Start, Stop, StopAbout, Quiet, TypeOK
    <2>4. running' \in [Players -> BOOLEAN]
      BY <1>2 DEF Start, Stop, TypeOK
    <2> QED BY <1>2, <2>1, <2>2, <2>3, <2>4 DEF Start, Stop, TypeOK, serverVars
  <1>3. ASSUME NEW p \in Players, Receive(p) PROVE TypeOK'
    <2>1. down' \in [Players -> Seq(QuestUpdate \cup {Joined, Left})]
      BY <1>3, HeadOfDown DEF Receive, News
    <2>2. /\ inParty' \in [Players -> BOOLEAN] /\ running' \in [Players -> BOOLEAN]
          /\ done' \in [Players -> SUBSET Stages] /\ up' \in [Players -> Seq(QuestUpdate)]
      <3> DEFINE m == Head(down[p])
      <3>1. CASE m \in {Joined, Left} /\ inParty' = [inParty EXCEPT ![p] = m = Joined]
                 /\ UNCHANGED <<running, done, up>>
        BY <3>1 DEF TypeOK
      <3>2. CASE UNCHANGED inParty /\ UNCHANGED <<running, done, up>>
        BY <3>2 DEF TypeOK
      <3>3. CASE UNCHANGED inParty /\ m.stage \in Stages /\ SetCurrentStage(p, m.stage)
        <4>1. /\ up' \in [Players -> Seq(QuestUpdate)]
              /\ done' \in [Players -> SUBSET Stages] /\ running' \in [Players -> BOOLEAN]
          BY <3>3, SetStageIs
        <4> QED BY <3>3, <4>1 DEF TypeOK
      <3>4. CASE UNCHANGED <<inParty, done, up>> /\ running' = [running EXCEPT ![p] = FALSE]
        BY <3>4 DEF TypeOK
      <3> HIDE DEF m
      <3> QED BY <1>3, <3>1, <3>2, <3>3, <3>4, ReceiveIs DEF m
    <2>3. UNCHANGED <<members, log, moves, changes, owed, crossed, bare>>
      BY <1>3, ReceiveIs
    <2> QED BY <2>1, <2>2, <2>3 DEF TypeOK
  <1>4. ASSUME NEW p \in Players, OnQuestChanges(p) PROVE TypeOK'
    <2> DEFINE m == Head(up[p])
    <2>1. m \in QuestUpdate /\ up' \in [Players -> Seq(QuestUpdate)]
      BY <1>4, HeadOfUp DEF OnQuestChanges
    <2>2. /\ \/ UNCHANGED <<log, down, owed>>
             \/ /\ log' = [log EXCEPT ![p] = IF m.status = "Stopped" THEN NoEntry ELSE m.stage]
                /\ Tell(PassedOn(p), Passed(p, m))
                /\ owed' = [q \in Players |->
                     IF q \in Audience(p) /\ m.status # "Stopped" THEN owed[q] \cup ({m.stage} \ {0})
                                                                  ELSE owed[q]]
          /\ UNCHANGED <<members, inParty, running, done, moves, changes, crossed, bare>>
      BY <1>4 DEF OnQuestChanges, Passed, gameVars, bounds
    <2> HIDE DEF m
    <2>3. m.stage \in Stages \cup {0} /\ Passed(p, m) \in News
      BY <2>1, NewsAre, PassedIs
    <2>4. down' \in [Players -> Seq(QuestUpdate \cup {Joined, Left})]
      BY <2>2, <2>3, TellIs DEF TypeOK, News
    <2>5. log' \in [Players -> Stages \cup {0, NoEntry}]
      BY <2>2, <2>3 DEF TypeOK
    <2>6. owed' \in [Players -> SUBSET Stages]
      <3>1. CASE owed' = owed
        BY <3>1 DEF TypeOK
      <3>2. CASE owed' = [q \in Players |->
                     IF q \in Audience(p) /\ m.status # "Stopped" THEN owed[q] \cup ({m.stage} \ {0})
                                                                  ELSE owed[q]]
        <4>1. \A q \in Players : owed[q] \subseteq Stages
          BY DEF TypeOK
        <4> QED BY <2>3, <3>2, <4>1
      <3> QED BY <2>2, <3>1, <3>2
    <2> QED BY <2>1, <2>2, <2>4, <2>5, <2>6 DEF TypeOK
  <1>5. ASSUME NEW p \in Players, Enter(p) \/ Leave(p) PROVE TypeOK'
    <2>1. changes' \in 0..MaxChanges /\ members' \subseteq Players
      BY <1>0, <1>5 DEF Enter, Leave, TypeOK
    <2>2. down' \in [Players -> Seq(QuestUpdate \cup {Joined, Left})]
      <3>1. Joined \in News /\ Left \in News
        BY DEF News
      <3> QED BY <1>5, <3>1, TellIs DEF Enter, Leave, News
    <2> QED BY <1>5, <2>1, <2>2 DEF Enter, Leave, TypeOK, gameVars, history
  <1>6. CASE UNCHANGED vars
    BY <1>6 DEF vars, serverVars, gameVars, bounds, history, TypeOK
  <1> QED BY <1>1, <1>2, <1>3, <1>4, <1>5, <1>6 DEF Next

(* The types hold; a current stage is a stage of the quest. *)
THEOREM QuestTypes == Spec => []TypeOK
  BY TypeInit, TypeStep, PTL DEF Spec

-----------------------------------------------------------------------------
(* The log.                                                                *)

(* What the server knows of p's quest, and is told, is done in p's game.   *)
Known(p) ==
  /\ log[p] \in done[p] \cup {0, NoEntry}
  /\ \A m \in Elements(up[p]) : m.stage \in done[p] \cup {0}

(* Nobody has come or gone yet: clients know who is in the party, and only *)
(* members are told and tell anything.                                     *)
Lasting == changes = MaxChanges

Settled(p) ==
  /\ inParty[p] = (p \in members)
  /\ Joined \notin Elements(down[p]) /\ Left \notin Elements(down[p])
  /\ p \notin members => up[p] = <<>> /\ down[p] = <<>>

(* A quest that runs is in the log, or will be when all has arrived. *)
Noted(p) ==
  Shared /\ p \in members /\ running[p] =>
    IF up[p] = <<>> THEN log[p] # NoEntry ELSE Ending(up[p]).status # "Stopped"

LogInv == \A p \in Players : Known(p) /\ (Lasting => Settled(p) /\ Noted(p))

LEMMA LogInit ==
  Init => LogInv
  <1> SUFFICES ASSUME Init, NEW p \in Players PROVE Known(p) /\ Settled(p) /\ Noted(p)
    BY DEF LogInv
  <1>1. Elements(<<>>) = {}
    BY DEF Elements
  <1>2. /\ log[p] = NoEntry /\ up[p] = <<>> /\ down[p] = <<>> /\ running[p] = FALSE
        /\ inParty[p] = (p \in members)
    BY DEF Init
  <1> QED BY <1>1, <1>2 DEF Known, Settled, Noted

LEMMA LogStep ==
  TypeOK /\ LogInv /\ [Next]_vars => LogInv'
  <1> SUFFICES ASSUME TypeOK, LogInv, [Next]_vars, NEW q \in Players
               PROVE  Known(q)' /\ (Lasting' => Settled(q)' /\ Noted(q)')
    BY DEF LogInv
  <1>0. Known(q) /\ (Lasting => Settled(q) /\ Noted(q))
    BY DEF LogInv
  <1>1. ASSUME NEW p \in Players, NEW s \in Stages, SetCurrentStage(p, s),
               UNCHANGED <<members, log, inParty, changes>>,
               down' = down \/ (down[p] # <<>> /\ down' = [down EXCEPT ![p] = Tail(@)])
        PROVE  Known(q)' /\ (Lasting' => Settled(q)' /\ Noted(q)')
    <2>1. /\ Elements(down'[q]) \subseteq Elements(down[q])
          /\ q # p => down'[q] = down[q]
      <3>1. CASE down' = down
        BY <3>1
      <3>2. CASE down[p] # <<>> /\ down' = [down EXCEPT ![p] = Tail(@)]
        BY <3>2, HeadOfDown
      <3> QED BY <1>1, <3>1, <3>2
    <2>2. CASE q # p
      <3>1. done'[q] = done[q] /\ running'[q] = running[q] /\ up'[q] = up[q]
        BY <1>1, <2>2, SetStageIs
      <3> QED BY <1>0, <1>1, <2>1, <2>2, <3>1 DEF Known, Settled, Noted, Lasting
    <2>3. CASE q = p /\ inParty[p]
      <3>1. /\ done'[q] = done[q] \cup {s} /\ up'[q] # <<>> /\ Ending(up'[q]) = Stage(s)
            /\ Elements(up'[q]) = Elements(up[q]) \cup Elements(StageEvents(q, s))
        BY <1>1, <2>3, SetStageIs
      <3>2. \A m \in Elements(StageEvents(q, s)) : m.stage \in done[q] \cup {0, s}
        BY StageEventsAre
      <3>3. Stage(s).status = "StageUpdate"
        BY NewsAre
      <3>4. Known(q)'
        BY <1>0, <1>1, <3>1, <3>2 DEF Known
      <3>5. Lasting' => Settled(q)'
        BY <1>0, <1>1, <2>1, <2>3 DEF Settled, Lasting
      <3>6. Noted(q)'
        BY <3>1, <3>3 DEF Noted
      <3> QED BY <3>4, <3>5, <3>6
    <2>4. CASE q = p /\ ~inParty[p]
      <3>1. done'[q] = done[q] \cup {s} /\ up' = up
        BY <1>1, <2>4, SetStageIs
      <3>2. Known(q)'
        BY <1>0, <1>1, <3>1 DEF Known
      <3>3. ASSUME Lasting' PROVE q \notin members /\ Settled(q)
        BY <1>0, <1>1, <2>4, <3>3 DEF Lasting, Settled
      <3>4. Lasting' => Settled(q)'
        <4>1. q \notin members /\ down[q] = <<>> => down'[q] = <<>>
          BY <1>1, <2>4
        <4> QED BY <1>1, <2>1, <3>1, <3>3, <4>1 DEF Settled
      <3> QED BY <1>1, <3>2, <3>3, <3>4 DEF Noted
    <2> QED BY <2>2, <2>3, <2>4
  <1>2. ASSUME NEW p \in Players, NEW s \in Stages, GetOn(p, s)
        PROVE  Known(q)' /\ (Lasting' => Settled(q)' /\ Noted(q)')
    BY <1>1, <1>2 DEF GetOn, serverVars
  <1>3. ASSUME NEW p \in Players, Start(p) \/ Stop(p)
        PROVE  Known(q)' /\ (Lasting' => Settled(q)' /\ Noted(q)')
    <2>1. PICK status \in Statuses :
            /\ Report(p, <<StartStop(p, status)>>) /\ (status = "Stopped" => running'[p] = FALSE)
            /\ (q # p => running'[q] = running[q])
            /\ UNCHANGED <<members, log, inParty, done, down, changes>>
      <3>1. CASE Start(p)
        <4>1. "Started" \in Statuses /\ "Started" # "Stopped"
          BY DEF Statuses
        <4> QED BY <3>1, <4>1 DEF Start, TypeOK, serverVars
      <3>2. CASE Stop(p)
        <4>1. "Stopped" \in Statuses
          BY DEF Statuses
        <4> QED BY <3>2, <4>1 DEF Stop, TypeOK, serverVars
      <3> QED BY <1>3, <3>1, <3>2
    <2> DEFINE m == StartStop(p, status)
    <2>2. /\ <<m>> \in Seq(QuestUpdate) /\ <<m>> # <<>> /\ Ending(<<m>>) = m /\ Elements(<<m>>) = {m}
          /\ m.status = status /\ m.stage \in done[p] \cup {0}
      BY StartStopIs
    <2>3. Report(p, <<m>>)
      BY <2>1
    <2> HIDE DEF m
    <2>4. /\ q # p => up'[q] = up[q]
          /\ ~inParty[p] => up' = up
          /\ inParty[p] => /\ up'[p] # <<>> /\ Ending(up'[p]) = m
                           /\ Elements(up'[p]) = Elements(up[p]) \cup {m}
      BY <2>2, <2>3, ReportIs
    <2>5. CASE q # p
      BY <1>0, <2>1, <2>4, <2>5 DEF Known, Settled, Noted, Lasting
    <2>6. CASE q = p
      <3>1. Known(q)'
        BY <1>0, <2>1, <2>2, <2>4, <2>6 DEF Known
      <3>2. Lasting' => Settled(q)'
        BY <1>0, <2>1, <2>4, <2>6 DEF Lasting, Settled
      <3>3. ASSUME Lasting' PROVE Noted(q)'
        <4>1. inParty[p] = (p \in members)
          BY <1>0, <2>1, <2>6, <3>3 DEF Lasting, Settled
        <4> QED BY <2>1, <2>2, <2>4, <2>6, <4>1 DEF Noted
      <3> QED BY <3>1, <3>2, <3>3
    <2> QED BY <2>5, <2>6
  <1>4. ASSUME NEW p \in Players, Receive(p)
        PROVE  Known(q)' /\ (Lasting' => Settled(q)' /\ Noted(q)')
    <2> DEFINE m == Head(down[p])
    <2>1. /\ down[p] # <<>> /\ down' = [down EXCEPT ![p] = Tail(@)] /\ m \in News
          /\ UNCHANGED <<members, log, changes>>
          /\ \/ /\ m \in {Joined, Left} /\ inParty' = [inParty EXCEPT ![p] = m = Joined]
                /\ UNCHANGED <<running, done, up>>
             \/ /\ UNCHANGED inParty
                /\ \/ UNCHANGED <<running, done, up>>
                   \/ m.stage \in Stages \ done[p] /\ SetCurrentStage(p, m.stage)
             \/ /\ UNCHANGED <<inParty, done, up>>
                /\ running' = [running EXCEPT ![p] = FALSE]
      BY <1>4, ReceiveIs
    <2>2. /\ Elements(down[p]) = {m} \cup Elements(down'[p])
          /\ \A c \in Players : c # p => down'[c] = down[c]
      BY <2>1, HeadOfDown
    <2> HIDE DEF m
    <2>3. Elements(down'[q]) \subseteq Elements(down[q])
      BY <2>2
    <2>4. Lasting => p \in members
      BY <2>1 DEF LogInv, Settled
    <2>5. CASE m \in {Joined, Left} /\ UNCHANGED <<running, done, up>>
      <3>1. ~Lasting
        BY <2>2, <2>5 DEF LogInv, Settled
      <3> QED BY <1>0, <2>1, <2>5, <3>1 DEF Known, Lasting
    <2>6. CASE UNCHANGED <<inParty, running, done, up>>
      BY <1>0, <2>1, <2>2, <2>3, <2>4, <2>6 DEF Known, Settled, Noted, Lasting
    <2>7. CASE UNCHANGED inParty /\ m.stage \in Stages /\ SetCurrentStage(p, m.stage)
      BY <1>1, <2>1, <2>7
    <2>8. CASE UNCHANGED <<inParty, done, up>> /\ running' = [running EXCEPT ![p] = FALSE]
      <3>1. running'[q] => running[q]
        BY <2>8 DEF TypeOK
      <3> QED BY <1>0, <2>1, <2>2, <2>3, <2>4, <2>8, <3>1 DEF Known, Settled, Noted, Lasting
    <2> QED BY <2>1, <2>5, <2>6, <2>7, <2>8
  <1>5. ASSUME NEW p \in Players, OnQuestChanges(p)
        PROVE  Known(q)' /\ (Lasting' => Settled(q)' /\ Noted(q)')
    <2> DEFINE m == Head(up[p])
    <2>1. /\ up[p] # <<>> /\ UNCHANGED <<members, inParty, running, done, changes>>
          /\ \/ ~Shared /\ UNCHANGED <<log, down>>
             \/ /\ log' = [log EXCEPT ![p] = IF m.status = "Stopped" THEN NoEntry ELSE m.stage]
                /\ Tell(PassedOn(p), Passed(p, m))
      BY <1>5 DEF OnQuestChanges, Passed, gameVars, bounds
    <2>2. /\ m \in QuestUpdate /\ Elements(up[p]) = {m} \cup Elements(up'[p])
          /\ up'[p] # <<>> => Ending(up'[p]) = Ending(up[p])
          /\ up'[p] = <<>> => Ending(up[p]) = m
          /\ q # p => up'[q] = up[q]
      BY <1>5, HeadOfUp DEF OnQuestChanges
    <2> HIDE DEF m
    <2>3. m.stage \in Stages \cup {0} /\ Passed(p, m) \in News /\ Passed(p, m) \notin {Joined, Left}
      BY <2>2, NewsAre, PassedIs DEF QuestUpdate, Joined, Left, Statuses
    <2>4. Known(q)'
      <3>1. log'[q] \in done[q] \cup {0, NoEntry}
        BY <1>0, <2>1, <2>2 DEF Known, TypeOK
      <3> QED BY <1>0, <2>1, <2>2, <3>1 DEF Known
    <2>5. ASSUME Lasting' PROVE Settled(q)'
      <3>0. Lasting
        BY <2>1, <2>5 DEF Lasting
      <3>1. p \in members
        BY <2>1, <3>0 DEF LogInv, Settled
      <3>2. CASE UNCHANGED <<log, down>>
        BY <1>0, <2>1, <2>2, <3>0, <3>1, <3>2 DEF Settled
      <3>3. CASE Tell(PassedOn(p), Passed(p, m))
        <4>1. /\ q \in PassedOn(p) => Elements(down'[q]) = Elements(down[q]) \cup {Passed(p, m)}
              /\ q \notin PassedOn(p) => down'[q] = down[q]
          BY <2>3, <3>3, TellIs
        <4>2. q \in PassedOn(p) => q \in members
          BY DEF PassedOn, Audience
        <4> QED BY <1>0, <2>1, <2>2, <2>3, <3>0, <3>1, <4>1, <4>2 DEF Settled
      <3> QED BY <2>1, <3>2, <3>3
    <2>6. ASSUME Lasting' PROVE Noted(q)'
      <3>0. Lasting
        BY <2>1, <2>6 DEF Lasting
      <3>1. CASE q # p
        BY <1>0, <2>1, <2>2, <3>0, <3>1 DEF Noted, TypeOK
      <3>2. CASE q = p
        <4> SUFFICES ASSUME Shared, p \in members, running[p]
                     PROVE  IF up'[p] = <<>> THEN log'[p] # NoEntry ELSE Ending(up'[p]).status # "Stopped"
          BY <2>1, <3>2 DEF Noted
        <4>1. Ending(up[p]).status # "Stopped"
          BY <1>0, <2>1, <3>0, <3>2 DEF Noted
        <4>2. NoEntry \notin Stages \cup {0}
          <5>1. NoEntry \notin Nat /\ Stages \subseteq Nat
            BY QuestsAssumption
          <5>2. 0 \in Nat
            OBVIOUS
          <5> QED BY <5>1, <5>2
        <4>3. ASSUME up'[p] = <<>> PROVE log'[p] # NoEntry
          <5>1. m.status # "Stopped"
            BY <2>2, <4>1, <4>3
          <5>2. log'[p] = m.stage
            BY <2>1, <5>1 DEF TypeOK
          <5> QED BY <2>3, <4>2, <5>2
        <4> QED BY <2>2, <4>1, <4>3
      <3> QED BY <3>1, <3>2
    <2> QED BY <2>4, <2>5, <2>6
  <1>6. ASSUME NEW p \in Players, Enter(p) \/ Leave(p)
        PROVE  Known(q)' /\ (Lasting' => Settled(q)' /\ Noted(q)')
    <2>1. ~Lasting'
      <3>1. changes \in 0..MaxChanges /\ changes' = changes - 1 /\ MaxChanges \in Nat
        BY <1>6, QuestsAssumption DEF Enter, Leave, TypeOK
      <3> QED BY <3>1 DEF Lasting
    <2> QED BY <1>0, <1>6, <2>1 DEF Enter, Leave, gameVars, Known
  <1>7. CASE UNCHANGED vars
    BY <1>0, <1>7 DEF vars, serverVars, gameVars, bounds, history, Known, Settled, Noted, Lasting
  <1> QED BY <1>2, <1>3, <1>4, <1>5, <1>6, <1>7 DEF Next

(* A member's log at the server follows his game: it names a stage that is *)
(* done there, and as long as nobody came or went it has an entry for a    *)
(* quest he runs.                                                          *)
THEOREM LogsFollow == Spec => []LogFollows
  <1>1. Init => TypeOK /\ LogInv
    BY TypeInit, LogInit
  <1>2. TypeOK /\ LogInv /\ [Next]_vars => TypeOK' /\ LogInv'
    BY TypeStep, LogStep
  <1>3. TypeOK /\ LogInv => LogFollows
    BY DEF LogInv, LogFollows, Known, Noted, Lasting, Quiet, TypeOK
  <1> QED BY <1>1, <1>2, <1>3, PTL DEF Spec

-----------------------------------------------------------------------------
(* Agreement of the members.                                               *)

Brings(ms, s) == \E m \in ms : m.status # "Stopped" /\ m.stage = s

(* Of a stage that p has done and q has not, q will be told.               *)
Spreads(p, q) ==
  \A s \in done[p] \ done[q] :
    \/ Brings(Elements(down[q]), s)
    \/ \E r \in members \ {q} : Brings(Elements(up[r]), s)

(* All that is about are stops; those whose quest runs will hear of one.   *)
AllStops ==
  \A p \in Players : \A m \in Elements(up[p]) \cup Elements(down[p]) : m.status = "Stopped"

Halting == \A q \in members : running[q] => down[q] # <<>> \/ \E r \in members \ {q} : up[r] # <<>>

(* No stop is about: who does not have the quest running is ahead of       *)
(* nobody; if others have it running without a bare start, somebody is     *)
(* ahead of him.                                                           *)
NoStops ==
  \A p \in Players : \A m \in Elements(up[p]) \cup Elements(down[p]) : m.status # "Stopped"

Behind == \A p, q \in members : ~running[q] => done[q] \subseteq done[p]

Going ==
  /\ Behind
  /\ ~bare => \A p, q \in members :
               running[p] /\ ~running[q] => \E r \in members : ~(done[r] \subseteq done[q])

Calm == (AllStops /\ Halting) \/ (NoStops /\ Going)

AllSpread == \A p, q \in members : Spreads(p, q)

AgreeInv == Lasting /\ Shared => AllSpread /\ (~crossed => Calm)

LEMMA StopAboutIs ==
  StopAbout <=> ~NoStops
  BY DEF StopAbout, NoStops, Elements

LEMMA AgreeInit ==
  Init => AgreeInv
  <1> SUFFICES ASSUME Init PROVE AllSpread /\ Calm
    BY DEF AgreeInv
  <1>1. Elements(<<>>) = {}
    BY DEF Elements
  <1>2. \A p \in Players : up[p] = <<>> /\ down[p] = <<>> /\ done[p] = {} /\ running[p] = FALSE
    BY DEF Init
  <1>3. members \subseteq Players
    BY DEF Init
  <1> QED BY <1>1, <1>2, <1>3 DEF AllSpread, Spreads, Calm, NoStops, Going, Behind

(* When the last stop has been heard, nobody has the quest running.        *)
LEMMA StopsEnd ==
  TypeOK /\ AllStops /\ Halting /\ AllSpread /\ NoStops => Going
  <1> SUFFICES ASSUME TypeOK, AllStops, Halting, AllSpread, NoStops PROVE Going
    OBVIOUS
  <1>1. \A p \in Players : Elements(up[p]) = {} /\ Elements(down[p]) = {}
    BY DEF AllStops, NoStops
  <1>2. \A p \in Players : up[p] = <<>> /\ down[p] = <<>>
    <2> TAKE p \in Players
    <2>1. up[p] \in Seq(QuestUpdate) /\ down[p] \in Seq(News)
      BY DEF TypeOK, News
    <2> QED BY <1>1, <2>1, Empty
  <1>3. members \subseteq Players
    BY DEF TypeOK
  <1>4. \A p, q \in members : done[p] \subseteq done[q]
    BY <1>1, <1>3 DEF AllSpread, Spreads, Brings
  <1>5. \A q \in members : ~running[q]
    BY <1>2, <1>3 DEF Halting
  <1> QED BY <1>4, <1>5 DEF Going, Behind

(* p gets on in the quest, for himself or after another. *)
LEMMA GoesOn ==
  ASSUME TypeOK, LogInv, Lasting, AllSpread,
         NEW p \in Players, NEW s \in Stages \ done[p], SetCurrentStage(p, s), members' = members,
         \A q \in Players : /\ q # p => down'[q] = down[q]
                            /\ \A m \in Elements(down[q]) :
                                 m \in Elements(down'[q]) \/ m.stage = s \/ m.status = "Stopped"
  PROVE  /\ AllSpread' /\ (Going /\ (bare => bare' \/ p \in members) => Going')
         /\ p \in members /\ Behind => Going'
  <1>1. /\ done'[p] = done[p] \cup {s} /\ running'[p]
        /\ \A q \in Players : q # p => done'[q] = done[q] /\ running'[q] = running[q] /\ up'[q] = up[q]
        /\ ~inParty[p] => up' = up
        /\ inParty[p] => Elements(up'[p]) = Elements(up[p]) \cup Elements(StageEvents(p, s))
    BY SetStageIs
  <1>2. members \subseteq Players /\ (p \in members => inParty[p])
    BY DEF TypeOK, LogInv, Settled
  <1>3. \A q \in Players : Elements(up[q]) \subseteq Elements(up'[q])
    BY <1>1
  <1>4. p \in members => Brings(Elements(up'[p]), s)
    <2>1. Stage(s) \in Elements(StageEvents(p, s)) /\ Stage(s).status = "StageUpdate" /\ Stage(s).stage = s
      BY StageEventsAre, NewsAre
    <2> QED BY <1>1, <1>2, <2>1 DEF Brings
  <1>5. ASSUME NEW a \in members, NEW b \in members PROVE Spreads(a, b)'
    <2> SUFFICES ASSUME NEW x \in done'[a] \ done'[b]
                 PROVE  \/ Brings(Elements(down'[b]), x)
                        \/ \E r \in members \ {b} : Brings(Elements(up'[r]), x)
      BY DEF Spreads
    <2>0. a \in Players /\ b \in Players
      BY <1>2
    <2>1. x \notin done[b]
      BY <1>1, <2>0
    <2>2. CASE x \in done[a]
      <3>1. CASE Brings(Elements(down[b]), x)
        <4>1. PICK m \in Elements(down[b]) : m.status # "Stopped" /\ m.stage = x
          BY <3>1 DEF Brings
        <4>2. b = p => x # s
          BY <1>1
        <4>3. m \in Elements(down'[b])
          BY <2>0, <4>1, <4>2
        <4> QED BY <4>1, <4>3 DEF Brings
      <3>2. CASE \E r \in members \ {b} : Brings(Elements(up[r]), x)
        BY <1>2, <1>3, <3>2 DEF Brings
      <3> QED BY <2>1, <2>2, <3>1, <3>2 DEF AllSpread, Spreads
    <2>3. CASE x \notin done[a]
      <3>1. a = p /\ x = s /\ b # p
        BY <1>1, <2>0, <2>3
      <3> QED BY <1>4, <3>1
    <2> QED BY <2>2, <2>3
  <1>6. ASSUME Behind PROVE Behind'
    <2> SUFFICES ASSUME NEW a \in members, NEW b \in members, ~running'[b]
                 PROVE  done'[b] \subseteq done'[a]
      BY DEF Behind
    <2>1. b # p /\ done'[b] = done[b] /\ ~running[b] /\ done[a] \subseteq done'[a]
      BY <1>1, <1>2
    <2> QED BY <1>6, <2>1 DEF Behind
  <1>7. ASSUME Behind, p \in members, NEW b \in members, ~running'[b]
        PROVE  ~(done'[p] \subseteq done'[b])
    <2>1. b # p /\ done'[b] = done[b] /\ ~running[b]
      BY <1>1, <1>2, <1>7
    <2>2. done[b] \subseteq done[p]
      BY <1>7, <2>1 DEF Behind
    <2> QED BY <1>1, <2>1, <2>2
  <1>8. ASSUME Behind, p \in members PROVE Going'
    <2>1. \A b \in members' : ~running'[b] => \E r \in members' : ~(done'[r] \subseteq done'[b])
      BY <1>7, <1>8
    <2> QED BY <1>6, <1>8, <2>1 DEF Going
  <1>9. ASSUME Going, bare => bare', p \notin members PROVE Going'
    <2>1. Behind'
      BY <1>6, <1>9 DEF Going
    <2>2. \A q \in members : done'[q] = done[q] /\ running'[q] = running[q]
      BY <1>1, <1>2, <1>9
    <2>3. ASSUME ~bare', NEW a \in members, NEW b \in members, running'[a], ~running'[b]
          PROVE  \E r \in members : ~(done'[r] \subseteq done'[b])
      <3>1. PICK r \in members : ~(done[r] \subseteq done[b])
        BY <1>9, <2>2, <2>3 DEF Going
      <3> QED BY <2>2, <3>1
    <2> QED BY <2>1, <2>3 DEF Going
  <1> QED BY <1>5, <1>8, <1>9 DEF AllSpread, Going

LEMMA AgreeStep ==
  TypeOK /\ TypeOK' /\ LogInv /\ AgreeInv /\ [Next]_vars => AgreeInv'
  <1> SUFFICES ASSUME TypeOK, TypeOK', LogInv, AgreeInv, [Next]_vars, Lasting', Shared
               PROVE  AllSpread' /\ (~crossed' => Calm')
    BY DEF AgreeInv
  <1>0. members \subseteq Players
    BY DEF TypeOK
  <1>e. AllStops' /\ Halting' /\ AllSpread' => Calm'
    <2>1. TypeOK' /\ AllStops' /\ Halting' /\ AllSpread' /\ NoStops' => Going'
      BY StopsEnd, PTL
    <2> QED BY <2>1 DEF Calm
  <1>1. ASSUME NEW p \in Players, NEW s \in Stages, GetOn(p, s)
        PROVE  AllSpread' /\ (~crossed' => Calm')
    <2>1. /\ SetCurrentStage(p, s) /\ s \notin done[p] /\ crossed' = (crossed \/ StopAbout)
          /\ (bare => bare' \/ p \in members)
          /\ UNCHANGED <<members, inParty, down, changes>>
      BY <1>1 DEF GetOn, serverVars
    <2>2. Lasting /\ AllSpread /\ (~crossed => Calm)
      BY <2>1 DEF AgreeInv, Lasting
    <2>3. AllSpread' /\ (Going => Going')
      <3>1. AllSpread' /\ (Going /\ (bare => bare' \/ p \in members) => Going')
        BY <2>1, <2>2, GoesOn
      <3> QED BY <2>1, <3>1
    <2>4. ASSUME ~crossed' PROVE Calm'
      <3>1. NoStops
        BY <2>1, <2>4, StopAboutIs
      <3>2. Going
        BY <2>1, <2>2, <2>4, <3>1, StopsEnd DEF Calm
      <3>3. NoStops'
        <4>1. \A m \in Elements(StageEvents(p, s)) : m.status # "Stopped"
          BY StageEventsAre
        <4>2. /\ \A q \in Players : q # p => up'[q] = up[q]
              /\ \/ Elements(up'[p]) = Elements(up[p])
                 \/ Elements(up'[p]) = Elements(up[p]) \cup Elements(StageEvents(p, s))
          BY <2>1, SetStageIs DEF TypeOK
        <4> QED BY <2>1, <3>1, <4>1, <4>2 DEF NoStops
      <3> QED BY <2>3, <3>2, <3>3 DEF Calm
    <2> QED BY <2>3, <2>4
  <1>2. ASSUME NEW p \in Players, Stop(p)
        PROVE  AllSpread' /\ (~crossed' => Calm')
    <2> DEFINE m == StartStop(p, "Stopped")
    <2>1. /\ Report(p, <<m>>) /\ running'[p] = FALSE /\ bare' = (bare /\ p \notin members)
          /\ \A q \in Players : q # p => running'[q] = running[q]
          /\ crossed' = (crossed \/ ~Quiet) /\ UNCHANGED <<members, inParty, done, down, changes>>
      BY <1>2 DEF Stop, TypeOK, serverVars
    <2>2. <<m>> \in Seq(QuestUpdate) /\ <<m>> # <<>> /\ Elements(<<m>>) = {m} /\ m.status = "Stopped"
      <3>1. "Stopped" \in Statuses
        BY DEF Statuses
      <3> QED BY <3>1, StartStopIs
    <2> HIDE DEF m
    <2>3. /\ \A q \in Players : q # p => up'[q] = up[q]
          /\ ~inParty[p] => up' = up
          /\ inParty[p] => up'[p] # <<>> /\ Elements(up'[p]) = Elements(up[p]) \cup {m}
      BY <2>1, <2>2, ReportIs
    <2>4. Lasting /\ AllSpread /\ (~crossed => Calm) /\ (inParty[p] = (p \in members))
      BY <2>1 DEF AgreeInv, Lasting, LogInv, Settled
    <2>5. AllSpread'
      <3>1. \A q \in Players : Elements(up[q]) \subseteq Elements(up'[q])
        BY <2>3
      <3> QED BY <1>0, <2>1, <2>4, <3>1 DEF AllSpread, Spreads, Brings
    <2>6. ASSUME ~crossed' PROVE Calm'
      <3>1. Quiet /\ Calm
        BY <2>1, <2>4, <2>6
      <3>2. \A q \in Players : up[q] = <<>> /\ down[q] = <<>> /\ Elements(up[q]) = {} /\ Elements(down[q]) = {}
        BY <3>1 DEF Quiet, Elements
      <3>3. CASE p \in members
        <4>1. AllStops'
          BY <2>1, <2>2, <2>3, <2>4, <3>2, <3>3 DEF AllStops
        <4>2. Halting'
          BY <1>0, <2>1, <2>3, <2>4, <3>3 DEF Halting
        <4> QED BY <4>1, <4>2 DEF Calm
      <3>4. CASE p \notin members
        <4>1. NoStops /\ Going
          <5>1. NoStops
            BY <3>2 DEF NoStops
          <5> QED BY <2>4, <3>1, <5>1, StopsEnd DEF Calm
        <4>2. up' = up /\ down' = down
          BY <2>1, <2>3, <2>4, <3>4
        <4>3. NoStops'
          BY <4>1, <4>2 DEF NoStops
        <4>4. Going'
          <5>1. \A q \in members : running'[q] = running[q]
            BY <1>0, <2>1, <3>4
          <5> QED BY <2>1, <3>4, <4>1, <5>1 DEF Going, Behind
        <4> QED BY <4>3, <4>4 DEF Calm
      <3> QED BY <3>3, <3>4
    <2> QED BY <2>5, <2>6
  <1>3. ASSUME NEW p \in Players, Receive(p)
        PROVE  AllSpread' /\ (~crossed' => Calm')
    <2> DEFINE m == Head(down[p])
    <2>1. /\ down[p] # <<>> /\ down' = [down EXCEPT ![p] = Tail(@)]
          /\ UNCHANGED <<members, changes, crossed, bare>>
          /\ \/ m \in {Joined, Left}
             \/ m.status # "Stopped" /\ UNCHANGED <<running, done, up>> /\ m.stage \in done[p] \cup {0}
             \/ m.status # "Stopped" /\ m.stage \in Stages \ done[p] /\ SetCurrentStage(p, m.stage)
             \/ m.status = "Stopped" /\ UNCHANGED <<done, up>> /\ running' = [running EXCEPT ![p] = FALSE]
      BY <1>3, ReceiveIs
    <2>2. /\ Elements(down[p]) = {m} \cup Elements(down'[p])
          /\ \A q \in Players : q # p => down'[q] = down[q]
      BY <2>1, HeadOfDown
    <2> HIDE DEF m
    <2>3. /\ Lasting /\ AllSpread /\ (~crossed => Calm) /\ m \notin {Joined, Left}
          /\ (p \notin members => down[p] = <<>>)
      BY <2>1, <2>2 DEF AgreeInv, Lasting, LogInv, Settled
    <2>4. \A q \in Players : Elements(down'[q]) \subseteq Elements(down[q])
      BY <2>2
    <2>5. CASE m.status # "Stopped" /\ UNCHANGED <<running, done, up>> /\ m.stage \in done[p] \cup {0}
      <3>1. AllSpread'
        <4> SUFFICES ASSUME NEW a \in members, NEW b \in members, NEW x \in done[a] \ done[b]
                     PROVE  \/ Brings(Elements(down'[b]), x)
                            \/ \E r \in members \ {b} : Brings(Elements(up[r]), x)
          BY <2>1, <2>5 DEF AllSpread, Spreads
        <4>1. CASE Brings(Elements(down[b]), x)
          <5>1. PICK n \in Elements(down[b]) : n.status # "Stopped" /\ n.stage = x
            BY <4>1 DEF Brings
          <5>2. b = p => n # m
            <6>1. x \in Stages
              BY <1>0 DEF TypeOK
            <6>2. 0 \notin Stages
              BY QuestsAssumption
            <6> QED BY <2>5, <5>1, <6>1, <6>2
          <5>3. n \in Elements(down'[b])
            BY <1>0, <2>2, <5>1, <5>2
          <5> QED BY <5>1, <5>3 DEF Brings
        <4> QED BY <2>3, <4>1 DEF AllSpread, Spreads
      <3>2. ASSUME ~crossed' PROVE Calm'
        <4>1. ~AllStops
          BY <2>2, <2>5 DEF AllStops
        <4>2. NoStops /\ Going
          BY <2>1, <2>3, <3>2, <4>1 DEF Calm
        <4>3. NoStops' /\ Going'
          BY <2>1, <2>4, <2>5, <4>2 DEF NoStops, Going, Behind
        <4> QED BY <4>3 DEF Calm
      <3> QED BY <3>1, <3>2
    <2>6. CASE m.status # "Stopped" /\ m.stage \in Stages \ done[p] /\ SetCurrentStage(p, m.stage)
      <3>1. AllSpread' /\ (Going => Going')
        <4>1. \A q \in Players : /\ q # p => down'[q] = down[q]
                                 /\ \A n \in Elements(down[q]) :
                                      n \in Elements(down'[q]) \/ n.stage = m.stage \/ n.status = "Stopped"
          BY <2>2
        <4> QED BY <2>1, <2>3, <2>6, <4>1, GoesOn
      <3>2. ASSUME ~crossed' PROVE Calm'
        <4>1. ~AllStops
          BY <2>2, <2>6 DEF AllStops
        <4>2. NoStops /\ Going
          BY <2>1, <2>3, <3>2, <4>1 DEF Calm
        <4>3. NoStops'
          <5>1. \A n \in Elements(StageEvents(p, m.stage)) : n.status # "Stopped"
            BY <2>6, StageEventsAre
          <5>2. /\ \A q \in Players : q # p => up'[q] = up[q]
                /\ \/ Elements(up'[p]) = Elements(up[p])
                   \/ Elements(up'[p]) = Elements(up[p]) \cup Elements(StageEvents(p, m.stage))
            BY <2>6, SetStageIs DEF TypeOK
          <5> QED BY <2>4, <4>2, <5>1, <5>2 DEF NoStops
        <4> QED BY <3>1, <4>2, <4>3 DEF Calm
      <3> QED BY <3>1, <3>2
    <2>7. CASE m.status = "Stopped" /\ UNCHANGED <<done, up>> /\ running' = [running EXCEPT ![p] = FALSE]
      <3>1. AllSpread'
        <4>1. \A q \in Players : \A n \in Elements(down[q]) : n.status # "Stopped" => n \in Elements(down'[q])
          BY <2>2, <2>7
        <4> QED BY <1>0, <2>1, <2>3, <2>7, <4>1 DEF AllSpread, Spreads, Brings
      <3>2. ASSUME ~crossed' PROVE Calm'
        <4>1. ~NoStops
          BY <2>2, <2>7 DEF NoStops
        <4>2. AllStops /\ Halting
          BY <2>1, <2>3, <3>2, <4>1 DEF Calm
        <4>3. AllStops'
          BY <2>4, <2>7, <4>2 DEF AllStops
        <4>4. Halting'
          <5>1. \A q \in Players : running'[q] => q # p /\ running[q]
            BY <2>7 DEF TypeOK
          <5> QED BY <1>0, <2>1, <2>2, <2>7, <4>2, <5>1 DEF Halting
        <4> QED BY <1>e, <3>1, <4>3, <4>4
      <3> QED BY <3>1, <3>2
    <2> QED BY <2>1, <2>3, <2>5, <2>6, <2>7
  <1>4. ASSUME NEW p \in Players, OnQuestChanges(p)
        PROVE  AllSpread' /\ (~crossed' => Calm')
    <2> DEFINE m == Head(up[p])
    <2>1. /\ up[p] # <<>> /\ UNCHANGED <<members, running, done, changes, crossed, bare>>
          /\ Tell(PassedOn(p), Passed(p, m))
      BY <1>4 DEF OnQuestChanges, Passed, gameVars, bounds
    <2>2. /\ m \in QuestUpdate /\ Elements(up[p]) = {m} \cup Elements(up'[p])
          /\ \A q \in Players : q # p => up'[q] = up[q]
      BY <1>4, HeadOfUp DEF OnQuestChanges
    <2> HIDE DEF m
    <2>3. /\ Lasting /\ AllSpread /\ (~crossed => Calm) /\ p \in members
      BY <2>1 DEF AgreeInv, Lasting, LogInv, Settled
    <2>4. PassedOn(p) = members \ {p}
      BY <2>3 DEF PassedOn, Audience
    <2> DEFINE n == Passed(p, m)
    <2>5. n \in News /\ n.stage = m.stage /\ ((n.status = "Stopped") <=> (m.status = "Stopped"))
      BY <2>2, NewsAre, PassedIs
    <2> HIDE DEF n
    <2>6. \A q \in Players : /\ q \in members \ {p} => /\ down'[q] # <<>>
                                                        /\ Elements(down'[q]) = Elements(down[q]) \cup {n}
                             /\ q \notin members \ {p} => down'[q] = down[q]
      <3>1. Tell(members \ {p}, n)
        BY <2>1, <2>4 DEF n
      <3> QED BY <2>5, <3>1, TellIs
    <2>7. AllSpread'
      <3> SUFFICES ASSUME NEW a \in members, NEW b \in members, NEW x \in done[a] \ done[b]
                   PROVE  \/ Brings(Elements(down'[b]), x)
                          \/ \E r \in members \ {b} : Brings(Elements(up'[r]), x)
        BY <2>1 DEF AllSpread, Spreads
      <3>1. CASE Brings(Elements(down[b]), x)
        BY <1>0, <2>6, <3>1 DEF Brings
      <3>2. ASSUME NEW r \in members \ {b}, Brings(Elements(up[r]), x)
            PROVE  Brings(Elements(down'[b]), x) \/ Brings(Elements(up'[r]), x)
        <4>1. PICK l \in Elements(up[r]) : l.status # "Stopped" /\ l.stage = x
          BY <3>2 DEF Brings
        <4>2. CASE l \in Elements(up'[r])
          BY <4>1, <4>2 DEF Brings
        <4>3. CASE l \notin Elements(up'[r])
          <5>1. r = p /\ l = m
            BY <1>0, <2>2, <4>1, <4>3
          <5>2. n \in Elements(down'[b])
            BY <1>0, <2>6, <5>1
          <5> QED BY <2>5, <4>1, <5>1, <5>2 DEF Brings
        <4> QED BY <4>2, <4>3
      <3> QED BY <2>3, <3>1, <3>2 DEF AllSpread, Spreads
    <2>8. ASSUME ~crossed' PROVE Calm'
      <3>1. CASE m.status = "Stopped"
        <4>1. ~NoStops
          BY <2>2, <3>1 DEF NoStops
        <4>2. AllStops /\ Halting
          BY <2>1, <2>3, <2>8, <4>1 DEF Calm
        <4>3. AllStops'
          BY <2>2, <2>5, <2>6, <3>1, <4>2 DEF AllStops
        <4>4. Halting'
          <5> SUFFICES ASSUME NEW q \in members, running[q]
                       PROVE  down'[q] # <<>> \/ \E r \in members \ {q} : up'[r] # <<>>
            BY <2>1 DEF Halting
          <5>1. CASE q # p
            BY <1>0, <2>6, <5>1
          <5>2. CASE q = p
            BY <1>0, <2>2, <2>6, <4>2, <5>2 DEF Halting
          <5> QED BY <5>1, <5>2
        <4> QED BY <1>e, <2>7, <4>3, <4>4
      <3>2. CASE m.status # "Stopped"
        <4>1. ~AllStops
          BY <2>2, <3>2 DEF AllStops
        <4>2. NoStops /\ Going
          BY <2>1, <2>3, <2>8, <4>1 DEF Calm
        <4>3. NoStops'
          BY <2>2, <2>5, <2>6, <3>2, <4>2 DEF NoStops
        <4>4. Going'
          BY <2>1, <4>2 DEF Going, Behind
        <4> QED BY <4>3, <4>4 DEF Calm
      <3> QED BY <3>1, <3>2
    <2> QED BY <2>7, <2>8
  <1>5. ASSUME NEW p \in Players, Enter(p) \/ Leave(p)
        PROVE  FALSE
    <2>1. changes \in 0..MaxChanges /\ changes' = changes - 1 /\ MaxChanges \in Nat
      BY <1>5, QuestsAssumption DEF Enter, Leave, TypeOK
    <2> QED BY <2>1 DEF Lasting
  <1>6. CASE UNCHANGED vars
    <2>1. Lasting /\ AllSpread /\ (~crossed => Calm)
      BY <1>6 DEF AgreeInv, Lasting, vars, bounds
    <2> QED BY <1>6, <2>1 DEF vars, serverVars, gameVars, bounds, history,
              AllSpread, Spreads, Calm, AllStops, Halting, NoStops, Going, Behind
  <1>7. ASSUME NEW p \in Players, Start(p)
        PROVE  AllSpread' /\ (~crossed' => Calm')
    <2> DEFINE m == StartStop(p, "Started")
    <2>1. /\ Report(p, <<m>>) /\ running'[p] = TRUE /\ bare' = (bare \/ p \in members)
          /\ \A q \in Players : q # p => running'[q] = running[q]
          /\ crossed' = (crossed \/ StopAbout) /\ UNCHANGED <<members, inParty, done, down, changes>>
      BY <1>7 DEF Start, TypeOK, serverVars
    <2>2. <<m>> \in Seq(QuestUpdate) /\ <<m>> # <<>> /\ Elements(<<m>>) = {m} /\ m.status = "Started"
      <3>1. "Started" \in Statuses
        BY DEF Statuses
      <3> QED BY <3>1, StartStopIs
    <2> HIDE DEF m
    <2>3. /\ \A q \in Players : q # p => up'[q] = up[q]
          /\ ~inParty[p] => up' = up
          /\ inParty[p] => up'[p] # <<>> /\ Elements(up'[p]) = Elements(up[p]) \cup {m}
      BY <2>1, <2>2, ReportIs
    <2>4. Lasting /\ AllSpread /\ (~crossed => Calm) /\ (inParty[p] = (p \in members))
      BY <2>1 DEF AgreeInv, Lasting, LogInv, Settled
    <2>5. AllSpread'
      <3>1. \A q \in Players : Elements(up[q]) \subseteq Elements(up'[q])
        BY <2>3
      <3> QED BY <1>0, <2>1, <2>4, <3>1 DEF AllSpread, Spreads, Brings
    <2>6. ASSUME ~crossed' PROVE Calm'
      <3>1. NoStops
        BY <2>1, <2>6, StopAboutIs
      <3>2. Going
        BY <2>1, <2>4, <2>6, <3>1, StopsEnd DEF Calm
      <3>3. NoStops'
        BY <2>1, <2>2, <2>3, <3>1 DEF NoStops
      <3>4. Behind'
        <4>1. \A q \in members : ~running'[q] => ~running[q]
          BY <1>0, <2>1
        <4> QED BY <2>1, <3>2, <4>1 DEF Going, Behind
      <3>5. ASSUME ~bare' PROVE Going'
        <4>1. ~bare /\ p \notin members
          BY <2>1, <3>5
        <4>2. \A q \in members : running'[q] = running[q]
          BY <1>0, <2>1, <4>1
        <4> QED BY <2>1, <3>2, <3>4, <4>1, <4>2 DEF Going
      <3>6. bare' => Going'
        BY <3>4 DEF Going
      <3> QED BY <3>3, <3>5, <3>6 DEF Calm
    <2> QED BY <2>5, <2>6
  <1> QED BY <1>1, <1>2, <1>3, <1>4, <1>5, <1>6, <1>7 DEF Next

(* Members who have heard everything have done the same stages as long as  *)
(* nobody came or went, whatever crosses on the way, a quest that starts   *)
(* without a new stage included. They all have it running or none, unless  *)
(* a stop crossed with something else or such a start was the last thing   *)
(* a member did.                                                           *)
THEOREM TheMembersAgree == Spec => []MembersAgree
  <1>1. Init => TypeOK /\ LogInv /\ AgreeInv
    BY TypeInit, LogInit, AgreeInit
  <1>2. TypeOK /\ LogInv /\ AgreeInv /\ [Next]_vars => TypeOK' /\ LogInv' /\ AgreeInv'
    BY TypeStep, LogStep, AgreeStep
  <1>3. TypeOK /\ LogInv /\ AgreeInv => MembersAgree
    <2> SUFFICES ASSUME TypeOK, AgreeInv, Quiet, Lasting, Shared,
                        NEW p \in members, NEW q \in members
                 PROVE  /\ done[p] = done[q]
                        /\ ~crossed /\ ~bare => running[p] = running[q]
      BY DEF MembersAgree, Lasting
    <2>1. \A c \in Players : Elements(up[c]) = {} /\ Elements(down[c]) = {}
      BY DEF Quiet, Elements
    <2>2. members \subseteq Players /\ running \in [Players -> BOOLEAN]
      BY DEF TypeOK
    <2>3. NoStops
      BY <2>1 DEF NoStops
    <2>4. \A a, b \in members : done[a] \subseteq done[b]
      BY <2>1, <2>2 DEF AgreeInv, AllSpread, Spreads, Brings
    <2>5. done[p] = done[q]
      BY <2>4
    <2>6. ASSUME ~crossed, ~bare PROVE running[p] = running[q]
      <3>1. Going
        BY <2>3, <2>6, StopsEnd DEF AgreeInv, Calm
      <3>2. running[p] <=> running[q]
        BY <2>4, <2>6, <3>1 DEF Going
      <3>3. running[p] \in BOOLEAN /\ running[q] \in BOOLEAN
        BY <2>2
      <3> QED BY <3>2, <3>3
    <2> QED BY <2>5, <2>6
  <1> QED BY <1>1, <1>2, <1>3, PTL DEF Spec
-----------------------------------------------------------------------------
(* The shared clock.                                                       *)

-----------------------------------------------------------------------------
(* The calendar.                                                           *)

LEMMA MonthsAre ==
  \A m \in Nat : NumberOfDays(m) \in 28..31
  <1> SUFFICES ASSUME NEW m \in Nat PROVE NumberOfDays(m) \in 28..31
    OBVIOUS
  <1>1. m % 12 \in 0..11
    OBVIOUS
  <1> QED BY <1>1 DEF NumberOfDays, MonthLengths

(* The table that DaysBefore is. *)
LEMMA YearIs ==
  /\ DaysBefore[0] = 0 /\ DaysBefore[12] = 365
  /\ \A m \in 0..11 : DaysBefore[m] \in Nat /\ DaysBefore[m + 1] = DaysBefore[m] + NumberOfDays(m)
  <1> DEFINE table == <<0, 31, 59, 90, 120, 151, 181, 212, 243, 273, 304, 334, 365>>
             f == [m \in 0..12 |-> table[m + 1]]
  <1>1. \A m \in 1..12 : table[m + 1] = table[m] + NumberOfDays(m - 1)
    BY DEF NumberOfDays, MonthLengths
  <1>2. f = [m \in 0..12 |-> IF m = 0 THEN 0 ELSE f[m - 1] + NumberOfDays(m - 1)]
    BY <1>1
  <1> HIDE DEF f
  <1>3. DaysBefore = [m \in 0..12 |-> IF m = 0 THEN 0 ELSE DaysBefore[m - 1] + NumberOfDays(m - 1)]
    BY <1>2 DEF DaysBefore
  <1>4. DaysBefore[0] = 0
    BY <1>3
  <1>5. \A m \in 0..11 : DaysBefore[m + 1] = DaysBefore[m] + NumberOfDays(m)
    BY <1>3
  <1>6. /\ DaysBefore[1] = 31 /\ DaysBefore[2] = 59 /\ DaysBefore[3] = 90 /\ DaysBefore[4] = 120
        /\ DaysBefore[5] = 151 /\ DaysBefore[6] = 181 /\ DaysBefore[7] = 212 /\ DaysBefore[8] = 243
        /\ DaysBefore[9] = 273 /\ DaysBefore[10] = 304 /\ DaysBefore[11] = 334
        /\ DaysBefore[12] = 365
    BY <1>4, <1>5 DEF NumberOfDays, MonthLengths
  <1> QED BY <1>4, <1>5, <1>6

(* The days from the beginning of a year to day d of its month m, which    *)
(* may lie beyond the end of the year and the day beyond that of the month. *)
Days(d, m) == 365 * (m \div 12) + DaysBefore[m % 12] + d

LEMMA NextMonth ==
  ASSUME NEW m \in Nat, NEW d \in Int
  PROVE  Days(d - NumberOfDays(m), m + 1) = Days(d, m)
  <1> DEFINE q == m \div 12
             r == m % 12
  <1>1. q \in Nat /\ r \in 0..11 /\ m = 12 * q + r
    OBVIOUS
  <1>2. NumberOfDays(m) = NumberOfDays(r)
    <2>1. r % 12 = r
      BY <1>1
    <2> QED BY <2>1 DEF NumberOfDays
  <1>3. NumberOfDays(r) \in Int
    BY <1>1, MonthsAre
  <1> HIDE DEF q, r
  <1>4. CASE r < 11
    <2>1. (m + 1) \div 12 = q /\ (m + 1) % 12 = r + 1
      BY <1>1, <1>4
    <2>2. DaysBefore[r + 1] = DaysBefore[r] + NumberOfDays(r) /\ DaysBefore[r] \in Nat
      BY <1>1, YearIs
    <2> QED BY <1>1, <1>2, <1>3, <2>1, <2>2 DEF Days, q, r
  <1>5. CASE r = 11
    <2>1. (m + 1) \div 12 = q + 1 /\ (m + 1) % 12 = 0
      BY <1>1, <1>5
    <2>2. DaysBefore[11] + NumberOfDays(11) = 365 /\ DaysBefore[0] = 0 /\ DaysBefore[11] \in Nat
      BY YearIs
    <2> QED BY <1>1, <1>2, <1>3, <1>5, <2>1, <2>2 DEF Days, q, r
  <1> QED BY <1>1, <1>4, <1>5

-----------------------------------------------------------------------------
(* The carry is a function that is defined by recursion on the days. First *)
(* for days up to n, then for all.                                         *)

CarryStep(g, t, d, m) ==
  IF d > NumberOfDays(m) THEN g[d - NumberOfDays(m)][m + 1] ELSE WrapYear(t, d, m)

CarriesTo(g, t, n) == \A d \in 0..n : \A m \in Nat : g[d][m] = CarryStep(g, t, d, m)

LEMMA CarriesSome ==
  ASSUME NEW t
  PROVE  \A n \in Nat : \E g : CarriesTo(g, t, n)
  <1> DEFINE S == {n \in Nat : \E g : CarriesTo(g, t, n)}
  <1>1. 0 \in S
    <2> DEFINE g == [d \in Nat |-> [m \in Nat |-> WrapYear(t, d, m)]]
    <2>1. CarriesTo(g, t, 0)
      BY MonthsAre DEF CarriesTo, CarryStep
    <2> QED BY <2>1
  <1>2. ASSUME NEW n \in Nat, n \in S PROVE n + 1 \in S
    <2>1. PICK g : CarriesTo(g, t, n)
      BY <1>2
    <2> DEFINE h == [d \in Nat |-> [m \in Nat |-> IF d = n + 1 THEN CarryStep(g, t, d, m) ELSE g[d][m]]]
    <2>2. ASSUME NEW d \in 0..n + 1, NEW m \in Nat PROVE h[d][m] = CarryStep(h, t, d, m)
      <3>1. NumberOfDays(m) \in 28..31
        BY MonthsAre
      <3>2. CASE d > NumberOfDays(m)
        <4>1. d - NumberOfDays(m) \in 0..n
          BY <3>1, <3>2
        <4>2. h[d - NumberOfDays(m)][m + 1] = g[d - NumberOfDays(m)][m + 1]
          BY <4>1
        <4>3. CarryStep(h, t, d, m) = CarryStep(g, t, d, m)
          BY <3>2, <4>2 DEF CarryStep
        <4> HIDE DEF h
        <4>4. h[d][m] = CarryStep(g, t, d, m)
          BY <2>1 DEF CarriesTo, h
        <4> QED BY <4>3, <4>4
      <3>3. CASE ~(d > NumberOfDays(m))
        BY <2>1, <3>3 DEF CarriesTo, CarryStep
      <3> QED BY <3>2, <3>3
    <2>3. CarriesTo(h, t, n + 1)
      BY <2>2 DEF CarriesTo
    <2> QED BY <2>3
  <1> QED
    <2> HIDE DEF S
    <2>1. Nat \subseteq S
      BY <1>1, <1>2, Induction
    <2> QED BY <2>1 DEF S

LEMMA CarriesAlike ==
  ASSUME NEW t, NEW n \in Nat, NEW k \in Nat, NEW g, CarriesTo(g, t, n), NEW h, CarriesTo(h, t, k),
         NEW d \in 0..n, d <= k, NEW m \in Nat
  PROVE  g[d][m] = h[d][m]
  <1> DEFINE Alike(i) == i <= n /\ i <= k => \A j \in Nat : g[i][j] = h[i][j]
             S == {i \in Nat : \A e \in 0..i : Alike(e)}
  <1>1. 0 \in S
    BY MonthsAre DEF CarriesTo, CarryStep
  <1>2. ASSUME NEW i \in Nat, i \in S PROVE i + 1 \in S
    <2>1. ASSUME i + 1 <= n, i + 1 <= k, NEW j \in Nat PROVE g[i + 1][j] = h[i + 1][j]
      <3>1. NumberOfDays(j) \in 28..31
        BY MonthsAre
      <3>2. g[i + 1][j] = CarryStep(g, t, i + 1, j) /\ h[i + 1][j] = CarryStep(h, t, i + 1, j)
        BY <2>1 DEF CarriesTo
      <3>3. CASE i + 1 > NumberOfDays(j)
        <4>1. (i + 1) - NumberOfDays(j) \in 0..i
          BY <3>1, <3>3
        <4>2. g[(i + 1) - NumberOfDays(j)][j + 1] = h[(i + 1) - NumberOfDays(j)][j + 1]
          BY <1>2, <2>1, <4>1
        <4> QED BY <3>2, <3>3, <4>2 DEF CarryStep
      <3>4. CASE ~(i + 1 > NumberOfDays(j))
        BY <3>2, <3>4 DEF CarryStep
      <3> QED BY <3>3, <3>4
    <2>2. Alike(i + 1)
      BY <2>1
    <2> HIDE DEF Alike
    <2>3. \A e \in 0..i + 1 : e \in 0..i \/ e = i + 1
      OBVIOUS
    <2> QED BY <1>2, <2>2, <2>3
  <1>3. d \in S
    <2> HIDE DEF S
    <2> QED BY <1>1, <1>2, Induction
  <1> QED BY <1>3

LEMMA CarryExists ==
  ASSUME NEW t
  PROVE  \E f : f = [d \in Nat |-> [m \in Nat |-> CarryStep(f, t, d, m)]]
  <1> DEFINE G == [n \in Nat |-> CHOOSE g : CarriesTo(g, t, n)]
             f == [d \in Nat |-> [m \in Nat |-> G[d][d][m]]]
  <1>1. \A n \in Nat : CarriesTo(G[n], t, n)
    BY CarriesSome
  <1> HIDE DEF G
  <1>2. ASSUME NEW d \in Nat, NEW m \in Nat PROVE f[d][m] = CarryStep(f, t, d, m)
    <2>1. f[d][m] = CarryStep(G[d], t, d, m)
      BY <1>1 DEF CarriesTo
    <2>2. NumberOfDays(m) \in 28..31
      BY MonthsAre
    <2>3. CASE d > NumberOfDays(m)
      <3> DEFINE e == d - NumberOfDays(m)
      <3>1. e \in Nat /\ e <= d
        BY <2>2, <2>3
      <3> HIDE DEF e
      <3>2. G[d][e][m + 1] = G[e][e][m + 1]
        <4>1. CarriesTo(G[d], t, d) /\ CarriesTo(G[e], t, e)
          BY <1>1, <3>1
        <4>2. e \in 0..d /\ e <= e /\ m + 1 \in Nat
          BY <3>1
        <4>3. \A g, h : CarriesTo(g, t, d) /\ CarriesTo(h, t, e) => g[e][m + 1] = h[e][m + 1]
          BY <3>1, <4>2, CarriesAlike
        <4> QED BY <4>1, <4>3
      <3>3. f[e][m + 1] = G[e][e][m + 1]
        BY <3>1
      <3> HIDE DEF f
      <3> QED BY <2>1, <2>3, <3>2, <3>3 DEF CarryStep, e
    <2>4. CASE ~(d > NumberOfDays(m))
      BY <2>1, <2>4 DEF CarryStep
    <2> QED BY <2>3, <2>4
  <1>3. f = [d \in Nat |-> [m \in Nat |-> CarryStep(f, t, d, m)]]
    BY <1>2
  <1> QED BY <1>3

(* What every carry comes to: a day of the calendar, as many days after    *)
(* the beginning of year t.year as was asked for.                          *)
Carried(t, d, m, u) ==
  /\ u \in Clocks /\ u.scale = t.scale /\ u.time = t.time
  /\ 365 * u.year + DaysBefore[u.month] + u.day = 365 * t.year + Days(d, m)

LEMMA WrapsTo ==
  ASSUME NEW t \in Clocks, NEW d \in 0..31, NEW m \in Nat
  PROVE  Carried(t, d, m, WrapYear(t, d, m))
  <1> DEFINE u == WrapYear(t, d, m)
             k == m \div 12
             r == m % 12
  <1>1. m % 12 \in 0..11 /\ m \div 12 \in Nat
    OBVIOUS
  <1>2. /\ u = [scale |-> u.scale, time |-> u.time, day |-> u.day, month |-> u.month, year |-> u.year]
        /\ u.scale = t.scale /\ u.time = t.time /\ u.day = d /\ u.month = r
        /\ u.year = t.year + k
    <2>1. u = [t EXCEPT !.day = d, !.month = r, !.year = @ + k]
      BY DEF WrapYear
    <2>2. t = [scale |-> t.scale, time |-> t.time, day |-> t.day, month |-> t.month, year |-> t.year]
      BY DEF Clocks
    <2> HIDE DEF u, k, r
    <2> QED BY <2>1, <2>2
  <1>3. t.scale \in Scales /\ t.time \in 0..23 /\ t.year \in Nat
    BY DEF Clocks
  <1>4. DaysBefore[m % 12] \in Nat
    BY <1>1, YearIs
  <1> HIDE DEF u
  <1>5. u \in Clocks /\ u.scale = t.scale /\ u.time = t.time
    BY <1>1, <1>2, <1>3 DEF Clocks
  <1>6. 365 * u.year + DaysBefore[u.month] + u.day = 365 * t.year + Days(d, m)
    BY <1>1, <1>2, <1>3, <1>4 DEF Days
  <1> QED BY <1>5, <1>6 DEF Carried, u

LEMMA CarryRuns ==
  ASSUME NEW t \in Clocks, NEW f,
         \A d \in Nat : \A m \in Nat : f[d][m] = CarryStep(f, t, d, m)
  PROVE  \A d \in Nat : \A m \in Nat : Carried(t, d, m, f[d][m])
  <1> DEFINE S == {n \in Nat : \A d \in 0..n : \A m \in Nat : Carried(t, d, m, f[d][m])}
  <1>2. 0 \in S
    <2> SUFFICES ASSUME NEW m \in Nat PROVE Carried(t, 0, m, f[0][m])
      OBVIOUS
    <2>1. f[0][m] = WrapYear(t, 0, m)
      BY MonthsAre DEF CarryStep
    <2> QED BY <2>1, WrapsTo
  <1>3. ASSUME NEW n \in Nat, n \in S PROVE n + 1 \in S
    <2> SUFFICES ASSUME NEW m \in Nat PROVE Carried(t, n + 1, m, f[n + 1][m])
      <3>1. \A d \in 0..n + 1 : d \in 0..n \/ d = n + 1
        OBVIOUS
      <3>2. \A d \in 0..n + 1 : \A k \in Nat : Carried(t, d, k, f[d][k])
        BY <1>3, <3>1
      <3> QED BY <3>2
    <2>1. NumberOfDays(m) \in 28..31
      BY MonthsAre
    <2>2. CASE n + 1 > NumberOfDays(m)
      <3> DEFINE e == (n + 1) - NumberOfDays(m)
      <3>1. e \in 0..n
        BY <2>1, <2>2
      <3>2. f[n + 1][m] = f[e][m + 1]
        BY <2>1, <2>2 DEF CarryStep
      <3>3. Days(e, m + 1) = Days(n + 1, m)
        BY <2>1, NextMonth
      <3> HIDE DEF e
      <3>4. Carried(t, e, m + 1, f[e][m + 1])
        BY <1>3, <3>1
      <3> QED BY <3>2, <3>3, <3>4 DEF Carried
    <2>3. CASE ~(n + 1 > NumberOfDays(m))
      <3>1. f[n + 1][m] = WrapYear(t, n + 1, m) /\ n + 1 \in 0..31
        BY <2>1, <2>3 DEF CarryStep
      <3> QED BY <3>1, WrapsTo
    <2> QED BY <2>2, <2>3
  <1> HIDE DEF S
  <1>4. Nat \subseteq S
    BY <1>2, <1>3, Induction
  <1>5. \A d \in Nat : d \in S
    BY <1>4
  <1> QED
    <2> SUFFICES ASSUME NEW d \in Nat, NEW m \in Nat PROVE Carried(t, d, m, f[d][m])
      OBVIOUS
    <2>1. d \in 0..d
      OBVIOUS
    <2> QED BY <1>5, <2>1 DEF S

LEMMA CarryIs ==
  ASSUME NEW t \in Clocks, NEW days \in Nat
  PROVE  Carried(t, t.day + days, t.month, Carry(t, days))
  <1> DEFINE carry == CHOOSE f : f = [d \in Nat |-> [m \in Nat |-> CarryStep(f, t, d, m)]]
  <1>1. \A d \in Nat : \A m \in Nat : carry[d][m] = CarryStep(carry, t, d, m)
    <2>1. carry = [d \in Nat |-> [m \in Nat |-> CarryStep(carry, t, d, m)]]
      BY CarryExists
    <2> HIDE DEF carry
    <2> QED BY <2>1
  <1>2. Carry(t, days) = carry[t.day + days][t.month]
    BY DEF Carry, CarryStep
  <1> HIDE DEF carry
  <1>3. t.day + days \in Nat /\ t.month \in Nat
    BY DEF Clocks
  <1> QED BY <1>1, <1>2, <1>3, CarryRuns

(* The sums of the next lemma, for any numbers. *)
LEMMA HoursAdd ==
  ASSUME NEW p \in Nat, NEW q \in Nat, NEW days \in Nat, NEW x \in Nat, NEW y \in Nat, NEW h \in Nat,
         p = q + days, y + h = (24 * days) + x
  PROVE  24 * p + x = (24 * q + y) + h
  OBVIOUS

LEMMA DaysAdd ==
  ASSUME NEW a \in Nat, NEW b \in Nat, NEW c \in Nat, NEW x \in Nat, NEW y \in Nat, NEW z \in Nat,
         NEW days \in Nat, 365 * a + b + c = 365 * x + (365 * 0 + y + (z + days))
  PROVE  365 * a + b + c = (365 * x + y + z) + days
  OBVIOUS

(* Advancing a clock by h hours advances it by h hours, over every end of  *)
(* a day, a month and a year.                                              *)
LEMMA AdvanceIs ==
  ASSUME NEW t \in Clocks, NEW h \in Nat
  PROVE  /\ Advance(t, h) \in Clocks /\ Advance(t, h).scale = t.scale
         /\ Advance(t, h).time = (t.time + h) % 24
         /\ TimeInHours(t) \in Nat /\ TimeInHours(Advance(t, h)) = TimeInHours(t) + h
  <1> DEFINE s == [t EXCEPT !.time = (t.time + h) % 24]
             days == (t.time + h) \div 24
             u == Advance(t, h)
             n == t.time + h
  <1>1. t.time \in 0..23 /\ t.day \in 0..31 /\ t.month \in 0..11 /\ t.year \in Nat
    BY DEF Clocks
  <1>2. t.time + h = (24 * days) + ((t.time + h) % 24) /\ days \in Nat /\ (t.time + h) % 24 \in 0..23
    <2>1. n \in Nat
      BY <1>1
    <2> HIDE DEF n
    <2>2. n = (24 * (n \div 24)) + (n % 24) /\ n \div 24 \in Nat /\ n % 24 \in 0..23
      BY <2>1
    <2> QED BY <2>2 DEF n
  <1>3. s \in Clocks /\ s.scale = t.scale /\ s.time = (t.time + h) % 24 /\ s.day = t.day
        /\ s.month = t.month /\ s.year = t.year
    BY <1>2 DEF Clocks
  <1> HIDE DEF s, days
  <1>4. u = Carry(s, days)
    BY DEF Advance, s, days
  <1>5. Carried(s, t.day + days, t.month, u)
    <2>1. Carried(s, s.day + days, s.month, Carry(s, days))
      BY <1>2, <1>3, CarryIs
    <2> QED BY <1>3, <1>4, <2>1
  <1> HIDE DEF u
  <1>6. t.month \div 12 = 0 /\ t.month % 12 = t.month
    BY <1>1
  <1>7. DaysBefore[t.month] \in Nat
    BY <1>1, YearIs
  <1>8. u.day \in 0..31 /\ u.month \in 0..11 /\ u.year \in Nat /\ DaysBefore[u.month] \in Nat
    BY <1>5, YearIs DEF Carried, Clocks
  <1>9. u.time = (t.time + h) % 24
    BY <1>3, <1>5 DEF Carried
  <1>10. 365 * u.year + DaysBefore[u.month] + u.day = (365 * t.year + DaysBefore[t.month] + t.day) + days
    <2>1. Days(t.day + days, t.month) = 365 * 0 + DaysBefore[t.month] + (t.day + days)
      BY <1>6 DEF Days
    <2>2. 365 * u.year + DaysBefore[u.month] + u.day = 365 * s.year + Days(t.day + days, t.month)
      BY <1>5 DEF Carried
    <2>3. 365 * u.year + DaysBefore[u.month] + u.day
          = 365 * t.year + (365 * 0 + DaysBefore[t.month] + (t.day + days))
      BY <1>3, <2>1, <2>2
    <2>4. u.day \in Nat /\ t.day \in Nat
      BY <1>1, <1>8
    <2> QED BY <1>1, <1>2, <1>7, <1>8, <2>3, <2>4, DaysAdd
  <1>11. TimeInHours(u) = TimeInHours(t) + h /\ TimeInHours(t) \in Nat
    <2> DEFINE p == 365 * u.year + DaysBefore[u.month] + u.day
               q == 365 * t.year + DaysBefore[t.month] + t.day
    <2>1. p = q + days /\ q \in Nat /\ p \in Nat
      <3>1. p = q + days
        BY <1>10
      <3>2. u.day \in Nat /\ t.day \in Nat
        BY <1>1, <1>8
      <3> QED BY <1>1, <1>7, <1>8, <3>1, <3>2
    <2>2. TimeInHours(u) = 24 * p + u.time /\ TimeInHours(t) = 24 * q + t.time
      BY DEF TimeInHours
    <2> HIDE DEF p, q
    <2>3. u.time \in Nat /\ t.time \in Nat /\ t.time + h = (24 * days) + u.time /\ days \in Nat
      <3>1. t.time + h = (24 * days) + u.time /\ u.time \in 0..23
        BY <1>2, <1>9, Zenon
      <3>2. days \in Nat
        BY <1>2, Zenon
      <3>3. u.time \in Nat
        BY <3>1
      <3>4. t.time \in Nat
        BY <1>1
      <3> QED BY <3>1, <3>2, <3>3, <3>4, Zenon
    <2>4. 24 * p + u.time = (24 * q + t.time) + h
      BY <2>1, <2>3, HoursAdd
    <2> QED BY <2>1, <2>2, <2>3, <2>4
  <1> QED BY <1>3, <1>5, <1>9, <1>11 DEF Carried, u

LEMMA UpdateIs ==
  ASSUME NEW t \in Clocks, NEW ticks \in Nat
  PROVE  /\ Update(t, ticks) \in Clocks /\ Update(t, ticks).scale = t.scale
         /\ Update(t, ticks).time = (t.time + ticks * t.scale) % 24
         /\ TimeInHours(t) \in Nat /\ t.scale \in Nat
         /\ TimeInHours(Update(t, ticks)) = TimeInHours(t) + ticks * t.scale
  <1>1. t.scale \in Nat
    BY CalendarAssumption DEF Clocks
  <1>2. ticks * t.scale \in Nat
    BY <1>1
  <1> QED BY <1>1, <1>2, AdvanceIs DEF Update

LEMMA ClockSet ==
  ASSUME NEW t \in Clocks, NEW h \in 0..23, NEW s \in Scales,
         NEW d \in 0..31, NEW m \in 0..11, NEW y \in Nat
  PROVE  /\ [t EXCEPT !.time = h, !.scale = s] \in Clocks
         /\ [t EXCEPT !.scale = s, !.time = h] \in Clocks
         /\ [t EXCEPT !.day = d, !.month = m, !.year = y] \in Clocks
         /\ [t EXCEPT !.time = h, !.day = d, !.month = m, !.year = y] \in Clocks
         /\ [t EXCEPT !.scale = s] \in Clocks
  BY DEF Clocks

-----------------------------------------------------------------------------
(* Type correctness.                                                       *)

LEMMA Messages ==
  ASSUME NEW s \in Seq(Clocks), NEW t \in Clocks
  PROVE  /\ Append(s, t) \in Seq(Clocks) /\ Append(s, t) # <<>>
         /\ Append(s, t)[Len(Append(s, t))] = t
         /\ s # <<>> => /\ Head(s) \in Clocks /\ Tail(s) \in Seq(Clocks)
                        /\ Tail(s) = <<>> => Head(s) = s[Len(s)]
                        /\ Tail(s) # <<>> => Tail(s)[Len(Tail(s))] = s[Len(s)]
  <1>1. Append(s, t) \in Seq(Clocks) /\ Append(s, t) # <<>> /\ Append(s, t)[Len(Append(s, t))] = t
    BY AppendProperties
  <1>2. ASSUME s # <<>>
        PROVE  /\ Head(s) \in Clocks /\ Tail(s) \in Seq(Clocks)
               /\ Tail(s) = <<>> => Head(s) = s[Len(s)]
               /\ Tail(s) # <<>> => Tail(s)[Len(Tail(s))] = s[Len(s)]
    <2>1. Len(s) \in Nat /\ Len(s) >= 1
      BY <1>2, EmptySeq
    <2>2. Head(s) = s[1] /\ Head(s) \in Clocks
      BY <2>1
    <2>3. /\ Tail(s) \in Seq(Clocks) /\ Len(Tail(s)) = Len(s) - 1
          /\ \A i \in 1..Len(s) - 1 : Tail(s)[i] = s[i + 1]
      BY <2>1, <1>2, HeadTailProperties
    <2>4. ASSUME Tail(s) = <<>> PROVE Head(s) = s[Len(s)]
      <3>1. Len(Tail(s)) = 0
        BY <2>3, <2>4, EmptySeq
      <3>2. Len(s) - 1 = 0
        BY <2>3, <3>1
      <3>3. Len(s) = 1
        BY <2>1, <3>2
      <3> QED BY <2>2, <3>3
    <2>5. ASSUME Tail(s) # <<>> PROVE Tail(s)[Len(Tail(s))] = s[Len(s)]
      <3>1. Len(Tail(s)) # 0
        BY <2>3, <2>5, EmptySeq
      <3>2. Len(s) - 1 \in 1..Len(s) - 1
        BY <2>1, <2>3, <3>1
      <3> QED BY <2>1, <2>3, <3>2
    <2> QED BY <2>2, <2>3, <2>4, <2>5
  <1> QED BY <1>1, <1>2

LEMMA Sends ==
  ASSUME ClockTypes, NEW t \in Clocks, NEW audience, NEW missed, SendClock(t, audience, missed)
  PROVE  /\ toClient' \in [Clients -> Seq(Clocks)]
         /\ astray' \in [Clients -> SUBSET {"refused", "unloaded", "late"}]
         /\ \A c \in Clients :
              /\ c \in audience => toClient'[c] # <<>> /\ toClient'[c][Len(toClient'[c])] = t
              /\ c \notin audience => /\ toClient'[c] = toClient[c]
                                      /\ c \in missed => "unloaded" \in astray'[c]
                                      /\ c \notin missed => astray'[c] = astray[c]
  <1>1. \A c \in Clients : toClient[c] \in Seq(Clocks)
    BY DEF ClockTypes
  <1>2. ASSUME NEW c \in Clients
        PROVE  /\ Append(toClient[c], t) \in Seq(Clocks) /\ Append(toClient[c], t) # <<>>
               /\ Append(toClient[c], t)[Len(Append(toClient[c], t))] = t
    BY <1>1, Messages
  <1>3. toClient' \in [Clients -> Seq(Clocks)]
    BY <1>1, <1>2 DEF SendClock
  <1>4. astray' \in [Clients -> SUBSET {"refused", "unloaded", "late"}]
    BY DEF SendClock, ClockTypes
  <1>5. ASSUME NEW c \in Clients
        PROVE  /\ c \in audience => toClient'[c] # <<>> /\ toClient'[c][Len(toClient'[c])] = t
               /\ c \notin audience => /\ toClient'[c] = toClient[c]
                                       /\ c \in missed => "unloaded" \in astray'[c]
                                       /\ c \notin missed => astray'[c] = astray[c]
    BY <1>2 DEF SendClock
  <1> QED BY <1>3, <1>4, <1>5

(* A client's last update is not in the future. *)
Timely == now >= 1 /\ \A c \in Clients : last[c] <= now

LEMMA Elapsed ==
  ASSUME ClockTypes, Timely, NEW c \in Clients, NEW t \in {now, now + 1}
  PROVE  /\ LastTick(c, t) \in Nat /\ t - LastTick(c, t) \in Nat
         /\ last[c] = now => t - LastTick(c, t) = t - now
  BY DEF ClockTypes, Timely, LastTick

LEMMA Adopts ==
  ASSUME NEW t \in Clocks, NEW m \in Clocks
  PROVE  /\ Adopt(t, m) \in Clocks /\ Adopt(t, m).scale = m.scale /\ Adopt(t, m).time = m.time
         /\ SyncPlayerCalendar => Adopt(t, m) = m
  BY DEF Adopt, Clocks

LEMMA ClockTypesInit ==
  ClockInit => ClockTypes /\ Timely
  <1> SUFFICES ASSUME ClockInit PROVE ClockTypes /\ Timely
    OBVIOUS
  <1>1. clock \in Clocks
    BY DEF ClockInit, Clocks
  <1>2. <<>> \in Seq(Clocks)
    OBVIOUS
  <1>3. game \in [Clients -> Clocks]
    BY CalendarAssumption DEF ClockInit
  <1>4. toClient \in [Clients -> Seq(Clocks)] /\ toServer \in [Clients -> Seq(Clocks)]
    BY <1>2 DEF ClockInit
  <1>5. /\ acts \in 0..MaxActs /\ first \in BOOLEAN /\ now \in Nat
        /\ loaded \subseteq connected /\ connected \subseteq Clients
    <2>1. MaxActs \in Nat
      BY CalendarAssumption
    <2>2. acts = 0 /\ first = FALSE /\ now = 1 /\ loaded = {} /\ connected = {}
      BY DEF ClockInit
    <2>3. acts \in 0..MaxActs
      BY <2>1, <2>2
    <2>4. first \in BOOLEAN /\ loaded \subseteq connected /\ connected \subseteq Clients
      BY <2>2
    <2> QED BY <2>2, <2>3, <2>4
  <1>6. /\ last \in [Clients -> Nat] /\ before \in [Clients -> Nat]
        /\ locked \in [Clients -> BOOLEAN] /\ sleeping \in [Clients -> BOOLEAN]
        /\ astray \in [Clients -> SUBSET {"refused", "unloaded", "late"}]
    BY DEF ClockInit
  <1>7. Timely
    BY DEF ClockInit, Timely
  <1> QED BY <1>1, <1>3, <1>4, <1>5, <1>6, <1>7 DEF ClockTypes

LEMMA ClockTypesSet ==
  ASSUME ClockTypes, NEW t \in Clocks, SetClock(t)
  PROVE  /\ clock' \in Clocks /\ toClient' \in [Clients -> Seq(Clocks)]
         /\ astray' \in [Clients -> SUBSET {"refused", "unloaded", "late"}]
  BY Sends DEF SetClock

(* What a player who joins makes of the clock. *)
Joining(c) ==
  [clock EXCEPT !.time = IF first THEN @ ELSE game[c].time,
                !.day = game[c].day, !.month = game[c].month, !.year = game[c].year]

LEMMA JoinedIs ==
  ASSUME ClockTypes, NEW c \in Clients
  PROVE  /\ Joining(c) \in Clocks
         /\ Joining(c).time = IF first THEN clock.time ELSE game[c].time
         /\ Joining(c).day = game[c].day /\ Joining(c).month = game[c].month
         /\ Joining(c).year = game[c].year
  BY DEF Joining, Clocks, ClockTypes

LEMMA ClockTypesStep ==
  ClockTypes /\ Timely /\ [ClockNext]_clockVars => ClockTypes' /\ Timely'
  <1> SUFFICES ASSUME ClockTypes, Timely, [ClockNext]_clockVars PROVE ClockTypes' /\ Timely'
    OBVIOUS
  <1>1. CASE OnUpdate
    <2>1. clock' \in Clocks
      BY <1>1, UpdateIs DEF OnUpdate, ServerUpdate, ClockTypes
    <2>2. \A c \in Clients : Update(game[c], IF locked[c] THEN now' - LastTick(c, now') ELSE 1) \in Clocks
      <3> TAKE c \in Clients
      <3>1. now' - LastTick(c, now') \in Nat
        BY <1>1, Elapsed DEF OnUpdate
      <3> QED BY <3>1, UpdateIs DEF ClockTypes
    <2>3. game' \in [Clients -> Clocks]
      BY <1>1, <2>2 DEF OnUpdate
    <2> QED BY <1>1, <2>1, <2>3 DEF OnUpdate, ClockTypes, Timely
  <1>2. ASSUME NEW h \in Hours, NEW s \in Scales, SetTime(h, s) PROVE ClockTypes' /\ Timely'
    <2> DEFINE t == [clock EXCEPT !.time = h, !.scale = s]
    <2>1. t \in Clocks
      BY CalendarAssumption DEF ClockTypes, Clocks
    <2> HIDE DEF t
    <2>2. SetClock(t)
      BY <1>2 DEF SetTime, t
    <2> QED BY <1>2, <2>1, <2>2, ClockTypesSet, CalendarAssumption
            DEF SetTime, Act, ClockTypes, Timely, clientVars
  <1>3. ASSUME NEW d \in Dates, SetDate(d) PROVE ClockTypes' /\ Timely'
    <2> DEFINE t == [clock EXCEPT !.day = d.day, !.month = d.month, !.year = d.year]
    <2>1. d.day \in 0..31 /\ d.month \in 0..11 /\ d.year \in Nat
      <3>1. d.day \in Nat /\ d.month \in Nat /\ d.year \in Nat
        BY CalendarAssumption
      <3>2. NumberOfDays(d.month) \in 28..31
        BY <3>1, MonthsAre
      <3> QED BY <1>3, <3>1, <3>2 DEF SetDate
    <2>2. t \in Clocks
      BY <2>1 DEF ClockTypes, Clocks
    <2> HIDE DEF t
    <2>3. SetClock(t)
      BY <1>3 DEF SetDate, t
    <2> QED BY <1>3, <2>2, <2>3, ClockTypesSet, CalendarAssumption
            DEF SetDate, Act, ClockTypes, Timely, clientVars
  <1>4. ASSUME NEW c \in Clients, OnPlayerJoin(c) PROVE ClockTypes' /\ Timely'
    <2>1. Joining(c) \in Clocks
      BY JoinedIs
    <2>2. \/ clock' = Joining(c) /\ first' = TRUE /\ SendClock(Joining(c), connected', {})
          \/ UNCHANGED <<clock, first>> /\ SendClock(clock, {c}, {})
      BY <1>4 DEF OnPlayerJoin, Joining
    <2>3. /\ clock' \in Clocks /\ first' \in BOOLEAN /\ toClient' \in [Clients -> Seq(Clocks)]
          /\ astray' \in [Clients -> SUBSET {"refused", "unloaded", "late"}]
      BY <2>1, <2>2, Sends DEF ClockTypes
    <2> QED BY <1>4, <2>3, CalendarAssumption DEF OnPlayerJoin, Act, ClockTypes, Timely, clientVars
  <1>5. ASSUME NEW c \in Clients, EnterCell(c) PROVE ClockTypes' /\ Timely'
    BY <1>5 DEF EnterCell, ClockTypes, Timely, clientVars
  <1>6. ASSUME NEW c \in Clients, OnSleepTimeRequest(c) PROVE ClockTypes' /\ Timely'
    <2> DEFINE t == [Head(toServer[c]) EXCEPT !.scale = clock.scale]
    <2>1. toServer[c] \in Seq(Clocks) /\ toServer[c] # <<>>
      BY <1>6 DEF OnSleepTimeRequest, ClockTypes
    <2>2. Head(toServer[c]) \in Clocks /\ Tail(toServer[c]) \in Seq(Clocks)
      BY <2>1, Messages
    <2>3. t \in Clocks
      BY <2>2 DEF ClockTypes, Clocks
    <2> HIDE DEF t
    <2>4. toServer' \in [Clients -> Seq(Clocks)]
      BY <1>6, <2>2 DEF OnSleepTimeRequest, ClockTypes
    <2>5. \/ SendClock(clock, {c}, {}) /\ UNCHANGED clock
          \/ SetClock(t)
          \/ astray' = [astray EXCEPT ![c] = @ \cup {"refused"}] /\ UNCHANGED <<clock, toClient>>
      BY <1>6 DEF OnSleepTimeRequest, t
    <2>6. /\ clock' \in Clocks /\ toClient' \in [Clients -> Seq(Clocks)]
          /\ astray' \in [Clients -> SUBSET {"refused", "unloaded", "late"}]
      BY <2>3, <2>5, Sends, ClockTypesSet DEF ClockTypes
    <2> QED BY <1>6, <2>4, <2>6 DEF OnSleepTimeRequest, ClockTypes, Timely, clientVars
  <1>7. ASSUME NEW c \in Clients, OnDisconnected(c) PROVE ClockTypes' /\ Timely'
    <2>1. <<>> \in Seq(Clocks)
      OBVIOUS
    <2> QED BY <1>7, <2>1, CalendarAssumption DEF OnDisconnected, Act, ClockTypes, Timely
  <1>8. ASSUME NEW c \in Clients, OnTimeUpdate(c) PROVE ClockTypes' /\ Timely'
    <2> DEFINE t == Adopt(game[c], Head(toClient[c]))
               u == Update(t, now - LastTick(c, now))
    <2>1. Head(toClient[c]) \in Clocks /\ Tail(toClient[c]) \in Seq(Clocks)
      BY <1>8, Messages DEF OnTimeUpdate, ClockTypes
    <2>2. t \in Clocks
      BY <2>1, Adopts DEF ClockTypes
    <2> HIDE DEF t
    <2>3. u \in Clocks
      BY <2>2, Elapsed, UpdateIs
    <2> HIDE DEF u
    <2>4. game' = [game EXCEPT ![c] = u]
      BY <1>8 DEF OnTimeUpdate, t, u
    <2>5. astray' \in [Clients -> SUBSET {"refused", "unloaded", "late"}]
      BY <1>8 DEF OnTimeUpdate, ClockTypes
    <2> QED BY <1>8, <2>1, <2>3, <2>4, <2>5 DEF OnTimeUpdate, ClockTypes, Timely, serviceVars
  <1>9. ASSUME NEW c \in Clients, SleepBegins(c) PROVE ClockTypes' /\ Timely'
    <2>1. TimeInHours(game[c]) \in Nat
      BY AdvanceIs DEF ClockTypes
    <2> QED BY <1>9, <2>1, CalendarAssumption DEF SleepBegins, Act, ClockTypes, Timely, serviceVars
  <1>10. ASSUME NEW c \in Clients, NEW h \in Sleeps \cup {0}, SleepEnds(c, h) PROVE ClockTypes' /\ Timely'
    <2> DEFINE u == Advance(game[c], h)
    <2>1. u \in Clocks
      BY AdvanceIs, CalendarAssumption DEF ClockTypes
    <2> HIDE DEF u
    <2>2. Append(toServer[c], u) \in Seq(Clocks)
      BY <2>1, Messages DEF ClockTypes
    <2>3. /\ game' = [game EXCEPT ![c] = u]
          /\ toServer' = [toServer EXCEPT ![c] = Append(@, u)] \/ toServer' = toServer
      BY <1>10 DEF SleepEnds, u
    <2> QED BY <1>10, <2>1, <2>2, <2>3 DEF SleepEnds, ClockTypes, Timely, serviceVars
  <1>11. CASE UNCHANGED clockVars
    BY <1>11 DEF clockVars, serviceVars, clientVars, ClockTypes, Timely
  <1> QED BY <1>1, <1>2, <1>3, <1>4, <1>5, <1>6, <1>7, <1>8, <1>9, <1>10, <1>11 DEF ClockNext, Commanded

(* The types hold on both sides, for every date the games may bring: the   *)
(* carry of DateTime leaves no month without its day.                      *)
THEOREM CalendarTypes == ClockSpec => []ClockTypes
  <1>1. ClockSpec => [](ClockTypes /\ Timely)
    BY ClockTypesInit, ClockTypesStep, PTL DEF ClockSpec
  <1> QED BY <1>1, PTL

-----------------------------------------------------------------------------
(* The clock.                                                              *)

(* The clocks of two dates, in hours, whatever the hour of the second. *)
LEMMA Later ==
  ASSUME NEW t \in Clocks, NEW g \in Clocks, TimeInHours(g) > TimeInHours(t),
         NEW u \in Clocks, u.day = g.day, u.month = g.month, u.year = g.year,
         u.time = t.time \/ u.time = g.time
  PROVE  TimeInHours(u) >= TimeInHours(t)
  <1> DEFINE D(x) == 365 * x.year + DaysBefore[x.month] + x.day
  <1>1. ASSUME NEW x \in Clocks
        PROVE  D(x) \in Nat /\ x.time \in 0..23 /\ TimeInHours(x) = 24 * D(x) + x.time
    <2>1. x.year \in Nat /\ x.month \in 0..11 /\ x.day \in 0..31 /\ x.time \in 0..23
      BY DEF Clocks
    <2>2. DaysBefore[x.month] \in Nat
      BY <2>1, YearIs
    <2> QED BY <2>1, <2>2 DEF TimeInHours
  <1>2. D(u) = D(g)
    OBVIOUS
  <1> HIDE DEF D
  <1>3. /\ D(t) \in Nat /\ t.time \in 0..23 /\ TimeInHours(t) = 24 * D(t) + t.time
        /\ D(g) \in Nat /\ g.time \in 0..23 /\ TimeInHours(g) = 24 * D(g) + g.time
        /\ D(u) \in Nat /\ u.time \in 0..23 /\ TimeInHours(u) = 24 * D(u) + u.time
    BY <1>1
  <1> QED BY <1>2, <1>3

LEMMA ForwardStep ==
  ClockTypes /\ Timely /\ [ClockNext]_clockVars
    => [Commanded \/ TimeInHours(clock') >= TimeInHours(clock)]_clock
  <1> SUFFICES ASSUME ClockTypes, Timely, ClockNext, clock' # clock, ~Commanded
               PROVE  TimeInHours(clock') >= TimeInHours(clock)
    BY DEF clockVars, serviceVars
  <1>0. TimeInHours(clock) \in Nat
    BY AdvanceIs DEF ClockTypes
  <1>1. CASE OnUpdate
    <2>1. /\ TimeInHours(Update(clock, 1)) = TimeInHours(clock) + 1 * clock.scale
          /\ clock.scale \in Nat
      BY UpdateIs DEF ClockTypes
    <2> QED BY <1>0, <1>1, <2>1 DEF OnUpdate, ServerUpdate
  <1>2. ASSUME NEW c \in Clients, OnPlayerJoin(c) PROVE TimeInHours(clock') >= TimeInHours(clock)
    <2>1. clock' = Joining(c) /\ Furthest(game[c])
      BY <1>2 DEF OnPlayerJoin, Joining
    <2>2. game[c] \in Clocks /\ clock \in Clocks
      BY DEF ClockTypes
    <2>3. TimeInHours(game[c]) > TimeInHours(clock)
      BY <2>1 DEF Furthest
    <2> QED BY <2>1, <2>2, <2>3, JoinedIs, Later
  <1>3. ASSUME NEW c \in Clients, OnSleepTimeRequest(c) PROVE TimeInHours(clock') >= TimeInHours(clock)
    <2> DEFINE t == [Head(toServer[c]) EXCEPT !.scale = clock.scale]
    <2>1. Acceptable(t) /\ clock' = t
      BY <1>3 DEF OnSleepTimeRequest, SetClock
    <2>2. Head(toServer[c]) \in Clocks
      BY <1>3, Messages DEF OnSleepTimeRequest, ClockTypes
    <2>3. t \in Clocks
      BY <2>2 DEF ClockTypes, Clocks
    <2> HIDE DEF t
    <2>4. TimeInHours(t) > TimeInHours(clock)
      BY <2>1 DEF Acceptable
    <2>5. TimeInHours(t) \in Nat
      BY <2>3, AdvanceIs
    <2> QED BY <1>0, <2>1, <2>4, <2>5
  <1>4. ASSUME NEW c \in Clients,
               \/ EnterCell(c) \/ OnDisconnected(c) \/ OnTimeUpdate(c) \/ SleepBegins(c)
               \/ \E h \in Sleeps \cup {0} : SleepEnds(c, h)
        PROVE  FALSE
    BY <1>4 DEF EnterCell, OnDisconnected, OnTimeUpdate, SleepBegins, SleepEnds, serviceVars
  <1> QED BY <1>1, <1>2, <1>3, <1>4 DEF ClockNext

(* Nothing but a command takes the shared clock back, whatever dates the   *)
(* players' games come with and however long they sleep.                   *)
THEOREM TheClockGoesForward == ClockSpec => ClockForward
  <1>1. ClockTypes /\ Timely /\ [ClockNext]_clockVars => ClockTypes' /\ Timely'
    BY ClockTypesStep
  <1>2. ClockTypes /\ Timely /\ [ClockNext]_clockVars
        => [Commanded \/ TimeInHours(clock') >= TimeInHours(clock)]_clock
    BY ForwardStep
  <1> QED BY <1>1, <1>2, ClockTypesInit, PTL DEF ClockSpec, ClockForward

(* In the time that passes the clock gains that time at its scale, over    *)
(* every end of a day, a month and a year.                                 *)
THEOREM TheClockRuns == ClockSpec => ClockRuns
  <1>1. ClockTypes /\ Timely /\ [ClockNext]_clockVars
        => [now' # now => TimeInHours(clock') = TimeInHours(clock) + (now' - now) * clock.scale]_clockVars
    <2> SUFFICES ASSUME ClockTypes, Timely, ClockNext, now' # now
                 PROVE  TimeInHours(clock') = TimeInHours(clock) + (now' - now) * clock.scale
      BY DEF clockVars
    <2>1. OnUpdate
      BY DEF ClockNext, Commanded, SetTime, SetDate, OnPlayerJoin, EnterCell, OnSleepTimeRequest, OnDisconnected,
             OnTimeUpdate, SleepBegins, SleepEnds
    <2>2. now' - now = 1
      BY <2>1 DEF OnUpdate, ClockTypes
    <2>3. TimeInHours(Update(clock, 1)) = TimeInHours(clock) + 1 * clock.scale
      BY UpdateIs DEF ClockTypes
    <2> QED BY <2>1, <2>2, <2>3 DEF OnUpdate, ServerUpdate
  <1>2. ClockTypes /\ Timely /\ [ClockNext]_clockVars => ClockTypes' /\ Timely'
    BY ClockTypesStep
  <1> QED BY <1>1, <1>2, ClockTypesInit, PTL DEF ClockSpec, ClockRuns

-----------------------------------------------------------------------------
(* The clocks of the clients.                                              *)

(* A client whose clock is locked has been updated with the last tick; who *)
(* is away has his own clock.                                              *)
Drives(c) == (locked[c] => last[c] = now) /\ (c \notin connected => ~locked[c])

(* The last clock on its way to a client is the server's, unless one was   *)
(* not sent.                                                               *)
Heard(c) ==
  toClient[c] # <<>> /\ astray[c] \subseteq {"late"} => ~Differ(toClient[c][Len(toClient[c])], clock)

(* Who drives his own clock and is told nothing sleeps, and his clock has  *)
(* not gone back since: when he wakes, he asks.                            *)
Woken(c) == toClient[c] = <<>> /\ ~locked[c] => sleeping[c] /\ before[c] <= TimeInHours(game[c])

Shows(c) == toClient[c] = <<>> /\ astray[c] = {} /\ toServer[c] = <<>> => ~Differ(game[c], clock)

Follows == \A c \in Clients : Drives(c) /\ (c \in connected => Heard(c) /\ Woken(c) /\ Shows(c))

ClockInv == ClockTypes /\ Timely /\ Follows

(* Two clocks that agree agree after the same time. *)
LEMMA AgreeLater ==
  ASSUME NEW t \in Clocks, NEW u \in Clocks, ~Differ(t, u), NEW n \in Nat
  PROVE  ~Differ(Update(t, n), Update(u, n))
  <1>1. t.scale = u.scale /\ t.time = u.time
    BY DEF Differ
  <1>2. /\ Update(t, n).time = (t.time + n * t.scale) % 24 /\ Update(u, n).time = (u.time + n * u.scale) % 24
        /\ Update(t, n).scale = t.scale /\ Update(u, n).scale = u.scale
        /\ TimeInHours(Update(t, n)) = TimeInHours(t) + n * t.scale
        /\ TimeInHours(Update(u, n)) = TimeInHours(u) + n * u.scale
    BY UpdateIs
  <1>3. Update(t, n).time = Update(u, n).time /\ Update(t, n).scale = Update(u, n).scale
    BY <1>1, <1>2
  <1>4. ASSUME SyncPlayerCalendar PROVE TimeInHours(Update(t, n)) = TimeInHours(Update(u, n))
    <2>1. TimeInHours(t) = TimeInHours(u)
      BY <1>4 DEF Differ
    <2> QED BY <1>1, <1>2, <2>1
  <1> QED BY <1>3, <1>4 DEF Differ

(* A clock advanced by no time is the same clock, though the day may have  *)
(* another name.                                                           *)
LEMMA AgreeAtOnce ==
  ASSUME NEW t \in Clocks, NEW u \in Clocks, ~Differ(t, u)
  PROVE  ~Differ(Advance(t, 0), u) /\ ~Differ(Update(t, 0), u)
  <1>1. t.time \in 0..23 /\ t.scale \in Nat
    BY CalendarAssumption DEF Clocks
  <1>2. /\ Advance(t, 0).scale = t.scale /\ Advance(t, 0).time = (t.time + 0) % 24
        /\ TimeInHours(t) \in Nat /\ TimeInHours(Advance(t, 0)) = TimeInHours(t) + 0
    BY AdvanceIs
  <1>3. (t.time + 0) % 24 = t.time
    BY <1>1
  <1>4. ~Differ(Advance(t, 0), u)
    <2>1. Advance(t, 0).time = t.time /\ TimeInHours(Advance(t, 0)) = TimeInHours(t)
      BY <1>2, <1>3
    <2> QED BY <1>2, <2>1 DEF Differ
  <1>5. Update(t, 0) = Advance(t, 0)
    <2>1. 0 * t.scale = 0
      BY <1>1
    <2> QED BY <2>1 DEF Update
  <1> QED BY <1>4, <1>5

LEMMA SameClock ==
  \A t : ~Differ(t, t)
  BY DEF Differ

(* The clock is sent: to all whom it does not reach it is known that it    *)
(* did not.                                                                *)
LEMMA SentFollows ==
  ASSUME ClockTypes, NEW c \in Clients, Heard(c), Woken(c), Shows(c),
         NEW audience, NEW missed, clock' \in Clocks, SendClock(clock', audience, missed),
         c \in audience \/ c \in missed \/ clock' = clock,
         UNCHANGED <<game, locked, sleeping, before>>, toServer'[c] = toServer[c] \/ c \in audience \cup missed
  PROVE  Heard(c)' /\ Woken(c)' /\ Shows(c)'
  <1> DEFINE t == clock'
  <1>1. /\ c \in audience => toClient'[c] # <<>> /\ toClient'[c][Len(toClient'[c])] = t
        /\ c \notin audience => /\ toClient'[c] = toClient[c]
                                /\ c \in missed => "unloaded" \in astray'[c]
                                /\ c \notin missed => astray'[c] = astray[c]
    <2> HIDE DEF t
    <2> QED BY Sends DEF t
  <1>2. CASE c \in audience
    BY <1>1, <1>2, SameClock DEF Heard, Woken, Shows
  <1>3. CASE c \notin audience /\ c \in missed
    BY <1>1, <1>3 DEF Heard, Woken, Shows
  <1>4. CASE c \notin audience /\ c \notin missed
    BY <1>1, <1>4 DEF Heard, Woken, Shows
  <1> QED BY <1>2, <1>3, <1>4

LEMMA FollowsInit ==
  ClockInit => Follows
  BY DEF ClockInit, Follows, Drives

LEMMA FollowsStep ==
  ClockTypes /\ ClockTypes' /\ Timely /\ Follows /\ [ClockNext]_clockVars => Follows'
  <1> SUFFICES ASSUME ClockTypes, ClockTypes', Timely, Follows, [ClockNext]_clockVars, NEW c \in Clients
               PROVE  Drives(c)' /\ (c \in connected' => Heard(c)' /\ Woken(c)' /\ Shows(c)')
    BY DEF Follows
  <1>0. Drives(c) /\ (c \in connected => Heard(c) /\ Woken(c) /\ Shows(c))
    BY DEF Follows
  <1>t. clock \in Clocks /\ game[c] \in Clocks /\ clock' \in Clocks /\ now \in Nat /\ now >= 1
    BY DEF ClockTypes, Timely
  <1>1. CASE OnUpdate
    <2>1. toClient[c] = <<>> /\ toClient' = toClient /\ now' = now + 1 /\ connected' = connected
          /\ UNCHANGED <<locked, sleeping, before, toServer, astray>>
      BY <1>1 DEF OnUpdate
    <2>2. Drives(c)'
      BY <1>0, <1>1, <2>1 DEF OnUpdate, Drives
    <2> DEFINE n == IF locked[c] THEN now' - LastTick(c, now') ELSE 1
    <2>3. n = 1
      <3>1. locked[c] => now' - LastTick(c, now') = now' - now
        BY <1>0, <2>1, Elapsed DEF Drives
      <3> QED BY <1>t, <2>1, <3>1
    <2>4. game'[c] = Update(game[c], n) /\ clock' = Update(clock, 1)
      BY <1>1 DEF OnUpdate, ServerUpdate
    <2> HIDE DEF n
    <2>5. game'[c] = Update(game[c], 1)
      BY <2>3, <2>4
    <2>6. Shows(c) => Shows(c)'
      BY <1>t, <2>1, <2>4, <2>5, AgreeLater DEF Shows
    <2>7. TimeInHours(game[c]) <= TimeInHours(game'[c])
      <3>1. /\ TimeInHours(game[c]) \in Nat /\ game[c].scale \in Nat
            /\ TimeInHours(Update(game[c], 1)) = TimeInHours(game[c]) + 1 * game[c].scale
        BY <1>t, UpdateIs
      <3> QED BY <2>5, <3>1
    <2>8. before[c] \in Nat /\ TimeInHours(game[c]) \in Nat /\ TimeInHours(game'[c]) \in Nat
      <3>1. game'[c] \in Clocks /\ before[c] \in Nat
        BY DEF ClockTypes
      <3> QED BY <1>t, <3>1, AdvanceIs
    <2>9. Woken(c) => Woken(c)'
      BY <2>1, <2>7, <2>8 DEF Woken
    <2>10. Heard(c)'
      BY <2>1 DEF Heard
    <2> QED BY <1>0, <2>1, <2>2, <2>6, <2>9, <2>10
  <1>2. CASE Commanded
    <2>1. SetClock(clock') /\ UNCHANGED <<loaded, now, connected, clientVars, toServer>>
      BY <1>2 DEF Commanded, SetTime, SetDate, SetClock
    <2>2. SendClock(clock', loaded, connected \ loaded)
      BY <2>1 DEF SetClock
    <2>3. Drives(c)'
      BY <1>0, <2>1 DEF Drives, clientVars
    <2>4. ASSUME c \in connected PROVE Heard(c)' /\ Woken(c)' /\ Shows(c)'
      <3>1. UNCHANGED <<game, locked, sleeping, before>> /\ toServer'[c] = toServer[c]
        BY <2>1 DEF clientVars
      <3> QED BY <1>0, <1>t, <2>2, <2>4, <3>1, SentFollows
    <2> QED BY <2>1, <2>3, <2>4
  <1>3. ASSUME NEW p \in Clients, OnPlayerJoin(p)
        PROVE  Drives(c)' /\ (c \in connected' => Heard(c)' /\ Woken(c)' /\ Shows(c)')
    <2>1. /\ p \notin connected /\ connected' = connected \cup {p} /\ UNCHANGED <<now, clientVars, toServer>>
          /\ SendClock(clock', connected', {}) \/ (clock' = clock /\ SendClock(clock', {p}, {}))
      BY <1>3 DEF OnPlayerJoin
    <2>2. Drives(c)'
      BY <1>0, <2>1 DEF Drives, clientVars
    <2>3. UNCHANGED <<game, locked, sleeping, before>> /\ toServer'[c] = toServer[c]
      BY <2>1 DEF clientVars
    <2>4. ASSUME c \in connected PROVE Heard(c)' /\ Woken(c)' /\ Shows(c)'
      BY <1>0, <1>t, <2>1, <2>3, <2>4, SentFollows
    <2>5. ASSUME c = p PROVE Heard(c)' /\ Woken(c)' /\ Shows(c)'
      <3>1. toClient'[c] # <<>> /\ toClient'[c][Len(toClient'[c])] = clock'
        <4>1. CASE SendClock(clock', connected', {})
          BY <1>t, <2>1, <2>5, <4>1, Sends
        <4>2. CASE SendClock(clock', {p}, {})
          BY <1>t, <2>5, <4>2, Sends
        <4> QED BY <2>1, <4>1, <4>2
      <3> QED BY <3>1, SameClock DEF Heard, Woken, Shows
    <2> QED BY <2>1, <2>2, <2>4, <2>5
  <1>4. ASSUME NEW p \in Clients, EnterCell(p)
        PROVE  Drives(c)' /\ (c \in connected' => Heard(c)' /\ Woken(c)' /\ Shows(c)')
    BY <1>0, <1>4 DEF EnterCell, clientVars, Drives, Heard, Woken, Shows
  <1>5. ASSUME NEW p \in Clients, OnSleepTimeRequest(p)
        PROVE  Drives(c)' /\ (c \in connected' => Heard(c)' /\ Woken(c)' /\ Shows(c)')
    <2> DEFINE t == [Head(toServer[p]) EXCEPT !.scale = clock.scale]
    <2>1. /\ UNCHANGED <<loaded, now, connected, clientVars>> /\ p \in connected
          /\ c # p => toServer'[c] = toServer[c]
      BY <1>5 DEF OnSleepTimeRequest, ClockTypes
    <2>2. \/ clock' = clock /\ SendClock(clock', {p}, {})
          \/ SetClock(clock')
          \/ astray' = [astray EXCEPT ![p] = @ \cup {"refused"}] /\ UNCHANGED <<clock, toClient>>
      BY <1>5 DEF OnSleepTimeRequest, SetClock
    <2>3. UNCHANGED <<game, locked, sleeping, before>>
      BY <2>1 DEF clientVars
    <2>4. Drives(c)'
      BY <1>0, <2>1 DEF Drives, clientVars
    <2>5. ASSUME c \in connected PROVE Heard(c)' /\ Woken(c)' /\ Shows(c)'
      <3>1. CASE clock' = clock /\ SendClock(clock', {p}, {})
        BY <1>0, <1>t, <2>1, <2>3, <2>5, <3>1, SentFollows
      <3>2. CASE SetClock(clock')
        <4>1. SendClock(clock', loaded, connected \ loaded) /\ c \in loaded \cup (connected \ loaded)
          BY <2>5, <3>2 DEF SetClock
        <4> QED BY <1>0, <1>t, <2>3, <2>5, <4>1, SentFollows
      <3>3. CASE astray' = [astray EXCEPT ![p] = @ \cup {"refused"}] /\ UNCHANGED <<clock, toClient>>
        <4>1. c # p => astray'[c] = astray[c]
          BY <3>3 DEF ClockTypes
        <4>2. c = p => "refused" \in astray'[c]
          BY <3>3 DEF ClockTypes
        <4> QED BY <1>0, <2>1, <2>3, <2>5, <3>3, <4>1, <4>2 DEF Heard, Woken, Shows
      <3> QED BY <2>2, <3>1, <3>2, <3>3
    <2> QED BY <2>1, <2>4, <2>5
  <1>6. ASSUME NEW p \in Clients, OnDisconnected(p)
        PROVE  Drives(c)' /\ (c \in connected' => Heard(c)' /\ Woken(c)' /\ Shows(c)')
    <2>1. CASE c = p
      BY <1>6, <2>1 DEF OnDisconnected, Drives, ClockTypes
    <2>2. CASE c # p
      BY <1>0, <1>6, <2>2 DEF OnDisconnected, Drives, Heard, Woken, Shows, ClockTypes
    <2> QED BY <2>1, <2>2
  <1>7. ASSUME NEW p \in Clients, OnTimeUpdate(p)
        PROVE  Drives(c)' /\ (c \in connected' => Heard(c)' /\ Woken(c)' /\ Shows(c)')
    <2>1. CASE c # p
      BY <1>0, <1>7, <2>1 DEF OnTimeUpdate, serviceVars, Drives, Heard, Woken, Shows, ClockTypes
    <2>2. CASE c = p
      <3> DEFINE m == Head(toClient[c])
                 a == Adopt(game[c], m)
                 n == now - LastTick(c, now)
      <3>1. /\ c \in connected /\ toClient[c] \in Seq(Clocks) /\ toClient[c] # <<>>
            /\ connected' = connected /\ now' = now /\ clock' = clock /\ toServer' = toServer
        BY <1>7, <2>2 DEF OnTimeUpdate, serviceVars, ClockTypes
      <3>2. /\ locked'[c] = TRUE /\ last'[c] = now /\ toClient'[c] = Tail(toClient[c])
            /\ game'[c] = Update(a, n)
            /\ astray'[c] = (astray[c] \ {"late"}) \cup IF LastTick(c, now) < now THEN {"late"} ELSE {}
        BY <1>7, <2>2 DEF OnTimeUpdate, ClockTypes
      <3>3. /\ m \in Clocks
            /\ Tail(toClient[c]) = <<>> => m = toClient[c][Len(toClient[c])]
            /\ Tail(toClient[c]) # <<>> => Tail(toClient[c])[Len(Tail(toClient[c]))] = toClient[c][Len(toClient[c])]
        BY <3>1, Messages
      <3>4. Drives(c)'
        BY <1>0, <3>1, <3>2 DEF Drives
      <3>5. Heard(c)'
        <4>1. astray'[c] \subseteq {"late"} => astray[c] \subseteq {"late"}
          BY <3>2
        <4> QED BY <1>0, <3>1, <3>2, <3>3, <4>1 DEF Heard
      <3>6. Woken(c)'
        BY <3>2 DEF Woken
      <3>7. Shows(c)'
        <4> SUFFICES ASSUME toClient'[c] = <<>>, astray'[c] = {} PROVE ~Differ(game'[c], clock)
          BY <3>1 DEF Shows
        <4>1. ~Differ(m, clock)
          <5>1. astray[c] \subseteq {"late"}
            BY <3>2
          <5> QED BY <1>0, <3>1, <3>2, <3>3, <5>1 DEF Heard
        <4>2. n = 0
          <5>1. ~(LastTick(c, now) < now)
            BY <3>2
          <5>2. LastTick(c, now) \in Nat /\ n \in Nat
            BY Elapsed
          <5> QED BY <1>t, <5>1, <5>2
        <4>3. a \in Clocks /\ a.scale = m.scale /\ a.time = m.time /\ (SyncPlayerCalendar => a = m)
          BY <1>t, <3>3, Adopts
        <4> HIDE DEF a, m, n
        <4>4. ~Differ(a, clock)
          BY <4>1, <4>3 DEF Differ
        <4>5. ~Differ(Update(a, 0), clock)
          BY <1>t, <4>3, <4>4, AgreeAtOnce
        <4> QED BY <3>2, <4>2, <4>5
      <3> QED BY <3>4, <3>5, <3>6, <3>7
    <2> QED BY <2>1, <2>2
  <1>8. ASSUME NEW p \in Clients, SleepBegins(p)
        PROVE  Drives(c)' /\ (c \in connected' => Heard(c)' /\ Woken(c)' /\ Shows(c)')
    <2>1. CASE c # p
      BY <1>0, <1>8, <2>1 DEF SleepBegins, serviceVars, Drives, Heard, Woken, Shows, ClockTypes
    <2>2. CASE c = p
      <3>1. /\ c \in connected /\ connected' = connected /\ UNCHANGED <<clock, now, game, toClient, toServer, astray>>
            /\ sleeping'[c] = TRUE /\ locked'[c] = FALSE /\ before'[c] = TimeInHours(game[c])
        BY <1>8, <2>2 DEF SleepBegins, serviceVars, ClockTypes
      <3>2. TimeInHours(game[c]) \in Nat
        BY <1>t, AdvanceIs
      <3> QED BY <1>0, <3>1, <3>2 DEF Drives, Heard, Woken, Shows
    <2> QED BY <2>1, <2>2
  <1>9. ASSUME NEW p \in Clients, NEW h \in Sleeps \cup {0}, SleepEnds(p, h)
        PROVE  Drives(c)' /\ (c \in connected' => Heard(c)' /\ Woken(c)' /\ Shows(c)')
    <2>1. CASE c # p
      <3>1. /\ toServer'[c] = toServer[c] /\ game'[c] = game[c] /\ locked'[c] = locked[c]
            /\ last'[c] = last[c] /\ sleeping'[c] = sleeping[c]
            /\ UNCHANGED <<clock, connected, now, before, toClient, astray>>
        BY <1>9, <2>1 DEF SleepEnds, serviceVars, ClockTypes
      <3> QED BY <1>0, <3>1 DEF Drives, Heard, Woken, Shows
    <2>2. CASE c = p
      <3> DEFINE u == Advance(game[c], h)
      <3>1. /\ c \in connected /\ (h > 0 => ~locked[c]) /\ game'[c] = u
            /\ locked'[c] = TRUE /\ last'[c] = now
            /\ toServer'[c] = IF TimeInHours(u) > before[c] THEN Append(toServer[c], u) ELSE toServer[c]
            /\ UNCHANGED <<clock, connected, now, toClient, astray>>
        BY <1>9, <2>2 DEF SleepEnds, serviceVars, ClockTypes
      <3>2. h \in Nat
        BY CalendarAssumption
      <3>3. /\ u \in Clocks /\ TimeInHours(game[c]) \in Nat /\ TimeInHours(u) = TimeInHours(game[c]) + h
        BY <1>t, <3>2, AdvanceIs
      <3> HIDE DEF u
      <3>4. Shows(c)'
        <4> SUFFICES ASSUME toClient[c] = <<>>, astray[c] = {}, toServer'[c] = <<>>
                     PROVE  ~Differ(game'[c], clock)
          BY <3>1 DEF Shows
        <4>1. toServer[c] \in Seq(Clocks) /\ before[c] \in Nat
          BY DEF ClockTypes
        <4>2. Append(toServer[c], u) # <<>>
          BY <3>3, <4>1, Messages
        <4>3. ~(TimeInHours(u) > before[c]) /\ toServer[c] = <<>>
          BY <3>1, <4>2
        <4>4. h = 0
          <5> SUFFICES ASSUME h > 0 PROVE FALSE
            BY <3>2
          <5>1. before[c] <= TimeInHours(game[c])
            BY <1>0, <3>1 DEF Woken
          <5> QED BY <3>2, <3>3, <4>1, <4>3, <5>1
        <4>5. ~Differ(game[c], clock)
          BY <1>0, <3>1, <4>3 DEF Shows
        <4> QED BY <1>t, <3>1, <4>4, <4>5, AgreeAtOnce DEF u
      <3>5. Heard(c)' /\ Woken(c)' /\ Drives(c)'
        BY <1>0, <3>1 DEF Heard, Woken, Drives
      <3> QED BY <3>4, <3>5
    <2> QED BY <2>1, <2>2
  <1>10. CASE UNCHANGED clockVars
    BY <1>0, <1>10 DEF clockVars, serviceVars, clientVars, Drives, Heard, Woken, Shows
  <1> QED BY <1>1, <1>2, <1>3, <1>4, <1>5, <1>6, <1>7, <1>8, <1>9, <1>10 DEF ClockNext

(* A client that has heard all and of which all was heard shows the        *)
(* server's clock, or went astray in one of the three known ways.          *)
THEOREM ClocksInStep == ClockSpec => []InStep
  <1>1. ClockInit => ClockInv
    BY ClockTypesInit, FollowsInit DEF ClockInv
  <1>2. ClockInv /\ [ClockNext]_clockVars => ClockInv'
    BY ClockTypesStep, FollowsStep DEF ClockInv
  <1>3. ClockInv => InStep
    BY DEF ClockInv, Follows, Shows, InStep, Silent
  <1> QED BY <1>1, <1>2, <1>3, PTL DEF ClockSpec
=============================================================================
