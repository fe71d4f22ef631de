----------------------------- MODULE HeldProofs -----------------------------
(* Objects in the hands of players, for any clients, objects and bounds.   *)
EXTENDS Held, SequenceTheorems, WellFoundedInduction, TLAPS

Has(ms, m) == \E i \in DOMAIN ms : ms[i] = m

IsTransform(m, o) == m.type = "Transform" /\ m.obj = o

(* Where a copy of o at y will lie once its client has read ms. *)
EndsAt(ms, y, o, x) ==
  \/ \E i \in DOMAIN ms : /\ IsTransform(ms[i], o) /\ ms[i].at = x
                          /\ \A j \in DOMAIN ms : IsTransform(ms[j], o) => j <= i
  \/ x = y /\ \A i \in DOMAIN ms : ~IsTransform(ms[i], o)

(* RestAgrees, for an object that is still in motion. *)
EndAt(o, x) ==
  \A c \in Clients : <<c, o>> \in behind \/ EndsAt(down[c], pos[c][o], o, x)

Settles == \A o \in Objects : \E x \in Spots : EndAt(o, x)

(* A drop is told once, and before its removal. *)
InOrder(ms, o) ==
  \A i, j \in DOMAIN ms : ms[i] = Drop(o) /\ ms[j] \in {Drop(o), Removal(o)} => i <= j

(* A drop reaches a client that has no copy of it yet, once it is made. *)
Dropping ==
  \A c \in Clients, o \in Objects :
    /\ InOrder(down[c], o)
    /\ Has(down[c], Drop(o)) => o \notin copy[c]
    /\ o \notin made => ~Has(down[c], Drop(o)) /\ ~Has(down[c], Removal(o))
    /\ o \in temporary \ made => o \notin copy[c]

(* A client that has no copy of o and will not get one. *)
Without(c, o) == o \notin copy[c] /\ ~Has(down[c], Drop(o))

Pocketing == \A c \in Clients : \A o \in pocketed[c] : o \in taken /\ Without(c, o)

(* The news that o was picked up has spread. *)
Spread(o) ==
  \A c \in Clients : Without(c, o) \/ Has(down[c], Removal(o)) \/ <<c, o>> \in spared

(* A drop that was picked up is told everywhere, or will be by who has it. *)
Announced ==
  /\ \A o \in taken : Spread(o) \/ \E p \in Clients : o \in pocketed[p] /\ o \in named[p]
  /\ \A c \in Clients, o \in Objects : Has(down[c], Removal(o)) => Spread(o)

Drops == Dropping /\ Pocketing /\ Announced

-----------------------------------------------------------------------------
(* Induction, for a set of numbers instead of a predicate.                 *)

(* A set of numbers has a least one. *)
LEMMA LeastNumber ==
  ASSUME NEW S, S \subseteq Nat, S # {}
  PROVE  \E n \in S : \A m \in S : n <= m
<1> DEFINE R == OpToRel(<, Nat)
<1>1. IsWellFoundedOn(R, Nat)
  BY NatLessThanWellFounded
<1>2. \A x, y \in Nat : x < y => <<x, y>> \in R
  BY DEF OpToRel
<1> HIDE DEF R
<1>3. PICK n \in S : \A m \in S : ~(<<m, n>> \in R)
  BY <1>1, WFMin
<1>4. ASSUME NEW m \in S PROVE n <= m
  <2>1. ~(m < n)
    BY <1>2, <1>3
  <2> QED BY <2>1
<1> QED BY <1>4

LEMMA Induction ==
  ASSUME NEW S, 0 \in S, \A n \in Nat : n \in S => n + 1 \in S
  PROVE  Nat \subseteq S
<1> SUFFICES ASSUME Nat \ S # {} PROVE FALSE
  OBVIOUS
<1>1. PICK n \in Nat \ S : \A m \in Nat \ S : n <= m
  BY LeastNumber
<1>2. n # 0 /\ n - 1 \in Nat
  BY <1>1
<1>3. n - 1 \in S
  BY <1>1, <1>2
<1> QED BY <1>1, <1>2, <1>3

-----------------------------------------------------------------------------
(* Messages and the sequences of them.                                     *)

LEMMA MessageTypes ==
  /\ \A o \in Objects : {Drop(o), Removal(o)} \subseteq Message
  /\ \A o \in Objects, x \in Spots, r \in BOOLEAN : Transform(o, x, r) \in Message
  /\ \A o, p : Drop(o) # Removal(p) /\ (Drop(o) = Drop(p) => o = p) /\ (Removal(o) = Removal(p) => o = p)
  /\ \A o, x, r, p : /\ Transform(o, x, r) \notin {Drop(p), Removal(p)}
                     /\ IsTransform(Transform(o, x, r), o) /\ Transform(o, x, r).at = x
                     /\ IsTransform(Transform(o, x, r), p) => o = p
  /\ \A o, p : ~IsTransform(Drop(o), p) /\ ~IsTransform(Removal(o), p)
BY DEF Message, Drop, Removal, Transform, IsTransform

(* What a message is. *)
LEMMA MessageKinds ==
  ASSUME NEW m \in Message
  PROVE  /\ m.obj \in Objects
         /\ \/ m.type = "Transform" /\ m.at \in Spots /\ m.released \in BOOLEAN
               /\ \A o : m \notin {Drop(o), Removal(o)} /\ (IsTransform(m, o) <=> o = m.obj)
            \/ m.type = "Drop" /\ m = Drop(m.obj) /\ \A o : ~IsTransform(m, o)
            \/ m.type = "Remove" /\ m = Removal(m.obj) /\ \A o : ~IsTransform(m, o)
BY DEF Message, Drop, Removal, IsTransform

LEMMA AppendIs ==
  ASSUME NEW ms \in Seq(Message), NEW m \in Message
  PROVE  /\ Append(ms, m) \in Seq(Message)
         /\ Len(ms) \in Nat /\ DOMAIN ms = 1..Len(ms)
         /\ DOMAIN Append(ms, m) = 1..(Len(ms) + 1)
         /\ Append(ms, m)[Len(ms) + 1] = m
         /\ \A i \in 1..Len(ms) : Append(ms, m)[i] = ms[i]
OBVIOUS

LEMMA TailIs ==
  ASSUME NEW ms \in Seq(Message), ms # <<>>
  PROVE  /\ Tail(ms) \in Seq(Message) /\ Head(ms) \in Message
         /\ Len(ms) \in Nat /\ Len(ms) >= 1 /\ DOMAIN ms = 1..Len(ms)
         /\ ms[1] = Head(ms)
         /\ DOMAIN Tail(ms) = 1..(Len(ms) - 1)
         /\ \A i \in 1..(Len(ms) - 1) : Tail(ms)[i] = ms[i + 1]
OBVIOUS

LEMMA HasMore ==
  ASSUME NEW ms \in Seq(Message), NEW m \in Message, NEW n
  PROVE  Has(Append(ms, m), n) <=> Has(ms, n) \/ n = m
<1> DEFINE t == Append(ms, m)
<1>1. /\ Len(ms) \in Nat /\ DOMAIN ms = 1..Len(ms) /\ DOMAIN t = 1..(Len(ms) + 1)
      /\ t[Len(ms) + 1] = m /\ \A i \in 1..Len(ms) : t[i] = ms[i]
  BY AppendIs
<1> HIDE DEF t
<1>2. Has(ms, n) => Has(t, n)
  BY <1>1 DEF Has
<1>3. n = m => Has(t, n)
  <2>1. Len(ms) + 1 \in DOMAIN t
    BY <1>1
  <2> QED
    BY <1>1, <2>1 DEF Has
<1>4. Has(t, n) => Has(ms, n) \/ n = m
  BY <1>1 DEF Has
<1> QED
  BY <1>2, <1>3, <1>4 DEF t

LEMMA HasLess ==
  ASSUME NEW ms \in Seq(Message), ms # <<>>, NEW n
  PROVE  Has(ms, n) <=> Has(Tail(ms), n) \/ n = Head(ms)
<1> DEFINE t == Tail(ms)
           h == Head(ms)
<1>1. /\ Len(ms) \in Nat /\ Len(ms) >= 1 /\ DOMAIN ms = 1..Len(ms) /\ ms[1] = h
      /\ DOMAIN t = 1..(Len(ms) - 1) /\ \A i \in 1..(Len(ms) - 1) : t[i] = ms[i + 1]
  BY TailIs
<1> HIDE DEF t, h
<1>2. ASSUME Has(t, n) PROVE Has(ms, n)
  <2>1. PICK i \in DOMAIN t : t[i] = n
    BY <1>2 DEF Has
  <2>2. i + 1 \in DOMAIN ms /\ ms[i + 1] = n
    BY <1>1, <2>1
  <2> QED
    BY <2>2 DEF Has
<1>3. n = h => Has(ms, n)
  BY <1>1 DEF Has
<1>4. ASSUME Has(ms, n), n # h PROVE Has(t, n)
  <2>1. PICK i \in DOMAIN ms : ms[i] = n
    BY <1>4 DEF Has
  <2>2. i - 1 \in DOMAIN t /\ t[i - 1] = n
    BY <1>1, <1>4, <2>1
  <2> QED
    BY <2>2 DEF Has
<1> QED
  BY <1>2, <1>3, <1>4 DEF t, h

LEMMA NothingIn ==
  \A n, o, y : ~Has(<<>>, n) /\ InOrder(<<>>, o) /\ EndsAt(<<>>, y, o, y)
BY DEF Has, InOrder, EndsAt

(* The order of a drop and its removal, as messages come and go. *)
LEMMA OrderMore ==
  ASSUME NEW ms \in Seq(Message), NEW m \in Message, NEW o,
         InOrder(ms, o), m # Drop(o) \/ (~Has(ms, Drop(o)) /\ ~Has(ms, Removal(o)))
  PROVE  InOrder(Append(ms, m), o)
<1> DEFINE t == Append(ms, m)
<1>1. /\ Len(ms) \in Nat /\ DOMAIN ms = 1..Len(ms) /\ DOMAIN t = 1..(Len(ms) + 1)
      /\ t[Len(ms) + 1] = m /\ \A i \in 1..Len(ms) : t[i] = ms[i]
  BY AppendIs
<1> HIDE DEF t
<1>2. SUFFICES ASSUME NEW i \in DOMAIN t, NEW j \in DOMAIN t, t[i] = Drop(o),
                      t[j] \in {Drop(o), Removal(o)}, ~(i <= j)
               PROVE  FALSE
  BY DEF InOrder, t
<1>3. j \in DOMAIN ms /\ ms[j] = t[j]
  BY <1>1, <1>2
<1>4. CASE i \in DOMAIN ms
  <2>1. ms[i] = Drop(o)
    BY <1>1, <1>2, <1>4
  <2> QED
    BY <1>2, <1>3, <1>4, <2>1 DEF InOrder
<1>5. CASE i = Len(ms) + 1
  <2>1. m = Drop(o)
    BY <1>1, <1>2, <1>5
  <2> QED
    BY <1>2, <1>3, <2>1 DEF Has
<1> QED
  BY <1>1, <1>4, <1>5

LEMMA OrderLess ==
  ASSUME NEW ms \in Seq(Message), ms # <<>>, NEW o, InOrder(ms, o)
  PROVE  /\ InOrder(Tail(ms), o)
         /\ Head(ms) \in {Drop(o), Removal(o)} => ~Has(Tail(ms), Drop(o))
<1> DEFINE t == Tail(ms)
           h == Head(ms)
<1>1. /\ Len(ms) \in Nat /\ Len(ms) >= 1 /\ DOMAIN ms = 1..Len(ms) /\ ms[1] = h
      /\ DOMAIN t = 1..(Len(ms) - 1) /\ \A i \in 1..(Len(ms) - 1) : t[i] = ms[i + 1]
  BY TailIs
<1> HIDE DEF t, h
<1>2. \A i \in DOMAIN t : i \in Int /\ i >= 1 /\ i + 1 \in DOMAIN ms /\ t[i] = ms[i + 1]
  BY <1>1
<1>3. InOrder(t, o)
  <2>1. SUFFICES ASSUME NEW i \in DOMAIN t, NEW j \in DOMAIN t, t[i] = Drop(o),
                        t[j] \in {Drop(o), Removal(o)}
                 PROVE  i <= j
    BY DEF InOrder
  <2>2. i + 1 <= j + 1
    BY <1>2, <2>1 DEF InOrder
  <2> QED
    BY <1>2, <2>2
<1>4. ASSUME h \in {Drop(o), Removal(o)} PROVE ~Has(t, Drop(o))
  <2>1. SUFFICES ASSUME NEW i \in DOMAIN t, t[i] = Drop(o) PROVE FALSE
    BY DEF Has
  <2>2. i + 1 \in DOMAIN ms /\ ms[i + 1] = Drop(o) /\ 1 \in DOMAIN ms
    BY <1>1, <1>2, <2>1
  <2>3. i + 1 <= 1
    BY <1>1, <1>4, <2>2 DEF InOrder
  <2> QED
    BY <1>2, <2>3
<1> QED
  BY <1>3, <1>4 DEF t, h

(* Where a copy ends, as transforms come and go. *)
LEMMA EndsMore ==
  ASSUME NEW ms \in Seq(Message), NEW m \in Message, NEW y, NEW o, NEW x,
         IF IsTransform(m, o) THEN m.at = x ELSE EndsAt(ms, y, o, x)
  PROVE  EndsAt(Append(ms, m), y, o, x)
<1> DEFINE t == Append(ms, m)
<1>1. /\ Len(ms) \in Nat /\ DOMAIN ms = 1..Len(ms) /\ DOMAIN t = 1..(Len(ms) + 1)
      /\ t[Len(ms) + 1] = m /\ \A i \in 1..Len(ms) : t[i] = ms[i]
  BY AppendIs
<1> HIDE DEF t
<1>2. CASE IsTransform(m, o)
  <2>1. Len(ms) + 1 \in DOMAIN t /\ \A j \in DOMAIN t : j <= Len(ms) + 1
    BY <1>1
  <2> QED
    BY <1>1, <1>2, <2>1 DEF EndsAt, t
<1>3. CASE ~IsTransform(m, o)
  <2>1. \A j \in DOMAIN t : IsTransform(t[j], o) => j \in DOMAIN ms /\ IsTransform(ms[j], o)
    BY <1>1, <1>3
  <2>2. CASE \E i \in DOMAIN ms : /\ IsTransform(ms[i], o) /\ ms[i].at = x
                                  /\ \A j \in DOMAIN ms : IsTransform(ms[j], o) => j <= i
    <3>1. PICK i \in DOMAIN ms : /\ IsTransform(ms[i], o) /\ ms[i].at = x
                                 /\ \A j \in DOMAIN ms : IsTransform(ms[j], o) => j <= i
      BY <2>2
    <3>2. i \in DOMAIN t /\ t[i] = ms[i]
      BY <1>1
    <3> QED
      BY <2>1, <3>1, <3>2 DEF EndsAt, t
  <2>3. CASE x = y /\ \A i \in DOMAIN ms : ~IsTransform(ms[i], o)
    BY <2>1, <2>3 DEF EndsAt, t
  <2> QED
    BY <1>3, <2>2, <2>3 DEF EndsAt
<1> QED
  BY <1>2, <1>3

LEMMA EndsLess ==
  ASSUME NEW ms \in Seq(Message), ms # <<>>, NEW y, NEW o, NEW x, EndsAt(ms, y, o, x)
  PROVE  IF IsTransform(Head(ms), o) THEN EndsAt(Tail(ms), Head(ms).at, o, x)
                                     ELSE EndsAt(Tail(ms), y, o, x)
<1> DEFINE t == Tail(ms)
           h == Head(ms)
           z == IF IsTransform(h, o) THEN h.at ELSE y
<1>1. /\ Len(ms) \in Nat /\ Len(ms) >= 1 /\ DOMAIN ms = 1..Len(ms) /\ ms[1] = h
      /\ DOMAIN t = 1..(Len(ms) - 1) /\ \A i \in 1..(Len(ms) - 1) : t[i] = ms[i + 1]
  BY TailIs
<1> HIDE DEF t, h
<1>2. \A i \in DOMAIN t : i \in Int /\ i >= 1 /\ i + 1 \in DOMAIN ms /\ t[i] = ms[i + 1]
  BY <1>1
<1>3. CASE \E i \in DOMAIN ms : /\ IsTransform(ms[i], o) /\ ms[i].at = x
                                /\ \A j \in DOMAIN ms : IsTransform(ms[j], o) => j <= i
  <2>1. PICK i \in DOMAIN ms : /\ IsTransform(ms[i], o) /\ ms[i].at = x
                               /\ \A j \in DOMAIN ms : IsTransform(ms[j], o) => j <= i
    BY <1>3
  <2>2. \A j \in DOMAIN t : IsTransform(t[j], o) => j + 1 <= i
    BY <1>2, <2>1
  <2>3. CASE i = 1
    <3>1. \A j \in DOMAIN t : ~IsTransform(t[j], o)
      BY <1>2, <2>2, <2>3
    <3>2. x = z /\ IsTransform(h, o)
      BY <1>1, <2>1, <2>3
    <3> QED
      BY <3>1, <3>2 DEF EndsAt, t, h
  <2>4. CASE i # 1
    <3>1. i - 1 \in DOMAIN t /\ t[i - 1] = ms[i]
      BY <1>1, <2>4
    <3>2. \A j \in DOMAIN t : IsTransform(t[j], o) => j <= i - 1
      BY <1>1, <1>2, <2>2
    <3>3. \A w : EndsAt(t, w, o, x)
      BY <2>1, <3>1, <3>2 DEF EndsAt
    <3> QED
      BY <3>3 DEF t
  <2> QED
    BY <2>3, <2>4
<1>4. CASE x = y /\ \A i \in DOMAIN ms : ~IsTransform(ms[i], o)
  <2>1. ~IsTransform(h, o) /\ \A i \in DOMAIN t : ~IsTransform(t[i], o)
    BY <1>1, <1>2, <1>4
  <2> QED
    BY <1>4, <2>1 DEF EndsAt, t, h
<1> QED
  BY <1>3, <1>4 DEF EndsAt

-----------------------------------------------------------------------------
(* What a client knows of its hands.                                       *)

(* A hand that ObjectService streams for is one that it was told of, and   *)
(* what it holds is not let go of.                                         *)
Minds ==
  {k \in [told : [Hands -> Objects \cup {None}], slots : [Hands -> Objects \cup {None}],
          settling : SUBSET Objects] :
     \A h \in Hands : k.slots[h] \in {None, k.told[h]} \ k.settling}

LEMMA MindIs ==
  ASSUME NEW t \in [Hands -> Objects \cup {None}], NEW s \in [Hands -> Objects \cup {None}],
         NEW g \in SUBSET Objects, \A h \in Hands : s[h] \in {None, t[h]} \ g,
         NEW k, k = [told |-> t, slots |-> s, settling |-> g]
  PROVE  k \in Minds
BY DEF Minds

LEMMA MindHas ==
  ASSUME NEW k \in Minds
  PROVE  /\ k.told \in [Hands -> Objects \cup {None}]
         /\ k.slots \in [Hands -> Objects \cup {None}]
         /\ k.settling \subseteq Objects
         /\ \A h \in Hands : k.slots[h] \in {None, k.told[h]} \ k.settling
         /\ k = [told |-> k.told, slots |-> k.slots, settling |-> k.settling]
BY DEF Minds

LEMMA ForgotHas ==
  ASSUME NEW k \in Minds, NEW h \in Hands, NEW n
  PROVE  [k EXCEPT !.told[h] = n] =
           [told |-> [k.told EXCEPT ![h] = n], slots |-> k.slots, settling |-> k.settling]
BY DEF Minds

(* Taking an object is told first. *)
LEMMA HoldKeepsMind ==
  ASSUME NEW k \in Minds, NEW h \in Hands, NEW o \in Objects
  PROVE  Hold([k EXCEPT !.told[h] = o], h, o) \in Minds
<1> DEFINE t == [k.told EXCEPT ![h] = o]
           s == [k.slots EXCEPT ![h] = o]
           g == k.settling \ {o}
<1>1. Hold([k EXCEPT !.told[h] = o], h, o) = [told |-> t, slots |-> s, settling |-> g]
  <2> DEFINE f == [told |-> t, slots |-> k.slots, settling |-> k.settling]
  <2>1. [k EXCEPT !.told[h] = o] = f
    BY ForgotHas
  <2>2. Hold(f, h, o) = [[f EXCEPT !.slots[h] = o] EXCEPT !.settling = g]
    BY DEF Hold
  <2>3. [f EXCEPT !.slots[h] = o] = [told |-> t, slots |-> s, settling |-> k.settling]
    OBVIOUS
  <2> QED
    BY <2>1, <2>2, <2>3
<1>2. /\ t \in [Hands -> Objects \cup {None}] /\ s \in [Hands -> Objects \cup {None}]
      /\ g \in SUBSET Objects
  BY MindHas
<1>3. \A i \in Hands : s[i] \in {None, t[i]} \ g
  <2>1. SUFFICES ASSUME NEW i \in Hands PROVE s[i] \in {None, t[i]} \ g
    OBVIOUS
  <2>2. CASE i = h
    <3>1. s[i] = o /\ t[i] = o
      BY <2>2, MindHas
    <3> QED
      BY <3>1
  <2>3. CASE i # h
    <3>1. s[i] = k.slots[i] /\ t[i] = k.told[i]
      BY <2>3, MindHas
    <3> QED
      BY <3>1, MindHas
  <2> QED
    BY <2>2, <2>3
<1> HIDE DEF t, s, g
<1> QED
  BY <1>1, <1>2, <1>3, MindIs

(* So does the opening of a hand that held o, or nothing it was told of. *)
LEMMA ReleaseKeepsMind ==
  ASSUME NEW c \in Clients, copy[c] \subseteq Objects, NEW k \in Minds, NEW h \in Hands,
         NEW o \in Objects \cup {None}, NEW n, n = (IF k.told[h] = o THEN None ELSE k.told[h])
  PROVE  Release(c, [k EXCEPT !.told[h] = n], h, o) \in Minds
<1> DEFINE t == [k.told EXCEPT ![h] = n]
           f == [told |-> t, slots |-> k.slots, settling |-> k.settling]
<1>1. [k EXCEPT !.told[h] = n] = f
  BY ForgotHas
<1>2. t \in [Hands -> Objects \cup {None}] /\ t[h] = n /\ \A i \in Hands : i # h => t[i] = k.told[i]
  BY MindHas
<1>3. CASE k.slots[h] # o
  <2>1. Release(c, f, h, o) = f
    BY <1>3 DEF Release
  <2>2. \A i \in Hands : k.slots[i] \in {None, t[i]} \ k.settling
    BY <1>2, <1>3, MindHas
  <2> HIDE DEF t
  <2>3. f \in Minds
    BY <1>2, <2>2, MindHas, MindIs
  <2> QED
    BY <1>1, <2>1, <2>3
<1>4. CASE k.slots[h] = o
  <2> DEFINE s == [k.slots EXCEPT ![h] = None]
             g == IF k.slots[1 - h] # o /\ o \in copy[c] THEN k.settling \cup {o} ELSE k.settling
  <2>1. Release(c, f, h, o) = [told |-> t, slots |-> s, settling |-> g]
    BY <1>4 DEF Release
  <2>2. s \in [Hands -> Objects \cup {None}] /\ g \in SUBSET Objects
    BY MindHas
  <2>3. \A i \in Hands : s[i] \in {None, t[i]} \ g
    <3>1. SUFFICES ASSUME NEW i \in Hands PROVE s[i] \in {None, t[i]} \ g
      OBVIOUS
    <3>2. None \notin g
      BY <2>2, HeldAssumption
    <3>3. CASE i = h
      <4>1. s[i] = None
        BY <3>3, MindHas
      <4> QED
        BY <3>2, <4>1
    <3>4. CASE i # h
      <4>1. s[i] = k.slots[i] /\ t[i] = k.told[i] /\ i = 1 - h
        BY <1>2, <3>4, MindHas DEF Hands
      <4>2. s[i] \in {None, t[i]} /\ s[i] \notin k.settling
        BY <4>1, MindHas
      <4>3. s[i] \notin g
        BY <3>2, <4>1, <4>2
      <4> QED
        BY <4>2, <4>3
    <3> QED
      BY <3>3, <3>4
  <2> HIDE DEF t, s, g
  <2>4. [told |-> t, slots |-> s, settling |-> g] \in Minds
    BY <1>2, <2>2, <2>3, MindIs
  <2> QED
    BY <1>1, <2>1, <2>4
<1> QED
  BY <1>3, <1>4

LEMMA EventKeepsMind ==
  ASSUME NEW c \in Clients, copy[c] \subseteq Objects, NEW k \in Minds, NEW e \in Event
  PROVE  HandleEvent(c, k, e) \in Minds
<1> DEFINE n == IF k.told[e.hand] = e.obj THEN None ELSE k.told[e.hand]
<1>1. e.hand \in Hands /\ e.obj \in Objects /\ e.kind \in {"Grabbed", "Dropped"}
  BY DEF Event
<1>2. CASE e.obj \notin copy[c]
  BY <1>2 DEF HandleEvent
<1>3. CASE e.obj \in copy[c] /\ e.kind = "Grabbed"
  <2>1. HandleEvent(c, k, e) = Hold([k EXCEPT !.told[e.hand] = e.obj], e.hand, e.obj)
    BY <1>3 DEF HandleEvent
  <2> QED
    BY <1>1, <2>1, HoldKeepsMind
<1>4. CASE e.obj \in copy[c] /\ e.kind # "Grabbed"
  <2>1. HandleEvent(c, k, e) = Release(c, [k EXCEPT !.told[e.hand] = n], e.hand, e.obj)
    BY <1>4 DEF HandleEvent
  <2> HIDE DEF n
  <2>2. n = (IF k.told[e.hand] = e.obj THEN None ELSE k.told[e.hand])
    BY DEF n
  <2> QED
    BY <1>1, <2>1, <2>2, ReleaseKeepsMind
<1> QED
  BY <1>2, <1>3, <1>4

(* The whole queue: what a client knows after each of the reports. *)
LEMMA HearingKeepsMind ==
  ASSUME NEW c \in Clients, copy[c] \subseteq Objects, Known(c) \in Minds, queue[c] \in Seq(Event)
  PROVE  Heard(c) \in Minds
<1> DEFINE n == Len(queue[c])
           After(k, i) == HandleEvent(c, k, queue[c][i])
           body(f) == [i \in 0..n |-> IF i = 0 THEN Known(c) ELSE After(f[i - 1], i)]
           Reach(m, f) == /\ f \in [0..m -> Minds] /\ f[0] = Known(c)
                          /\ \A i \in 1..m : f[i] = After(f[i - 1], i)
           S == {m \in Nat : m <= n => \E f : Reach(m, f)}
<1>1. n \in Nat /\ \A i \in 1..n : queue[c][i] \in Event
  OBVIOUS
<1>2. \A k \in Minds, i \in 1..n : After(k, i) \in Minds
  BY <1>1, EventKeepsMind
<1>3. Heard(c) = (CHOOSE f : f = body(f))[n]
  BY DEF Heard
<1> HIDE DEF n, After
<1>4. 0 \in S
  <2> DEFINE f == [i \in 0..0 |-> Known(c)]
  <2>1. Reach(0, f)
    OBVIOUS
  <2> QED
    BY <2>1
<1>5. ASSUME NEW m \in Nat, m \in S PROVE m + 1 \in S
  <2>1. SUFFICES ASSUME m + 1 <= n PROVE \E f : Reach(m + 1, f)
    OBVIOUS
  <2>2. PICK f : Reach(m, f)
    BY <1>1, <1>5, <2>1
  <2> DEFINE g == [i \in 0..(m + 1) |-> IF i = m + 1 THEN After(f[m], m + 1) ELSE f[i]]
  <2>3. m + 1 \in 1..n /\ f[m] \in Minds
    BY <1>1, <2>1, <2>2
  <2>4. \A i \in 0..m : g[i] = f[i] /\ f[i] \in Minds
    BY <2>2
  <2>5. g[m + 1] = After(f[m], m + 1) /\ After(f[m], m + 1) \in Minds
    BY <1>2, <2>3
  <2>6. g \in [0..(m + 1) -> Minds]
    <3>1. ASSUME NEW i \in 0..(m + 1)
          PROVE  (IF i = m + 1 THEN After(f[m], m + 1) ELSE f[i]) \in Minds
      <4>1. CASE i = m + 1
        BY <2>5, <4>1
      <4>2. CASE i # m + 1
        <5>1. i \in 0..m
          BY <4>2
        <5> QED
          BY <2>4, <4>2, <5>1
      <4> QED
        BY <4>1, <4>2
    <3> QED
      BY <3>1
  <2>7. g[0] = Known(c)
    BY <2>2, <2>4
  <2>8. ASSUME NEW i \in 1..(m + 1) PROVE g[i] = After(g[i - 1], i)
    <3>1. CASE i = m + 1
      BY <2>4, <2>5, <3>1
    <3>2. CASE i # m + 1
      <4>1. i \in 1..m /\ i \in 0..m /\ i - 1 \in 0..m
        BY <3>2
      <4> QED
        BY <2>2, <2>4, <4>1
    <3> QED
      BY <3>1, <3>2
  <2> HIDE DEF g
  <2> QED
    BY <2>6, <2>7, <2>8
<1>6. Nat \subseteq S
  <2> HIDE DEF S
  <2> QED
    BY <1>4, <1>5, Induction
<1>7. PICK f : Reach(n, f)
  BY <1>1, <1>6
<1>8. \E g : g = body(g)
  <2> DEFINE g == [i \in 0..n |-> IF i = 0 THEN Known(c) ELSE After(f[i - 1], i)]
  <2>1. \A i \in 0..n : g[i] = f[i]
    BY <1>1, <1>7
  <2>2. \A i \in 0..n : g[i] = IF i = 0 THEN Known(c) ELSE After(g[i - 1], i)
    <3>1. SUFFICES ASSUME NEW i \in 0..n
                   PROVE  g[i] = IF i = 0 THEN Known(c) ELSE After(g[i - 1], i)
      OBVIOUS
    <3>2. CASE i = 0
      BY <3>2
    <3>3. CASE i # 0
      <4>1. i - 1 \in 0..n
        BY <1>1, <3>3
      <4>2. g[i - 1] = f[i - 1]
        BY <2>1, <4>1
      <4>3. g[i] = After(f[i - 1], i)
        BY <3>3
      <4> HIDE DEF g
      <4> QED
        BY <3>3, <4>2, <4>3
    <3> QED
      BY <3>2, <3>3
  <2>3. g = [i \in 0..n |-> g[i]]
    OBVIOUS
  <2> HIDE DEF g
  <2>4. g = body(g)
    BY <2>2, <2>3
  <2> QED
    BY <2>4
<1> DEFINE h == CHOOSE g : g = body(g)
<1>9. h = body(h)
  BY <1>8
<1> HIDE DEF h
<1>10. h[0] = Known(c) /\ \A i \in 1..n : h[i] = After(h[i - 1], i)
  <2>1. \A i \in 0..n : h[i] = IF i = 0 THEN Known(c) ELSE After(h[i - 1], i)
    BY <1>9
  <2> QED
    BY <1>1, <2>1
<1> DEFINE Q == {m \in Nat : m <= n => h[m] \in Minds}
<1>11. 0 \in Q
  BY <1>10
<1>12. ASSUME NEW m \in Nat, m \in Q PROVE m + 1 \in Q
  <2>1. SUFFICES ASSUME m + 1 <= n PROVE h[m + 1] \in Minds
    OBVIOUS
  <2>2. m + 1 \in 1..n /\ h[m] \in Minds /\ (m + 1) - 1 = m
    BY <1>1, <1>12, <2>1
  <2>3. h[m + 1] = After(h[m], m + 1)
    BY <1>10, <2>2
  <2> QED
    BY <1>2, <2>2, <2>3
<1>13. Nat \subseteq Q
  <2> HIDE DEF Q
  <2> QED
    BY <1>11, <1>12, Induction
<1>14. h[n] \in Minds
  BY <1>1, <1>13
<1> QED
  BY <1>3, <1>14 DEF h

-----------------------------------------------------------------------------
(* TypeOK, in parts.                                                       *)

HandTypes ==
  /\ grip \in [Clients -> [Hands -> Objects \cup {None}]]
  /\ queue \in [Clients -> Seq(Event)]

MindTypes ==
  /\ told \in [Clients -> [Hands -> Objects \cup {None}]]
  /\ slots \in [Clients -> [Hands -> Objects \cup {None}]]
  /\ settling \in [Clients -> SUBSET Objects]
  /\ \A c \in Clients, h \in Hands : slots[c][h] \in {None, told[c][h]} \ settling[c]

CopyTypes ==
  /\ driven \in [Clients -> SUBSET Objects] /\ copy \in [Clients -> SUBSET Objects]
  /\ named \in [Clients -> SUBSET Objects] /\ pairing \in [Clients -> SUBSET Objects]
  /\ pocketed \in [Clients -> SUBSET Objects]
  /\ pos \in [Clients -> [Objects -> Spots]]

NetTypes ==
  /\ here \subseteq Clients /\ link \in [Clients -> {"up", "dead", "off"}]
  /\ turns \in 0..MaxTurns

DownTypes == down \in [Clients -> Seq(Message)]

PastTypes ==
  /\ temporary \subseteq Objects
  /\ taken \subseteq made /\ made \subseteq temporary
  /\ behind \cup spared \subseteq Clients \X Objects

LEMMA TypesAre ==
  TypeOK <=> HandTypes /\ MindTypes /\ CopyTypes /\ NetTypes /\ DownTypes /\ PastTypes
BY DEF TypeOK, HandTypes, MindTypes, CopyTypes, NetTypes, DownTypes, PastTypes

LEMMA NothingIsTyped == Nothing \in [Hands -> Objects \cup {None}]
BY DEF Nothing

LEMMA InitTypes == Init => TypeOK
<1> SUFFICES ASSUME Init PROVE TypeOK
  OBVIOUS
<1>1. HandTypes
  BY NothingIsTyped DEF Init, HandTypes
<1>2. MindTypes
  BY NothingIsTyped DEF Init, MindTypes, Nothing
<1>3. CopyTypes
  <2>1. (CHOOSE x \in Spots : TRUE) \in Spots
    BY HeldAssumption
  <2> QED
    BY <2>1 DEF Init, CopyTypes
<1>4. NetTypes
  BY HeldAssumption DEF Init, NetTypes
<1>5. DownTypes
  <2>1. <<>> \in Seq(Message)
    OBVIOUS
  <2> QED
    BY <2>1 DEF Init, DownTypes
<1>6. PastTypes
  BY DEF Init, PastTypes
<1> QED
  BY <1>1, <1>2, <1>3, <1>4, <1>5, <1>6, TypesAre

(* Relayed messages. *)
LEMMA RelayIs ==
  ASSUME DownTypes, NEW c, NEW m \in Message
  PROVE  /\ Relay(c, m) \in [Clients -> Seq(Message)]
         /\ \A v \in Clients : Relay(c, m)[v] = IF v \in Audience(c) THEN Append(down[v], m) ELSE down[v]
<1>1. \A v \in Clients : Append(down[v], m) \in Seq(Message) /\ down[v] \in Seq(Message)
  BY AppendIs DEF DownTypes
<1> QED
  BY <1>1 DEF Relay

LEMMA ReadIs ==
  ASSUME DownTypes, NEW c \in Clients, down[c] # <<>>
  PROVE  /\ [down EXCEPT ![c] = Tail(@)] \in [Clients -> Seq(Message)]
         /\ Head(down[c]) \in Message
BY TailIs DEF DownTypes

(* A client's mind is as its variables say. *)
LEMMA KnownIs ==
  ASSUME MindTypes, NEW c \in Clients
  PROVE  Known(c) \in Minds
BY DEF MindTypes, Known, Minds

LEMMA LearnTypes ==
  ASSUME MindTypes, NEW c \in Clients, NEW k \in Minds, Learn(c, k)
  PROVE  MindTypes'
<1>1. /\ k.told \in [Hands -> Objects \cup {None}] /\ k.slots \in [Hands -> Objects \cup {None}]
      /\ k.settling \subseteq Objects /\ \A h \in Hands : k.slots[h] \in {None, k.told[h]} \ k.settling
  BY MindHas
<1>2. /\ told' \in [Clients -> [Hands -> Objects \cup {None}]]
      /\ slots' \in [Clients -> [Hands -> Objects \cup {None}]]
      /\ settling' \in [Clients -> SUBSET Objects]
  BY <1>1 DEF MindTypes, Learn
<1>3. ASSUME NEW v \in Clients, NEW h \in Hands
      PROVE  slots'[v][h] \in {None, told'[v][h]} \ settling'[v]
  <2>1. CASE v = c
    BY <1>1, <2>1 DEF MindTypes, Learn
  <2>2. CASE v # c
    BY <2>2 DEF MindTypes, Learn
  <2> QED
    BY <2>1, <2>2
<1> QED
  BY <1>2, <1>3 DEF MindTypes

(* What a client lets go of, it may forget. *)
LEMMA FewerSettling ==
  ASSUME MindTypes, NEW c \in Clients, NEW S, settling' = [settling EXCEPT ![c] = @ \ S],
         UNCHANGED <<told, slots>>
  PROVE  MindTypes'
<1>1. settling' \in [Clients -> SUBSET Objects] /\ \A v \in Clients : settling'[v] \subseteq settling[v]
  BY DEF MindTypes
<1> QED
  BY <1>1 DEF MindTypes

LEMMA VanishTypes ==
  ASSUME HandTypes, CopyTypes, NEW c \in Clients, NEW o \in Objects, Vanish(c, o)
  PROVE  HandTypes' /\ copy' \in [Clients -> SUBSET Objects]
BY DEF HandTypes, CopyTypes, Vanish

LEMMA SendTypes ==
  ASSUME TypeOK, NEW c \in Clients, NEW o \in Objects, NEW x \in Spots, NEW r \in BOOLEAN,
         SendObjectTransform(c, o, x, r)
  PROVE  /\ DownTypes' /\ pos' \in [Clients -> [Objects -> Spots]]
         /\ behind' \subseteq Clients \X Objects
<1>1. Transform(o, x, r) \in Message
  BY MessageTypes
<1>2. DownTypes'
  BY <1>1, TypesAre, RelayIs DEF SendObjectTransform, DownTypes
<1>3. pos' \in [Clients -> [Objects -> Spots]]
  BY TypesAre DEF SendObjectTransform, CopyTypes
<1>4. behind' \subseteq Clients \X Objects
  BY TypesAre DEF SendObjectTransform, PastTypes, Others, Audience
<1> QED
  BY <1>2, <1>3, <1>4

LEMMA TransformTypes ==
  ASSUME TypeOK, NEW c \in Clients, NEW m \in Message, m.type = "Transform",
         OnObjectTransformNotify(c, m), UNCHANGED <<temporary, pocketed, made, taken>>
  PROVE  HandTypes' /\ MindTypes' /\ CopyTypes' /\ PastTypes'
<1>1. m.obj \in Objects /\ m.at \in Spots
  BY MessageKinds
<1>2. HandTypes'
  BY TypesAre DEF HandTypes, OnObjectTransformNotify, handVars
<1>3. MindTypes'
  <2>1. CASE Resolves(c, m.obj)
    <3>1. settling' = [settling EXCEPT ![c] = @ \ {m.obj}] /\ UNCHANGED <<told, slots>>
      BY <2>1 DEF OnObjectTransformNotify, TakeOver, handVars
    <3> QED
      BY <3>1, TypesAre, FewerSettling
  <2>2. CASE ~Resolves(c, m.obj)
    BY <2>2, TypesAre DEF OnObjectTransformNotify, MindTypes, handVars
  <2> QED
    BY <2>1, <2>2
<1>4. CopyTypes'
  <2>1. named' \in [Clients -> SUBSET Objects]
    BY TypesAre DEF OnObjectTransformNotify, Lookup, CopyTypes
  <2>2. driven' \in [Clients -> SUBSET Objects] /\ pos' \in [Clients -> [Objects -> Spots]]
    <3>1. CASE Resolves(c, m.obj)
      <4>1. pos' = [pos EXCEPT ![c][m.obj] = m.at]
        BY <3>1 DEF OnObjectTransformNotify, Place
      <4>2. driven' = [driven EXCEPT ![c] = IF m.released THEN @ \ {m.obj} ELSE @ \cup {m.obj}]
        BY <3>1 DEF OnObjectTransformNotify, Drive
      <4> QED
        BY <1>1, <4>1, <4>2, TypesAre DEF CopyTypes
    <3>2. CASE ~Resolves(c, m.obj)
      BY <3>2, TypesAre DEF OnObjectTransformNotify, CopyTypes
    <3> QED
      BY <3>1, <3>2
  <2> QED
    BY <2>1, <2>2, TypesAre DEF OnObjectTransformNotify, CopyTypes
<1>5. PastTypes'
  BY <1>1, TypesAre DEF OnObjectTransformNotify, PastTypes, Others
<1> QED
  BY <1>2, <1>3, <1>4, <1>5

LEMMA DropTypes ==
  ASSUME TypeOK, NEW c \in Clients, NEW o \in Objects, OnNotifyDrop(c, o),
         UNCHANGED <<temporary, pocketed, made, taken>>
  PROVE  HandTypes' /\ MindTypes' /\ CopyTypes' /\ PastTypes'
<1>1. HandTypes' /\ MindTypes' /\ PastTypes'
  BY TypesAre DEF HandTypes, MindTypes, PastTypes, OnNotifyDrop, handVars, objectVars
<1>2. CopyTypes'
  <2>1. copy' \in [Clients -> SUBSET Objects] /\ pairing' \in [Clients -> SUBSET Objects]
    <3>1. CASE UNCHANGED <<copy, pairing>>
      BY <3>1, TypesAre DEF CopyTypes
    <3>2. CASE /\ copy' = [copy EXCEPT ![c] = @ \cup {o}]
               /\ pairing' = [pairing EXCEPT ![c] = @ \cup {o}]
      BY <3>2, TypesAre DEF CopyTypes
    <3> QED
      BY <3>1, <3>2 DEF OnNotifyDrop
  <2> QED
    BY <2>1, TypesAre DEF CopyTypes, OnNotifyDrop, objectVars
<1> QED
  BY <1>1, <1>2

LEMMA RemoveTypes ==
  ASSUME TypeOK, NEW c \in Clients, NEW o \in Objects, OnObjectRemoveNotify(c, o),
         UNCHANGED <<temporary, pocketed, made, taken>>
  PROVE  HandTypes' /\ MindTypes' /\ CopyTypes' /\ PastTypes'
<1>1. named' \in [Clients -> SUBSET Objects]
  BY TypesAre DEF OnObjectRemoveNotify, CopyTypes
<1>2. PastTypes'
  BY TypesAre DEF OnObjectRemoveNotify, PastTypes
<1>3. CASE Resolves(c, o)
  <2>1. HandTypes' /\ copy' \in [Clients -> SUBSET Objects]
    BY <1>3, TypesAre, VanishTypes DEF OnObjectRemoveNotify
  <2>2. MindTypes'
    <3>1. settling' = [settling EXCEPT ![c] = @ \ {o}] /\ UNCHANGED <<told, slots>>
      BY <1>3 DEF OnObjectRemoveNotify, TakeOver
    <3> QED
      BY <3>1, TypesAre, FewerSettling
  <2>3. driven' \in [Clients -> SUBSET Objects]
    BY <1>3, TypesAre DEF OnObjectRemoveNotify, CopyTypes
  <2>4. CopyTypes'
    BY <1>1, <2>1, <2>3, TypesAre DEF OnObjectRemoveNotify, CopyTypes
  <2> QED
    BY <1>2, <2>1, <2>2, <2>4
<1>4. CASE ~Resolves(c, o)
  <2>1. HandTypes' /\ MindTypes'
    BY <1>4, TypesAre DEF OnObjectRemoveNotify, HandTypes, MindTypes
  <2>2. CopyTypes'
    BY <1>1, <1>4, TypesAre DEF OnObjectRemoveNotify, CopyTypes
  <2> QED
    BY <1>2, <2>1, <2>2
<1> QED
  BY <1>3, <1>4

LEMMA ReceiveTypes ==
  ASSUME TypeOK, NEW c \in Clients, Receive(c)
  PROVE  TypeOK'
<1> DEFINE m == Head(down[c])
<1>1. m \in Message /\ DownTypes'
  BY TypesAre, ReadIs DEF Receive, DownTypes
<1>2. NetTypes' /\ UNCHANGED <<temporary, pocketed, made, taken>>
  BY TypesAre DEF Receive, NetTypes
<1>3. m.obj \in Objects /\ m.type \in {"Transform", "Drop", "Remove"}
  BY <1>1, MessageKinds
<1>4. /\ m.type = "Transform" => OnObjectTransformNotify(c, m)
      /\ m.type = "Drop" => OnNotifyDrop(c, m.obj)
      /\ m.type = "Remove" => OnObjectRemoveNotify(c, m.obj)
  BY DEF Receive
<1> HIDE DEF m
<1>5. HandTypes' /\ MindTypes' /\ CopyTypes' /\ PastTypes'
  BY <1>1, <1>2, <1>3, <1>4, TransformTypes, DropTypes, RemoveTypes
<1> QED
  BY <1>1, <1>2, <1>5, TypesAre, PTL

LEMMA ReconcileTypes ==
  ASSUME TypeOK, NEW c \in Clients, Reconcile(c)
  PROVE  MindTypes'
<1>1. copy[c] \subseteq Objects /\ Known(c) \in Minds
  BY TypesAre, KnownIs DEF CopyTypes
<1>2. PICK answer \in Answers(c) :
        LET ended == Ended(c, answer)
            End(k, h) == IF h \in ended
                           THEN Release(c, [k EXCEPT !.told[h] = None], h, k.told[h]) ELSE k
        IN  Learn(c, End(End(Known(c), 0), 1))
  BY DEF Reconcile
<1> DEFINE ended == Ended(c, answer)
           End(k, h) == IF h \in ended
                          THEN Release(c, [k EXCEPT !.told[h] = None], h, k.told[h]) ELSE k
<1>3. ASSUME NEW k \in Minds, NEW h \in Hands PROVE End(k, h) \in Minds
  <2>1. k.told[h] \in Objects \cup {None} /\ None = (IF k.told[h] = k.told[h] THEN None ELSE k.told[h])
    BY MindHas
  <2>2. Release(c, [k EXCEPT !.told[h] = None], h, k.told[h]) \in Minds
    BY <1>1, <2>1, ReleaseKeepsMind
  <2> QED
    BY <2>2
<1>4. Learn(c, End(End(Known(c), 0), 1))
  BY <1>2
<1> HIDE DEF End
<1>5. End(Known(c), 0) \in Minds
  BY <1>1, <1>3 DEF Hands
<1>6. End(End(Known(c), 0), 1) \in Minds
  BY <1>3, <1>5 DEF Hands
<1> QED
  BY <1>4, <1>6, TypesAre, LearnTypes

LEMMA PickedUpTypes ==
  ASSUME TypeOK, NEW c \in Clients, NEW o \in Objects, OnObjectPickedUp(c, o)
  PROVE  TypeOK'
<1>1. HandTypes' /\ NetTypes'
  BY TypesAre DEF OnObjectPickedUp, HandTypes, NetTypes
<1>2. PastTypes'
  BY TypesAre DEF OnObjectPickedUp, PastTypes, Others
<1>3. DownTypes'
  BY TypesAre, MessageTypes, RelayIs DEF OnObjectPickedUp, DownTypes
<1>4. pocketed' \in [Clients -> SUBSET Objects]
  BY TypesAre DEF OnObjectPickedUp, CopyTypes
<1>5. CASE DropOf(c, o)
  <2>1. driven' \in [Clients -> SUBSET Objects] /\ named' \in [Clients -> SUBSET Objects]
    <3>1. /\ driven' = [driven EXCEPT ![c] = @ \ {o}]
          /\ named' = [named EXCEPT ![c] = @ \ {o}]
      BY <1>5 DEF OnObjectPickedUp
    <3> QED
      BY <3>1, TypesAre DEF CopyTypes
  <2>2. CopyTypes'
    BY <1>4, <2>1, TypesAre DEF OnObjectPickedUp, CopyTypes
  <2>3. /\ settling' = [settling EXCEPT ![c] = @ \ {o}]
        /\ slots' = [slots EXCEPT ![c] = [h \in Hands |-> IF @[h] = o THEN None ELSE @[h]]]
        /\ told' = told
    BY <1>5 DEF OnObjectPickedUp
  <2>4. settling' \in [Clients -> SUBSET Objects] /\ \A v \in Clients : settling'[v] \subseteq settling[v]
    BY <2>3, TypesAre DEF MindTypes
  <2>5. slots' \in [Clients -> [Hands -> Objects \cup {None}]]
    BY <2>3, TypesAre DEF MindTypes
  <2>6. \A v \in Clients, h \in Hands : slots'[v][h] \in {None, slots[v][h]}
    BY <2>3, TypesAre DEF MindTypes
  <2>7. ASSUME NEW v \in Clients, NEW h \in Hands
        PROVE  slots'[v][h] \in {None, told'[v][h]} \ settling'[v]
    <3>1. None \notin settling'[v]
      BY <2>4, HeldAssumption
    <3>2. slots[v][h] \in {None, told[v][h]} \ settling[v]
      BY TypesAre DEF MindTypes
    <3> QED
      BY <2>3, <2>4, <2>6, <3>1, <3>2
  <2>8. MindTypes'
    BY <2>3, <2>4, <2>5, <2>7, TypesAre DEF MindTypes
  <2> QED
    BY <1>1, <1>2, <1>3, <2>2, <2>8, TypesAre, PTL
<1>6. CASE ~DropOf(c, o)
  <2>1. CopyTypes'
    BY <1>4, <1>6, TypesAre DEF OnObjectPickedUp, CopyTypes
  <2>2. MindTypes'
    BY <1>6, TypesAre DEF OnObjectPickedUp, MindTypes
  <2> QED
    BY <1>1, <1>2, <1>3, <2>1, <2>2, TypesAre, PTL
<1> QED
  BY <1>5, <1>6

LEMMA TypeStep == TypeOK /\ Dropping /\ [Next]_vars => TypeOK'
<1> SUFFICES ASSUME TypeOK, Dropping, [Next]_vars PROVE TypeOK'
  OBVIOUS
<1> USE TypesAre
<1>1. ASSUME NEW c \in Clients, LeaveCell(c) \/ EnterCell(c) \/ OnDisconnected(c) \/ Reconnect(c)
      PROVE  TypeOK'
  <2>1. NetTypes'
    BY <1>1, HeldAssumption DEF LeaveCell, EnterCell, OnDisconnected, Reconnect, NetTypes
  <2>2. UNCHANGED <<handVars, objectVars, dropVars, down, history>>
    BY <1>1 DEF LeaveCell, EnterCell, OnDisconnected, Reconnect
  <2>3. HandTypes' /\ MindTypes' /\ CopyTypes' /\ DownTypes' /\ PastTypes'
    BY <2>2 DEF HandTypes, MindTypes, CopyTypes, DownTypes, PastTypes, handVars, objectVars,
                dropVars, history
  <2> QED
    BY <2>1, <2>3, PTL
<1>2. ASSUME NEW c \in Clients, Break(c) PROVE TypeOK'
  <2>1. NetTypes' /\ DownTypes'
    <3>1. <<>> \in Seq(Message)
      OBVIOUS
    <3> QED
      BY <1>2, <3>1, HeldAssumption DEF Break, NetTypes, DownTypes
  <2>2. PastTypes'
    BY <1>2 DEF Break, PastTypes, dropVars
  <2>3. HandTypes' /\ MindTypes' /\ CopyTypes'
    BY <1>2 DEF Break, HandTypes, MindTypes, CopyTypes, handVars, objectVars, dropVars
  <2> QED
    BY <2>1, <2>2, <2>3, PTL
<1>3. ASSUME NEW c \in Clients, Drain(c) \/ Reconcile(c) PROVE TypeOK'
  <2>1. HandTypes'
    <3>1. <<>> \in Seq(Event)
      OBVIOUS
    <3> QED
      BY <1>3, <3>1 DEF Drain, Reconcile, HandTypes
  <2>2. ASSUME Drain(c) PROVE MindTypes'
    <3>1. Learn(c, Heard(c))
      BY <2>2 DEF Drain
    <3>2. copy[c] \subseteq Objects /\ queue[c] \in Seq(Event)
      BY DEF CopyTypes, HandTypes
    <3> QED
      BY <3>1, <3>2, HearingKeepsMind, KnownIs, LearnTypes
  <2>3. MindTypes'
    BY <1>3, <2>2, ReconcileTypes
  <2>4. CopyTypes' /\ NetTypes' /\ DownTypes' /\ PastTypes'
    BY <1>3 DEF Drain, Reconcile, CopyTypes, NetTypes, DownTypes, PastTypes, dropVars, netVars, history
  <2> QED
    BY <2>1, <2>3, <2>4, PTL
<1>4. ASSUME NEW c \in Clients, NEW h \in Hands, LetGo(c, h) PROVE TypeOK'
  <2>1. grip[c][h] \in Objects
    BY <1>4 DEF LetGo, HandTypes
  <2>2. queue[c] \in Seq(Event) /\ [kind |-> "Dropped", hand |-> h, obj |-> grip[c][h]] \in Event
    BY <2>1 DEF HandTypes, Event
  <2>3. Report(c, "Dropped", h, grip[c][h]) \in Seq(Event)
    BY <2>2 DEF Report
  <2>4. HandTypes'
    BY <1>4, <2>3 DEF LetGo, HandTypes
  <2>5. MindTypes' /\ CopyTypes' /\ NetTypes' /\ DownTypes' /\ PastTypes'
    BY <1>4 DEF LetGo, MindTypes, CopyTypes, NetTypes, DownTypes, PastTypes, objectVars, dropVars,
                netVars, history
  <2> QED
    BY <2>4, <2>5, PTL
<1>5. ASSUME NEW c \in Clients, NEW o \in Objects, NEW h \in Hands, Grab(c, h, o) PROVE TypeOK'
  <2>1. queue[c] \in Seq(Event) /\ [kind |-> "Grabbed", hand |-> h, obj |-> o] \in Event
    BY DEF HandTypes, Event
  <2>2. Report(c, "Grabbed", h, o) \in Seq(Event)
    BY <2>1 DEF Report
  <2>3. HandTypes'
    BY <1>5, <2>2 DEF Grab, HandTypes
  <2>4. NetTypes'
    BY <1>5, HeldAssumption DEF Grab, NetTypes, netVars
  <2>5. MindTypes' /\ CopyTypes' /\ DownTypes' /\ PastTypes'
    BY <1>5 DEF Grab, MindTypes, CopyTypes, DownTypes, PastTypes, objectVars, dropVars, netVars, history
  <2> QED
    BY <2>3, <2>4, <2>5, PTL
<1>6. ASSUME NEW c \in Clients, NEW o \in Objects, Stream(c, o) \/ Fly(c, o) \/ ComeToRest(c, o)
      PROVE  TypeOK'
  <2>1. HandTypes' /\ NetTypes'
    BY <1>6 DEF Stream, Fly, ComeToRest, HandTypes, NetTypes, handVars
  <2>2. MindTypes'
    <3>1. CASE Stream(c, o) \/ Fly(c, o)
      BY <3>1 DEF Stream, Fly, MindTypes, handVars
    <3>2. CASE ComeToRest(c, o)
      <4>1. settling' = [settling EXCEPT ![c] = @ \ {o}] /\ UNCHANGED <<told, slots>>
        BY <3>2 DEF ComeToRest, handVars
      <4> QED
        BY <4>1, FewerSettling
    <3> QED
      BY <1>6, <3>1, <3>2
  <2>3. /\ UNCHANGED <<driven, dropVars, made, taken, spared>>
        /\ \/ \E x \in Spots, r \in BOOLEAN : SendObjectTransform(c, o, x, r)
           \/ UNCHANGED <<pos, down, behind>>
    BY <1>6 DEF Stream, Fly, ComeToRest
  <2>4. DownTypes' /\ pos' \in [Clients -> [Objects -> Spots]] /\ behind' \subseteq Clients \X Objects
    BY <2>3, SendTypes DEF DownTypes, CopyTypes, PastTypes
  <2>5. CopyTypes' /\ PastTypes'
    BY <2>3, <2>4 DEF CopyTypes, PastTypes, dropVars
  <2> QED
    BY <2>1, <2>2, <2>4, <2>5, PTL
<1>7. ASSUME NEW c \in Clients, NEW o \in Objects, Timeout(c, o) \/ Pair(c, o) PROVE TypeOK'
  <2>1. HandTypes' /\ MindTypes' /\ NetTypes' /\ DownTypes' /\ PastTypes'
    BY <1>7 DEF Timeout, Pair, HandTypes, MindTypes, NetTypes, DownTypes, PastTypes, handVars,
                objectVars, dropVars, netVars, history
  <2>2. ASSUME Timeout(c, o) PROVE CopyTypes'
    BY <2>2 DEF Timeout, CopyTypes, dropVars
  <2>3. ASSUME Pair(c, o) PROVE CopyTypes'
    <3>1. pairing' \in [Clients -> SUBSET Objects] /\ named' \in [Clients -> SUBSET Objects]
      BY <2>3 DEF Pair, CopyTypes
    <3> QED
      BY <2>3, <3>1 DEF Pair, CopyTypes, objectVars
  <2>4. CopyTypes'
    BY <1>7, <2>2, <2>3
  <2> QED
    BY <2>1, <2>4, PTL
<1>8. ASSUME NEW c \in Clients, NEW o \in Objects, DropItem(c, o) PROVE TypeOK'
  <2>1. HandTypes' /\ MindTypes' /\ NetTypes'
    BY <1>8 DEF DropItem, HandTypes, MindTypes, NetTypes, handVars, objectVars
  <2>2. PastTypes'
    BY <1>8 DEF DropItem, PastTypes, Others
  <2>3. DownTypes'
    BY <1>8, MessageTypes, RelayIs DEF DropItem, DownTypes
  <2>4. copy' \in [Clients -> SUBSET Objects] /\ named' \in [Clients -> SUBSET Objects]
    BY <1>8 DEF DropItem, CopyTypes
  <2>5. CopyTypes'
    BY <1>8, <2>4 DEF DropItem, CopyTypes, objectVars
  <2> QED
    BY <2>1, <2>2, <2>3, <2>5, PTL
<1>9. ASSUME NEW c \in Clients, NEW o \in Objects, PickUp(c, o) PROVE TypeOK'
  <2>1. HandTypes' /\ copy' \in [Clients -> SUBSET Objects]
    BY <1>9, VanishTypes DEF PickUp
  <2>2. MindTypes' /\ NetTypes' /\ DownTypes'
    BY <1>9 DEF PickUp, MindTypes, NetTypes, DownTypes, objectVars, netVars
  <2>3. o \in made
    BY <1>9 DEF PickUp, Dropping
  <2>4. PastTypes'
    BY <1>9, <2>3 DEF PickUp, PastTypes, Others
  <2>5. pocketed' \in [Clients -> SUBSET Objects]
    BY <1>9 DEF PickUp, CopyTypes
  <2>6. CopyTypes'
    BY <1>9, <2>1, <2>5 DEF PickUp, CopyTypes, objectVars
  <2> QED
    BY <2>1, <2>2, <2>4, <2>6, PTL
<1>10. ASSUME NEW c \in Clients, NEW o \in Objects, MoveUnseen(c, o) PROVE TypeOK'
  <2>1. HandTypes' /\ MindTypes' /\ DownTypes'
    BY <1>10 DEF MoveUnseen, HandTypes, MindTypes, DownTypes, handVars, netVars
  <2>2. NetTypes'
    BY <1>10, HeldAssumption DEF MoveUnseen, NetTypes, netVars
  <2>3. CopyTypes'
    BY <1>10 DEF MoveUnseen, CopyTypes, dropVars
  <2>4. PastTypes'
    BY <1>10 DEF MoveUnseen, PastTypes, dropVars
  <2> QED
    BY <2>1, <2>2, <2>3, <2>4, PTL
<1>11. ASSUME UNCHANGED vars PROVE TypeOK'
  BY <1>11 DEF vars, handVars, objectVars, dropVars, netVars, history, TypeOK
<1> QED
  BY <1>1, <1>2, <1>3, <1>4, <1>5, <1>6, <1>7, <1>8, <1>9, <1>10, <1>11, PickedUpTypes, ReceiveTypes
  DEF Next

-----------------------------------------------------------------------------
(* Where objects come to lie.                                              *)

LEMMA SettlesFirst == Init => Settles
<1> SUFFICES ASSUME Init, NEW o \in Objects PROVE \E x \in Spots : EndAt(o, x)
  BY DEF Settles
<1> DEFINE x == CHOOSE y \in Spots : TRUE
<1>1. x \in Spots
  BY HeldAssumption
<1>2. \A c \in Clients : down[c] = <<>> /\ pos[c][o] = x
  BY DEF Init
<1> HIDE DEF x
<1> QED
  BY <1>1, <1>2, NothingIn DEF EndAt

(* A message that moves nothing. *)
LEMMA SettlesMore ==
  ASSUME DownTypes, Settles, NEW m \in Message, \A o : ~IsTransform(m, o),
         \A v \in Clients : down'[v] \in {down[v], Append(down[v], m)},
         pos' = pos, behind \subseteq behind'
  PROVE  Settles'
<1>1. SUFFICES ASSUME NEW o \in Objects, NEW x \in Spots, EndAt(o, x) PROVE EndAt(o, x)'
  BY DEF Settles
<1>2. SUFFICES ASSUME NEW c \in Clients, EndsAt(down[c], pos[c][o], o, x)
               PROVE  EndsAt(down'[c], pos[c][o], o, x)
  BY <1>1 DEF EndAt
<1>3. EndsAt(Append(down[c], m), pos[c][o], o, x)
  BY <1>2, EndsMore DEF DownTypes
<1> QED
  BY <1>2, <1>3

LEMMA SettlesSent ==
  ASSUME TypeOK, Settles, NEW c \in Clients, NEW o \in Objects, NEW x \in Spots, NEW r \in BOOLEAN,
         SendObjectTransform(c, o, x, r)
  PROVE  Settles'
<1> DEFINE m == Transform(o, x, r)
           reached == IF o \in named[c] THEN Audience(c) ELSE {}
<1>1. m \in Message /\ \A q : (IsTransform(m, q) <=> q = o) /\ (q = o => m.at = x)
  BY MessageTypes
<1>2. \A v \in Clients : down'[v] = IF v \in reached THEN Append(down[v], m) ELSE down[v]
  BY <1>1, TypesAre, RelayIs DEF SendObjectTransform
<1>3. behind' = IF OnItsWay(o, down[c])
                  THEN behind \cup (Clients \X {o})
                  ELSE (behind \ ((reached \cup {c}) \X {o}))
                         \cup ((Others(c) \ reached) \X {o})
  BY DEF SendObjectTransform
<1>4. \A v \in Clients, q \in Objects :
        pos'[v][q] = IF v = c /\ q = o THEN x ELSE pos[v][q]
  BY TypesAre DEF SendObjectTransform, CopyTypes
<1>5. c \notin reached
  BY DEF Audience
<1>6. \A v \in Clients : down[v] \in Seq(Message)
  BY TypesAre DEF DownTypes
<1> HIDE DEF m, reached
<1>7. ASSUME NEW q \in Objects, q # o PROVE \E y \in Spots : EndAt(q, y)'
  <2>1. PICK y \in Spots : EndAt(q, y)
    BY DEF Settles
  <2>2. ASSUME NEW v \in Clients
        PROVE  <<v, q>> \in behind' \/ EndsAt(down'[v], pos'[v][q], q, y)
    <3>1. CASE <<v, q>> \in behind
      BY <1>3, <1>7, <3>1
    <3>2. CASE EndsAt(down[v], pos[v][q], q, y)
      <4>1. EndsAt(Append(down[v], m), pos[v][q], q, y)
        BY <1>1, <1>6, <1>7, <3>2, EndsMore
      <4> QED
        BY <1>2, <1>4, <1>7, <3>2, <4>1
    <3> QED
      BY <2>1, <3>1, <3>2 DEF EndAt
  <2> QED
    BY <2>2 DEF EndAt
<1>8. EndAt(o, x)'
  <2>1. CASE OnItsWay(o, down[c])
    <3>1. \A v \in Clients : <<v, o>> \in behind'
      BY <1>3, <2>1
    <3> QED
      BY <3>1 DEF EndAt
  <2>2. CASE ~OnItsWay(o, down[c])
    <3>1. ASSUME NEW v \in Clients
          PROVE  <<v, o>> \in behind' \/ EndsAt(down'[v], pos'[v][o], o, x)
      <4>1. CASE v = c
        <5>1. \A i \in DOMAIN down[c] : ~IsTransform(down[c][i], o)
          BY <2>2 DEF OnItsWay, IsTransform
        <5>2. EndsAt(down[c], x, o, x)
          BY <5>1 DEF EndsAt
        <5> QED
          BY <1>2, <1>4, <1>5, <4>1, <5>2
      <4>2. CASE v \in reached
        <5>1. EndsAt(Append(down[v], m), pos'[v][o], o, x)
          BY <1>1, <1>6, EndsMore
        <5> QED
          BY <1>2, <4>2, <5>1
      <4>3. CASE v # c /\ v \notin reached
        BY <1>3, <2>2, <4>3 DEF Others
      <4> QED
        BY <4>1, <4>2, <4>3
    <3> QED
      BY <3>1 DEF EndAt
  <2> QED
    BY <2>1, <2>2
<1> QED
  BY <1>7, <1>8 DEF Settles

(* A copy that moves in its client's game alone. *)
LEMMA SettlesUnseen ==
  ASSUME TypeOK, Settles, NEW c \in Clients, NEW o \in Objects, MoveUnseen(c, o)
  PROVE  Settles'
<1>1. SUFFICES ASSUME NEW q \in Objects, NEW y \in Spots, EndAt(q, y) PROVE EndAt(q, y)'
  BY DEF Settles
<1>2. down' = down /\ \A v \in Clients : v # c \/ q # o => pos'[v][q] = pos[v][q]
  BY TypesAre DEF MoveUnseen, CopyTypes, netVars
<1>3. SUFFICES ASSUME NEW v \in Clients
               PROVE  <<v, q>> \in behind' \/ EndsAt(down[v], pos'[v][q], q, y)
  BY <1>2 DEF EndAt
<1>4. behind \subseteq behind'
  BY DEF MoveUnseen
<1>5. CASE v # c \/ q # o
  BY <1>1, <1>2, <1>4, <1>5 DEF EndAt
<1>6. CASE v = c /\ q = o /\ ~OnItsWay(o, down[c])
  BY <1>6 DEF MoveUnseen
<1>7. CASE v = c /\ q = o /\ OnItsWay(o, down[c])
  BY <1>1, <1>4, <1>7 DEF EndAt, EndsAt, OnItsWay, IsTransform
<1> QED
  BY <1>5, <1>6, <1>7

LEMMA SettlesRead ==
  ASSUME TypeOK, Settles, NEW c \in Clients, Receive(c)
  PROVE  Settles'
<1> DEFINE m == Head(down[c])
<1>1. m \in Message /\ down[c] \in Seq(Message) /\ down[c] # <<>>
  BY TypesAre, ReadIs DEF Receive, DownTypes
<1>2. \A v \in Clients : down'[v] = IF v = c THEN Tail(down[c]) ELSE down[v]
  BY TypesAre DEF Receive, DownTypes
<1>3. /\ m.type = "Transform" => OnObjectTransformNotify(c, m)
      /\ m.type = "Drop" => OnNotifyDrop(c, m.obj)
      /\ m.type = "Remove" => OnObjectRemoveNotify(c, m.obj)
  BY DEF Receive
<1>4. SUFFICES ASSUME NEW o \in Objects, NEW x \in Spots, EndAt(o, x) PROVE EndAt(o, x)'
  BY DEF Settles
<1>5. EndsAt(down[c], pos[c][o], o, x) =>
        IF IsTransform(m, o) THEN EndsAt(down'[c], m.at, o, x) ELSE EndsAt(down'[c], pos[c][o], o, x)
  BY <1>1, <1>2, EndsLess
<1> HIDE DEF m
<1>6. CASE m.type # "Transform"
  <2>1. pos' = pos /\ behind' = behind /\ ~IsTransform(m, o)
    BY <1>1, <1>3, <1>6, MessageKinds
       DEF OnNotifyDrop, OnObjectRemoveNotify, objectVars, IsTransform
  <2> QED
    BY <1>2, <1>4, <1>5, <2>1 DEF EndAt
<1>7. CASE m.type = "Transform" /\ Resolves(c, m.obj)
  <2>1. /\ behind' = behind
        /\ pos' = [pos EXCEPT ![c][m.obj] = m.at]
    BY <1>3, <1>7 DEF OnObjectTransformNotify, Place
  <2>2. IsTransform(m, o) <=> o = m.obj
    BY <1>7 DEF IsTransform
  <2>3. \A v \in Clients : pos'[v][o] = IF v = c /\ IsTransform(m, o) THEN m.at ELSE pos[v][o]
    BY <2>1, <2>2, TypesAre DEF CopyTypes
  <2> QED
    BY <1>2, <1>4, <1>5, <2>1, <2>3 DEF EndAt
<1>8. CASE m.type = "Transform" /\ ~Resolves(c, m.obj)
  <2>1. behind' = behind \cup {<<c, m.obj>>} /\ pos' = pos
    BY <1>3, <1>8 DEF OnObjectTransformNotify
  <2>2. IsTransform(m, o) <=> o = m.obj
    BY <1>8 DEF IsTransform
  <2> QED
    BY <1>2, <1>4, <1>5, <2>1, <2>2 DEF EndAt
<1> QED
  BY <1>6, <1>7, <1>8

LEMMA SettlesStep == TypeOK /\ Settles /\ [Next]_vars => Settles'
<1> SUFFICES ASSUME TypeOK, Settles, [Next]_vars PROVE Settles'
  OBVIOUS
<1>1. ASSUME UNCHANGED <<down, pos, behind>> PROVE Settles'
  BY <1>1 DEF Settles, EndAt
<1>2. ASSUME NEW c \in Clients, Break(c) PROVE Settles'
  <2>1. \A v \in Clients : v # c => down'[v] = down[v]
    BY <1>2, TypesAre DEF Break, DownTypes
  <2>2. pos' = pos /\ behind' = behind \cup ({c} \X Objects)
    BY <1>2 DEF Break, objectVars
  <2>3. SUFFICES ASSUME NEW o \in Objects, NEW x \in Spots, EndAt(o, x) PROVE EndAt(o, x)'
    BY DEF Settles
  <2> QED
    BY <2>1, <2>2, <2>3 DEF EndAt
<1>3. ASSUME NEW c \in Clients, NEW o \in Objects, Stream(c, o) \/ Fly(c, o) \/ ComeToRest(c, o)
      PROVE  Settles'
  <2>1. \/ \E x \in Spots, r \in BOOLEAN : SendObjectTransform(c, o, x, r)
        \/ UNCHANGED <<down, pos, behind>>
    BY <1>3 DEF Stream, Fly, ComeToRest
  <2> QED
    BY <1>1, <2>1, SettlesSent
<1>4. ASSUME NEW c \in Clients, NEW o \in Objects, DropItem(c, o) PROVE Settles'
  <2>1. Drop(o) \in Message /\ \A q : ~IsTransform(Drop(o), q)
    BY MessageTypes
  <2>2. \A v \in Clients : down'[v] \in {down[v], Append(down[v], Drop(o))}
    BY <1>4, <2>1, TypesAre, RelayIs DEF DropItem
  <2>3. pos' = pos /\ behind \subseteq behind'
    BY <1>4 DEF DropItem, objectVars
  <2> QED
    BY <2>1, <2>2, <2>3, TypesAre, SettlesMore
<1>5. ASSUME NEW c \in Clients, NEW o \in Objects, OnObjectPickedUp(c, o) PROVE Settles'
  <2>1. Removal(o) \in Message /\ \A q : ~IsTransform(Removal(o), q)
    BY MessageTypes
  <2>2. \A v \in Clients : down'[v] \in {down[v], Append(down[v], Removal(o))}
    <3>1. down' = down \/ down' = Relay(c, Removal(o))
      BY <1>5 DEF OnObjectPickedUp
    <3> QED
      BY <2>1, <3>1, TypesAre, RelayIs
  <2>3. pos' = pos /\ behind' = behind
    BY <1>5 DEF OnObjectPickedUp
  <2> QED
    BY <2>1, <2>2, <2>3, TypesAre, SettlesMore
<1>6. ASSUME NEW c \in Clients,
             \/ LeaveCell(c) \/ EnterCell(c) \/ OnDisconnected(c) \/ Reconnect(c)
             \/ Drain(c) \/ Reconcile(c)
      PROVE  Settles'
  BY <1>1, <1>6 DEF LeaveCell, EnterCell, OnDisconnected, Reconnect, Drain, Reconcile, objectVars,
                    netVars, history
<1>7. ASSUME NEW c \in Clients, NEW o \in Objects, Timeout(c, o) \/ Pair(c, o) \/ PickUp(c, o)
      PROVE  Settles'
  BY <1>1, <1>7 DEF Timeout, Pair, PickUp, objectVars, netVars, history
<1>8. ASSUME NEW c \in Clients, NEW h \in Hands, LetGo(c, h) \/ \E o \in Objects : Grab(c, h, o)
      PROVE  Settles'
  BY <1>1, <1>8 DEF LetGo, Grab, objectVars, netVars, history
<1>9. ASSUME UNCHANGED vars PROVE Settles'
  BY <1>1, <1>9 DEF vars, objectVars, netVars, history
<1> QED
  BY <1>2, <1>3, <1>4, <1>5, <1>6, <1>7, <1>8, <1>9, SettlesRead, SettlesUnseen DEF Next

LEMMA SettledRests == Settles => RestAgrees
<1> SUFFICES ASSUME Settles, NEW o \in Objects, Idle(o), NEW c \in Clients, NEW v \in Clients,
                    <<c, o>> \notin behind, <<v, o>> \notin behind
             PROVE  pos[c][o] = pos[v][o]
  BY DEF RestAgrees
<1>1. PICK x \in Spots : EndAt(o, x)
  BY DEF Settles
<1>2. \A w \in Clients : \A i \in DOMAIN down[w] : ~IsTransform(down[w][i], o)
  BY DEF Idle, IsTransform
<1>3. \A w \in {c, v} : x = pos[w][o]
  BY <1>1, <1>2 DEF EndAt, EndsAt
<1> QED
  BY <1>3

-----------------------------------------------------------------------------
(* Drops and pickups.                                                      *)

LEMMA DropsFirst == Init => Drops
<1> SUFFICES ASSUME Init PROVE Drops
  OBVIOUS
<1>1. \A c \in Clients : /\ down[c] = <<>> /\ copy[c] = Objects \ temporary
                         /\ pocketed[c] = {}
  BY DEF Init
<1> QED
  BY <1>1, NothingIn DEF Init, Drops, Dropping, Pocketing, Announced

(* Nothing is said of drops. *)
LEMMA DropsAlike ==
  ASSUME Drops, UNCHANGED <<temporary, copy, pocketed, made, taken, spared>>,
         \A v \in Clients : named[v] \subseteq named'[v],
         \A v \in Clients, q \in Objects :
           /\ Has(down'[v], Drop(q)) <=> Has(down[v], Drop(q))
           /\ Has(down'[v], Removal(q)) <=> Has(down[v], Removal(q))
           /\ InOrder(down'[v], q),
         taken \subseteq Objects
  PROVE  Drops'
<1>1. Dropping'
  BY DEF Drops, Dropping
<1>2. Pocketing'
  <2>1. \A v \in Clients : \A q \in pocketed[v] : q \in taken
    BY DEF Drops, Pocketing
  <2> QED
    BY <2>1 DEF Drops, Pocketing, Without
<1>3. Announced'
  <2>1. \A q \in Objects : Spread(q)' <=> Spread(q)
    BY DEF Spread, Without
  <2>2. ASSUME NEW q \in taken, ~Spread(q)
        PROVE  \E p \in Clients : q \in pocketed[p] /\ q \in named'[p]
    BY <2>2 DEF Drops, Announced
  <2> QED
    BY <2>1, <2>2 DEF Drops, Announced
<1> QED
  BY <1>1, <1>2, <1>3 DEF Drops

LEMMA DropsSame ==
  ASSUME TypeOK, Drops, UNCHANGED <<temporary, copy, named, pocketed, down, made, taken, spared>>
  PROVE  Drops'
BY DEF Drops, Dropping, Pocketing, Announced, Spread, Without

LEMMA DropsBreak ==
  ASSUME TypeOK, Drops, NEW c \in Clients, Break(c)
  PROVE  Drops'
<1>1. /\ UNCHANGED <<temporary, copy, named, pocketed, made, taken>>
      /\ spared' = spared \cup ({c} \X Objects)
      /\ \A v \in Clients : down'[v] = IF v = c THEN <<>> ELSE down[v]
  BY TypesAre DEF Break, dropVars, DownTypes
<1>2. \A q, v : Without(v, q) /\ v \in Clients => Without(v, q)'
  BY <1>1, NothingIn DEF Without
<1>3. \A q \in Objects : Spread(q) => Spread(q)'
  BY <1>1, <1>2 DEF Spread
<1>4. Dropping'
  BY <1>1, NothingIn DEF Drops, Dropping
<1>5. Pocketing'
  BY <1>1, <1>2 DEF Drops, Pocketing
<1>6. taken \subseteq Objects
  BY TypesAre DEF PastTypes
<1>7. Announced'
  <2>1. \A v \in Clients, q \in Objects : Has(down'[v], Removal(q)) => Has(down[v], Removal(q))
    BY <1>1, NothingIn
  <2> QED
    BY <1>1, <1>3, <1>6, <2>1 DEF Drops, Announced
<1> QED
  BY <1>4, <1>5, <1>7 DEF Drops

(* A client drops an item. *)
LEMMA DropsDrop ==
  ASSUME TypeOK, Drops, NEW c \in Clients, NEW o \in Objects, DropItem(c, o)
  PROVE  Drops'
<1>1. /\ UNCHANGED <<temporary, pocketed, taken, spared>>
      /\ made' = made \cup {o} /\ o \in temporary \ made
      /\ \A v \in Clients : copy'[v] = IF v = c THEN copy[v] \cup {o} ELSE copy[v]
      /\ \A v \in Clients : named[v] \subseteq named'[v]
  BY TypesAre DEF DropItem, CopyTypes
<1>2. Drop(o) \in Message /\ \A q \in Objects : Removal(q) # Drop(o) /\ (Drop(q) = Drop(o) => q = o)
  BY MessageTypes
<1>3. \A v \in Clients : down'[v] = IF v \in Audience(c) THEN Append(down[v], Drop(o)) ELSE down[v]
  BY <1>2, TypesAre, RelayIs DEF DropItem
<1>4. c \notin Audience(c) /\ \A v \in Clients : down[v] \in Seq(Message)
  BY TypesAre DEF Audience, DownTypes
<1>5. \A v \in Clients : \A n : Has(down'[v], n) <=> Has(down[v], n) \/ (v \in Audience(c) /\ n = Drop(o))
  BY <1>2, <1>3, <1>4, HasMore
<1>6. \A v \in Clients : ~Has(down[v], Drop(o)) /\ ~Has(down[v], Removal(o)) /\ o \notin copy[v]
  BY <1>1 DEF Drops, Dropping
<1>7. \A v \in Clients, q \in Objects : InOrder(down'[v], q)
  <2>1. SUFFICES ASSUME NEW v \in Clients, NEW q \in Objects PROVE InOrder(Append(down[v], Drop(o)), q)
    BY <1>3 DEF Drops, Dropping
  <2>2. InOrder(down[v], q) /\ (Drop(o) # Drop(q) \/ (~Has(down[v], Drop(q)) /\ ~Has(down[v], Removal(q))))
    BY <1>2, <1>6 DEF Drops, Dropping
  <2> QED
    BY <1>2, <1>4, <2>2, OrderMore
<1>8. \A v \in Clients, q \in Objects : q # o =>
        /\ Has(down'[v], Drop(q)) <=> Has(down[v], Drop(q))
        /\ q \in copy'[v] <=> q \in copy[v]
  BY <1>1, <1>2, <1>5
<1>9. \A v \in Clients, q \in Objects : Has(down'[v], Removal(q)) <=> Has(down[v], Removal(q))
  BY <1>2, <1>5
<1>10. Dropping'
  <2>1. SUFFICES ASSUME NEW v \in Clients, NEW q \in Objects
                 PROVE  /\ InOrder(down'[v], q)
                        /\ Has(down'[v], Drop(q)) => q \notin copy'[v]
                        /\ q \notin made' => ~Has(down'[v], Drop(q)) /\ ~Has(down'[v], Removal(q))
                        /\ q \in temporary' \ made' => q \notin copy'[v]
    BY DEF Dropping
  <2>2. CASE q = o
    BY <1>1, <1>4, <1>5, <1>6, <1>7, <2>2
  <2>3. CASE q # o
    BY <1>1, <1>7, <1>8, <1>9, <2>3 DEF Drops, Dropping
  <2> QED
    BY <2>2, <2>3
<1>11. taken \subseteq Objects /\ o \notin taken
  BY <1>1, TypesAre DEF PastTypes
<1>12. Pocketing'
  <2>1. ASSUME NEW v \in Clients, NEW q \in pocketed[v] PROVE q \in taken /\ Without(v, q)'
    <3>1. q \in taken /\ Without(v, q) /\ q # o /\ q \in Objects
      BY <1>11 DEF Drops, Pocketing
    <3> QED
      BY <1>8, <3>1 DEF Without
  <2> QED
    BY <1>1, <2>1 DEF Pocketing
<1>13. \A q \in Objects : q # o /\ Spread(q) => Spread(q)'
  BY <1>1, <1>8, <1>9 DEF Spread, Without
<1>14. Announced'
  <2>1. ASSUME NEW q \in taken
        PROVE  Spread(q)' \/ \E p \in Clients : q \in pocketed'[p] /\ q \in named'[p]
    <3>1. Spread(q) \/ \E p \in Clients : q \in pocketed[p] /\ q \in named[p]
      BY DEF Drops, Announced
    <3> QED
      BY <1>1, <1>11, <1>13, <3>1
  <2>2. ASSUME NEW v \in Clients, NEW q \in Objects, Has(down'[v], Removal(q)) PROVE Spread(q)'
    <3>1. Spread(q) /\ q # o
      BY <1>6, <1>9, <2>2 DEF Drops, Announced
    <3> QED
      BY <1>13, <3>1
  <2> QED
    BY <1>1, <2>1, <2>2 DEF Announced
<1> QED
  BY <1>10, <1>12, <1>14 DEF Drops

(* A player picks up what was dropped. *)
LEMMA DropsTake ==
  ASSUME TypeOK, Drops, NEW c \in Clients, NEW o \in Objects, PickUp(c, o)
  PROVE  Drops'
<1>1. /\ UNCHANGED <<temporary, named, down, made>>
      /\ taken' = taken \cup {o} /\ o \in temporary /\ o \in copy[c]
      /\ \A v \in Clients : copy'[v] = IF v = c THEN copy[v] \ {o} ELSE copy[v]
      /\ \A v \in Clients : pocketed'[v] = IF v = c THEN pocketed[v] \cup {o} ELSE pocketed[v]
  BY TypesAre DEF PickUp, Vanish, CopyTypes, netVars
<1>2. spared \subseteq spared' /\ (o \notin named[c] => Others(c) \X {o} \subseteq spared')
  BY DEF PickUp
<1>3. Dropping'
  BY <1>1 DEF Drops, Dropping
<1>4. ~Has(down[c], Drop(o))
  BY <1>1 DEF Drops, Dropping
<1>5. Without(c, o)' /\ \A v \in Clients, q \in Objects : Without(v, q) => Without(v, q)'
  BY <1>1, <1>4 DEF Without
<1>6. taken \subseteq Objects
  BY TypesAre DEF PastTypes
<1>7. Pocketing'
  <2>1. ASSUME NEW v \in Clients, NEW q \in pocketed'[v] PROVE q \in taken' /\ Without(v, q)'
    <3>1. CASE v = c /\ q = o
      BY <1>1, <1>5, <3>1
    <3>2. CASE q \in pocketed[v]
      BY <1>1, <1>5, <1>6, <3>2 DEF Drops, Pocketing
    <3> QED
      BY <1>1, <3>1, <3>2
  <2> QED
    BY <2>1 DEF Pocketing
<1>8. \A q \in Objects : Spread(q) => Spread(q)'
  BY <1>1, <1>2, <1>5 DEF Spread
<1>9. Announced'
  <2>1. ASSUME NEW q \in taken'
        PROVE  Spread(q)' \/ \E p \in Clients : q \in pocketed'[p] /\ q \in named'[p]
    <3>1. CASE q = o /\ o \in named[c]
      BY <1>1, <3>1
    <3>2. CASE q = o /\ o \notin named[c]
      <4>1. \A v \in Clients : v # c => <<v, o>> \in spared'
        BY <1>2, <3>2 DEF Others
      <4> QED
        BY <1>5, <3>2, <4>1 DEF Spread
    <3>3. CASE q \in taken
      <4>1. Spread(q) \/ \E p \in Clients : q \in pocketed[p] /\ q \in named[p]
        BY <3>3 DEF Drops, Announced
      <4> QED
        BY <1>1, <1>6, <1>8, <3>3, <4>1
    <3> QED
      BY <1>1, <3>1, <3>2, <3>3
  <2>2. ASSUME NEW v \in Clients, NEW q \in Objects, Has(down'[v], Removal(q)) PROVE Spread(q)'
    BY <1>1, <1>8, <2>2 DEF Drops, Announced
  <2> QED
    BY <2>1, <2>2 DEF Announced
<1> QED
  BY <1>3, <1>7, <1>9 DEF Drops

(* His client tells the others, if it has a name for it.                   *)
LEMMA DropsTell ==
  ASSUME TypeOK, Drops, NEW c \in Clients, NEW o \in Objects, OnObjectPickedUp(c, o)
  PROVE  Drops'
<1>1. /\ UNCHANGED <<temporary, copy, made, taken>> /\ o \in pocketed[c]
      /\ \A v \in Clients : pocketed'[v] = IF v = c THEN pocketed[v] \ {o} ELSE pocketed[v]
  BY TypesAre DEF OnObjectPickedUp, CopyTypes
<1>2. o \in taken /\ Without(c, o) /\ o \in made /\ taken \subseteq Objects
  BY <1>1, TypesAre DEF Drops, Pocketing, PastTypes
<1>3. CASE DropOf(c, o)
  <2>1. /\ \A v \in Clients : named'[v] = IF v = c THEN named[v] \ {o} ELSE named[v]
        /\ spared' = spared \cup ((Others(c) \ Audience(c)) \X {o})
        /\ down' = IF Connected(c) THEN Relay(c, Removal(o)) ELSE down
    BY <1>3, TypesAre DEF OnObjectPickedUp, CopyTypes
  <2>2. Removal(o) \in Message /\ \A q \in Objects : Removal(o) # Drop(q) /\ (Removal(q) = Removal(o) => q = o)
    BY MessageTypes
  <2>3. \A v \in Clients : down'[v] = IF v \in Audience(c) THEN Append(down[v], Removal(o)) ELSE down[v]
    BY <2>1, <2>2, TypesAre, RelayIs DEF Connected, Audience
  <2>4. \A v \in Clients : down[v] \in Seq(Message)
    BY TypesAre DEF DownTypes
  <2>5. \A v \in Clients : \A n : Has(down'[v], n) <=> Has(down[v], n) \/ (v \in Audience(c) /\ n = Removal(o))
    BY <2>2, <2>3, <2>4, HasMore
  <2>6. \A v \in Clients, q \in Objects : InOrder(down'[v], q)
    <3>1. SUFFICES ASSUME NEW v \in Clients, NEW q \in Objects
                   PROVE  InOrder(Append(down[v], Removal(o)), q)
      BY <2>3 DEF Drops, Dropping
    <3>2. InOrder(down[v], q) /\ Removal(o) # Drop(q)
      BY <2>2 DEF Drops, Dropping
    <3> QED
      BY <2>2, <2>4, <3>2, OrderMore
  <2>7. \A v \in Clients, q \in Objects :
          /\ Has(down'[v], Drop(q)) <=> Has(down[v], Drop(q))
          /\ Has(down[v], Removal(q)) => Has(down'[v], Removal(q))
          /\ q # o /\ Has(down'[v], Removal(q)) => Has(down[v], Removal(q))
    BY <2>2, <2>5
  <2>8. \A v \in Clients, q \in Objects : Without(v, q)' <=> Without(v, q)
    BY <1>1, <2>7 DEF Without
  <2>9. Dropping'
    <3>1. SUFFICES ASSUME NEW v \in Clients, NEW q \in Objects
                   PROVE  /\ Has(down'[v], Drop(q)) => q \notin copy'[v]
                          /\ q \notin made' => ~Has(down'[v], Drop(q)) /\ ~Has(down'[v], Removal(q))
                          /\ q \in temporary' \ made' => q \notin copy'[v]
      BY <2>6 DEF Dropping
    <3> QED
      BY <1>1, <1>2, <2>7 DEF Drops, Dropping
  <2>10. Pocketing'
    BY <1>1, <1>2, <2>8 DEF Drops, Pocketing
  <2>11. \A q \in Objects : Spread(q) => Spread(q)'
    BY <2>1, <2>7, <2>8 DEF Spread
  <2>12. Spread(o)'
    <3>1. ASSUME NEW v \in Clients
          PROVE  Without(v, o)' \/ Has(down'[v], Removal(o)) \/ <<v, o>> \in spared'
      <4>1. CASE v = c
        BY <1>2, <2>8, <4>1
      <4>2. CASE v \in Audience(c)
        BY <2>5, <4>2
      <4>3. CASE v # c /\ v \notin Audience(c)
        BY <2>1, <4>3 DEF Others
      <4> QED
        BY <4>1, <4>2, <4>3
    <3> QED
      BY <3>1 DEF Spread
  <2>13. ASSUME NEW q \in taken
         PROVE  Spread(q)' \/ \E p \in Clients : q \in pocketed'[p] /\ q \in named'[p]
    <3>1. q \in Objects /\ (Spread(q) \/ \E p \in Clients : q \in pocketed[p] /\ q \in named[p])
      BY <1>2 DEF Drops, Announced
    <3>2. CASE q = o
      BY <2>12, <3>2
    <3>3. CASE q # o
      BY <1>1, <2>1, <2>11, <3>1, <3>3
    <3> QED
      BY <3>2, <3>3
  <2>14. ASSUME NEW v \in Clients, NEW q \in Objects, Has(down'[v], Removal(q)) PROVE Spread(q)'
    <3>1. CASE q = o
      BY <2>12, <3>1
    <3>2. CASE q # o
      BY <2>7, <2>11, <2>14, <3>2 DEF Drops, Announced
    <3> QED
      BY <3>1, <3>2
  <2>15. Announced'
    BY <1>1, <2>13, <2>14 DEF Announced
  <2> QED
    BY <2>9, <2>10, <2>15 DEF Drops
<1>4. CASE ~DropOf(c, o)
  <2>1. UNCHANGED <<named, down, spared>> /\ o \notin named[c]
    BY <1>4 DEF OnObjectPickedUp, DropOf
  <2>2. Dropping' /\ Pocketing'
    BY <1>1, <2>1 DEF Drops, Dropping, Pocketing, Without
  <2>3. \A q : Spread(q)' <=> Spread(q)
    BY <1>1, <2>1 DEF Spread, Without
  <2>4. ASSUME NEW q \in taken
        PROVE  Spread(q) \/ \E p \in Clients : q \in pocketed'[p] /\ q \in named'[p]
    <3>1. Spread(q) \/ \E p \in Clients : q \in pocketed[p] /\ q \in named[p]
      BY DEF Drops, Announced
    <3> QED
      BY <1>1, <2>1, <3>1
  <2>5. Announced'
    BY <1>1, <2>1, <2>3, <2>4 DEF Drops, Announced
  <2> QED
    BY <2>2, <2>5 DEF Drops
<1> QED
  BY <1>3, <1>4

-----------------------------------------------------------------------------
(* What a client reads of drops.                                           *)

(* The queue of c, when it reads m. *)
LEMMA ReadsQueue ==
  ASSUME TypeOK, Drops, NEW c \in Clients, Receive(c), NEW m, m = Head(down[c])
  PROVE  /\ m \in Message
         /\ \A v \in Clients, q \in Objects : InOrder(down'[v], q)
         /\ \A n : Has(down[c], n) <=> Has(down'[c], n) \/ n = m
         /\ \A v \in Clients : v # c => down'[v] = down[v]
         /\ \A q \in Objects : m \in {Drop(q), Removal(q)} => ~Has(down'[c], Drop(q))
         /\ UNCHANGED <<temporary, pocketed, made, taken>>
<1>1. m \in Message /\ down[c] \in Seq(Message) /\ down[c] # <<>>
  BY TypesAre, ReadIs DEF Receive, DownTypes
<1>2. \A v \in Clients : down'[v] = IF v = c THEN Tail(down[c]) ELSE down[v]
  BY TypesAre DEF Receive, DownTypes
<1>3. \A v \in Clients, q \in Objects : InOrder(down[v], q)
  BY DEF Drops, Dropping
<1>4. \A v \in Clients, q \in Objects : InOrder(down'[v], q)
  BY <1>1, <1>2, <1>3, OrderLess
<1>5. \A n : Has(down[c], n) <=> Has(down'[c], n) \/ n = m
  BY <1>1, <1>2, HasLess
<1>6. \A q \in Objects : m \in {Drop(q), Removal(q)} => ~Has(down'[c], Drop(q))
  BY <1>1, <1>2, <1>3, OrderLess
<1> QED
  BY <1>1, <1>2, <1>4, <1>5, <1>6 DEF Receive

(* A transform of something that has no copy any more costs it its name. *)
LEMMA DropsTransform ==
  ASSUME TypeOK, Drops, NEW c \in Clients, Receive(c), NEW m, m = Head(down[c]),
         m.type = "Transform"
  PROVE  Drops'
<1>1. /\ OnObjectTransformNotify(c, m) /\ m \in Message /\ m.obj \in Objects
      /\ \A q : m \notin {Drop(q), Removal(q)}
  BY ReadsQueue, MessageKinds DEF Receive
<1>2. UNCHANGED <<temporary, copy, pocketed, made, taken>>
  BY <1>1, ReadsQueue DEF OnObjectTransformNotify
<1>3. \A v \in Clients, q \in Objects :
        /\ Has(down'[v], Drop(q)) <=> Has(down[v], Drop(q))
        /\ Has(down'[v], Removal(q)) <=> Has(down[v], Removal(q))
        /\ InOrder(down'[v], q)
  BY <1>1, ReadsQueue
<1>4. taken \subseteq Objects
  BY TypesAre DEF PastTypes
<1>5. CASE Resolves(c, m.obj)
  <2>1. named' = named /\ spared' = spared
    BY <1>1, <1>5, TypesAre DEF OnObjectTransformNotify, Lookup, CopyTypes
  <2> QED
    BY <1>2, <1>3, <1>4, <2>1, DropsAlike
<1>6. CASE ~Resolves(c, m.obj)
  <2>1. \A v \in Clients : named'[v] = IF v = c THEN named[v] \ {m.obj} ELSE named[v]
    BY <1>1, <1>6, TypesAre DEF OnObjectTransformNotify, Lookup, CopyTypes
  <2>2. spared' = IF m.obj \in pocketed[c] THEN spared \cup (Others(c) \X {m.obj}) ELSE spared
    BY <1>1, <1>6 DEF OnObjectTransformNotify
  <2>3. \A v \in Clients, q \in Objects : Without(v, q)' <=> Without(v, q)
    BY <1>2, <1>3 DEF Without
  <2>4. Dropping'
    BY <1>2, <1>3 DEF Drops, Dropping
  <2>5. Pocketing'
    BY <1>2, <1>4, <2>3 DEF Drops, Pocketing
  <2>6. \A q \in Objects : Spread(q) => Spread(q)'
    BY <1>3, <2>2, <2>3 DEF Spread
  <2>7. ASSUME NEW q \in taken
        PROVE  Spread(q)' \/ \E p \in Clients : q \in pocketed'[p] /\ q \in named'[p]
    <3>1. CASE Spread(q)
      BY <1>4, <2>6, <3>1
    <3>2. CASE ~Spread(q)
      <4>1. PICK p \in Clients : q \in pocketed[p] /\ q \in named[p]
        BY <3>2 DEF Drops, Announced
      <4>2. CASE p = c /\ q = m.obj
        <5>1. Without(c, q)
          BY <4>1, <4>2 DEF Drops, Pocketing
        <5>2. \A v \in Clients : v # c => <<v, q>> \in spared'
          BY <2>2, <4>1, <4>2 DEF Others
        <5> QED
          BY <1>4, <2>3, <5>1, <5>2 DEF Spread
      <4>3. CASE ~(p = c /\ q = m.obj)
        BY <1>2, <2>1, <4>1, <4>3
      <4> QED
        BY <4>2, <4>3
    <3> QED
      BY <3>1, <3>2
  <2>8. Announced'
    BY <1>2, <1>3, <2>6, <2>7 DEF Drops, Announced
  <2> QED
    BY <2>4, <2>5, <2>8 DEF Drops
<1> QED
  BY <1>5, <1>6

(* A drop may make a copy. *)
LEMMA DropsNotice ==
  ASSUME TypeOK, Drops, NEW c \in Clients, Receive(c), NEW m, m = Head(down[c]), m.type = "Drop"
  PROVE  Drops'
<1> DEFINE o == m.obj
<1>1. OnNotifyDrop(c, o) /\ m \in Message /\ o \in Objects /\ m = Drop(o)
  BY ReadsQueue, MessageKinds DEF Receive
<1> HIDE DEF o
<1>2. /\ UNCHANGED <<temporary, named, pocketed, made, taken, spared>>
      /\ \A v \in Clients : copy[v] \subseteq copy'[v]
      /\ \A v \in Clients, q \in Objects : q \in copy'[v] => q \in copy[v] \/ (v = c /\ q = o)
  <2>1. UNCHANGED <<temporary, named, pocketed, made, taken, spared>>
    BY <1>1, ReadsQueue DEF OnNotifyDrop
  <2>2. copy' = copy \/ copy' = [copy EXCEPT ![c] = @ \cup {o}]
    BY <1>1 DEF OnNotifyDrop
  <2> QED
    BY <2>1, <2>2, TypesAre DEF CopyTypes
<1>3. \A q \in Objects : m # Removal(q) /\ (m = Drop(q) => q = o)
  BY <1>1, MessageTypes
<1>4. \A v \in Clients, q \in Objects :
        /\ Has(down'[v], Drop(q)) => Has(down[v], Drop(q))
        /\ Has(down[v], Drop(q)) => Has(down'[v], Drop(q)) \/ (v = c /\ q = o)
        /\ Has(down'[v], Removal(q)) <=> Has(down[v], Removal(q))
        /\ InOrder(down'[v], q)
  BY <1>3, ReadsQueue
<1>5. Has(down[c], Drop(o)) /\ ~Has(down'[c], Drop(o))
  BY <1>1, ReadsQueue
<1>6. o \in made /\ ~Without(c, o)
  BY <1>1, <1>5 DEF Drops, Dropping, Without
<1>7. \A v \in Clients, q \in Objects : Without(v, q) => Without(v, q)'
  BY <1>2, <1>4, <1>6 DEF Without
<1>8. Dropping'
  <2>1. SUFFICES ASSUME NEW v \in Clients, NEW q \in Objects
                 PROVE  /\ Has(down'[v], Drop(q)) => q \notin copy'[v]
                        /\ q \notin made' => ~Has(down'[v], Drop(q)) /\ ~Has(down'[v], Removal(q))
                        /\ q \in temporary' \ made' => q \notin copy'[v]
    BY <1>4 DEF Dropping
  <2> QED
    BY <1>2, <1>4, <1>5, <1>6 DEF Drops, Dropping
<1>9. taken \subseteq Objects
  BY TypesAre DEF PastTypes
<1>10. Pocketing'
  BY <1>2, <1>7, <1>9 DEF Drops, Pocketing
<1>11. \A q \in Objects : Spread(q) => Spread(q)'
  BY <1>2, <1>4, <1>7 DEF Spread
<1>12. Announced'
  <2>1. ASSUME NEW q \in taken
        PROVE  Spread(q)' \/ \E p \in Clients : q \in pocketed[p] /\ q \in named[p]
    BY <1>9, <1>11 DEF Drops, Announced
  <2> QED
    BY <1>2, <1>4, <1>11, <2>1 DEF Drops, Announced
<1> QED
  BY <1>8, <1>10, <1>12 DEF Drops

(* A removal takes the copy away, if the client finds it. *)
LEMMA DropsRemove ==
  ASSUME TypeOK, Drops, NEW c \in Clients, Receive(c), NEW m, m = Head(down[c]), m.type = "Remove"
  PROVE  Drops'
<1> DEFINE o == m.obj
<1>1. OnObjectRemoveNotify(c, o) /\ m \in Message /\ o \in Objects /\ m = Removal(o)
  BY ReadsQueue, MessageKinds DEF Receive
<1> HIDE DEF o
<1>2. UNCHANGED <<temporary, pocketed, made, taken>>
  BY ReadsQueue
<1>3. /\ \A v \in Clients : named'[v] = IF v = c THEN named[v] \ {o} ELSE named[v]
      /\ \A v \in Clients : copy'[v] \subseteq copy[v]
      /\ spared \subseteq spared'
      /\ o \notin copy'[c] \/ <<c, o>> \in spared'
  BY <1>1, TypesAre DEF OnObjectRemoveNotify, Vanish, CopyTypes
<1>4. \A q \in Objects : m # Drop(q) /\ (m = Removal(q) => q = o)
  BY <1>1, MessageTypes
<1>5. \A v \in Clients, q \in Objects :
        /\ Has(down'[v], Drop(q)) <=> Has(down[v], Drop(q))
        /\ Has(down'[v], Removal(q)) => Has(down[v], Removal(q))
        /\ Has(down[v], Removal(q)) => Has(down'[v], Removal(q)) \/ (v = c /\ q = o)
        /\ InOrder(down'[v], q)
  BY <1>4, ReadsQueue
<1>6. Has(down[c], Removal(o)) /\ ~Has(down'[c], Drop(o))
  BY <1>1, ReadsQueue
<1>7. \A v \in Clients, q \in Objects : Without(v, q) => Without(v, q)'
  BY <1>3, <1>5 DEF Without
<1>8. Dropping'
  <2>1. SUFFICES ASSUME NEW v \in Clients, NEW q \in Objects
                 PROVE  /\ Has(down'[v], Drop(q)) => q \notin copy'[v]
                        /\ q \notin made' => ~Has(down'[v], Drop(q)) /\ ~Has(down'[v], Removal(q))
                        /\ q \in temporary' \ made' => q \notin copy'[v]
    BY <1>5 DEF Dropping
  <2> QED
    BY <1>2, <1>3, <1>5 DEF Drops, Dropping
<1>9. taken \subseteq Objects
  BY TypesAre DEF PastTypes
<1>10. Pocketing'
  BY <1>2, <1>7, <1>9 DEF Drops, Pocketing
<1>11. Without(c, o)' \/ <<c, o>> \in spared'
  BY <1>3, <1>6 DEF Without
<1>12. \A q \in Objects : Spread(q) => Spread(q)'
  <2>1. SUFFICES ASSUME NEW q \in Objects, Spread(q), NEW v \in Clients
                 PROVE  Without(v, q)' \/ Has(down'[v], Removal(q)) \/ <<v, q>> \in spared'
    BY DEF Spread
  <2>2. CASE v = c /\ q = o
    BY <1>11, <2>2
  <2>3. CASE ~(v = c /\ q = o)
    BY <1>3, <1>5, <1>7, <2>1, <2>3 DEF Spread
  <2> QED
    BY <2>2, <2>3
<1>13. Spread(o)
  BY <1>1, <1>6 DEF Drops, Announced
<1>14. Announced'
  <2>1. ASSUME NEW q \in taken
        PROVE  Spread(q)' \/ \E p \in Clients : q \in pocketed[p] /\ q \in named'[p]
    <3>1. CASE Spread(q)
      BY <1>9, <1>12, <3>1
    <3>2. CASE ~Spread(q)
      <4>1. PICK p \in Clients : q \in pocketed[p] /\ q \in named[p]
        BY <3>2 DEF Drops, Announced
      <4>2. q \in named'[p]
        BY <1>3, <1>13, <3>2, <4>1
      <4> QED
        BY <4>1, <4>2
    <3> QED
      BY <3>1, <3>2
  <2> QED
    BY <1>2, <1>5, <1>12, <2>1 DEF Drops, Announced
<1> QED
  BY <1>8, <1>10, <1>14 DEF Drops

LEMMA DropsStep == TypeOK /\ Drops /\ [Next]_vars => Drops'
<1> SUFFICES ASSUME TypeOK, Drops, [Next]_vars PROVE Drops'
  OBVIOUS
<1>1. ASSUME NEW c \in Clients, NEW o \in Objects, Stream(c, o) \/ Fly(c, o) \/ ComeToRest(c, o)
      PROVE  Drops'
  <2>1. UNCHANGED <<dropVars, made, taken, spared>>
    BY <1>1 DEF Stream, Fly, ComeToRest
  <2>2. \/ down' = down
        \/ \E x \in Spots, r \in BOOLEAN : down' = Relay(c, Transform(o, x, r))
    BY <1>1 DEF Stream, Fly, ComeToRest, SendObjectTransform
  <2>3. \A v \in Clients, q \in Objects :
          /\ Has(down'[v], Drop(q)) <=> Has(down[v], Drop(q))
          /\ Has(down'[v], Removal(q)) <=> Has(down[v], Removal(q))
          /\ InOrder(down'[v], q)
    <3>1. CASE down' = down
      BY <3>1 DEF Drops, Dropping
    <3>2. ASSUME NEW x \in Spots, NEW r \in BOOLEAN, down' = Relay(c, Transform(o, x, r)),
                 NEW v \in Clients, NEW q \in Objects
          PROVE  /\ Has(down'[v], Drop(q)) <=> Has(down[v], Drop(q))
                 /\ Has(down'[v], Removal(q)) <=> Has(down[v], Removal(q))
                 /\ InOrder(down'[v], q)
      <4> DEFINE m == Transform(o, x, r)
      <4>1. m \in Message /\ m # Drop(q) /\ m # Removal(q)
        BY MessageTypes
      <4>2. down'[v] \in {down[v], Append(down[v], m)} /\ down[v] \in Seq(Message)
        BY <3>2, <4>1, TypesAre, RelayIs DEF DownTypes
      <4>3. InOrder(down[v], q)
        BY DEF Drops, Dropping
      <4> HIDE DEF m
      <4>4. /\ Has(Append(down[v], m), Drop(q)) <=> Has(down[v], Drop(q))
            /\ Has(Append(down[v], m), Removal(q)) <=> Has(down[v], Removal(q))
        BY <4>1, <4>2, HasMore
      <4>5. InOrder(Append(down[v], m), q)
        BY <4>1, <4>2, <4>3, OrderMore
      <4>6. CASE down'[v] = down[v]
        BY <4>3, <4>6
      <4>7. CASE down'[v] = Append(down[v], m)
        BY <4>4, <4>5, <4>7
      <4> QED
        BY <4>2, <4>6, <4>7
    <3> QED
      BY <2>2, <3>1, <3>2
  <2> QED
    BY <2>1, <2>3, TypesAre, DropsAlike DEF PastTypes, dropVars
<1>2. ASSUME NEW c \in Clients, NEW o \in Objects, Pair(c, o) PROVE Drops'
  <2>1. UNCHANGED <<temporary, copy, pocketed, down, made, taken, spared>>
    BY <1>2 DEF Pair, netVars, history
  <2>2. \A v \in Clients : named[v] \subseteq named'[v]
    BY <1>2, TypesAre DEF Pair, CopyTypes
  <2>3. \A v \in Clients, q \in Objects : InOrder(down[v], q)
    BY DEF Drops, Dropping
  <2> QED
    BY <2>1, <2>2, <2>3, TypesAre, DropsAlike DEF PastTypes
<1>3. ASSUME UNCHANGED <<dropVars, down, made, taken, spared>> PROVE Drops'
  BY <1>3, DropsSame DEF dropVars
<1>4. ASSUME NEW c \in Clients,
             \/ LeaveCell(c) \/ EnterCell(c) \/ OnDisconnected(c) \/ Reconnect(c)
             \/ Drain(c) \/ Reconcile(c)
      PROVE  Drops'
  BY <1>3, <1>4 DEF LeaveCell, EnterCell, OnDisconnected, Reconnect, Drain, Reconcile, netVars, history
<1>5. ASSUME NEW c \in Clients, NEW o \in Objects, Timeout(c, o) \/ MoveUnseen(c, o) PROVE Drops'
  BY <1>3, <1>5 DEF Timeout, MoveUnseen, netVars, history
<1>6. ASSUME NEW c \in Clients, NEW h \in Hands, LetGo(c, h) \/ \E o \in Objects : Grab(c, h, o)
      PROVE  Drops'
  BY <1>3, <1>6 DEF LetGo, Grab, netVars, history
<1>7. ASSUME UNCHANGED vars PROVE Drops'
  BY <1>3, <1>7 DEF vars, netVars, history
<1>8. ASSUME NEW c \in Clients, Receive(c) PROVE Drops'
  <2>1. down[c] # <<>>
    BY <1>8 DEF Receive
  <2>2. Head(down[c]) \in Message
    BY <2>1, TypesAre, ReadIs
  <2>3. Head(down[c]).type \in {"Transform", "Drop", "Remove"}
    BY <2>2, MessageKinds
  <2> QED
    BY <1>8, <2>3, DropsTransform, DropsNotice, DropsRemove
<1> QED
  BY <1>1, <1>2, <1>4, <1>5, <1>6, <1>7, <1>8, DropsBreak, DropsDrop, DropsTake, DropsTell DEF Next

LEMMA SpreadClears == Drops => PickupClears
<1> SUFFICES ASSUME Drops, NEW o \in taken, Idle(o), NEW c \in Clients, o \in copy[c]
             PROVE  <<c, o>> \in spared
  BY DEF PickupClears
<1>1. Spread(o)
  BY DEF Drops, Announced, Idle
<1>2. ~Has(down[c], Removal(o))
  BY DEF Idle, Has, Removal
<1> QED
  BY <1>1, <1>2 DEF Spread, Without

-----------------------------------------------------------------------------
(* The theorems.                                                           *)

(* Nobody's hands, queue or copies hold what they should not, and what a   *)
(* hand holds is not let go of.                                            *)
THEOREM HeldTypes == Spec => [](TypeOK /\ Drops)
<1>1. Init => TypeOK /\ Drops
  BY InitTypes, DropsFirst
<1>2. TypeOK /\ Drops /\ [Next]_vars => (TypeOK /\ Drops)'
  <2>1. Drops => Dropping
    BY DEF Drops
  <2> QED
    BY <2>1, TypeStep, DropsStep
<1> QED
  BY <1>1, <1>2, PTL DEF Spec

(* An object that is left alone lies in the same place for all who have    *)
(* heard where it was left and whose copy has not moved since under its    *)
(* own physics: ObjectService::SendObjectTransform and                     *)
(* OnObjectTransformNotify, for any clients, objects, places and streams.  *)
THEOREM ObjectsRest == Spec => []RestAgrees
<1>1. Init => Settles
  BY SettlesFirst
<1>2. TypeOK /\ Settles /\ [Next]_vars => Settles'
  BY SettlesStep
<1>3. Settles => RestAgrees
  BY SettledRests
<1> QED
  BY <1>1, <1>2, <1>3, HeldTypes, PTL DEF Spec

(* A drop that somebody picked up is gone from the world of everybody whom *)
(* the news could reach: ObjectService::OnObjectPickedUp and               *)
(* OnObjectRemoveNotify.                                                   *)
THEOREM PickupsClear == Spec => []PickupClears
<1>1. Drops => PickupClears
  BY SpreadClears
<1> QED
  BY <1>1, HeldTypes, PTL
=============================================================================
