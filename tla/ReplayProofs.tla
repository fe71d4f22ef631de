---------------------------- MODULE ReplayProofs ----------------------------
(* The animations of a character, for any viewers, size of the cache and   *)
(* bounds.                                                                 *)
EXTENDS Replay, FiniteSetTheorems, SequenceTheorems, WellFoundedInduction, TLAPS

-----------------------------------------------------------------------------
(* Induction, for a set of numbers instead of a predicate.                 *)

(* A set of numbers has a least one. *)
LEMMA LeastNumber ==
  ASSUME NEW S, S \subseteq Nat, S # {}
  PROVE  \E n \in S : \A m \in S : n <= m
<1> DEFINE R == OpToRel(<, Nat)
<1>1. IsWellFoundedOn(R, Nat)
  BY NatLessThanWellFounded
<1>2. \A x, y \in Nat : x < y => <<x, y>> \in R
  BY DEF OpToRel
<1> HIDE DEF R
<1>3. PICK n \in S : \A m \in S : ~(<<m, n>> \in R)
  BY <1>1, WFMin
<1>4. ASSUME NEW m \in S PROVE n <= m
  <2>1. ~(m < n)
    BY <1>2, <1>3
  <2> QED BY <2>1
<1> QED BY <1>4

LEMMA Induction ==
  ASSUME NEW S, 0 \in S, \A n \in Nat : n \in S => n + 1 \in S
  PROVE  Nat \subseteq S
<1> SUFFICES ASSUME Nat \ S # {} PROVE FALSE
  OBVIOUS
<1>1. PICK n \in Nat \ S : \A m \in Nat \ S : n <= m
  BY LeastNumber
<1>2. n # 0 /\ n - 1 \in Nat
  BY <1>1
<1>3. n - 1 \in S
  BY <1>1, <1>2
<1> QED BY <1>1, <1>2, <1>3

-----------------------------------------------------------------------------
(* Sequences.                                                              *)

LEMMA AppendIs ==
  ASSUME NEW S, NEW s \in Seq(S), NEW x \in S
  PROVE  /\ Append(s, x) \in Seq(S)
         /\ Len(s) \in Nat /\ DOMAIN s = 1..Len(s) /\ Len(Append(s, x)) = Len(s) + 1
         /\ DOMAIN Append(s, x) = 1..(Len(s) + 1)
         /\ Append(s, x)[Len(s) + 1] = x
         /\ \A i \in 1..Len(s) : Append(s, x)[i] = s[i]
OBVIOUS

LEMMA TailIs ==
  ASSUME NEW S, NEW s \in Seq(S), s # <<>>
  PROVE  /\ Tail(s) \in Seq(S) /\ Head(s) \in S
         /\ Len(s) \in Nat /\ Len(s) >= 1 /\ DOMAIN s = 1..Len(s) /\ Len(Tail(s)) = Len(s) - 1
         /\ s[1] = Head(s)
         /\ DOMAIN Tail(s) = 1..(Len(s) - 1)
         /\ \A i \in 1..(Len(s) - 1) : Tail(s)[i] = s[i + 1]
OBVIOUS

LEMMA ConcatIs ==
  ASSUME NEW S, NEW s \in Seq(S), NEW t \in Seq(S)
  PROVE  /\ s \o t \in Seq(S) /\ Len(s) \in Nat /\ Len(t) \in Nat /\ Len(s \o t) = Len(s) + Len(t)
         /\ DOMAIN s = 1..Len(s) /\ DOMAIN t = 1..Len(t) /\ DOMAIN (s \o t) = 1..(Len(s) + Len(t))
         /\ \A i \in 1..Len(s) : (s \o t)[i] = s[i]
         /\ \A i \in 1..Len(t) : (s \o t)[Len(s) + i] = t[i]
         /\ \A i \in (Len(s) + 1)..(Len(s) + Len(t)) :
              i - Len(s) \in 1..Len(t) /\ (s \o t)[i] = t[i - Len(s)]
OBVIOUS

(* The actions of a sequence are in the order in which they were done. *)
Ordered(s) == \A i, j \in DOMAIN s : i < j => s[i].n < s[j].n

LEMMA NumbersAre ==
  ASSUME NEW s \in Seq(Action)
  PROVE  /\ \A i \in DOMAIN s : s[i].n \in Nat /\ s[i].n \in Numbers /\ s[i].n \in NumbersIn(s)
         /\ NumbersIn(s) \subseteq Numbers
         /\ \A m \in NumbersIn(s) : \E i \in DOMAIN s : s[i].n = m
<1>1. \A i \in DOMAIN s : s[i] \in Action
  OBVIOUS
<1>2. \A a \in Action : a.n \in Numbers
  BY DEF Action
<1>3. Numbers \subseteq Nat
  BY ReplayAssumption DEF Numbers
<1> QED
  BY <1>1, <1>2, <1>3 DEF NumbersIn

-----------------------------------------------------------------------------
(* What the cache keeps.                                                   *)

(* ShouldIgnoreAction leaves out the noise and nothing else. *)
LEMMA WorthIs ==
  ASSUME NEW acts \in Seq(Action)
  PROVE  /\ Worth(acts) \in Seq(Action)
         /\ \A i \in DOMAIN Worth(acts) : \E k \in DOMAIN acts : Worth(acts)[i] = acts[k] /\ acts[k].kind # "noise"
         /\ \A k \in DOMAIN acts : acts[k].kind # "noise" => \E i \in DOMAIN Worth(acts) : Worth(acts)[i] = acts[k]
         /\ Ordered(acts) => Ordered(Worth(acts))
<1> DEFINE n == Len(acts)
           After(s, i) == IF acts[i].kind = "noise" THEN s ELSE Append(s, acts[i])
           make(f) == [i \in 0..n |-> IF i = 0 THEN <<>> ELSE After(f[i - 1], i)]
           Reach(m, f) == /\ f \in [0..m -> Seq(Action)] /\ f[0] = <<>>
                          /\ \A i \in 1..m : f[i] = After(f[i - 1], i)
           Can(m) == \E f : Reach(m, f)
           S == {m \in Nat : m <= n => Can(m)}
<1>1. n \in Nat /\ DOMAIN acts = 1..n /\ \A i \in 1..n : acts[i] \in Action
  OBVIOUS
<1>2. \A s \in Seq(Action), i \in 1..n : After(s, i) \in Seq(Action)
  BY <1>1
<1>3. Worth(acts) = (CHOOSE f : f = make(f))[n]
  BY DEF Worth
<1> HIDE DEF n, After
<1>4. 0 \in S
  <2> DEFINE f == [i \in 0..0 |-> <<>>]
  <2>1. Reach(0, f)
    OBVIOUS
  <2> QED
    BY <2>1
<1>5. ASSUME NEW m \in Nat, m \in S PROVE m + 1 \in S
  <2> HIDE DEF Can
  <2>1. SUFFICES ASSUME m + 1 <= n PROVE Can(m + 1)
    OBVIOUS
  <2>10. Can(m)
    BY <1>1, <1>5, <2>1
  <2>2. PICK f : Reach(m, f)
    BY <2>10 DEF Can
  <2> DEFINE g == [i \in 0..(m + 1) |-> IF i = m + 1 THEN After(f[m], m + 1) ELSE f[i]]
  <2>3. m + 1 \in 1..n /\ f[m] \in Seq(Action)
    BY <1>1, <2>1, <2>2
  <2>4. \A i \in 0..m : g[i] = f[i] /\ f[i] \in Seq(Action)
    BY <2>2
  <2>5. g[m + 1] = After(f[m], m + 1) /\ After(f[m], m + 1) \in Seq(Action)
    BY <1>2, <2>3
  <2>6. g \in [0..(m + 1) -> Seq(Action)]
    <3>1. ASSUME NEW i \in 0..(m + 1)
          PROVE  (IF i = m + 1 THEN After(f[m], m + 1) ELSE f[i]) \in Seq(Action)
      <4>1. CASE i = m + 1
        BY <2>5, <4>1
      <4>2. CASE i # m + 1
        <5>1. i \in 0..m
          BY <4>2
        <5> QED
          BY <2>4, <4>2, <5>1
      <4> QED
        BY <4>1, <4>2
    <3> QED
      BY <3>1
  <2>7. g[0] = <<>>
    BY <2>2, <2>4
  <2>8. ASSUME NEW i \in 1..(m + 1) PROVE g[i] = After(g[i - 1], i)
    <3>1. CASE i = m + 1
      BY <2>4, <2>5, <3>1
    <3>2. CASE i # m + 1
      <4>1. i \in 1..m /\ i \in 0..m /\ i - 1 \in 0..m
        BY <3>2
      <4> QED
        BY <2>2, <2>4, <4>1
    <3> QED
      BY <3>1, <3>2
  <2> HIDE DEF g
  <2> QED
    BY <2>6, <2>7, <2>8 DEF Can
<1>6. Nat \subseteq S
  <2> HIDE DEF S
  <2> QED
    BY <1>4, <1>5, Induction
<1>7. PICK f : Reach(n, f)
  <2>1. Can(n)
    <3> HIDE DEF Can
    <3> QED
      BY <1>1, <1>6
  <2> QED
    BY <2>1
<1>8. \E g : g = make(g)
  <2> DEFINE g == [i \in 0..n |-> IF i = 0 THEN <<>> ELSE After(f[i - 1], i)]
  <2>1. \A i \in 0..n : g[i] = f[i]
    BY <1>1, <1>7
  <2>2. \A i \in 0..n : g[i] = IF i = 0 THEN <<>> ELSE After(g[i - 1], i)
    <3>1. SUFFICES ASSUME NEW i \in 0..n
                   PROVE  g[i] = IF i = 0 THEN <<>> ELSE After(g[i - 1], i)
      OBVIOUS
    <3>2. CASE i = 0
      BY <3>2
    <3>3. CASE i # 0
      <4>1. i - 1 \in 0..n
        BY <1>1, <3>3
      <4>2. g[i - 1] = f[i - 1]
        BY <2>1, <4>1
      <4>3. g[i] = After(f[i - 1], i)
        BY <3>3
      <4> HIDE DEF g
      <4> QED
        BY <3>3, <4>2, <4>3
    <3> QED
      BY <3>2, <3>3
  <2>3. g = [i \in 0..n |-> g[i]]
    OBVIOUS
  <2> HIDE DEF g
  <2>4. g = make(g)
    BY <2>2, <2>3
  <2> QED
    BY <2>4
<1> DEFINE h == CHOOSE g : g = make(g)
<1>9. h = make(h)
  BY <1>8
<1> HIDE DEF h
<1>10. h[0] = <<>> /\ \A i \in 1..n : h[i] = After(h[i - 1], i)
  <2>1. \A i \in 0..n : h[i] = IF i = 0 THEN <<>> ELSE After(h[i - 1], i)
    BY <1>9
  <2> QED
    BY <1>1, <2>1
<1> DEFINE Same(s, m) ==
             /\ \A i \in DOMAIN s : \E k \in 1..m : s[i] = acts[k] /\ acts[k].kind # "noise"
             /\ \A k \in 1..m : acts[k].kind # "noise" => \E i \in DOMAIN s : s[i] = acts[k]
             /\ Ordered(acts) => Ordered(s)
           Q == {m \in Nat : m <= n => h[m] \in Seq(Action) /\ Same(h[m], m)}
<1>11. 0 \in Q
  <2>1. h[0] \in Seq(Action) /\ DOMAIN h[0] = {}
    BY <1>10
  <2> QED
    BY <2>1 DEF Ordered
<1>12. ASSUME NEW m \in Nat, m \in Q PROVE m + 1 \in Q
  <2>1. SUFFICES ASSUME m + 1 <= n PROVE h[m + 1] \in Seq(Action) /\ Same(h[m + 1], m + 1)
    OBVIOUS
  <2> DEFINE s == h[m]
  <2>2. s \in Seq(Action) /\ Same(s, m)
    BY <1>1, <1>12, <2>1
  <2>3. m + 1 \in 1..n /\ h[m + 1] = After(s, m + 1) /\ acts[m + 1] \in Action
    BY <1>1, <1>10, <2>1
  <2> HIDE DEF s
  <2>4. CASE acts[m + 1].kind = "noise"
    <3>1. h[m + 1] = s
      BY <2>3, <2>4 DEF After
    <3>2. \A k \in 1..(m + 1) : k = m + 1 \/ k \in 1..m
      OBVIOUS
    <3>3. \A k \in 1..m : k \in 1..(m + 1)
      OBVIOUS
    <3> QED
      BY <2>2, <2>4, <3>1, <3>2, <3>3
  <2>5. CASE acts[m + 1].kind # "noise"
    <3> DEFINE t == Append(s, acts[m + 1])
    <3>1. h[m + 1] = t
      BY <2>3, <2>5 DEF After
    <3>2. /\ t \in Seq(Action) /\ Len(s) \in Nat /\ DOMAIN s = 1..Len(s) /\ DOMAIN t = 1..(Len(s) + 1)
          /\ t[Len(s) + 1] = acts[m + 1] /\ \A i \in 1..Len(s) : t[i] = s[i]
      BY <2>2, <2>3, AppendIs
    <3> HIDE DEF t
    <3>3. \A k \in 1..(m + 1) : k = m + 1 \/ k \in 1..m
      OBVIOUS
    <3>4. \A k \in 1..m : k \in 1..(m + 1)
      OBVIOUS
    <3>5. \A i \in DOMAIN t : i = Len(s) + 1 \/ i \in DOMAIN s
      BY <3>2
    <3>6. DOMAIN s \subseteq DOMAIN t /\ Len(s) + 1 \in DOMAIN t
      BY <3>2
    <3>7. \A i \in DOMAIN t : \E k \in 1..(m + 1) : t[i] = acts[k] /\ acts[k].kind # "noise"
      BY <2>2, <2>5, <3>2, <3>4, <3>5
    <3>8. \A k \in 1..(m + 1) : acts[k].kind # "noise" => \E i \in DOMAIN t : t[i] = acts[k]
      BY <2>2, <3>2, <3>3, <3>6
    <3>9. ASSUME Ordered(acts) PROVE Ordered(t)
      <4>1. ASSUME NEW i \in DOMAIN t, NEW j \in DOMAIN t, i < j PROVE t[i].n < t[j].n
        <5>1. i \in DOMAIN s
          BY <3>2, <4>1
        <5>2. CASE j \in DOMAIN s
          BY <2>2, <3>2, <3>9, <4>1, <5>1, <5>2 DEF Ordered
        <5>3. CASE j = Len(s) + 1
          <6>1. PICK k \in 1..m : s[i] = acts[k]
            BY <2>2, <5>1
          <6>2. k \in DOMAIN acts /\ m + 1 \in DOMAIN acts /\ k < m + 1
            BY <1>1, <2>3
          <6> QED
            BY <3>2, <3>9, <5>1, <5>3, <6>1, <6>2 DEF Ordered
        <5> QED
          BY <3>5, <5>2, <5>3
      <4> QED
        BY <4>1 DEF Ordered
    <3> QED
      BY <3>1, <3>2, <3>7, <3>8, <3>9
  <2> QED
    BY <2>4, <2>5
<1>13. Nat \subseteq Q
  <2> HIDE DEF Q
  <2> QED
    BY <1>11, <1>12, Induction
<1>14. h[n] \in Seq(Action) /\ Same(h[n], n)
  BY <1>1, <1>13
<1>15. Worth(acts) = h[n]
  BY <1>3 DEF h
<1> HIDE DEF h
<1> QED
  BY <1>1, <1>14, <1>15

LEMMA MaxIs ==
  ASSUME NEW m \in Int, NEW n \in Int
  PROVE  Max({m, n}) = IF m >= n THEN m ELSE n
<1> DEFINE S == {m, n}
<1>1. \E k \in S : \A j \in S : k >= j
  OBVIOUS
<1>2. Max(S) \in S /\ \A j \in S : Max(S) >= j
  BY <1>1 DEF Max
<1> QED
  BY <1>2

(* A set of numbers up to n has a greatest one. *)
LEMMA GreatestNumber ==
  ASSUME NEW n \in Nat, NEW S, S \subseteq 0..n, S # {}
  PROVE  Max(S) \in S /\ \A m \in S : m <= Max(S)
<1> DEFINE T == {m \in 0..n : n - m \in S}
<1>1. T \subseteq Nat /\ T # {}
  <2>1. PICK m \in S : TRUE
    OBVIOUS
  <2>2. n - m \in 0..n /\ n - (n - m) = m
    BY <2>1
  <2>3. n - m \in T
    BY <2>1, <2>2
  <2> QED
    BY <2>3
<1>2. PICK t \in T : \A m \in T : t <= m
  <2> HIDE DEF T
  <2> QED
    BY <1>1, LeastNumber
<1>3. ASSUME NEW m \in S PROVE m <= n - t
  <2>1. m \in 0..n /\ n - m \in 0..n /\ n - (n - m) = m
    OBVIOUS
  <2>2. n - m \in T
    BY <2>1
  <2>3. t <= n - m
    BY <1>2, <2>2
  <2> QED
    BY <2>1, <2>3
<1>4. \E g \in S : \A m \in S : g >= m
  <2>1. n - t \in S /\ \A m \in S : n - t >= m
    BY <1>2, <1>3
  <2> QED
    BY <2>1
<1>5. Max(S) \in S /\ \A m \in S : Max(S) >= m
  BY <1>4 DEF Max
<1> QED
  BY <1>5

(* The cache is cut at its front. *)
LEMMA TrimmedIs ==
  ASSUME NEW s \in Seq(Action)
  PROVE  \E x \in 0..Len(s) :
           /\ x # 0 => Len(s) - x = CacheSize
           /\ Trimmed(s) \in Seq(Action) /\ Len(Trimmed(s)) = Len(s) - x /\ Len(Trimmed(s)) <= CacheSize
           /\ \A i \in 1..(Len(s) - x) : Trimmed(s)[i] = s[i + x]
<1> DEFINE m == Len(s) - CacheSize + 1
           k == IF 1 >= m THEN 1 ELSE m
<1>1. Len(s) \in Nat /\ CacheSize \in Nat /\ CacheSize > 0
  BY ReplayAssumption
<1>2. Trimmed(s) = SubSeq(s, k, Len(s))
  <2>1. m \in Int /\ 1 \in Int
    BY <1>1
  <2>2. Max({1, m}) = k
    BY <2>1, MaxIs
  <2> QED
    BY <2>2 DEF Trimmed, LastOf
<1>3. k \in 1..(Len(s) + 1) /\ k - 1 \in 0..Len(s) /\ Len(s) - (k - 1) <= CacheSize
      /\ (k - 1 # 0 => Len(s) - (k - 1) = CacheSize)
  BY <1>1
<1> HIDE DEF k
<1>4. /\ SubSeq(s, k, Len(s)) \in Seq(Action) /\ Len(SubSeq(s, k, Len(s))) = Len(s) - (k - 1)
      /\ \A i \in 1..(Len(s) - (k - 1)) : SubSeq(s, k, Len(s))[i] = s[i + (k - 1)]
  BY <1>1, <1>3
<1> QED
  BY <1>2, <1>3, <1>4

LEMMA LastExitIs ==
  ASSUME NEW s \in Seq(Action)
  PROVE  /\ LastExit(s) \in 0..Len(s)
         /\ LastExit(s) # 0 => s[LastExit(s)].kind = "exit"
         /\ \A i \in DOMAIN s : s[i].kind = "exit" => i <= LastExit(s)
<1> DEFINE E == {0} \cup {i \in DOMAIN s : s[i].kind = "exit"}
<1>1. E \subseteq 0..Len(s) /\ E # {} /\ Len(s) \in Nat
  OBVIOUS
<1>2. \A i \in E : i # 0 => s[i].kind = "exit"
  OBVIOUS
<1>3. \A i \in DOMAIN s : s[i].kind = "exit" => i \in E
  OBVIOUS
<1>4. LastExit(s) = Max(E)
  BY DEF LastExit
<1> HIDE DEF E
<1>5. Max(E) \in E /\ \A i \in E : i <= Max(E)
  BY <1>1, GreatestNumber
<1> QED
  BY <1>1, <1>2, <1>3, <1>4, <1>5

LEMMA InstantIs ==
  ASSUME NEW a \in Action
  PROVE  /\ Instant(a) \in Action /\ Instant(a).n = a.n
         /\ Instant(a).kind = IF a.kind = "sit" THEN "seated" ELSE a.kind
<1>1. a = [n |-> a.n, kind |-> a.kind] /\ a.n \in Numbers /\ a.kind \in Kinds \cup {"seated"}
  BY DEF Action
<1>2. CASE a.kind = "sit"
  <2>1. Instant(a) = [n |-> a.n, kind |-> "seated"]
    BY <1>1, <1>2 DEF Instant
  <2> QED
    BY <1>1, <1>2, <2>1 DEF Action
<1>3. CASE a.kind # "sit"
  BY <1>3 DEF Instant
<1> QED
  BY <1>2, <1>3

(* A refined cache begins at its last exit, if it has one. *)
LEMMA RefinedIs ==
  ASSUME NEW s \in Seq(Action)
  PROVE  \E x \in 0..Len(s) :
           /\ LastExit(s) = (IF LastExit(s) = 0 THEN 0 ELSE x + 1) /\ (LastExit(s) = 0 => x = 0)
           /\ Refined(s) \in Seq(Action) /\ Len(Refined(s)) = Len(s) - x
           /\ \A i \in 1..(Len(s) - x) : Refined(s)[i] = Instant(s[i + x])
<1> DEFINE y == LastExit(s)
           k == IF 1 >= y THEN 1 ELSE y
<1>1. Len(s) \in Nat /\ y \in 0..Len(s)
  BY LastExitIs
<1>2. Refined(s) = [i \in 1..(Len(s) - k + 1) |-> Instant(s[i + k - 1])]
  BY <1>1, MaxIs DEF Refined
<1>3. k \in 1..(Len(s) + 1) /\ k - 1 \in 0..Len(s) /\ y = (IF y = 0 THEN 0 ELSE (k - 1) + 1) /\ (y = 0 => k - 1 = 0)
      /\ Len(s) - k + 1 = Len(s) - (k - 1) /\ Len(s) - (k - 1) \in Nat
  BY <1>1
<1> HIDE DEF y, k
<1> DEFINE n == Len(s) - (k - 1)
<1>4. ASSUME NEW i \in 1..n PROVE i + k - 1 = i + (k - 1) /\ i + (k - 1) \in 1..Len(s)
  BY <1>1, <1>3
<1>5. \A i \in 1..n : s[i + k - 1] \in Action
  BY <1>4
<1>6. \A i \in 1..n : Instant(s[i + k - 1]) \in Action
  BY <1>5, InstantIs
<1>7. Refined(s) = [i \in 1..n |-> Instant(s[i + k - 1])]
  BY <1>2, <1>3
<1>8. Refined(s) \in Seq(Action) /\ Len(Refined(s)) = n
  BY <1>3, <1>6, <1>7
<1>9. \A i \in 1..n : Refined(s)[i] = Instant(s[i + (k - 1)])
  BY <1>4, <1>7
<1> QED
  BY <1>3, <1>8, <1>9 DEF y

(* The chain holds what comes after the last exit. *)
LEMMA ChainIs ==
  ASSUME NEW s \in Seq(Action)
  PROVE  LET c == Chain(Refined(s))
             x == LastExit(s)
         IN  /\ c \in Chains /\ c.actions \in Seq(Action) /\ (c.reset <=> x # 0)
             /\ Len(c.actions) = Len(s) - x
             /\ \A i \in 1..(Len(s) - x) : c.actions[i] = Instant(s[i + x])
<1> DEFINE r == Refined(s)
           c == Chain(r)
           x == LastExit(s)
<1>1. Len(s) \in Nat /\ x \in 0..Len(s)
  BY LastExitIs
<1>2. PICK z \in 0..Len(s) :
         /\ x = (IF x = 0 THEN 0 ELSE z + 1) /\ (x = 0 => z = 0)
         /\ r \in Seq(Action) /\ Len(r) = Len(s) - z
         /\ \A i \in 1..(Len(s) - z) : r[i] = Instant(s[i + z])
  BY RefinedIs
<1>3. c = [reset |-> LastExit(r) # 0, actions |-> IF LastExit(r) # 0 THEN Tail(r) ELSE r]
  BY DEF Chain
<1>4. \A i \in 1..(Len(s) - z) : /\ i + z \in DOMAIN s /\ s[i + z] \in Action
                                /\ (r[i].kind = "exit" <=> s[i + z].kind = "exit")
  <2>1. ASSUME NEW i \in 1..(Len(s) - z) PROVE i + z \in 1..Len(s)
    BY <1>1
  <2>2. \A i \in 1..(Len(s) - z) : s[i + z] \in Action
    BY <2>1
  <2> QED
    BY <1>2, <2>1, <2>2, InstantIs
<1>5. LastExit(r) # 0 <=> x # 0
  <2>1. CASE x = 0
    <3>1. \A i \in DOMAIN s : s[i].kind # "exit"
      BY <2>1, <1>1, LastExitIs
    <3>2. DOMAIN r = 1..(Len(s) - z)
      BY <1>2
    <3>3. \A i \in DOMAIN r : r[i].kind # "exit"
      BY <1>4, <3>1, <3>2
    <3>4. LastExit(r) \in 0..Len(r) /\ DOMAIN r = 1..Len(r) /\ Len(r) \in Nat
      BY <1>2, LastExitIs
    <3>5. LastExit(r) # 0 => r[LastExit(r)].kind = "exit"
      BY <1>2, LastExitIs
    <3>6. LastExit(r) # 0 => LastExit(r) \in DOMAIN r
      BY <3>4
    <3> QED
      BY <2>1, <3>3, <3>5, <3>6
  <2>2. CASE x # 0
    <3>1. x = z + 1 /\ s[x].kind = "exit" /\ 1 \in 1..(Len(s) - z)
      BY <1>1, <1>2, <2>2, LastExitIs
    <3>2. r[1].kind = "exit" /\ 1 \in DOMAIN r
      BY <1>2, <1>4, <3>1
    <3>3. 1 <= LastExit(r) /\ LastExit(r) \in Nat
      BY <1>2, <3>2, LastExitIs
    <3> QED
      BY <2>2, <3>3
  <2> QED
    BY <2>1, <2>2
<1> HIDE DEF r, c, x
<1>6. /\ c.reset = (x # 0) /\ c.actions \in Seq(Action) /\ c = [reset |-> c.reset, actions |-> c.actions]
      /\ Len(c.actions) = Len(s) - x
      /\ \A i \in 1..(Len(s) - x) : c.actions[i] = Instant(s[i + x])
  <2>1. CASE x = 0
    <3>1. c = [reset |-> FALSE, actions |-> r] /\ z = 0
      BY <1>2, <1>3, <1>5, <2>1
    <3> QED
      BY <1>2, <2>1, <3>1
  <2>2. CASE x # 0
    <3>0. c = [reset |-> TRUE, actions |-> Tail(r)] /\ x = z + 1
      BY <1>2, <1>3, <1>5, <2>2
    <3>9. Len(r) # 0
      BY <1>1, <1>2, <3>0
    <3>1. c = [reset |-> TRUE, actions |-> Tail(r)] /\ x = z + 1 /\ r # <<>>
      BY <3>0, <3>9
    <3>2. Tail(r) \in Seq(Action) /\ Len(Tail(r)) = Len(r) - 1 /\ \A i \in 1..(Len(r) - 1) : Tail(r)[i] = r[i + 1]
      BY <1>2, <3>1, TailIs
    <3>3. \A i \in 1..(Len(s) - x) : i \in 1..(Len(r) - 1) /\ i + 1 \in 1..(Len(s) - z) /\ (i + 1) + z = i + x
      BY <1>1, <1>2, <3>1
    <3>4. \A i \in 1..(Len(s) - x) : Tail(r)[i] = Instant(s[i + x])
      BY <1>2, <3>2, <3>3
    <3>5. Len(Tail(r)) = Len(s) - x
      BY <1>1, <1>2, <3>1, <3>2
    <3> QED
      BY <2>2, <3>1, <3>2, <3>4, <3>5
  <2> QED
    BY <2>1, <2>2
<1>7. c \in Chains
  BY <1>6 DEF Chains
<1> QED
  BY <1>6, <1>7 DEF c, r, x

-----------------------------------------------------------------------------
(* TypeOK.                                                                 *)

(* The actions of an update, numbered. *)
Reported(kinds) == [i \in DOMAIN kinds |-> [n |-> Len(done) + i, kind |-> kinds[i]]]

LEMMA ReportedIs ==
  ASSUME done \in Seq(Kinds), NEW kinds \in Seq(Kinds), Len(done) + Len(kinds) <= MaxActions
  PROVE  /\ Reported(kinds) \in Seq(Action) /\ Len(Reported(kinds)) = Len(kinds)
         /\ DOMAIN Reported(kinds) = 1..Len(kinds)
         /\ \A i \in 1..Len(kinds) : /\ Reported(kinds)[i].n = Len(done) + i
                                     /\ Reported(kinds)[i].kind = kinds[i]
<1>1. Len(done) \in Nat /\ Len(kinds) \in Nat /\ DOMAIN kinds = 1..Len(kinds) /\ MaxActions \in Nat
  BY ReplayAssumption
<1>2. ASSUME NEW i \in 1..Len(kinds) PROVE [n |-> Len(done) + i, kind |-> kinds[i]] \in Action
  <2>1. Len(done) + i \in Numbers /\ kinds[i] \in Kinds
    BY <1>1 DEF Numbers
  <2> QED
    BY <2>1 DEF Action
<1>3. Reported(kinds) = [i \in 1..Len(kinds) |-> [n |-> Len(done) + i, kind |-> kinds[i]]]
  BY <1>1 DEF Reported
<1> QED
  BY <1>1, <1>2, <1>3

LEMMA BoundedIs ==
  \A kinds \in BoundedSeq(Kinds, 2) : kinds \in Seq(Kinds)
<1> SUFFICES ASSUME NEW kinds \in BoundedSeq(Kinds, 2) PROVE kinds \in Seq(Kinds)
  OBVIOUS
<1>1. PICK m \in 0..2 : kinds \in [1..m -> Kinds]
  BY DEF BoundedSeq, SeqOf
<1> QED
  BY <1>1

LEMMA MessagesAre ==
  /\ Gone \in Message /\ Reborn \in Message
  /\ \A c \in Chains : Spawn(c) \in Message
  /\ \A acts \in Seq(Action) : Move(acts) \in Message
  /\ \A m \in Message : /\ m.type \in {"Spawn", "Move", "Gone", "Reborn"}
                        /\ m.type = "Spawn" => m.chain \in Chains /\ m.chain.actions \in Seq(Action)
                        /\ m.type = "Move" => m.acts \in Seq(Action)
BY DEF Message, Chains, Spawn, Move, Gone, Reborn

(* A message is appended for some of the viewers. *)
LEMMA TellIs ==
  ASSUME down \in [Viewers -> Seq(Message)], NEW vs, NEW m \in Message
  PROVE  /\ Tell(vs, m) \in [Viewers -> Seq(Message)]
         /\ \A v \in Viewers : Tell(vs, m)[v] = IF v \in vs THEN Append(down[v], m) ELSE down[v]
<1>1. \A v \in Viewers : down[v] \in Seq(Message)
  OBVIOUS
<1>2. \A v \in Viewers : Append(down[v], m) \in Seq(Message)
  BY <1>1, AppendProperties
<1> QED
  BY <1>1, <1>2 DEF Tell

LEMMA BodiesAre ==
  /\ \A c \in Chains : FreshBody(c) \in Body
  /\ \A b \in Body : /\ b.queue \in Seq(Action) /\ b.replay \in Nat /\ b.reset \in BOOLEAN
                     /\ b.pose \in Seq(Numbers) /\ b.replay <= Len(b.queue)
                     /\ b = [queue |-> b.queue, replay |-> b.replay, reset |-> b.reset, pose |-> b.pose]
<1>1. ASSUME NEW c \in Chains PROVE FreshBody(c) \in Body
  <2>1. c.actions \in Seq(Action) /\ c.reset \in BOOLEAN /\ Len(c.actions) \in Nat
    BY DEF Chains
  <2> QED
    BY <2>1 DEF FreshBody, Body
<1> QED
  BY <1>1 DEF Body

(* A snapshot comes to a body. *)
LEMMA SnapshotKeepsBody ==
  ASSUME NEW b \in Body, NEW acts \in Seq(Action)
  PROVE  [b EXCEPT !.queue = @ \o acts] \in Body
<1>1. b.queue \in Seq(Action) /\ b.replay <= Len(b.queue) /\ b.replay \in Nat
  BY BodiesAre
<1>2. b.queue \o acts \in Seq(Action) /\ b.replay <= Len(b.queue \o acts)
  BY <1>1
<1>3. b = [queue |-> b.queue, replay |-> b.replay, reset |-> b.reset, pose |-> b.pose]
  BY BodiesAre
<1> DEFINE q == b.queue \o acts
<1> HIDE DEF q
<1>4. [b EXCEPT !.queue = q] = [queue |-> q, replay |-> b.replay, reset |-> b.reset, pose |-> b.pose]
  BY <1>3
<1> QED
  BY <1>2, <1>4, BodiesAre DEF Body, q

(* The body that Update leaves. *)
Played(b) ==
  LET revert == b.replay > 0 /\ b.reset
  IN  [queue |-> Tail(b.queue), replay |-> Max({0, b.replay - 1}), reset |-> b.reset /\ ~revert,
       pose |-> Append(IF revert THEN <<>> ELSE b.pose, Head(b.queue).n)]

LEMMA PlayedIs ==
  ASSUME NEW b \in Body, b.queue # <<>>
  PROVE  /\ Played(b) \in Body
         /\ Played(b).queue = Tail(b.queue)
         /\ Played(b).replay = (IF b.replay = 0 THEN 0 ELSE b.replay - 1)
         /\ Played(b).reset = (b.reset /\ ~(b.replay > 0 /\ b.reset))
         /\ Played(b).pose = Append(IF b.replay > 0 /\ b.reset THEN <<>> ELSE b.pose, Head(b.queue).n)
<1>1. b.queue \in Seq(Action) /\ b.replay <= Len(b.queue) /\ b.replay \in Nat /\ b.pose \in Seq(Numbers) /\ b.reset \in BOOLEAN
  BY BodiesAre
<1>2. Tail(b.queue) \in Seq(Action) /\ Len(Tail(b.queue)) = Len(b.queue) - 1 /\ Head(b.queue) \in Action /\ Len(b.queue) \in Nat
  BY <1>1, TailIs
<1>3. Head(b.queue).n \in Numbers
  BY <1>2 DEF Action
<1>4. Max({0, b.replay - 1}) = IF b.replay = 0 THEN 0 ELSE b.replay - 1
  <2>1. b.replay - 1 \in Int /\ 0 \in Int
    BY <1>1
  <2> QED
    BY <1>1, <2>1, MaxIs
<1> DEFINE p == IF b.replay > 0 /\ b.reset THEN <<>> ELSE b.pose
<1>5. p \in Seq(Numbers)
  BY <1>1
<1>6. Append(p, Head(b.queue).n) \in Seq(Numbers)
  BY <1>3, <1>5, AppendProperties
<1>7. Max({0, b.replay - 1}) \in Nat /\ Max({0, b.replay - 1}) <= Len(Tail(b.queue))
  BY <1>1, <1>2, <1>4
<1> QED
  BY <1>1, <1>2, <1>4, <1>6, <1>7 DEF Played, Body

LEMMA AppendAllIs ==
  ASSUME TypeOK, NEW acts \in Seq(Action)
  PROVE  /\ cache \o Worth(acts) \in Seq(Action)
         /\ AppendAll(acts) \in Seq(Action) /\ Len(AppendAll(acts)) <= CacheSize
<1>1. cache \o Worth(acts) \in Seq(Action)
  BY WorthIs DEF TypeOK
<1>2. AppendAll(acts) \in Seq(Action) /\ Len(AppendAll(acts)) <= CacheSize
  BY <1>1, TrimmedIs DEF AppendAll
<1> QED
  BY <1>1, <1>2

LEMMA RefinedTypes ==
  ASSUME TypeOK
  PROVE  /\ Refined(cache) \in Seq(Action) /\ Len(Refined(cache)) <= CacheSize
         /\ Chain(Refined(cache)) \in Chains
<1>1. cache \in Seq(Action) /\ Len(cache) <= CacheSize /\ Len(cache) \in Nat /\ CacheSize \in Nat
  BY ReplayAssumption DEF TypeOK
<1>2. PICK x \in 0..Len(cache) : Refined(cache) \in Seq(Action) /\ Len(Refined(cache)) = Len(cache) - x
  BY <1>1, RefinedIs
<1> QED
  BY <1>1, <1>2, ChainIs

LEMMA InitTypes == Init => TypeOK
<1> SUFFICES ASSUME Init PROVE TypeOK
  OBVIOUS
<1>1. {CacheSize, MaxActions, MaxMoves, MaxRespawns} \subseteq Nat /\ CacheSize > 0
  BY ReplayAssumption
<1>2. <<>> \in Seq(Action) /\ <<>> \in Seq(Kinds) /\ Len(<<>>) = 0 /\ <<>> \in Seq(Message)
  OBVIOUS
<1> QED
  BY <1>1, <1>2 DEF Init, TypeOK

LEMMA RequestTypes ==
  ASSUME TypeOK, NEW kinds \in Seq(Kinds), NEW in \in SUBSET Viewers, OnReferencesMoveRequest(kinds, in)
  PROVE  TypeOK'
<1> DEFINE acts == Reported(kinds)
<1>1. Len(done) + Len(kinds) <= MaxActions /\ Len(done) \in Nat /\ Len(kinds) \in Nat /\ done \in Seq(Kinds)
  BY DEF OnReferencesMoveRequest, TypeOK
<1>2. acts \in Seq(Action)
  BY <1>1, ReportedIs
<1>3. /\ pending' = pending \o acts /\ cache' = AppendAll(acts)
      /\ missed' = missed \cup (NumbersIn(cache \o Worth(acts)) \ NumbersIn(cache'))
      /\ sent' = FALSE /\ done' = done \o kinds /\ near' = in
      /\ UNCHANGED <<up, down, body, respawns, born, cleared, late, stray>>
  BY DEF OnReferencesMoveRequest, Reported, clientVars
<1> HIDE DEF acts
<1>4. pending' \in Seq(Action)
  BY <1>2, <1>3 DEF TypeOK
<1>5. cache' \in Seq(Action) /\ Len(cache') <= CacheSize /\ NumbersIn(cache \o Worth(acts)) \subseteq Numbers
  BY <1>2, <1>3, AppendAllIs, NumbersAre
<1>6. missed' \subseteq Numbers
  BY <1>3, <1>5 DEF TypeOK
<1>7. done' \in Seq(Kinds) /\ Len(done') = Len(done) + Len(kinds) /\ Len(done') <= MaxActions
  BY <1>1, <1>3
<1>8. {born, cleared} \subseteq 0..Len(done')
  BY <1>1, <1>7 DEF TypeOK
<1>9. moves' \in 0..MaxMoves
  BY ReplayAssumption DEF OnReferencesMoveRequest, TypeOK
<1> QED
  BY <1>3, <1>4, <1>5, <1>6, <1>7, <1>8, <1>9 DEF TypeOK

LEMMA ProcessTypes ==
  ASSUME TypeOK, ProcessMovementChanges
  PROVE  TypeOK'
<1>1. Move(pending) \in Message
  BY MessagesAre DEF TypeOK
<1>2. down' \in [Viewers -> Seq(Message)]
  BY <1>1, TellIs DEF ProcessMovementChanges, TypeOK
<1>3. pending' \in Seq(Action)
  BY DEF ProcessMovementChanges
<1>4. stray' \subseteq Viewers
  BY DEF ProcessMovementChanges, TypeOK
<1> QED
  BY <1>2, <1>3, <1>4 DEF ProcessMovementChanges, bounds, TypeOK

LEMMA ShiftTypes ==
  ASSUME TypeOK, NEW v \in Viewers, HandleGridCellShift(v)
  PROVE  TypeOK'
<1>1. down' \in [Viewers -> Seq(Message)] /\ cache' \in Seq(Action) /\ Len(cache') <= CacheSize
  <2>1. CASE SendSpawn({v})
    <3>1. Spawn(Chain(Refined(cache))) \in Message
      BY RefinedTypes, MessagesAre
    <3>2. down' \in [Viewers -> Seq(Message)]
      BY <2>1, <3>1, TellIs DEF SendSpawn, TypeOK
    <3>3. cache' \in Seq(Action) /\ Len(cache') <= CacheSize
      BY <2>1, RefinedTypes DEF SendSpawn
    <3> QED
      BY <3>2, <3>3
  <2>2. CASE UNCHANGED <<cache, down>>
    BY <2>2 DEF TypeOK
  <2> QED
    BY <2>1, <2>2 DEF HandleGridCellShift
<1>2. moves' \in 0..MaxMoves
  BY ReplayAssumption DEF HandleGridCellShift, TypeOK
<1>3. near' \subseteq Viewers
  BY DEF HandleGridCellShift, TypeOK
<1> QED
  BY <1>1, <1>2, <1>3 DEF HandleGridCellShift, history, TypeOK

LEMMA EnterTypes ==
  ASSUME TypeOK, NEW v \in Viewers, HandleExteriorCellEnter(v)
  PROVE  TypeOK'
<1>1. moves' \in 0..MaxMoves
  BY ReplayAssumption DEF HandleExteriorCellEnter, TypeOK
<1>2. near' \subseteq Viewers
  BY DEF HandleExteriorCellEnter, TypeOK
<1> QED
  BY <1>1, <1>2 DEF HandleExteriorCellEnter, clientVars, history, TypeOK

LEMMA CellTypes ==
  ASSUME TypeOK, NEW in \in SUBSET Viewers, OnCharacterExteriorCellChange(in)
  PROVE  TypeOK'
<1> DEFINE m(v) == IF v \in in THEN Spawn(Chain(Refined(cache))) ELSE Gone
<1>1. \A v \in Viewers : m(v) \in Message
  BY RefinedTypes, MessagesAre
<1>2. \A v \in Viewers : down[v] \in Seq(Message)
  BY DEF TypeOK
<1>3. down' = [v \in Viewers |-> Append(down[v], m(v))]
  BY DEF OnCharacterExteriorCellChange
<1> HIDE DEF m
<1>4. \A v \in Viewers : Append(down[v], m(v)) \in Seq(Message)
  BY <1>1, <1>2, AppendProperties
<1>5. down' \in [Viewers -> Seq(Message)]
  BY <1>3, <1>4
<1>6. cache' \in Seq(Action) /\ Len(cache') <= CacheSize
  BY RefinedTypes DEF OnCharacterExteriorCellChange
<1>7. moves' \in 0..MaxMoves
  BY ReplayAssumption DEF OnCharacterExteriorCellChange, TypeOK
<1> QED
  BY <1>5, <1>6, <1>7 DEF OnCharacterExteriorCellChange, TypeOK

LEMMA RespawnTypes ==
  ASSUME TypeOK, RespawnOwner
  PROVE  TypeOK'
<1>1. down' \in [Viewers -> Seq(Message)]
  BY MessagesAre, TellIs DEF RespawnOwner, TypeOK
<1>2. cache' \in Seq(Action) /\ Len(cache') <= CacheSize
  BY ReplayAssumption DEF RespawnOwner
<1>3. respawns' \in 0..MaxRespawns
  BY ReplayAssumption DEF RespawnOwner, TypeOK
<1>4. Len(done) \in 0..Len(done)
  BY DEF TypeOK
<1>5. late' \subseteq Numbers
  BY NumbersAre DEF RespawnOwner, TypeOK
<1>6. stray' \subseteq Viewers
  BY DEF RespawnOwner, TypeOK
<1> QED
  BY <1>1, <1>2, <1>3, <1>4, <1>5, <1>6 DEF RespawnOwner, TypeOK

LEMMA PlayerRespawnTypes ==
  ASSUME TypeOK, OnPlayerRespawnRequest
  PROVE  TypeOK'
<1>1. down' \in [Viewers -> Seq(Message)]
  BY MessagesAre, TellIs DEF OnPlayerRespawnRequest, TypeOK
<1>2. respawns' \in 0..MaxRespawns
  BY ReplayAssumption DEF OnPlayerRespawnRequest, TypeOK
<1> QED
  BY <1>1, <1>2 DEF OnPlayerRespawnRequest, serverVars, TypeOK

LEMMA EmptyChain ==
  LastExit(<<>>) = 0 /\ Chain(<<>>) = [reset |-> FALSE, actions |-> <<>>] /\ Chain(<<>>) \in Chains
<1>1. LastExit(<<>>) \in 0..Len(<<>>) /\ Len(<<>>) = 0
  <2>1. <<>> \in Seq(Action)
    OBVIOUS
  <2> QED
    BY <2>1, LastExitIs
<1>2. LastExit(<<>>) = 0
  BY <1>1
<1>3. Chain(<<>>) = [reset |-> FALSE, actions |-> <<>>]
  BY <1>2 DEF Chain
<1>4. <<>> \in Seq(Action)
  OBVIOUS
<1>5. [reset |-> FALSE, actions |-> <<>>] \in Chains
  BY <1>4 DEF Chains
<1> QED
  BY <1>2, <1>3, <1>5, Zenon

LEMMA RequestRespawnTypes ==
  ASSUME TypeOK, NEW v \in Viewers, RespawnViewer(v)
  PROVE  TypeOK'
<1>1. Spawn(Chain(<<>>)) \in Message
  BY EmptyChain, MessagesAre
<1>2. down' \in [Viewers -> Seq(Message)]
  BY <1>1, TellIs DEF RespawnViewer, TypeOK
<1>3. cache' \in Seq(Action) /\ Len(cache') <= CacheSize
  BY ReplayAssumption DEF RespawnViewer
<1>4. up' \in [Viewers -> Nat]
  BY DEF RespawnViewer, TypeOK
<1>5. Len(done) \in 0..Len(done)
  BY DEF TypeOK
<1>6. missed' \subseteq Numbers
  BY NumbersAre DEF RespawnViewer, TypeOK
<1> QED
  BY <1>2, <1>3, <1>4, <1>5, <1>6 DEF RespawnViewer, bounds, TypeOK

LEMMA ReceiveTypes ==
  ASSUME TypeOK, NEW v \in Viewers, Receive(v)
  PROVE  TypeOK'
<1> DEFINE m == Head(down[v])
<1>1. down[v] \in Seq(Message) /\ down[v] # <<>> /\ body[v] \in Body \cup {NoBody} /\ up[v] \in Nat
  BY DEF Receive, TypeOK
<1>2. m \in Message /\ Tail(down[v]) \in Seq(Message)
  BY <1>1, TailIs
<1>3. down' \in [Viewers -> Seq(Message)]
  BY <1>2 DEF Receive, TypeOK
<1>4. body' \in [Viewers -> Body \cup {NoBody}]
  <2>1. CASE m.type = "Spawn" /\ OnCharacterSpawn(v, m.chain)
    BY <1>2, <2>1, MessagesAre, BodiesAre DEF OnCharacterSpawn, TypeOK
  <2>2. CASE m.type = "Move" /\ OnSnapshot(v, m.acts)
    <3>1. m.acts \in Seq(Action)
      BY <1>2, <2>2, MessagesAre
    <3>2. CASE body[v] = NoBody
      BY <2>2, <3>2 DEF OnSnapshot, TypeOK
    <3>3. CASE body[v] # NoBody
      <4>1. body' = [body EXCEPT ![v] = [body[v] EXCEPT !.queue = @ \o m.acts]]
        BY <2>2, <3>3 DEF OnSnapshot, TypeOK
      <4>2. [body[v] EXCEPT !.queue = @ \o m.acts] \in Body
        BY <1>1, <3>1, <3>3, SnapshotKeepsBody
      <4> QED
        BY <4>1, <4>2 DEF TypeOK
    <3> QED
      BY <3>2, <3>3
  <2>3. CASE body' = [body EXCEPT ![v] = NoBody]
    BY <2>3 DEF TypeOK
  <2> QED
    BY <2>1, <2>2, <2>3 DEF Receive
<1>5. up' \in [Viewers -> Nat]
  <2>1. up' = up \/ up' = [up EXCEPT ![v] = IF body[v] = NoBody THEN @ ELSE @ + 1]
    BY DEF Receive
  <2>2. up[v] + 1 \in Nat
    BY <1>1
  <2>3. (IF body[v] = NoBody THEN up[v] ELSE up[v] + 1) \in Nat
    BY <1>1, <2>2
  <2> QED
    BY <2>1, <2>3 DEF TypeOK
<1> QED
  BY <1>3, <1>4, <1>5 DEF Receive, serverVars, bounds, history, TypeOK

LEMMA UpdateTypes ==
  ASSUME TypeOK, NEW v \in Viewers, Update(v)
  PROVE  TypeOK'
<1>1. body[v] \in Body /\ body[v].queue # <<>> /\ body' = [body EXCEPT ![v] = Played(body[v])]
  BY DEF Update, Played, TypeOK
<1>2. Played(body[v]) \in Body
  BY <1>1, PlayedIs
<1>3. body' \in [Viewers -> Body \cup {NoBody}]
  BY <1>1, <1>2 DEF TypeOK
<1> QED
  BY <1>3 DEF Update, serverVars, bounds, history, TypeOK

LEMMA NextTypes == TypeOK /\ [Next]_vars => TypeOK'
<1> SUFFICES ASSUME TypeOK, [Next]_vars PROVE TypeOK'
  OBVIOUS
<1>1. CASE Next
  BY <1>1, BoundedIs, RequestTypes, ProcessTypes, ShiftTypes, EnterTypes, CellTypes, RespawnTypes,
     PlayerRespawnTypes, RequestRespawnTypes, ReceiveTypes, UpdateTypes DEF Next
<1>2. CASE UNCHANGED vars
  BY <1>2 DEF vars, serverVars, clientVars, bounds, history, TypeOK
<1> QED
  BY <1>1, <1>2

(* The actions that are cached, sent and played, the bodies and the bounds *)
(* keep to their types: the cache never holds more than CacheSize actions, *)
(* and no body takes more for a replay than it has to play.                *)
THEOREM ReplayTypes == Spec => []TypeOK
<1> QED
  BY InitTypes, NextTypes, PTL DEF Spec

-----------------------------------------------------------------------------
(* What the cache holds, of actions d that were done, k of them before it  *)
(* was cleared.                                                            *)

(* Its actions are some of these, none is noise. *)
Sound(s, d, k) ==
  \A i \in DOMAIN s :
     /\ s[i].n \in k + 1..Len(d) /\ d[s[i].n] # "noise"
     /\ s[i].kind = d[s[i].n] \/ (d[s[i].n] = "sit" /\ s[i].kind = "seated")

(* After the first of them none is left out. *)
Whole(s, d) ==
  \A i \in DOMAIN s : \A m \in s[i].n..Len(d) : d[m] # "noise" => m \in NumbersIn(s)

(* What is left out before that nobody needs, or there was no room for it. *)
Enough(s, d, k) ==
  \/ Len(s) >= CacheSize
  \/ \E i \in DOMAIN s : s[i].kind = "exit"
  \/ \A m \in k + 1..Len(d) : d[m] # "noise" => m \in NumbersIn(s)

CacheOf(s, d, k) == Sound(s, d, k) /\ Ordered(s) /\ Whole(s, d) /\ Enough(s, d, k)

SinceOf(d, k) ==
  {i \in k + 1..Len(d) : d[i] # "noise" /\ \A j \in i..Len(d) : d[j] # "exit"}

Cached ==
  /\ born <= cleared
  /\ CacheOf(cache, done, cleared)
  /\ SinceOf(done, born) \subseteq NumbersIn(cache) \cup missed

(* Trimming and refining keep the end of the cache. *)
LEMMA EndIsCache ==
  ASSUME NEW s \in Seq(Action), NEW d \in Seq(Kinds), NEW k \in Nat, CacheOf(s, d, k),
         NEW t \in Seq(Action), NEW x \in 0..Len(s), Len(t) = Len(s) - x,
         \A i \in 1..Len(t) : t[i] = s[i + x] \/ t[i] = Instant(s[i + x]),
         x = 0 \/ Len(t) = CacheSize \/ \E i \in DOMAIN t : t[i].kind = "exit"
  PROVE  CacheOf(t, d, k)
<1>1. Len(s) \in Nat /\ Len(t) \in Nat /\ DOMAIN s = 1..Len(s) /\ DOMAIN t = 1..Len(t) /\ Len(d) \in Nat
  OBVIOUS
<1>2. \A i \in DOMAIN t : i + x \in DOMAIN s
  BY <1>1
<1>3. \A i \in DOMAIN s : s[i] \in Action
  OBVIOUS
<1>4. \A i \in DOMAIN t : /\ t[i].n = s[i + x].n
                          /\ t[i].kind = s[i + x].kind \/ (s[i + x].kind = "sit" /\ t[i].kind = "seated")
  <2>1. \A i \in DOMAIN t : t[i] = s[i + x] \/ t[i] = Instant(s[i + x])
    BY <1>1
  <2> QED
    BY <1>2, <1>3, <2>1, InstantIs
<1>5. /\ \A i \in DOMAIN s : s[i].n \in Nat /\ s[i].n \in NumbersIn(s)
      /\ \A i \in DOMAIN t : t[i].n \in Nat /\ t[i].n \in NumbersIn(t)
      /\ \A m \in NumbersIn(s) : \E i \in DOMAIN s : s[i].n = m
  BY NumbersAre
<1>6. Sound(t, d, k)
  <2>1. Sound(s, d, k)
    BY DEF CacheOf
  <2> QED
    BY <1>2, <1>4, <2>1 DEF Sound
<1>7. Ordered(t)
  <2>1. \A i, j \in DOMAIN t : i < j => i + x < j + x
    BY <1>1
  <2> QED
    BY <1>2, <1>4, <2>1 DEF CacheOf, Ordered
<1>8. Whole(t, d)
  <2>1. SUFFICES ASSUME NEW i \in DOMAIN t, NEW m \in t[i].n..Len(d), d[m] # "noise" PROVE m \in NumbersIn(t)
    BY DEF Whole
  <2>2. i + x \in DOMAIN s /\ m \in s[i + x].n..Len(d) /\ s[i + x].n \in Nat /\ m \in Nat /\ s[i + x].n <= m
    BY <1>1, <1>2, <1>4, <1>5
  <2>3. m \in NumbersIn(s)
    BY <2>1, <2>2 DEF CacheOf, Whole
  <2>4. PICK j \in DOMAIN s : s[j].n = m
    BY <1>5, <2>3
  <2>5. ~(j < i + x)
    <3>1. j < i + x => m < s[i + x].n
      BY <2>2, <2>4 DEF CacheOf, Ordered
    <3> QED
      BY <2>2, <3>1
  <2>6. j - x \in DOMAIN t /\ (j - x) + x = j
    BY <1>1, <2>4, <2>5
  <2>7. t[j - x].n = m
    BY <1>4, <2>4, <2>6
  <2> QED
    BY <1>5, <2>6, <2>7
<1>9. Enough(t, d, k)
  <2>1. CASE x = 0
    <3>1. Len(t) = Len(s) /\ DOMAIN t = DOMAIN s /\ \A i \in DOMAIN t : i + x = i
      BY <1>1, <2>1
    <3>2. \A i \in DOMAIN s : t[i].n = s[i].n /\ (s[i].kind = "exit" => t[i].kind = "exit")
      BY <1>4, <3>1
    <3>3. NumbersIn(s) \subseteq NumbersIn(t)
      BY <1>5, <3>1, <3>2
    <3> QED
      BY <3>1, <3>2, <3>3 DEF CacheOf, Enough
  <2>2. CASE Len(t) = CacheSize
    BY <1>1, <2>2 DEF Enough
  <2>3. CASE \E i \in DOMAIN t : t[i].kind = "exit"
    BY <2>3 DEF Enough
  <2> QED
    BY <2>1, <2>2, <2>3
<1> QED
  BY <1>6, <1>7, <1>8, <1>9 DEF CacheOf

LEMMA MoreIsDone ==
  ASSUME NEW d \in Seq(Kinds), NEW kinds \in Seq(Kinds)
  PROVE  /\ d \o kinds \in Seq(Kinds) /\ Len(d) \in Nat /\ Len(kinds) \in Nat
         /\ Len(d \o kinds) = Len(d) + Len(kinds)
         /\ \A i \in 1..Len(d) : (d \o kinds)[i] = d[i] /\ i \in 1..Len(d \o kinds)
         /\ \A i \in 1..Len(kinds) : (d \o kinds)[Len(d) + i] = kinds[i]
         /\ \A i \in (Len(d) + 1)..Len(d \o kinds) :
              i - Len(d) \in 1..Len(kinds) /\ (d \o kinds)[i] = kinds[i - Len(d)]
BY ConcatIs

(* New actions are appended. *)
LEMMA MoreIsCache ==
  ASSUME NEW s \in Seq(Action), NEW d \in Seq(Kinds), NEW k \in 0..Len(d), CacheOf(s, d, k),
         NEW kinds \in Seq(Kinds), NEW acts \in Seq(Action), DOMAIN acts = 1..Len(kinds),
         \A i \in 1..Len(kinds) : acts[i].n = Len(d) + i /\ acts[i].kind = kinds[i]
  PROVE  /\ CacheOf(s \o Worth(acts), d \o kinds, k)
         /\ \A m \in (Len(d) + 1)..Len(d \o kinds) :
              (d \o kinds)[m] # "noise" => m \in NumbersIn(s \o Worth(acts))
         /\ NumbersIn(s) \subseteq NumbersIn(s \o Worth(acts))
<1> DEFINE w == Worth(acts)
           t == s \o w
           e == d \o kinds
<1>1. /\ e \in Seq(Kinds) /\ Len(d) \in Nat /\ Len(kinds) \in Nat /\ Len(e) = Len(d) + Len(kinds)
      /\ \A i \in 1..Len(d) : e[i] = d[i]
      /\ \A i \in 1..Len(kinds) : e[Len(d) + i] = kinds[i]
      /\ \A i \in (Len(d) + 1)..Len(e) : i - Len(d) \in 1..Len(kinds) /\ e[i] = kinds[i - Len(d)]
  BY MoreIsDone
<1>2. /\ w \in Seq(Action)
      /\ \A i \in DOMAIN w : \E j \in DOMAIN acts : w[i] = acts[j] /\ acts[j].kind # "noise"
      /\ \A j \in DOMAIN acts : acts[j].kind # "noise" => \E i \in DOMAIN w : w[i] = acts[j]
      /\ Ordered(acts) => Ordered(w)
  BY WorthIs
<1> HIDE DEF w
<1>3. /\ t \in Seq(Action) /\ Len(s) \in Nat /\ Len(w) \in Nat /\ Len(t) = Len(s) + Len(w)
      /\ DOMAIN s = 1..Len(s) /\ DOMAIN w = 1..Len(w) /\ DOMAIN t = 1..(Len(s) + Len(w))
      /\ \A i \in 1..Len(s) : t[i] = s[i]
      /\ \A i \in 1..Len(w) : t[Len(s) + i] = w[i]
      /\ \A i \in (Len(s) + 1)..(Len(s) + Len(w)) : i - Len(s) \in 1..Len(w) /\ t[i] = w[i - Len(s)]
  BY <1>2, ConcatIs
<1> HIDE DEF t, e
<1>4. DOMAIN s \subseteq DOMAIN t /\ \A i \in DOMAIN w : Len(s) + i \in DOMAIN t
  BY <1>3
<1>5. \A i \in DOMAIN t : i \in DOMAIN s \/ (i - Len(s) \in DOMAIN w /\ t[i] = w[i - Len(s)])
  <2>1. \A i \in DOMAIN t : i \in DOMAIN s \/ i \in (Len(s) + 1)..(Len(s) + Len(w))
    BY <1>3
  <2> QED
    BY <1>3, <2>1
<1>6. /\ \A i \in DOMAIN s : s[i].n \in Nat /\ s[i].n \in NumbersIn(s)
      /\ \A i \in DOMAIN t : t[i].n \in Nat /\ t[i].n \in NumbersIn(t)
      /\ \A m \in NumbersIn(s) : \E i \in DOMAIN s : s[i].n = m
  BY <1>3, NumbersAre
<1>7. NumbersIn(s) \subseteq NumbersIn(t)
  BY <1>3, <1>4, <1>6
<1>8. \A i \in DOMAIN w :
        \E j \in 1..Len(kinds) : /\ w[i] = acts[j] /\ w[i].n = Len(d) + j /\ w[i].kind = kinds[j]
                                 /\ kinds[j] # "noise" /\ e[Len(d) + j] = kinds[j]
  <2>1. SUFFICES ASSUME NEW i \in DOMAIN w
                 PROVE  \E j \in 1..Len(kinds) :
                          /\ w[i] = acts[j] /\ w[i].n = Len(d) + j /\ w[i].kind = kinds[j]
                          /\ kinds[j] # "noise" /\ e[Len(d) + j] = kinds[j]
    OBVIOUS
  <2>2. PICK j \in DOMAIN acts : w[i] = acts[j] /\ acts[j].kind # "noise"
    BY <1>2
  <2>3. j \in 1..Len(kinds) /\ acts[j].n = Len(d) + j /\ acts[j].kind = kinds[j] /\ e[Len(d) + j] = kinds[j]
    BY <1>1, <2>2
  <2> QED
    BY <2>2, <2>3
<1>9. \A m \in (Len(d) + 1)..Len(e) : e[m] # "noise" => m \in NumbersIn(t)
  <2>1. SUFFICES ASSUME NEW m \in (Len(d) + 1)..Len(e), e[m] # "noise" PROVE m \in NumbersIn(t)
    OBVIOUS
  <2> DEFINE j == m - Len(d)
  <2>2. j \in 1..Len(kinds) /\ e[m] = kinds[j] /\ Len(d) + j = m
    BY <1>1
  <2>3. acts[j].kind # "noise" /\ acts[j].n = m /\ j \in DOMAIN acts
    BY <2>1, <2>2
  <2>4. PICK i \in DOMAIN w : w[i] = acts[j]
    BY <1>2, <2>3
  <2>5. t[Len(s) + i].n = m /\ Len(s) + i \in DOMAIN t
    BY <1>3, <1>4, <2>3, <2>4
  <2> QED
    BY <1>6, <2>5
<1>10. Sound(t, e, k)
  <2>1. ASSUME NEW i \in DOMAIN t
        PROVE  /\ t[i].n \in k + 1..Len(e) /\ e[t[i].n] # "noise"
               /\ t[i].kind = e[t[i].n] \/ (e[t[i].n] = "sit" /\ t[i].kind = "seated")
    <3>1. CASE i \in DOMAIN s
      <4>1. /\ t[i] = s[i] /\ s[i].n \in k + 1..Len(d) /\ d[s[i].n] # "noise"
            /\ s[i].kind = d[s[i].n] \/ (d[s[i].n] = "sit" /\ s[i].kind = "seated")
        BY <1>3, <3>1 DEF CacheOf, Sound
      <4>2. s[i].n \in 1..Len(d) /\ s[i].n \in k + 1..Len(e)
        BY <1>1, <4>1
      <4>3. e[s[i].n] = d[s[i].n]
        BY <1>1, <4>2
      <4> QED
        BY <4>1, <4>2, <4>3
    <3>2. CASE i - Len(s) \in DOMAIN w /\ t[i] = w[i - Len(s)]
      <4>1. PICK j \in 1..Len(kinds) : t[i].n = Len(d) + j /\ t[i].kind = kinds[j]
                                     /\ kinds[j] # "noise" /\ e[Len(d) + j] = kinds[j]
        BY <1>8, <3>2
      <4>2. Len(d) + j \in k + 1..Len(e)
        BY <1>1
      <4> QED
        BY <4>1, <4>2
    <3> QED
      BY <1>5, <3>1, <3>2
  <2> QED
    BY <2>1 DEF Sound
<1>11. Ordered(t)
  <2>1. Ordered(acts)
    BY <1>1 DEF Ordered
  <2>2. ASSUME NEW i \in DOMAIN t, NEW j \in DOMAIN t, i < j PROVE t[i].n < t[j].n
    <3>1. CASE i \in DOMAIN s /\ j \in DOMAIN s
      BY <1>3, <2>2, <3>1 DEF CacheOf, Ordered
    <3>2. CASE i \in DOMAIN s /\ j - Len(s) \in DOMAIN w /\ t[j] = w[j - Len(s)]
      <4>1. t[i].n \in k + 1..Len(d)
        BY <1>3, <3>2 DEF CacheOf, Sound
      <4>2. PICK z \in 1..Len(kinds) : t[j].n = Len(d) + z
        BY <1>8, <3>2
      <4> QED
        BY <1>1, <4>1, <4>2
    <3>3. CASE /\ i - Len(s) \in DOMAIN w /\ t[i] = w[i - Len(s)]
               /\ j - Len(s) \in DOMAIN w /\ t[j] = w[j - Len(s)]
      <4>1. i - Len(s) < j - Len(s)
        BY <1>3, <2>2
      <4> QED
        BY <1>2, <2>1, <3>3, <4>1 DEF Ordered
    <3>4. ~(i - Len(s) \in DOMAIN w /\ j \in DOMAIN s)
      BY <1>3, <2>2
    <3> QED
      BY <1>5, <3>1, <3>2, <3>3, <3>4
  <2> QED
    BY <2>2 DEF Ordered
<1>12. Whole(t, e)
  <2>1. SUFFICES ASSUME NEW i \in DOMAIN t, NEW m \in t[i].n..Len(e), e[m] # "noise" PROVE m \in NumbersIn(t)
    BY DEF Whole
  <2>2. m \in Nat /\ t[i].n \in Nat /\ t[i].n <= m /\ m <= Len(e)
    BY <1>1, <1>6
  <2>3. CASE m > Len(d)
    BY <1>1, <1>9, <2>1, <2>2, <2>3
  <2>4. CASE m <= Len(d)
    <3>1. i \in DOMAIN s
      <4>1. i - Len(s) \in DOMAIN w /\ t[i] = w[i - Len(s)] => \E j \in 1..Len(kinds) : t[i].n = Len(d) + j
        BY <1>8
      <4>2. ~ \E j \in 1..Len(kinds) : t[i].n = Len(d) + j
        BY <1>1, <2>2, <2>4
      <4> QED
        BY <1>5, <4>1, <4>2
    <3>2. t[i] = s[i] /\ m \in s[i].n..Len(d)
      BY <1>1, <1>3, <2>2, <2>4, <3>1
    <3>3. m \in 1..Len(d)
      <4>1. s[i].n \in k + 1..Len(d)
        BY <3>1 DEF CacheOf, Sound
      <4> QED
        BY <1>1, <3>2, <4>1
    <3>4. d[m] # "noise"
      BY <1>1, <2>1, <3>3
    <3>5. m \in NumbersIn(s)
      BY <3>1, <3>2, <3>4 DEF CacheOf, Whole
    <3> QED
      BY <1>7, <3>5
  <2> QED
    BY <1>1, <2>2, <2>3, <2>4
<1>13. Enough(t, e, k)
  <2>1. CASE Len(s) >= CacheSize
    <3>1. Len(t) >= CacheSize
      BY <1>3, <2>1, ReplayAssumption
    <3> QED
      BY <3>1 DEF Enough
  <2>2. CASE \E i \in DOMAIN s : s[i].kind = "exit"
    BY <1>3, <1>4, <2>2 DEF Enough
  <2>3. CASE \A m \in k + 1..Len(d) : d[m] # "noise" => m \in NumbersIn(s)
    <3>1. ASSUME NEW m \in k + 1..Len(e), e[m] # "noise" PROVE m \in NumbersIn(t)
      <4>1. CASE m \in (Len(d) + 1)..Len(e)
        BY <1>9, <3>1, <4>1
      <4>2. CASE m \in k + 1..Len(d)
        <5>1. m \in 1..Len(d)
          BY <1>1, <4>2
        <5> QED
          BY <1>1, <1>7, <2>3, <3>1, <4>2, <5>1
      <4> QED
        BY <1>1, <4>1, <4>2
    <3> QED
      BY <3>1 DEF Enough
  <2> QED
    BY <2>1, <2>2, <2>3 DEF CacheOf, Enough
<1> QED
  BY <1>7, <1>9, <1>10, <1>11, <1>12, <1>13 DEF CacheOf, t, e, w

LEMMA KindsAgree ==
  ASSUME NEW s \in Seq(Action), NEW d, NEW k, Sound(s, d, k)
  PROVE  \A i \in DOMAIN s : s[i].kind = "exit" <=> d[s[i].n] = "exit"
BY DEF Sound

(* Who refines the cache loses nothing that is still shown. *)
LEMMA RefinedIsCache ==
  ASSUME NEW s \in Seq(Action), NEW d \in Seq(Kinds), NEW k \in Nat, CacheOf(s, d, k)
  PROVE  /\ CacheOf(Refined(s), d, k)
         /\ \A b \in Nat : SinceOf(d, b) \cap NumbersIn(s) \subseteq NumbersIn(Refined(s))
<1> DEFINE r == Refined(s)
<1>1. PICK x \in 0..Len(s) :
        /\ LastExit(s) = (IF LastExit(s) = 0 THEN 0 ELSE x + 1) /\ (LastExit(s) = 0 => x = 0)
        /\ r \in Seq(Action) /\ Len(r) = Len(s) - x
        /\ \A i \in 1..(Len(s) - x) : r[i] = Instant(s[i + x])
  BY RefinedIs
<1>2. Len(s) \in Nat /\ DOMAIN s = 1..Len(s) /\ DOMAIN r = 1..(Len(s) - x) /\ LastExit(s) \in 0..Len(s)
  BY <1>1, LastExitIs
<1>3. \A i \in DOMAIN s : s[i] \in Action
  OBVIOUS
<1>4. \A i \in DOMAIN r : i + x \in DOMAIN s
  BY <1>2
<1>5. \A i \in DOMAIN r : r[i].n = s[i + x].n /\ (s[i + x].kind = "exit" => r[i].kind = "exit")
  BY <1>1, <1>2, <1>3, <1>4, InstantIs
<1>6. x = 0 \/ \E i \in DOMAIN r : r[i].kind = "exit"
  <2>1. SUFFICES ASSUME x # 0 PROVE \E i \in DOMAIN r : r[i].kind = "exit"
    OBVIOUS
  <2>2. LastExit(s) # 0 /\ LastExit(s) = x + 1 /\ s[x + 1].kind = "exit"
    BY <1>1, <2>1, LastExitIs
  <2>3. 1 \in DOMAIN r /\ 1 + x = x + 1
    BY <1>2, <2>2
  <2> QED
    BY <1>5, <2>2, <2>3
<1>7. CacheOf(r, d, k)
  BY <1>1, <1>2, <1>6, EndIsCache
<1>8. ASSUME NEW b \in Nat, NEW m \in SinceOf(d, b) \cap NumbersIn(s) PROVE m \in NumbersIn(r)
  <2>1. PICK i \in DOMAIN s : s[i].n = m /\ m \in Nat
    BY NumbersAre
  <2>2. i >= x + 1
    <3>1. CASE LastExit(s) = 0
      BY <1>1, <1>2, <3>1
    <3>2. CASE LastExit(s) # 0
      <4>1. LastExit(s) = x + 1 /\ x + 1 \in DOMAIN s /\ s[x + 1].kind = "exit"
        <5>1. LastExit(s) = x + 1 /\ s[LastExit(s)].kind = "exit"
          BY <1>1, <3>2, LastExitIs
        <5> QED
          BY <1>2, <3>2, <5>1
      <4>2. d[s[x + 1].n] = "exit" /\ s[x + 1].n \in 0..Len(d)
        BY <4>1, KindsAgree DEF CacheOf, Sound
      <4>3. ~(m <= s[x + 1].n)
        BY <2>1, <4>2 DEF SinceOf
      <4>4. i < x + 1 => m < s[x + 1].n
        BY <2>1, <4>1 DEF CacheOf, Ordered
      <4>5. ~(i < x + 1)
        BY <2>1, <4>2, <4>3, <4>4
      <4> QED
        BY <1>2, <4>5
    <3> QED
      BY <3>1, <3>2
  <2>3. i - x \in DOMAIN r /\ (i - x) + x = i
    BY <1>2, <2>2
  <2>4. r[i - x].n = m
    BY <1>5, <2>1, <2>3
  <2> QED
    BY <1>1, <2>3, <2>4, NumbersAre
<1> QED
  BY <1>7, <1>8

LEMMA EmptyCache ==
  ASSUME NEW d \in Seq(Kinds)
  PROVE  CacheOf(<<>>, d, Len(d)) /\ SinceOf(d, Len(d)) = {}
<1>1. DOMAIN <<>> = {} /\ Len(d) \in Nat
  OBVIOUS
<1>2. Len(d) + 1..Len(d) = {}
  BY <1>1
<1> QED
  BY <1>1, <1>2 DEF CacheOf, Sound, Ordered, Whole, Enough, SinceOf

LEMMA InitCached == Init => Cached
<1> SUFFICES ASSUME Init PROVE Cached
  OBVIOUS
<1>1. <<>> \in Seq(Kinds) /\ Len(<<>>) = 0
  OBVIOUS
<1>2. CacheOf(<<>>, <<>>, 0) /\ SinceOf(<<>>, 0) = {}
  BY <1>1, EmptyCache
<1>3. cache = <<>> /\ done = <<>> /\ born = 0 /\ cleared = 0
  BY DEF Init
<1> QED
  BY <1>2, <1>3 DEF Cached

LEMMA RequestCached ==
  ASSUME TypeOK, Cached, NEW kinds \in Seq(Kinds), NEW in \in SUBSET Viewers, OnReferencesMoveRequest(kinds, in)
  PROVE  Cached'
<1> DEFINE acts == Reported(kinds)
           w == Worth(acts)
           t == cache \o w
           e == done \o kinds
<1>1. /\ Len(done) + Len(kinds) <= MaxActions /\ done \in Seq(Kinds) /\ cache \in Seq(Action)
      /\ Len(done) \in Nat /\ cleared \in 0..Len(done) /\ born \in 0..Len(done)
  BY DEF OnReferencesMoveRequest, TypeOK
<1>2. /\ acts \in Seq(Action) /\ DOMAIN acts = 1..Len(kinds)
      /\ \A i \in 1..Len(kinds) : acts[i].n = Len(done) + i /\ acts[i].kind = kinds[i]
  BY <1>1, ReportedIs
<1>3. /\ cache' = AppendAll(acts) /\ done' = e /\ born' = born /\ cleared' = cleared
      /\ missed' = missed \cup (NumbersIn(t) \ NumbersIn(cache'))
  BY DEF OnReferencesMoveRequest, Reported
<1> HIDE DEF acts
<1>4. /\ CacheOf(t, e, cleared)
      /\ \A m \in (Len(done) + 1)..Len(e) : e[m] # "noise" => m \in NumbersIn(t)
      /\ NumbersIn(cache) \subseteq NumbersIn(t)
  BY <1>1, <1>2, MoreIsCache DEF Cached
<1>5. t \in Seq(Action) /\ cache' = Trimmed(t)
  BY <1>1, <1>2, <1>3, WorthIs DEF AppendAll
<1>6. e \in Seq(Kinds) /\ Len(e) \in Nat /\ Len(e) >= Len(done) /\ \A i \in 1..Len(done) : e[i] = done[i]
  BY <1>1, MoreIsDone
<1> HIDE DEF t, e
<1>7. CacheOf(Trimmed(t), e, cleared)
  <2>1. PICK x \in 0..Len(t) :
           /\ x # 0 => Len(t) - x = CacheSize
           /\ Trimmed(t) \in Seq(Action) /\ Len(Trimmed(t)) = Len(t) - x
           /\ \A i \in 1..(Len(t) - x) : Trimmed(t)[i] = t[i + x]
    BY <1>5, TrimmedIs
  <2>2. cleared \in Nat
    BY <1>1
  <2> QED
    BY <1>4, <1>5, <1>6, <2>1, <2>2, EndIsCache
<1>8. ASSUME NEW m \in SinceOf(e, born) PROVE m \in NumbersIn(cache') \cup missed'
  <2>1. m \in born + 1..Len(e) /\ e[m] # "noise" /\ \A j \in m..Len(e) : e[j] # "exit"
    BY DEF SinceOf
  <2>2. CASE m <= Len(done)
    <3>1. m \in born + 1..Len(done) /\ \A j \in m..Len(done) : j \in 1..Len(done) /\ j \in m..Len(e)
      BY <1>1, <1>6, <2>1, <2>2
    <3>2. m \in SinceOf(done, born)
      BY <1>6, <2>1, <3>1 DEF SinceOf
    <3> QED
      BY <1>3, <1>4, <3>2 DEF Cached
  <2>3. CASE m > Len(done)
    <3>1. m \in (Len(done) + 1)..Len(e)
      BY <1>1, <1>6, <2>1, <2>3
    <3> QED
      BY <1>3, <1>4, <2>1, <3>1
  <2> QED
    BY <1>1, <1>6, <2>1, <2>2, <2>3
<1> QED
  BY <1>3, <1>5, <1>7, <1>8 DEF Cached

LEMMA RefineCached ==
  ASSUME TypeOK, Cached, cache' = Refined(cache), UNCHANGED <<done, born, cleared, missed>>
  PROVE  Cached'
<1>1. cache \in Seq(Action) /\ done \in Seq(Kinds) /\ cleared \in Nat /\ born \in Nat
  BY DEF TypeOK
<1>2. CacheOf(Refined(cache), done, cleared)
  BY <1>1, RefinedIsCache DEF Cached
<1>3. SinceOf(done, born) \cap NumbersIn(cache) \subseteq NumbersIn(Refined(cache))
  BY <1>1, RefinedIsCache DEF Cached
<1> QED
  BY <1>2, <1>3 DEF Cached

LEMMA ClearCached ==
  ASSUME TypeOK, Cached, cache' = <<>>, cleared' = Len(done), done' = done,
         \/ born' = Len(done)
         \/ born' = born /\ missed' = missed \cup NumbersIn(cache)
  PROVE  Cached'
<1>1. done \in Seq(Kinds) /\ born \in 0..Len(done) /\ Len(done) \in Nat
  BY DEF TypeOK
<1>2. CacheOf(<<>>, done, Len(done)) /\ SinceOf(done, Len(done)) = {}
  BY <1>1, EmptyCache
<1> QED
  BY <1>1, <1>2 DEF Cached

LEMMA NextCached == TypeOK /\ Cached /\ [Next]_vars => Cached'
<1> SUFFICES ASSUME TypeOK, Cached, [Next]_vars PROVE Cached'
  OBVIOUS
<1>1. CASE \E kinds \in BoundedSeq(Kinds, 2), in \in SUBSET Viewers : OnReferencesMoveRequest(kinds, in)
  BY <1>1, BoundedIs, RequestCached
<1>2. CASE \E in \in SUBSET Viewers : OnCharacterExteriorCellChange(in)
  BY <1>2, RefineCached DEF OnCharacterExteriorCellChange
<1>3. ASSUME NEW v \in Viewers, HandleGridCellShift(v) PROVE Cached'
  <2>1. CASE SendSpawn({v})
    BY <1>3, <2>1, RefineCached DEF HandleGridCellShift, SendSpawn, history
  <2>2. CASE UNCHANGED <<cache, down>>
    BY <1>3, <2>2 DEF HandleGridCellShift, history, Cached
  <2> QED
    BY <1>3, <2>1, <2>2 DEF HandleGridCellShift
<1>4. CASE RespawnOwner
  BY <1>4, ClearCached DEF RespawnOwner
<1>5. CASE \E v \in Viewers : RespawnViewer(v)
  BY <1>5, ClearCached DEF RespawnViewer
<1>6. CASE \/ ProcessMovementChanges \/ OnPlayerRespawnRequest
           \/ \E v \in Viewers : HandleExteriorCellEnter(v) \/ Receive(v) \/ Update(v)
           \/ UNCHANGED vars
  <2>1. UNCHANGED <<cache, done, born, cleared, missed>>
    BY <1>6 DEF ProcessMovementChanges, OnPlayerRespawnRequest, HandleExteriorCellEnter, Receive, Update,
       vars, serverVars, history
  <2> QED
    BY <2>1 DEF Cached
<1> QED
  BY <1>1, <1>2, <1>3, <1>4, <1>5, <1>6 DEF Next

-----------------------------------------------------------------------------
(* ChainIsRecent.                                                          *)

LEMMA AsManyNumbers ==
  ASSUME NEW s \in Seq(Action), Ordered(s)
  PROVE  IsFiniteSet(NumbersIn(s)) /\ Cardinality(NumbersIn(s)) = Len(s) /\ Len(s) \in Nat
<1> DEFINE n == Len(s)
           f == [i \in 1..n |-> s[i].n]
<1>1. n \in Nat /\ DOMAIN s = 1..n
  OBVIOUS
<1>2. /\ \A i \in 1..n : s[i].n \in NumbersIn(s) /\ s[i].n \in Nat
      /\ \A m \in NumbersIn(s) : \E i \in 1..n : s[i].n = m
  BY <1>1, NumbersAre
<1> HIDE DEF n
<1>3. f \in [1..n -> NumbersIn(s)] /\ \A i \in 1..n : f[i] = s[i].n
  BY <1>2
<1> HIDE DEF f
<1>4. ASSUME NEW i \in 1..n, NEW j \in 1..n, f[i] = f[j] PROVE i = j
  <2>1. s[i].n = s[j].n /\ s[i].n \in Nat
    BY <1>2, <1>3, <1>4
  <2>2. ~(i < j) /\ ~(j < i)
    BY <1>1, <2>1 DEF Ordered
  <2> QED
    BY <1>1, <2>2
<1>5. f \in Injection(1..n, NumbersIn(s))
  BY <1>3, <1>4 DEF Injection, IsInjective
<1>6. f \in Surjection(1..n, NumbersIn(s))
  BY <1>2, <1>3 DEF Surjection
<1>7. IsFiniteSet(1..n) /\ Cardinality(1..n) = n
  <2>1. 1 \in Int /\ n \in Int
    BY <1>1
  <2>2. IsFiniteSet(1..n) /\ Cardinality(1..n) = IF 1 > n THEN 0 ELSE n - 1 + 1
    BY <2>1, FS_Interval
  <2> QED
    BY <1>1, <2>2
<1>8. IsFiniteSet(NumbersIn(s)) /\ Cardinality(NumbersIn(s)) = Cardinality(1..n)
  BY <1>5, <1>6, <1>7, FS_Surjection
<1> QED
  BY <1>1, <1>7, <1>8 DEF n

LEMMA CachedIsRecent ==
  ASSUME TypeOK, Cached
  PROVE  ChainIsRecent
<1> DEFINE n == Len(done)
           CN == NumbersIn(cache)
           worth == {m \in cleared + 1..n : done[m] # "noise"}
           from(m) == {k \in worth : k >= m}
           recent == {m \in worth : Cardinality(from(m)) <= CacheSize}
           chain == Chain(Refined(cache))
           x == LastExit(cache)
<1>1. /\ cache \in Seq(Action) /\ Len(cache) <= CacheSize /\ Len(cache) \in Nat /\ DOMAIN cache = 1..Len(cache)
      /\ CacheSize \in Nat /\ n \in Nat /\ cleared \in 0..n
  BY ReplayAssumption DEF TypeOK
<1>2. CacheOf(cache, done, cleared)
  BY DEF Cached
<1>3. IsFiniteSet(CN) /\ Cardinality(CN) = Len(cache)
  BY <1>1, <1>2, AsManyNumbers DEF CacheOf
<1>4. \A i \in DOMAIN cache : cache[i].n \in worth /\ cache[i].n \in CN /\ cache[i].n \in Nat
  BY <1>1, <1>2, NumbersAre DEF CacheOf, Sound
<1>5. \A m \in CN : \E i \in DOMAIN cache : cache[i].n = m
  BY <1>1, NumbersAre
<1>6. worth \subseteq Nat /\ IsFiniteSet(worth)
  <2>1. worth \subseteq Nat /\ \A m \in worth : m <= n
    BY <1>1
  <2> QED
    BY <1>1, <2>1, FS_BoundedSetOfNaturals
<1>7. \A m : IsFiniteSet(from(m)) /\ Cardinality(from(m)) \in Nat
  BY <1>6, FS_Subset, FS_CardinalityType
<1>8. \A i \in DOMAIN cache, m \in worth : m >= cache[i].n => m \in CN
  <2>1. SUFFICES ASSUME NEW i \in DOMAIN cache, NEW m \in worth, m >= cache[i].n PROVE m \in CN
    OBVIOUS
  <2>2. m \in cache[i].n..n /\ done[m] # "noise"
    BY <1>1, <1>4, <2>1
  <2> QED
    BY <1>2, <2>2 DEF CacheOf, Whole
<1> HIDE DEF CN, worth
<1>9. CN \subseteq recent
  <2>1. SUFFICES ASSUME NEW m \in CN PROVE m \in recent
    OBVIOUS
  <2>2. PICK i \in DOMAIN cache : cache[i].n = m
    BY <1>5
  <2>3. from(m) \in SUBSET CN
    BY <1>8, <2>2
  <2>4. Cardinality(from(m)) <= Len(cache)
    BY <1>3, <2>3, FS_Subset
  <2>5. m \in worth /\ Cardinality(from(m)) \in Nat
    BY <1>4, <1>7, <2>2
  <2> HIDE DEF from
  <2> QED
    BY <1>1, <2>4, <2>5
<1>10. ASSUME NEW m \in recent \ CN PROVE \E i \in DOMAIN cache : cache[i].kind = "exit" /\ m < cache[i].n
  <2>1. m \in worth /\ m \in Nat /\ m \notin CN /\ Cardinality(from(m)) <= CacheSize
    BY <1>6
  <2>2. \A i \in DOMAIN cache : m < cache[i].n
    <3>1. \A i \in DOMAIN cache : ~(m >= cache[i].n)
      BY <1>8, <2>1
    <3> QED
      BY <1>4, <2>1, <3>1
  <2>3. CN \cup {m} \in SUBSET from(m)
    <3>1. \A k \in CN : k \in worth /\ k >= m
      BY <1>4, <1>5, <2>1, <2>2
    <3>2. m \in worth /\ m >= m
      BY <2>1
    <3> QED
      BY <3>1, <3>2
  <2>4. Cardinality(CN \cup {m}) <= Cardinality(from(m)) /\ Cardinality(CN \cup {m}) = Len(cache) + 1
    BY <1>3, <1>7, <2>1, <2>3, FS_Subset, FS_AddElement
  <2>5. ~(Len(cache) >= CacheSize)
    <3> HIDE DEF from
    <3> QED
      BY <1>1, <1>7, <2>1, <2>4
  <2>6. ~ \A k \in cleared + 1..n : done[k] # "noise" => k \in CN
    BY <2>1 DEF worth
  <2>7. \E i \in DOMAIN cache : cache[i].kind = "exit"
    BY <1>2, <2>5, <2>6 DEF CacheOf, Enough, CN
  <2> QED
    BY <2>2, <2>7
<1>11. \A i \in DOMAIN cache : cache[i].kind = "exit" <=> done[cache[i].n] = "exit"
  BY <1>1, <1>2, KindsAgree DEF CacheOf
<1>12. /\ chain.actions \in Seq(Action) /\ (chain.reset <=> x # 0) /\ Len(chain.actions) = Len(cache) - x
       /\ \A i \in 1..(Len(cache) - x) : chain.actions[i] = Instant(cache[i + x])
  BY <1>1, ChainIs
<1>13. /\ x \in 0..Len(cache)
       /\ x # 0 => x \in DOMAIN cache /\ cache[x].kind = "exit"
       /\ \A i \in DOMAIN cache : cache[i].kind = "exit" => i <= x
  BY <1>1, LastExitIs
<1> HIDE DEF chain, x, recent
<1>14. DOMAIN chain.actions = 1..(Len(cache) - x)
  BY <1>1, <1>12
<1>15. \A i \in DOMAIN chain.actions : /\ i + x \in DOMAIN cache /\ cache[i + x] \in Action
                                       /\ chain.actions[i] = Instant(cache[i + x])
  <2>1. \A i \in DOMAIN chain.actions : i + x \in DOMAIN cache
    BY <1>1, <1>13, <1>14
  <2> QED
    BY <1>1, <1>12, <1>14, <2>1
<1>16. \A i \in DOMAIN chain.actions : chain.actions[i].n = cache[i + x].n
  BY <1>15, InstantIs
<1>17. NumbersIn(chain.actions) = recent \cap Since(cleared)
  <2>1. ASSUME NEW m \in NumbersIn(chain.actions) PROVE m \in recent /\ m \in Since(cleared)
    <3>1. PICK i \in DOMAIN chain.actions : cache[i + x].n = m
      BY <1>12, <1>16, NumbersAre
    <3>2. i + x \in DOMAIN cache /\ m \in CN /\ m \in worth
      BY <1>4, <1>15, <3>1
    <3>3. ASSUME NEW j \in m..n PROVE done[j] # "exit"
      <4>1. SUFFICES ASSUME done[j] = "exit" PROVE FALSE
        OBVIOUS
      <4>2. j \in worth /\ j >= m
        BY <1>1, <3>2, <4>1 DEF worth
      <4>3. PICK z \in DOMAIN cache : cache[z].n = j
        BY <1>5, <1>8, <3>1, <3>2, <4>2
      <4>4. z <= x
        BY <1>11, <1>13, <4>1, <4>3
      <4>5. z < i + x
        BY <1>1, <1>13, <1>14, <4>3, <4>4
      <4>6. j < m
        BY <1>2, <3>1, <3>2, <4>3, <4>5 DEF CacheOf, Ordered
      <4> QED
        BY <1>4, <4>2, <4>3, <3>1, <3>2, <4>6
    <3> QED
      BY <1>9, <3>2, <3>3 DEF Since, worth
  <2>2. ASSUME NEW m \in recent, m \in Since(cleared) PROVE m \in NumbersIn(chain.actions)
    <3>1. m \in Nat /\ m <= n /\ \A j \in m..n : done[j] # "exit"
      BY <1>1, <2>2 DEF Since
    <3>2. \A i \in DOMAIN cache : m <= cache[i].n => cache[i].kind # "exit"
      <4>1. \A i \in DOMAIN cache : cache[i].n \in Nat /\ cache[i].n <= n
        BY <1>1, <1>4 DEF worth
      <4>2. \A i \in DOMAIN cache : m <= cache[i].n => cache[i].n \in m..n
        BY <1>1, <3>1, <4>1
      <4> QED
        BY <1>11, <3>1, <4>2
    <3>3. m \in CN
      <4>1. \A i \in DOMAIN cache : ~(cache[i].kind = "exit" /\ m < cache[i].n)
        BY <1>4, <3>1, <3>2
      <4> QED
        BY <1>10, <2>2, <4>1
    <3>4. PICK i \in DOMAIN cache : cache[i].n = m
      BY <1>5, <3>3
    <3>5. i > x
      <4>1. x # 0 => cache[x].n < m
        BY <1>4, <1>13, <3>1, <3>2
      <4>2. x # 0 => ~(i <= x)
        <5>1. SUFFICES ASSUME x # 0, i <= x PROVE FALSE
          OBVIOUS
        <5>2. i = x \/ i < x
          BY <1>1, <1>13, <5>1
        <5>3. cache[i].n <= cache[x].n
          BY <1>2, <1>4, <1>13, <5>1, <5>2 DEF CacheOf, Ordered
        <5> QED
          BY <1>4, <1>13, <3>1, <3>4, <4>1, <5>1, <5>3
      <4> QED
        BY <1>1, <1>13, <4>2
    <3>6. i - x \in DOMAIN chain.actions /\ (i - x) + x = i
      BY <1>1, <1>13, <1>14, <3>5
    <3>7. chain.actions[i - x].n = m
      BY <1>16, <3>4, <3>6
    <3> QED
      BY <1>12, <3>6, <3>7, NumbersAre
  <2> QED
    BY <2>1, <2>2
<1>18. chain.reset <=> \E m \in recent : done[m] = "exit"
  <2>1. ASSUME x # 0 PROVE \E m \in recent : done[m] = "exit"
    BY <1>4, <1>9, <1>11, <1>13, <2>1
  <2>2. ASSUME NEW m \in recent, done[m] = "exit" PROVE x # 0
    <3>1. \E i \in DOMAIN cache : cache[i].kind = "exit"
      BY <1>5, <1>10, <1>11, <2>2
    <3> QED
      BY <1>1, <1>13, <3>1
  <2> QED
    BY <1>12, <2>1, <2>2
<1>19. \A i \in DOMAIN chain.actions : chain.actions[i].kind = "seated"
  <2>1. SUFFICES ASSUME NEW i \in DOMAIN chain.actions PROVE chain.actions[i].kind = "seated"
    OBVIOUS
  <2>2. i + x \in DOMAIN cache /\ cache[i + x] \in Action /\ chain.actions[i] = Instant(cache[i + x])
    BY <1>15
  <2>3. cache[i + x].kind # "exit"
    BY <1>1, <1>13, <1>14, <2>2
  <2>4. /\ done[cache[i + x].n] # "noise"
        /\ cache[i + x].kind = done[cache[i + x].n] \/ cache[i + x].kind = "seated"
    BY <1>2, <2>2 DEF CacheOf, Sound
  <2>5. cache[i + x].kind \in {"sit", "exit", "noise", "seated"}
    BY <2>2 DEF Action, Kinds
  <2> QED
    BY <2>2, <2>3, <2>4, <2>5, InstantIs
<1> QED
  BY <1>17, <1>18, <1>19 DEF ChainIsRecent, chain, recent, worth

(* A newcomer is told just the actions since the last exit of the last     *)
(* CacheSize worth it since the cache was cleared, however often it was    *)
(* refined in between; and to reset the body just if that exit is among    *)
(* them.                                                                   *)
THEOREM TheChainIsRecent == Spec => []ChainIsRecent
<1>1. Init => TypeOK /\ Cached
  BY InitTypes, InitCached
<1>2. TypeOK /\ Cached /\ [Next]_vars => TypeOK' /\ Cached'
  BY NextTypes, NextCached
<1>3. TypeOK /\ Cached => ChainIsRecent
  BY CachedIsRecent
<1> QED
  BY <1>1, <1>2, <1>3, PTL DEF Spec

-----------------------------------------------------------------------------
(* What waits on the server to be passed on.                               *)

(* The number of the last action that was passed on. *)
Passed == Len(done) - Len(pending)

Queued ==
  /\ sent => pending = <<>>
  /\ Len(pending) <= Len(done)
  /\ \A i \in DOMAIN pending : pending[i].n = Passed + i
  /\ \A n \in Passed + 1..born : n \in late

LEMMA InitQueued == Init => Queued
<1> SUFFICES ASSUME Init PROVE Queued
  OBVIOUS
<1>1. Len(<<>>) = 0 /\ DOMAIN <<>> = {}
  OBVIOUS
<1>2. pending = <<>> /\ done = <<>> /\ born = 0
  BY DEF Init
<1>3. Passed = 0 /\ Passed + 1..born = {}
  BY <1>1, <1>2 DEF Passed
<1> QED
  BY <1>1, <1>2, <1>3 DEF Queued

LEMMA RequestQueued ==
  ASSUME TypeOK, Queued, NEW kinds \in Seq(Kinds), NEW in \in SUBSET Viewers, OnReferencesMoveRequest(kinds, in)
  PROVE  Queued' /\ Passed' = Passed
<1> DEFINE acts == Reported(kinds)
<1>1. /\ Len(done) + Len(kinds) <= MaxActions /\ done \in Seq(Kinds) /\ pending \in Seq(Action)
      /\ Len(done) \in Nat /\ Len(kinds) \in Nat /\ Len(pending) \in Nat /\ born \in Nat
  BY DEF OnReferencesMoveRequest, TypeOK
<1>2. /\ acts \in Seq(Action) /\ DOMAIN acts = 1..Len(kinds) /\ Len(acts) = Len(kinds)
      /\ \A i \in 1..Len(kinds) : acts[i].n = Len(done) + i
  BY <1>1, ReportedIs
<1>3. /\ pending' = pending \o acts /\ done' = done \o kinds
      /\ sent' = FALSE /\ born' = born /\ late' = late
  BY DEF OnReferencesMoveRequest, Reported
<1> HIDE DEF acts
<1>4. Len(done') = Len(done) + Len(kinds)
  BY <1>1, <1>3, MoreIsDone
<1>5. /\ Len(pending') = Len(pending) + Len(kinds) /\ DOMAIN pending = 1..Len(pending)
      /\ DOMAIN pending' = 1..(Len(pending) + Len(kinds))
      /\ \A i \in 1..Len(pending) : pending'[i] = pending[i]
      /\ \A i \in (Len(pending) + 1)..(Len(pending) + Len(kinds)) :
           i - Len(pending) \in 1..Len(kinds) /\ pending'[i] = acts[i - Len(pending)]
  <2> DEFINE t == pending \o acts
  <2>1. /\ Len(t) = Len(pending) + Len(acts) /\ DOMAIN t = 1..(Len(pending) + Len(acts))
        /\ \A i \in 1..Len(pending) : t[i] = pending[i]
        /\ \A i \in (Len(pending) + 1)..(Len(pending) + Len(acts)) :
             i - Len(pending) \in 1..Len(acts) /\ t[i] = acts[i - Len(pending)]
    <3>1. pending \in Seq(Action) /\ acts \in Seq(Action)
      BY <1>1, <1>2
    <3> QED
      BY <3>1, ConcatIs
  <2>2. pending' = t /\ Len(acts) = Len(kinds)
    BY <1>2, <1>3
  <2> HIDE DEF t
  <2> QED
    BY <1>1, <2>1, <2>2
<1>6. Passed' = Passed
  BY <1>1, <1>4, <1>5 DEF Passed
<1>7. ASSUME NEW i \in DOMAIN pending' PROVE pending'[i].n = Passed + i
  <2>1. CASE i \in 1..Len(pending)
    BY <1>5, <2>1 DEF Queued
  <2>2. CASE i \in (Len(pending) + 1)..(Len(pending) + Len(kinds))
    <3>1. pending'[i].n = Len(done) + (i - Len(pending))
      BY <1>2, <1>5, <2>2
    <3> QED
      BY <1>1, <2>2, <3>1 DEF Passed
  <2> QED
    BY <1>1, <1>5, <2>1, <2>2
<1>8. Len(pending') <= Len(done')
  BY <1>1, <1>4, <1>5 DEF Queued
<1> QED
  BY <1>3, <1>6, <1>7, <1>8 DEF Queued

LEMMA ProcessQueued ==
  ASSUME TypeOK, Queued, ProcessMovementChanges
  PROVE  Queued' /\ Passed' = Len(done)
<1>1. Len(done) \in Nat /\ born \in 0..Len(done)
  BY DEF TypeOK
<1>2. pending' = <<>> /\ done' = done /\ born' = born /\ late' = late
  BY DEF ProcessMovementChanges
<1>3. Len(<<>>) = 0 /\ DOMAIN <<>> = {}
  OBVIOUS
<1>4. Passed' = Len(done)
  BY <1>1, <1>2, <1>3 DEF Passed
<1>5. Len(done) + 1..born = {}
  BY <1>1
<1> QED
  BY <1>1, <1>2, <1>3, <1>4, <1>5 DEF Queued

LEMMA RespawnQueued ==
  ASSUME TypeOK, Queued, RespawnOwner
  PROVE  Queued' /\ Passed' = Passed
<1>1. Len(done) \in Nat /\ pending \in Seq(Action) /\ Len(pending) \in Nat /\ DOMAIN pending = 1..Len(pending)
  BY DEF TypeOK
<1>2. pending' = pending /\ done' = done /\ sent' = sent /\ born' = Len(done) /\ late' = late \cup NumbersIn(pending)
  BY DEF RespawnOwner
<1>3. Passed' = Passed
  BY <1>2 DEF Passed
<1>4. ASSUME NEW n \in Passed + 1..Len(done) PROVE n \in late'
  <2>1. n - Passed \in DOMAIN pending /\ Passed + (n - Passed) = n
    BY <1>1 DEF Passed, Queued
  <2>2. pending[n - Passed].n = n
    BY <2>1 DEF Queued
  <2>3. pending[n - Passed].n \in NumbersIn(pending)
    BY <1>1, <2>1, NumbersAre
  <2> QED
    BY <1>2, <2>2, <2>3
<1> QED
  BY <1>2, <1>3, <1>4 DEF Queued

LEMMA SteadyQueued ==
  ASSUME Queued, UNCHANGED <<pending, sent, done, born, late>>
  PROVE  Queued' /\ Passed' = Passed
<1>1. Passed' = Passed
  BY DEF Passed
<1> QED
  BY <1>1 DEF Queued

LEMMA NextQueued == TypeOK /\ Queued /\ [Next]_vars => Queued'
<1> SUFFICES ASSUME TypeOK, Queued, [Next]_vars PROVE Queued'
  OBVIOUS
<1>1. CASE \E kinds \in BoundedSeq(Kinds, 2), in \in SUBSET Viewers : OnReferencesMoveRequest(kinds, in)
  BY <1>1, BoundedIs, RequestQueued
<1>2. CASE ProcessMovementChanges
  BY <1>2, ProcessQueued
<1>3. CASE RespawnOwner
  BY <1>3, RespawnQueued
<1>4. CASE \/ OnPlayerRespawnRequest \/ \E in \in SUBSET Viewers : OnCharacterExteriorCellChange(in)
           \/ \E v \in Viewers : \/ HandleGridCellShift(v) \/ HandleExteriorCellEnter(v)
                                 \/ RespawnViewer(v) \/ Receive(v) \/ Update(v)
           \/ UNCHANGED vars
  <2>1. UNCHANGED <<pending, sent, done, born, late>>
    BY <1>4 DEF OnPlayerRespawnRequest, OnCharacterExteriorCellChange, HandleGridCellShift, HandleExteriorCellEnter,
       RespawnViewer, Receive, Update, vars, serverVars, history
  <2> QED
    BY <2>1, SteadyQueued
<1> QED
  BY <1>1, <1>2, <1>3, <1>4 DEF Next

-----------------------------------------------------------------------------
(* What a body shows once it has played e: of actions d, k of which were   *)
(* done before the latest respawn, x may be left out, and l may be played  *)
(* though they are older.                                                  *)

Nums(s) == [i \in DOMAIN s |-> s[i].n]

(* e begins with a of a replay, and goes on with the actions from s to m   *)
(* as they were passed on. If nothing since ended what was before s, the   *)
(* replay has what of it is shown.                                         *)
TellsFrom(a, s, e, m, d, k, x, l) ==
  /\ Len(e) - a = m + 1 - s
  /\ \A i \in a + 1..Len(e) : e[i] = s + (i - a) - 1
  /\ \A i \in 1..a : e[i] \in 1..Len(d) /\ d[e[i]] # "exit" /\ d[e[i]] # "noise"
  /\ \A i, j \in 1..a : i < j => e[i] < e[j]
  /\ \A n \in s..k : n \in l
  /\ (\A n \in s..Len(d) : d[n] # "exit") =>
       /\ \A n \in SinceOf(d, k) \ x : n < s => \E i \in 1..a : e[i] = n
       /\ \A i \in 1..a : e[i] < s => e[i] \in SinceOf(d, k) \cup l

Tells(e, m, d, k, x, l) ==
  \E a \in 0..Len(e), s \in 1..(m + 1) : TellsFrom(a, s, e, m, d, k, x, l)

Longer(d, f) == Len(d) <= Len(f) /\ \A i \in 1..Len(d) : f[i] = d[i]

LEMMA NumsAre ==
  ASSUME NEW s \in Seq(Action)
  PROVE  /\ Nums(s) \in Seq(Numbers) /\ Len(s) \in Nat /\ Len(Nums(s)) = Len(s)
         /\ DOMAIN Nums(s) = 1..Len(s) /\ \A i \in 1..Len(s) : Nums(s)[i] = s[i].n
<1>1. DOMAIN s = 1..Len(s) /\ Len(s) \in Nat
  OBVIOUS
<1>2. \A i \in 1..Len(s) : s[i].n \in Numbers
  BY <1>1, NumbersAre
<1>3. Nums(s) = [i \in 1..Len(s) |-> s[i].n]
  BY <1>1 DEF Nums
<1> QED
  BY <1>1, <1>2, <1>3

(* When more is done, what ends later or is missed later excuses more. *)
LEMMA TellsLater ==
  ASSUME NEW e, Len(e) \in Nat, NEW m \in Nat, NEW d \in Seq(Kinds), NEW f \in Seq(Kinds), Longer(d, f),
         NEW k \in Nat, m <= Len(d), NEW x, NEW y, x \subseteq y, NEW l,
         Tells(e, m, d, k, x, l)
  PROVE  Tells(e, m, f, k, y, l)
<1>1. PICK a \in 0..Len(e), s \in 1..(m + 1) : TellsFrom(a, s, e, m, d, k, x, l)
  BY DEF Tells
<1>2. Len(d) \in Nat /\ Len(f) \in Nat /\ Len(d) <= Len(f) /\ \A i \in 1..Len(d) : f[i] = d[i] /\ i \in 1..Len(f)
  BY DEF Longer
<1>3. \A i \in 1..a : e[i] \in 1..Len(f) /\ f[e[i]] # "exit" /\ f[e[i]] # "noise"
  BY <1>1, <1>2 DEF TellsFrom
<1>4. ASSUME \A n \in s..Len(f) : f[n] # "exit"
      PROVE  /\ \A n \in SinceOf(f, k) \ y : n < s => \E i \in 1..a : e[i] = n
             /\ \A i \in 1..a : e[i] < s => e[i] \in SinceOf(f, k) \cup l
  <2>1. \A n \in s..Len(d) : n \in s..Len(f) /\ n \in 1..Len(d)
    BY <1>2
  <2>2. \A n \in s..Len(d) : d[n] # "exit"
    BY <1>2, <1>4, <2>1
  <2>3. /\ \A n \in SinceOf(d, k) \ x : n < s => \E i \in 1..a : e[i] = n
        /\ \A i \in 1..a : e[i] < s => e[i] \in SinceOf(d, k) \cup l
    BY <1>1, <2>2 DEF TellsFrom
  <2>4. ASSUME NEW n \in SinceOf(f, k), n < s PROVE n \in SinceOf(d, k)
    <3>1. n \in k + 1..Len(d)
      BY <1>2, <2>4 DEF SinceOf
    <3>2. \A j \in n..Len(d) : j \in 1..Len(d) /\ j \in n..Len(f)
      BY <1>2, <3>1
    <3> QED
      BY <1>2, <2>4, <3>1, <3>2 DEF SinceOf
  <2>5. ASSUME NEW n \in SinceOf(d, k), n < s PROVE n \in SinceOf(f, k)
    <3>1. n \in k + 1..Len(f) /\ n \in 1..Len(d) /\ n \in Nat
      BY <1>2 DEF SinceOf
    <3>2. ASSUME NEW j \in n..Len(f) PROVE f[j] # "exit"
      <4>1. CASE j <= Len(d)
        <5>1. j \in n..Len(d) /\ j \in 1..Len(d)
          BY <1>2, <3>1, <4>1
        <5> QED
          BY <1>2, <5>1 DEF SinceOf
      <4>2. CASE j > Len(d)
        <5>1. j \in s..Len(f)
          BY <1>2, <3>1, <4>2
        <5> QED
          BY <1>4, <5>1
      <4> QED
        BY <1>2, <3>1, <4>1, <4>2
    <3> QED
      BY <1>2, <3>1, <3>2 DEF SinceOf
  <2> QED
    BY <2>3, <2>4, <2>5
<1> QED
  BY <1>1, <1>3, <1>4 DEF Tells, TellsFrom

(* The actions of a snapshot are those from m + 1 to n. *)
IsRun(acts, m, n) == n = m + Len(acts) /\ \A i \in 1..Len(acts) : acts[i].n = m + i

LEMMA TellsMore ==
  ASSUME NEW e \in Seq(Numbers), NEW m \in Nat, NEW n \in Nat, NEW acts \in Seq(Action), IsRun(acts, m, n),
         NEW d, NEW k, NEW x, NEW l, Tells(e, m, d, k, x, l)
  PROVE  Tells(e \o Nums(acts), n, d, k, x, l)
<1>1. PICK a \in 0..Len(e), s \in 1..(m + 1) : TellsFrom(a, s, e, m, d, k, x, l)
  BY DEF Tells
<1> DEFINE g == e \o Nums(acts)
<1>2. /\ Nums(acts) \in Seq(Numbers) /\ Len(acts) \in Nat /\ Len(Nums(acts)) = Len(acts)
      /\ \A i \in 1..Len(acts) : Nums(acts)[i] = acts[i].n
  BY NumsAre
<1>3. /\ Len(e) \in Nat /\ Len(g) = Len(e) + Len(acts)
      /\ \A i \in 1..Len(e) : g[i] = e[i]
      /\ \A i \in (Len(e) + 1)..(Len(e) + Len(acts)) :
           i - Len(e) \in 1..Len(acts) /\ g[i] = Nums(acts)[i - Len(e)]
  <2> DEFINE t == Nums(acts)
  <2>1. /\ Len(e) \in Nat /\ Len(g) = Len(e) + Len(t)
        /\ \A i \in 1..Len(e) : g[i] = e[i]
        /\ \A i \in (Len(e) + 1)..(Len(e) + Len(t)) : i - Len(e) \in 1..Len(t) /\ g[i] = t[i - Len(e)]
    <3>1. t \in Seq(Numbers)
      BY <1>2
    <3>2. g = e \o t
      OBVIOUS
    <3> HIDE DEF t, g
    <3> QED
      BY <3>1, <3>2, ConcatIs
  <2>2. Len(t) = Len(acts)
    BY <1>2
  <2> HIDE DEF t, g
  <2> QED
    BY <2>1, <2>2 DEF t
<1> HIDE DEF g
<1>4. n = m + Len(acts) /\ \A i \in 1..Len(acts) : acts[i].n = m + i
  BY DEF IsRun
<1>5. \A i \in 1..a : i \in 1..Len(e) /\ g[i] = e[i]
  BY <1>3
<1>6. a \in 0..Len(g) /\ s \in 1..(n + 1) /\ Len(g) - a = n + 1 - s
  <2>1. Len(e) - a = m + 1 - s
    BY <1>1 DEF TellsFrom
  <2>2. Len(e) \in Nat /\ Len(acts) \in Nat /\ Len(g) = Len(e) + Len(acts) /\ n = m + Len(acts)
    BY <1>2, <1>3, <1>4
  <2> QED
    BY <2>1, <2>2
<1>7. ASSUME NEW i \in a + 1..Len(g) PROVE g[i] = s + (i - a) - 1
  <2>1. CASE i <= Len(e)
    <3>1. i \in a + 1..Len(e) /\ i \in 1..Len(e)
      BY <1>3, <2>1
    <3> QED
      BY <1>1, <1>3, <3>1 DEF TellsFrom
  <2>2. CASE i > Len(e)
    <3>1. i \in (Len(e) + 1)..(Len(e) + Len(acts))
      BY <1>2, <1>3, <2>2
    <3>2. g[i] = m + (i - Len(e))
      BY <1>2, <1>3, <1>4, <3>1
    <3>3. Len(e) - a = m + 1 - s
      BY <1>1 DEF TellsFrom
    <3>4. i \in Int /\ Len(e) \in Nat
      BY <1>3
    <3>5. m + (i - Len(e)) = s + (i - a) - 1
      BY <3>3, <3>4
    <3> QED
      BY <3>2, <3>5
  <2> QED
    BY <1>3, <2>1, <2>2
<1>8. /\ \A i \in 1..a : e[i] \in 1..Len(d) /\ d[e[i]] # "exit" /\ d[e[i]] # "noise"
      /\ \A i, j \in 1..a : i < j => e[i] < e[j]
      /\ \A j \in s..k : j \in l
      /\ (\A j \in s..Len(d) : d[j] # "exit") =>
           /\ \A j \in SinceOf(d, k) \ x : j < s => \E i \in 1..a : e[i] = j
           /\ \A i \in 1..a : e[i] < s => e[i] \in SinceOf(d, k) \cup l
  BY <1>1 DEF TellsFrom
<1>9. /\ \A i \in 1..a : g[i] \in 1..Len(d) /\ d[g[i]] # "exit" /\ d[g[i]] # "noise"
      /\ \A i, j \in 1..a : i < j => g[i] < g[j]
      /\ (\A j \in s..Len(d) : d[j] # "exit") =>
           /\ \A j \in SinceOf(d, k) \ x : j < s => \E i \in 1..a : g[i] = j
           /\ \A i \in 1..a : g[i] < s => g[i] \in SinceOf(d, k) \cup l
  BY <1>5, <1>8
<1>10. TellsFrom(a, s, g, n, d, k, x, l)
  BY <1>6, <1>7, <1>8, <1>9 DEF TellsFrom
<1> QED
  BY <1>6, <1>10 DEF Tells, g

(* Who has played all that was done shows what he is to show. *)
LEMMA TellsPose ==
  ASSUME TypeOK, NEW e \in Seq(Numbers), Tells(e, Len(done), done, born, missed, late)
  PROVE  LET held == {e[i] : i \in Counts(e)}
         IN  /\ Since(born) \ missed \subseteq held
             /\ held \subseteq Since(born) \cup late
             /\ \A i, j \in Counts(e) : i < j => e[i] < e[j]
<1> DEFINE n == Len(done)
           held == {e[i] : i \in Counts(e)}
<1>1. PICK a \in 0..Len(e), s \in 1..(n + 1) : TellsFrom(a, s, e, n, done, born, missed, late)
  BY DEF Tells
<1>2. n \in Nat /\ Len(e) \in Nat /\ born \in Nat /\ DOMAIN e = 1..Len(e)
  BY DEF TypeOK
<1>3. /\ Len(e) - a = n + 1 - s
      /\ \A i \in a + 1..Len(e) : e[i] = s + (i - a) - 1
      /\ \A i \in 1..a : e[i] \in 1..n /\ done[e[i]] # "exit" /\ done[e[i]] # "noise"
      /\ \A i, j \in 1..a : i < j => e[i] < e[j]
      /\ \A m \in s..born : m \in late
      /\ (\A m \in s..n : done[m] # "exit") =>
           /\ \A m \in SinceOf(done, born) \ missed : m < s => \E i \in 1..a : e[i] = m
           /\ \A i \in 1..a : e[i] < s => e[i] \in SinceOf(done, born) \cup late
  BY <1>1 DEF TellsFrom
<1>4. Since(born) = SinceOf(done, born)
  BY DEF Since, SinceOf
<1>5. \A m \in s..n : (m - s) + a + 1 \in a + 1..Len(e) /\ e[(m - s) + a + 1] = m /\ (m - s) + a + 1 \in 1..Len(e)
  <2>1. SUFFICES ASSUME NEW m \in s..n
                 PROVE  LET i == (m - s) + a + 1
                        IN  i \in a + 1..Len(e) /\ e[i] = m /\ i \in 1..Len(e)
    OBVIOUS
  <2> DEFINE i == (m - s) + a + 1
  <2>2. Len(e) - a = n + 1 - s
    BY <1>3
  <2>3. i \in a + 1..Len(e) /\ i \in 1..Len(e) /\ s + (i - a) - 1 = m
    BY <1>2, <2>2
  <2> HIDE DEF i
  <2>4. e[i] = m
    BY <1>3, <2>3
  <2> QED
    BY <2>3, <2>4 DEF i
<1>6. \A i \in a + 1..Len(e) : e[i] \in s..n /\ i \in 1..Len(e)
  BY <1>2, <1>3
<1> HIDE DEF n
<1>7. ASSUME NEW m \in Since(born) \ missed PROVE m \in held
  <2>1. m \in born + 1..n /\ done[m] # "noise" /\ \A j \in m..n : done[j] # "exit"
    BY DEF Since, n
  <2>2. CASE m >= s
    <3> DEFINE i == (m - s) + a + 1
    <3>1. i \in a + 1..Len(e) /\ e[i] = m /\ i \in 1..Len(e)
      BY <1>2, <1>5, <2>1, <2>2
    <3>2. \A j \in i..Len(e) : j \in a + 1..Len(e) /\ e[j] = m + (j - i)
      BY <1>2, <1>3, <2>1, <3>1
    <3> HIDE DEF i
    <3>3. \A j \in i..Len(e) : e[j] \in m..n
      BY <1>2, <1>6, <2>1, <3>1, <3>2
    <3>4. \A j \in i + 1..Len(e) : e[j] # m
      BY <1>2, <2>1, <3>1, <3>2
    <3>5. i \in Counts(e)
      BY <1>2, <2>1, <3>1, <3>3, <3>4 DEF Counts
    <3> QED
      BY <3>1, <3>5
  <2>3. CASE m < s
    <3>1. \A j \in s..n : done[j] # "exit"
      BY <1>2, <2>1, <2>3
    <3>2. PICK i \in 1..a : e[i] = m
      BY <1>3, <1>4, <2>3, <3>1
    <3>3. i \in 1..Len(e)
      BY <1>2
    <3>4. ASSUME NEW j \in i..Len(e) PROVE done[e[j]] # "exit" /\ (j # i => e[j] # m)
      <4>1. CASE j \in 1..a
        BY <1>2, <1>3, <2>1, <3>2, <4>1
      <4>2. CASE j \in a + 1..Len(e)
        <5>1. e[j] \in s..n
          BY <1>6, <4>2
        <5> QED
          BY <1>2, <2>1, <2>3, <3>1, <5>1
      <4> QED
        BY <1>2, <4>1, <4>2
    <3>5. \A j \in i + 1..Len(e) : j \in i..Len(e) /\ j # i
      BY <1>2
    <3>6. i \in Counts(e)
      BY <1>2, <2>1, <3>2, <3>3, <3>4, <3>5 DEF Counts
    <3> QED
      BY <3>2, <3>6
  <2> QED
    BY <1>2, <2>1, <2>2, <2>3
<1>8. \A i \in Counts(e) : /\ i \in 1..Len(e) /\ done[e[i]] # "noise"
                           /\ \A j \in i..Len(e) : done[e[j]] # "exit"
                           /\ \A j \in i + 1..Len(e) : e[j] # e[i]
  BY <1>2 DEF Counts
<1>9. ASSUME NEW i \in Counts(e), i \in 1..a
      PROVE  /\ \A m \in s..n : done[m] # "exit"
             /\ e[i] < s
  <2>1. ASSUME NEW m \in s..n PROVE (m - s) + a + 1 \in i..Len(e) /\ (m - s) + a + 1 \in i + 1..Len(e)
    <3>1. (m - s) + a + 1 \in a + 1..Len(e)
      BY <1>5
    <3> QED
      BY <1>2, <1>9, <3>1
  <2>2. \A m \in s..n : done[m] # "exit" /\ m # e[i]
    BY <1>5, <1>8, <2>1
  <2>3. e[i] \in 1..n
    BY <1>3, <1>9 DEF n
  <2> QED
    BY <1>2, <2>2, <2>3
<1>10. ASSUME NEW i \in Counts(e), i \in a + 1..Len(e)
       PROVE  e[i] \in Since(born) \cup late
  <2>1. e[i] \in s..n /\ e[i] = s + (i - a) - 1 /\ done[e[i]] # "noise"
    BY <1>3, <1>6, <1>8, <1>10
  <2>2. ASSUME NEW m \in e[i]..n PROVE done[m] # "exit"
    <3>1. m \in s..n
      BY <1>2, <2>1
    <3>2. (m - s) + a + 1 \in i..Len(e)
      BY <1>2, <1>5, <1>10, <2>1, <3>1
    <3> QED
      BY <1>5, <1>8, <3>1, <3>2
  <2>3. CASE e[i] <= born
    BY <1>2, <1>3, <2>1, <2>3
  <2>4. CASE e[i] > born
    <3>1. e[i] \in born + 1..Len(done)
      BY <1>2, <2>1, <2>4 DEF n
    <3> QED
      BY <2>1, <2>2, <3>1 DEF Since, n
  <2> QED
    BY <1>2, <2>1, <2>3, <2>4
<1>11. \A i \in Counts(e) : i \in 1..a \/ i \in a + 1..Len(e)
  BY <1>2, <1>8
<1>12. \A i \in Counts(e) : e[i] \in Since(born) \cup late
  <2>1. ASSUME NEW i \in Counts(e), i \in 1..a PROVE e[i] \in Since(born) \cup late
    BY <1>3, <1>4, <1>9, <2>1 DEF n
  <2> QED
    BY <1>10, <1>11, <2>1
<1>13. ASSUME NEW i \in Counts(e), NEW j \in Counts(e), i < j PROVE e[i] < e[j]
  <2>1. CASE i \in 1..a /\ j \in 1..a
    BY <1>3, <1>13, <2>1
  <2>2. CASE i \in 1..a /\ j \in a + 1..Len(e)
    <3>1. e[i] < s /\ e[j] \in s..n /\ e[i] \in 1..n
      BY <1>3, <1>6, <1>9, <2>2 DEF n
    <3> QED
      BY <1>2, <3>1
  <2>3. CASE i \in a + 1..Len(e) /\ j \in a + 1..Len(e)
    <3>1. e[i] = s + (i - a) - 1 /\ e[j] = s + (j - a) - 1
      BY <1>3, <2>3
    <3> QED
      BY <1>2, <1>13, <2>3, <3>1
  <2>4. ~(i \in a + 1..Len(e) /\ j \in 1..a)
    BY <1>2, <1>13
  <2> QED
    BY <1>11, <2>1, <2>2, <2>3, <2>4
<1> QED
  BY <1>7, <1>12, <1>13

(* A newcomer who plays the chain, and then what waits on the server.      *)
LEMMA TellsChain ==
  ASSUME TypeOK, Cached, Queued
  PROVE  Tells(Nums(Chain(Refined(cache)).actions), Passed, done, born, missed, late)
<1> DEFINE c == Chain(Refined(cache)).actions
           x == LastExit(cache)
           s == Passed + 1
           n == Len(done)
<1>1. /\ cache \in Seq(Action) /\ Len(cache) \in Nat /\ DOMAIN cache = 1..Len(cache)
      /\ n \in Nat /\ born \in Nat /\ cleared \in Nat /\ born <= cleared /\ Passed \in Nat /\ s \in Nat
  BY DEF TypeOK, Cached, Queued, Passed
<1>2. CacheOf(cache, done, cleared) /\ SinceOf(done, born) \subseteq NumbersIn(cache) \cup missed
  BY DEF Cached
<1>3. /\ c \in Seq(Action) /\ Len(c) = Len(cache) - x
      /\ \A i \in 1..(Len(cache) - x) : c[i] = Instant(cache[i + x])
  BY <1>1, ChainIs
<1>4. /\ x \in 0..Len(cache)
      /\ x # 0 => x \in DOMAIN cache /\ cache[x].kind = "exit"
      /\ \A i \in DOMAIN cache : cache[i].kind = "exit" => i <= x
  BY <1>1, LastExitIs
<1>5. \A i \in DOMAIN cache : /\ cache[i].n \in cleared + 1..n /\ done[cache[i].n] # "noise" /\ cache[i] \in Action
                              /\ cache[i].kind = "exit" <=> done[cache[i].n] = "exit"
  <2>1. \A i \in DOMAIN cache : cache[i] \in Action
    BY <1>1
  <2>2. \A i \in DOMAIN cache : cache[i].kind = "exit" <=> done[cache[i].n] = "exit"
    BY <1>1, <1>2, KindsAgree DEF CacheOf
  <2> QED
    BY <1>2, <2>1, <2>2 DEF CacheOf, Sound
<1>6. \A i, j \in DOMAIN cache : i < j => cache[i].n < cache[j].n
  BY <1>2 DEF CacheOf, Ordered
<1> HIDE DEF c, x
<1>7. \A i \in 1..Len(c) : i + x \in DOMAIN cache /\ i + x > x
  BY <1>1, <1>3, <1>4
<1>8. /\ Len(Nums(c)) = Len(c) /\ Len(c) \in Nat
      /\ \A i \in 1..Len(c) : Nums(c)[i] = cache[i + x].n
  <2>1. \A i \in 1..Len(c) : c[i].n = cache[i + x].n
    BY <1>3, <1>5, <1>7, InstantIs
  <2> QED
    BY <1>3, <2>1, NumsAre
<1> DEFINE e == Nums(c)
<1> HIDE DEF e
<1>9. /\ Len(e) = Len(c) /\ \A i \in 1..Len(c) : e[i] = cache[i + x].n
  BY <1>8 DEF e
<1>10. \A i \in 1..Len(c) : e[i] \in 1..n /\ done[e[i]] # "exit" /\ done[e[i]] # "noise"
  <2>1. SUFFICES ASSUME NEW i \in 1..Len(c) PROVE e[i] \in 1..n /\ done[e[i]] # "exit" /\ done[e[i]] # "noise"
    OBVIOUS
  <2>2. i + x \in DOMAIN cache /\ e[i] = cache[i + x].n /\ cache[i + x].kind # "exit"
    BY <1>1, <1>4, <1>7, <1>9
  <2> QED
    BY <1>1, <1>5, <2>2
<1>11. \A i, j \in 1..Len(c) : i < j => e[i] < e[j]
  <2>1. \A i, j \in 1..Len(c) : i < j => i + x < j + x
    BY <1>1, <1>4, <1>8
  <2> QED
    BY <1>6, <1>7, <1>9, <2>1
<1>12. \A m \in s..born : m \in late
  BY DEF Queued
<1>13. ASSUME NEW m \in SinceOf(done, born) \ missed PROVE \E i \in 1..Len(c) : e[i] = m
  <2>1. m \in NumbersIn(cache)
    BY <1>2
  <2>2. PICK i \in DOMAIN cache : cache[i].n = m
    BY <1>1, <2>1, NumbersAre
  <2>3. m \in Nat /\ \A j \in m..n : done[j] # "exit"
    BY <1>1 DEF SinceOf
  <2>4. i > x
    <3>1. SUFFICES ASSUME i <= x, x \in DOMAIN cache PROVE FALSE
      BY <1>1, <1>4
    <3>2. cache[x].n \in 0..n /\ done[cache[x].n] = "exit"
      BY <1>1, <1>4, <1>5, <3>1
    <3>3. m <= cache[x].n
      <4>1. CASE i = x
        BY <2>2, <2>3, <4>1
      <4>2. CASE i < x
        BY <1>6, <2>2, <2>3, <3>1, <3>2, <4>2
      <4> QED
        BY <1>1, <1>4, <3>1, <4>1, <4>2
    <3> QED
      BY <1>1, <2>3, <3>2, <3>3
  <2>5. i - x \in 1..Len(c) /\ (i - x) + x = i
    BY <1>1, <1>3, <1>4, <2>4
  <2> QED
    BY <1>9, <2>2, <2>5
<1>14. ASSUME NEW i \in 1..Len(c) PROVE e[i] \in SinceOf(done, born)
  <2>1. i + x \in DOMAIN cache /\ e[i] = cache[i + x].n /\ e[i] \in cleared + 1..n
    BY <1>5, <1>7, <1>9
  <2>2. ASSUME NEW m \in e[i]..n, done[m] = "exit" PROVE FALSE
    <3>1. m \in NumbersIn(cache)
      BY <1>2, <2>1, <2>2 DEF CacheOf, Whole
    <3>2. PICK j \in DOMAIN cache : cache[j].n = m
      BY <1>1, <3>1, NumbersAre
    <3>3. cache[j].kind = "exit"
      BY <1>5, <2>2, <3>2
    <3>4. j < i + x
      BY <1>1, <1>4, <1>7, <3>2, <3>3
    <3>5. m < e[i]
      BY <1>6, <2>1, <3>2, <3>4
    <3> QED
      BY <1>1, <2>1, <2>2, <3>5
  <2>3. e[i] \in born + 1..n /\ done[e[i]] # "noise"
    BY <1>1, <1>10, <2>1
  <2> QED
    BY <2>2, <2>3 DEF SinceOf
<1>15. TellsFrom(Len(c), s, e, Passed, done, born, missed, late)
  <2>1. Len(e) - Len(c) = Passed + 1 - s
    BY <1>1, <1>8, <1>9
  <2>2. Len(c) + 1..Len(e) = {}
    BY <1>8, <1>9
  <2> HIDE DEF s
  <2> QED
    BY <1>10, <1>11, <1>12, <1>13, <1>14, <2>1, <2>2 DEF TellsFrom
<1> QED
  BY <1>1, <1>8, <1>9, <1>15 DEF Tells, e, c

(* One who gets an empty chain: what was cached counts as missed.          *)
LEMMA TellsNothing ==
  ASSUME TypeOK, Cached, Queued
  PROVE  Tells(Nums(<<>>), Passed, done, born, missed \cup NumbersIn(cache), late)
<1>1. Len(done) \in Nat /\ Passed \in Nat
  BY DEF TypeOK, Queued, Passed
<1>2. Nums(<<>>) = <<>> /\ Len(<<>>) = 0
  BY DEF Nums
<1>3. \A n \in Passed + 1..born : n \in late
  BY DEF Queued
<1>4. SinceOf(done, born) \ (missed \cup NumbersIn(cache)) = {}
  BY DEF Cached
<1>5. TellsFrom(0, Passed + 1, <<>>, Passed, done, born, missed \cup NumbersIn(cache), late)
  <2>1. 0 + 1..Len(<<>>) = {} /\ 1..0 = {} /\ Len(<<>>) - 0 = Passed + 1 - (Passed + 1)
    BY <1>1, <1>2
  <2> QED
    BY <1>3, <1>4, <2>1 DEF TellsFrom
<1>6. 0 \in 0..0 /\ Passed + 1 \in 1..(Passed + 1)
  BY <1>1
<1> QED
  BY <1>2, <1>5, <1>6 DEF Tells

(* What a body will have played once its queue is empty. *)
Shown(b) == (IF b.replay > 0 /\ b.reset THEN <<>> ELSE b.pose) \o Nums(b.queue)

LEMMA FreshShown ==
  ASSUME NEW c \in Chains
  PROVE  Shown(FreshBody(c)) = Nums(c.actions)
<1>1. c.actions \in Seq(Action)
  BY DEF Chains
<1>2. Nums(c.actions) \in Seq(Numbers)
  BY <1>1, NumsAre
<1>3. Shown(FreshBody(c)) = <<>> \o Nums(c.actions)
  BY DEF Shown, FreshBody
<1> QED
  BY <1>2, <1>3

LEMMA NumsOfBoth ==
  ASSUME NEW s \in Seq(Action), NEW t \in Seq(Action)
  PROVE  Nums(s \o t) = Nums(s) \o Nums(t)
<1> DEFINE u == s \o t
           p == Nums(s)
           q == Nums(t)
           r == p \o q
<1>1. /\ u \in Seq(Action) /\ Len(s) \in Nat /\ Len(t) \in Nat /\ Len(u) = Len(s) + Len(t)
      /\ \A i \in 1..Len(s) : u[i] = s[i]
      /\ \A i \in (Len(s) + 1)..(Len(s) + Len(t)) : i - Len(s) \in 1..Len(t) /\ u[i] = t[i - Len(s)]
  BY ConcatIs
<1>2. /\ p \in Seq(Numbers) /\ Len(p) = Len(s) /\ \A i \in 1..Len(s) : p[i] = s[i].n
      /\ q \in Seq(Numbers) /\ Len(q) = Len(t) /\ \A i \in 1..Len(t) : q[i] = t[i].n
  BY NumsAre
<1> HIDE DEF p, q
<1>3. /\ r \in Seq(Numbers) /\ Len(r) = Len(p) + Len(q)
      /\ \A i \in 1..Len(p) : r[i] = p[i]
      /\ \A i \in (Len(p) + 1)..(Len(p) + Len(q)) : i - Len(p) \in 1..Len(q) /\ r[i] = q[i - Len(p)]
  <2>1. p \in Seq(Numbers) /\ q \in Seq(Numbers)
    BY <1>2
  <2> QED
    BY <2>1, ConcatIs
<1> HIDE DEF u, r
<1>4. Nums(u) \in Seq(Numbers) /\ Len(Nums(u)) = Len(u) /\ \A i \in 1..Len(u) : Nums(u)[i] = u[i].n
  BY <1>1, NumsAre
<1>5. ASSUME NEW i \in 1..Len(u) PROVE Nums(u)[i] = r[i]
  <2>1. CASE i \in 1..Len(s)
    BY <1>1, <1>2, <1>3, <1>4, <2>1
  <2>2. CASE i \in (Len(s) + 1)..(Len(s) + Len(t))
    <3>1. i - Len(s) \in 1..Len(t) /\ u[i] = t[i - Len(s)]
      BY <1>1, <2>2
    <3>2. r[i] = q[i - Len(s)]
      BY <1>2, <1>3, <2>2
    <3> QED
      BY <1>2, <1>4, <3>1, <3>2
  <2> QED
    BY <1>1, <2>1, <2>2
<1>6. Nums(u) = r
  BY <1>1, <1>2, <1>3, <1>4, <1>5, SeqEqual
<1> QED
  BY <1>6 DEF u, r, p, q

LEMMA ShownIs ==
  ASSUME NEW b \in Body
  PROVE  Shown(b) \in Seq(Numbers) /\ (b.queue = <<>> => Shown(b) = b.pose)
<1>1. b.queue \in Seq(Action) /\ b.pose \in Seq(Numbers) /\ b.replay \in Nat /\ b.replay <= Len(b.queue)
  BY BodiesAre
<1>2. Nums(b.queue) \in Seq(Numbers)
  BY <1>1, NumsAre
<1> DEFINE p == IF b.replay > 0 /\ b.reset THEN <<>> ELSE b.pose
<1>3. p \in Seq(Numbers) /\ Shown(b) = p \o Nums(b.queue)
  BY <1>1 DEF Shown
<1> HIDE DEF p
<1>4. Shown(b) \in Seq(Numbers)
  BY <1>2, <1>3
<1>5. ASSUME b.queue = <<>> PROVE Shown(b) = b.pose
  <2>1. ~(b.replay > 0)
    BY <1>1, <1>5
  <2>2. p = b.pose
    BY <2>1 DEF p
  <2>3. Nums(b.queue) = <<>>
    BY <1>5 DEF Nums
  <2> QED
    BY <1>1, <1>3, <2>2, <2>3
<1> QED
  BY <1>4, <1>5

LEMMA SnapshotShown ==
  ASSUME NEW b \in Body, NEW acts \in Seq(Action)
  PROVE  Shown([b EXCEPT !.queue = @ \o acts]) = Shown(b) \o Nums(acts)
<1> DEFINE g == [b EXCEPT !.queue = @ \o acts]
           p == IF b.replay > 0 /\ b.reset THEN <<>> ELSE b.pose
<1>1. b.queue \in Seq(Action) /\ b.pose \in Seq(Numbers)
  BY BodiesAre
<1>2. g.queue = b.queue \o acts /\ g.replay = b.replay /\ g.reset = b.reset /\ g.pose = b.pose
  BY BodiesAre
<1>3. p \in Seq(Numbers) /\ Shown(b) = p \o Nums(b.queue)
  BY <1>1 DEF Shown
<1> HIDE DEF g
<1>4. Shown(g) = p \o Nums(b.queue \o acts)
  BY <1>2 DEF Shown
<1> HIDE DEF p
<1>5. Nums(b.queue \o acts) = Nums(b.queue) \o Nums(acts)
  BY <1>1, NumsOfBoth
<1>6. Nums(b.queue) \in Seq(Numbers) /\ Nums(acts) \in Seq(Numbers)
  BY <1>1, NumsAre
<1>7. p \o (Nums(b.queue) \o Nums(acts)) = (p \o Nums(b.queue)) \o Nums(acts)
  BY <1>3, <1>6
<1> QED
  BY <1>3, <1>4, <1>5, <1>7 DEF g

LEMMA PlayedShown ==
  ASSUME NEW b \in Body, b.queue # <<>>
  PROVE  Shown(Played(b)) = Shown(b)
<1> DEFINE p == IF b.replay > 0 /\ b.reset THEN <<>> ELSE b.pose
           h == Head(b.queue).n
           t == Tail(b.queue)
<1>1. b.queue \in Seq(Action) /\ b.pose \in Seq(Numbers) /\ b.replay \in Nat /\ b.reset \in BOOLEAN
  BY BodiesAre
<1>2. /\ t \in Seq(Action) /\ Head(b.queue) \in Action /\ Len(b.queue) \in Nat /\ Len(b.queue) >= 1
      /\ Len(t) = Len(b.queue) - 1
      /\ b.queue[1] = Head(b.queue) /\ \A i \in 1..(Len(b.queue) - 1) : t[i] = b.queue[i + 1]
  BY <1>1, TailIs
<1>3. h \in Numbers
  BY <1>2 DEF Action
<1>4. p \in Seq(Numbers) /\ Shown(b) = p \o Nums(b.queue)
  BY <1>1 DEF Shown
<1>5. /\ Played(b).queue = t /\ Played(b).pose = Append(p, h)
      /\ ~(Played(b).replay > 0 /\ Played(b).reset)
  <2>1. /\ Played(b).queue = t /\ Played(b).pose = Append(p, h)
        /\ Played(b).replay = (IF b.replay = 0 THEN 0 ELSE b.replay - 1)
        /\ Played(b).reset = (b.reset /\ ~(b.replay > 0 /\ b.reset))
    BY PlayedIs
  <2>2. CASE b.replay = 0
    BY <2>1, <2>2
  <2>3. CASE b.replay # 0
    <3>1. b.replay > 0
      BY <1>1, <2>3
    <3>2. Played(b).reset = FALSE
      BY <1>1, <2>1, <3>1
    <3> QED
      BY <2>1, <3>2
  <2> QED
    BY <2>2, <2>3
<1>6. Shown(Played(b)) = Append(p, h) \o Nums(t)
  BY <1>5 DEF Shown
<1> DEFINE q == Nums(b.queue)
           r == Nums(t)
<1>7. /\ q \in Seq(Numbers) /\ Len(q) = Len(b.queue) /\ \A i \in 1..Len(b.queue) : q[i] = b.queue[i].n
      /\ r \in Seq(Numbers) /\ Len(r) = Len(t) /\ \A i \in 1..Len(t) : r[i] = t[i].n
  BY <1>1, <1>2, NumsAre
<1>8. Len(q) >= 1 /\ q[1] = h /\ Len(r) = Len(q) - 1 /\ \A i \in 1..Len(r) : r[i] = q[i + 1]
  BY <1>2, <1>7
<1> HIDE DEF p, q, r, t, h
<1>9. Append(p, h) \o r = p \o q
  <2> DEFINE y == Append(p, h) \o r
             z == p \o q
  <2>1. y \in Seq(Numbers) /\ z \in Seq(Numbers) /\ Len(y) = Len(p) + 1 + Len(r) /\ Len(z) = Len(p) + Len(q)
        /\ Len(p) \in Nat /\ Len(q) \in Nat /\ Len(r) \in Nat
    <3>1. Append(p, h) \in Seq(Numbers) /\ Len(Append(p, h)) = Len(p) + 1 /\ Len(p) \in Nat
      BY <1>3, <1>4
    <3>2. q \in Seq(Numbers) /\ r \in Seq(Numbers)
      BY <1>7
    <3> QED
      BY <1>4, <3>1, <3>2, ConcatIs
  <2>2. ASSUME NEW i \in 1..Len(y) PROVE y[i] = z[i]
    <3>1. CASE i <= Len(p)
      BY <1>3, <1>4, <1>7, <2>1, <3>1
    <3>2. CASE i = Len(p) + 1
      BY <1>3, <1>4, <1>7, <1>8, <2>1, <3>2
    <3>3. CASE i > Len(p) + 1
      <4>1. i - Len(p) - 1 \in 1..Len(r) /\ i - Len(p) \in 1..Len(q) /\ (i - Len(p) - 1) + 1 = i - Len(p)
        BY <1>8, <2>1, <3>3
      <4>2. y[i] = r[i - Len(p) - 1]
        BY <1>3, <1>4, <1>7, <2>1, <3>3, <4>1
      <4>3. z[i] = q[i - Len(p)]
        BY <1>3, <1>4, <1>7, <2>1, <3>3, <4>1
      <4> QED
        BY <1>8, <4>1, <4>2, <4>3
    <3>4. i <= Len(p) \/ i = Len(p) + 1 \/ i > Len(p) + 1
      BY <2>1
    <3> HIDE DEF y, z
    <3> QED
      BY <3>1, <3>2, <3>3, <3>4
  <2>3. Len(y) = Len(z)
    BY <1>8, <2>1
  <2> HIDE DEF y, z
  <2>4. y = z
    BY <2>1, <2>2, <2>3, SeqEqual
  <2> QED
    BY <2>4 DEF y, z
<1> QED
  BY <1>4, <1>6, <1>9 DEF q, r

-----------------------------------------------------------------------------
(* PoseAgrees.                                                             *)

LEMMA SpawnIs ==
  /\ \A c : Spawn(c).type = "Spawn" /\ Spawn(c).chain = c
  /\ \A acts : Move(acts).type = "Move" /\ Move(acts).acts = acts
  /\ Gone.type = "Gone" /\ Reborn.type = "Reborn"
BY DEF Spawn, Move, Gone, Reborn

Ends(m) == m.type \in {"Gone", "Reborn"}

(* None of the messages from the i-th on takes the body away. *)
Stays(ms, i) == \A j \in i..Len(ms) : ~Ends(ms[j])

(* The body b, for j = 0, or one that is made of the j-th of the messages *)
(* ms stays when all have come.                                           *)
Lasts(ms, b, j) == (IF j = 0 THEN b # NoBody ELSE ms[j].type = "Spawn") /\ Stays(ms, j + 1)

(* What that body shows before the messages after the j-th. *)
ShownAt(ms, b, j) == IF j = 0 THEN Shown(b) ELSE Nums(ms[j].chain.actions)

(* A snapshot leads from one mark to the next. *)
Leads(mark, ms, i) ==
  IF ms[i].type = "Move" THEN IsRun(ms[i].acts, mark[i - 1], mark[i]) ELSE mark[i] = mark[i - 1]

(* When the i-th of the messages ms has come, all actions up to mark[i]    *)
(* have been passed on to a body that stays; p is the last of all.         *)
FlowBy(mark, ms, b, p, d, k, x, l) ==
  \A j \in 0..Len(ms) : Lasts(ms, b, j) =>
    /\ mark[Len(ms)] = p
    /\ \A i \in j + 1..Len(ms) : Leads(mark, ms, i)
    /\ Tells(ShownAt(ms, b, j), mark[j], d, k, x, l)

Flow(ms, b, p, d, k, x, l) ==
  \E mark \in [0..Len(ms) -> 0..Len(d)] : FlowBy(mark, ms, b, p, d, k, x, l)

Flows ==
  \A v \in Viewers \ stray : Flow(down[v], body[v], Passed, done, born, missed, late)

(* No body stays. *)
LEMMA FlowNone ==
  ASSUME NEW ms \in Seq(Message), NEW b, NEW p, NEW d \in Seq(Kinds), NEW k, NEW x, NEW l,
         \A j \in 0..Len(ms) : ~Lasts(ms, b, j)
  PROVE  Flow(ms, b, p, d, k, x, l)
<1> DEFINE mark == [i \in 0..Len(ms) |-> 0]
<1>1. mark \in [0..Len(ms) -> 0..Len(d)]
  <2>1. 0 \in 0..Len(d)
    OBVIOUS
  <2> QED
    BY <2>1
<1> HIDE DEF mark
<1>2. FlowBy(mark, ms, b, p, d, k, x, l)
  BY DEF FlowBy
<1> QED
  BY <1>1, <1>2 DEF Flow

(* The body is taken away. *)
LEMMA FlowEnds ==
  ASSUME NEW ms \in Seq(Message), NEW m \in Message, Ends(m), NEW b, NEW p, NEW d \in Seq(Kinds), NEW k, NEW x, NEW l
  PROVE  Flow(Append(ms, m), b, p, d, k, x, l)
<1> DEFINE t == Append(ms, m)
           n == Len(ms)
<1>1. n \in Nat /\ t \in Seq(Message) /\ Len(t) = n + 1 /\ t[n + 1] = m
  BY AppendIs
<1> HIDE DEF t, n
<1>2. ASSUME NEW j \in 0..Len(t) PROVE ~Lasts(t, b, j)
  <2>1. CASE j = n + 1
    BY <1>1, <2>1 DEF Lasts, Ends
  <2>2. CASE j # n + 1
    <3>1. n + 1 \in j + 1..Len(t)
      BY <1>1, <2>2
    <3> QED
      BY <1>1, <3>1 DEF Lasts, Stays
  <2> QED
    BY <2>1, <2>2
<1>3. Flow(t, b, p, d, k, x, l)
  BY <1>1, <1>2, FlowNone
<1> QED
  BY <1>3 DEF t

LEMMA FlowLater ==
  ASSUME NEW ms \in Seq(Message), NEW b \in Body \cup {NoBody}, NEW p, NEW d \in Seq(Kinds), NEW f \in Seq(Kinds),
         Longer(d, f), NEW k \in Nat, NEW x, NEW y, x \subseteq y, NEW l,
         Flow(ms, b, p, d, k, x, l)
  PROVE  Flow(ms, b, p, f, k, y, l)
<1>1. PICK mark \in [0..Len(ms) -> 0..Len(d)] : FlowBy(mark, ms, b, p, d, k, x, l)
  BY DEF Flow
<1>2. Len(d) \in Nat /\ Len(f) \in Nat /\ Len(d) <= Len(f) /\ Len(ms) \in Nat
  BY DEF Longer
<1>3. mark \in [0..Len(ms) -> 0..Len(f)]
  BY <1>2
<1>4. \A i \in 0..Len(ms) : mark[i] \in Nat /\ mark[i] <= Len(d)
  BY <1>2
<1>5. ASSUME NEW j \in 0..Len(ms), Lasts(ms, b, j)
      PROVE  Tells(ShownAt(ms, b, j), mark[j], f, k, y, l)
  <2>1. Len(ShownAt(ms, b, j)) \in Nat
    <3>1. CASE j = 0
      <4>1. Shown(b) \in Seq(Numbers)
        BY <1>5, <3>1, ShownIs DEF Lasts
      <4> QED
        BY <3>1, <4>1 DEF ShownAt
    <3>2. CASE j # 0
      <4>1. ms[j] \in Message /\ ms[j].type = "Spawn"
        BY <1>2, <1>5, <3>2 DEF Lasts
      <4>2. Len(Nums(ms[j].chain.actions)) \in Nat
        BY <4>1, MessagesAre, NumsAre
      <4> QED
        BY <3>2, <4>2 DEF ShownAt
    <3> QED
      BY <3>1, <3>2
  <2>2. mark[j] \in Nat /\ mark[j] <= Len(d)
    BY <1>4
  <2>3. Tells(ShownAt(ms, b, j), mark[j], d, k, x, l)
    BY <1>1, <1>5 DEF FlowBy
  <2> QED
    BY <2>1, <2>2, <2>3, TellsLater
<1>6. FlowBy(mark, ms, b, p, f, k, y, l)
  BY <1>1, <1>5 DEF FlowBy
<1> QED
  BY <1>3, <1>6 DEF Flow

(* Marks for one message more. *)
LEMMA FlowAppend ==
  ASSUME NEW ms \in Seq(Message), NEW m \in Message, NEW b, NEW p, NEW d \in Seq(Kinds), NEW k, NEW x, NEW l,
         Flow(ms, b, p, d, k, x, l),
         NEW q \in 0..Len(d),
         \/ m.type = "Move" /\ IsRun(m.acts, p, q)
         \/ m.type # "Move" /\ q = p,
         m.type = "Spawn" => Tells(Nums(m.chain.actions), q, d, k, x, l)
  PROVE  Flow(Append(ms, m), b, q, d, k, x, l)
<1> DEFINE t == Append(ms, m)
           n == Len(ms)
<1>1. PICK mark \in [0..n -> 0..Len(d)] : FlowBy(mark, ms, b, p, d, k, x, l)
  BY DEF Flow
<1>2. /\ n \in Nat /\ Len(t) = n + 1 /\ t[n + 1] = m /\ \A i \in 1..n : t[i] = ms[i]
  BY AppendIs
<1> DEFINE new == [i \in 0..(n + 1) |-> IF i = n + 1 THEN q ELSE mark[i]]
<1>3. \A i \in 0..n : new[i] = mark[i] /\ mark[i] \in 0..Len(d)
  BY <1>2
<1>4. new[n + 1] = q
  BY <1>2
<1>5. new \in [0..(n + 1) -> 0..Len(d)]
  <2>1. ASSUME NEW i \in 0..(n + 1) PROVE (IF i = n + 1 THEN q ELSE mark[i]) \in 0..Len(d)
    <3>1. i = n + 1 \/ i \in 0..n
      BY <1>2
    <3> QED
      BY <1>3, <3>1
  <2> QED
    BY <2>1
<1> HIDE DEF t, n, new
<1>6. ASSUME NEW j \in 0..n, Lasts(t, b, j)
      PROVE  /\ \A i \in j + 1..(n + 1) : Leads(new, t, i)
             /\ Tells(ShownAt(t, b, j), new[j], d, k, x, l)
  <2>1. \A i \in j + 1..n : i \in 1..n /\ i - 1 \in 0..n /\ i \in 0..n /\ i \in j + 1..Len(t)
    BY <1>2
  <2>2. j # 0 => j \in 1..n
    BY <1>2
  <2>3. Lasts(ms, b, j)
    BY <1>2, <1>6, <2>1, <2>2 DEF Lasts, Stays, n
  <2>4. /\ mark[n] = p
        /\ \A i \in j + 1..n : Leads(mark, ms, i)
        /\ Tells(ShownAt(ms, b, j), mark[j], d, k, x, l)
    BY <1>1, <2>3 DEF FlowBy, n
  <2>5. ASSUME NEW i \in j + 1..(n + 1) PROVE Leads(new, t, i)
    <3>1. CASE i = n + 1
      <4>1. i - 1 = n /\ n \in 0..n
        BY <1>2, <3>1
      <4>2. t[i] = m /\ new[i] = q /\ new[i - 1] = p
        BY <1>2, <1>3, <1>4, <2>4, <3>1, <4>1
      <4> QED
        BY <4>2 DEF Leads
    <3>2. CASE i # n + 1
      <4>1. i \in j + 1..n
        BY <1>2, <3>2
      <4>2. t[i] = ms[i] /\ new[i] = mark[i] /\ new[i - 1] = mark[i - 1] /\ Leads(mark, ms, i)
        BY <1>2, <1>3, <2>1, <2>4, <4>1
      <4> QED
        BY <4>2 DEF Leads
    <3> QED
      BY <3>1, <3>2
  <2>6. ShownAt(t, b, j) = ShownAt(ms, b, j) /\ new[j] = mark[j]
    BY <1>2, <1>3, <2>2 DEF ShownAt
  <2> QED
    BY <2>4, <2>5, <2>6
<1>7. ASSUME Lasts(t, b, n + 1) PROVE Tells(ShownAt(t, b, n + 1), new[n + 1], d, k, x, l)
  <2>1. n + 1 # 0
    BY <1>2
  <2>2. m.type = "Spawn" /\ ShownAt(t, b, n + 1) = Nums(m.chain.actions)
    BY <1>2, <1>7, <2>1 DEF Lasts, ShownAt
  <2> QED
    BY <1>4, <2>2
<1>8. ASSUME NEW j \in 0..(n + 1), Lasts(t, b, j)
      PROVE  /\ \A i \in j + 1..(n + 1) : Leads(new, t, i)
             /\ Tells(ShownAt(t, b, j), new[j], d, k, x, l)
  <2>1. CASE j = n + 1
    <3>1. j + 1..(n + 1) = {}
      BY <1>2, <2>1
    <3> QED
      BY <1>7, <1>8, <2>1, <3>1
  <2>2. CASE j # n + 1
    <3>1. j \in 0..n
      BY <1>2, <2>2
    <3> QED
      BY <1>6, <1>8, <3>1
  <2> QED
    BY <2>1, <2>2
<1>9. FlowBy(new, t, b, q, d, k, x, l)
  BY <1>2, <1>4, <1>8 DEF FlowBy
<1> QED
  BY <1>2, <1>5, <1>9 DEF Flow, t

(* The viewer receives the first message. *)
LEMMA FlowReceive ==
  ASSUME NEW ms \in Seq(Message), ms # <<>>, NEW b \in Body \cup {NoBody}, NEW c, NEW p, NEW d \in Seq(Kinds),
         NEW k, NEW x, NEW l, Flow(ms, b, p, d, k, x, l),
         \/ Head(ms).type = "Spawn" /\ (c = FreshBody(Head(ms).chain) \/ c = b)
         \/ Head(ms).type = "Move" /\ c = IF b = NoBody THEN b ELSE [b EXCEPT !.queue = @ \o Head(ms).acts]
         \/ Ends(Head(ms)) /\ c = NoBody
  PROVE  Flow(Tail(ms), c, p, d, k, x, l)
<1> DEFINE t == Tail(ms)
           m == Head(ms)
           n == Len(ms)
<1>1. PICK mark \in [0..n -> 0..Len(d)] : FlowBy(mark, ms, b, p, d, k, x, l)
  BY DEF Flow
<1>2. /\ n \in Nat /\ n >= 1 /\ m \in Message /\ Len(t) = n - 1 /\ ms[1] = m
      /\ \A i \in 1..(n - 1) : t[i] = ms[i + 1]
  BY TailIs
<1> DEFINE new == [i \in 0..(n - 1) |-> mark[i + 1]]
<1>3. \A i \in 0..(n - 1) : i + 1 \in 0..n /\ i + 1 \in 1..n /\ new[i] = mark[i + 1]
  BY <1>2
<1>4. new \in [0..(n - 1) -> 0..Len(d)]
  BY <1>3
<1>5. \A i \in 0..n : mark[i] \in Nat
  BY <1>1
<1> HIDE DEF t, m, n, new
<1>6. /\ n - 1 \in 0..(n - 1) /\ (n - 1) + 1 = n /\ new[n - 1] = mark[n]
      /\ new[0] = mark[1] /\ 0 \in 0..n /\ 1 \in 0..n /\ 1 \in 1..n
  <2>1. n - 1 \in 0..(n - 1) /\ 0 \in 0..(n - 1) /\ (n - 1) + 1 = n /\ 0 + 1 = 1
    BY <1>2
  <2>2. new[n - 1] = mark[(n - 1) + 1] /\ new[0] = mark[0 + 1]
    BY <1>3, <2>1
  <2> QED
    BY <1>2, <2>1, <2>2
<1>7. ASSUME NEW i \in 1..n
      PROVE  Stays(t, i) => Stays(ms, i + 1)
  <2>1. \A j \in i + 1..n : j - 1 \in i..Len(t) /\ j - 1 \in 1..(n - 1) /\ (j - 1) + 1 = j
    BY <1>2
  <2>2. \A j \in i + 1..n : ms[j] = t[j - 1]
    BY <1>2, <2>1
  <2> QED
    BY <2>1, <2>2 DEF Stays, n
<1>8. ASSUME NEW i \in 1..(n - 1), Leads(mark, ms, i + 1) PROVE Leads(new, t, i)
  <2>1. i \in 0..(n - 1) /\ i - 1 \in 0..(n - 1) /\ (i - 1) + 1 = i /\ (i + 1) - 1 = i
    BY <1>2
  <2>2. t[i] = ms[i + 1] /\ new[i] = mark[i + 1] /\ new[i - 1] = mark[i]
    BY <1>2, <1>3, <2>1
  <2>3. mark[(i + 1) - 1] = mark[i]
    BY <2>1
  <2> QED
    BY <1>8, <2>2, <2>3 DEF Leads
<1>9. ASSUME NEW j \in 1..(n - 1), Lasts(t, c, j)
      PROVE  /\ new[n - 1] = p
             /\ \A i \in j + 1..(n - 1) : Leads(new, t, i)
             /\ Tells(ShownAt(t, c, j), new[j], d, k, x, l)
  <2>1. j # 0 /\ j + 1 # 0 /\ j + 1 \in 0..n /\ j + 1 \in 1..n /\ j \in 0..(n - 1) /\ t[j] = ms[j + 1]
    BY <1>2
  <2>2. Stays(ms, (j + 1) + 1)
    BY <1>7, <1>9, <2>1 DEF Lasts
  <2>3. Lasts(ms, b, j + 1) /\ ShownAt(ms, b, j + 1) = ShownAt(t, c, j)
    BY <1>9, <2>1, <2>2 DEF Lasts, ShownAt
  <2>4. /\ mark[n] = p
        /\ \A i \in (j + 1) + 1..n : Leads(mark, ms, i)
        /\ Tells(ShownAt(ms, b, j + 1), mark[j + 1], d, k, x, l)
    BY <1>1, <2>1, <2>3 DEF FlowBy, n
  <2>5. ASSUME NEW i \in j + 1..(n - 1) PROVE Leads(new, t, i)
    <3>1. i \in 1..(n - 1) /\ i + 1 \in (j + 1) + 1..n
      BY <1>2
    <3> QED
      BY <1>8, <2>4, <3>1
  <2> QED
    BY <1>3, <1>6, <2>1, <2>3, <2>4, <2>5
<1>10. ASSUME Lasts(t, c, 0)
       PROVE  /\ new[n - 1] = p
              /\ \A i \in 1..(n - 1) : Leads(new, t, i)
              /\ Tells(Shown(c), new[0], d, k, x, l)
  <2>1. c # NoBody /\ Stays(ms, 2) /\ ~Ends(m)
    <3>1. Stays(t, 1) /\ c # NoBody
      BY <1>10 DEF Lasts
    <3>2. Stays(ms, 1 + 1)
      BY <1>6, <1>7, <3>1
    <3>3. ~Ends(m)
      BY <3>1 DEF Ends, m
    <3> QED
      BY <3>1, <3>2, <3>3
  <2>2. ASSUME mark[n] = p, \A i \in 2..n : Leads(mark, ms, i)
        PROVE  new[n - 1] = p /\ \A i \in 1..(n - 1) : Leads(new, t, i)
    <3>1. \A i \in 1..(n - 1) : i + 1 \in 2..n
      BY <1>2
    <3> QED
      BY <1>6, <1>8, <2>2, <3>1
  <2>3. CASE m.type = "Spawn" /\ c = FreshBody(m.chain)
    <3>1. Shown(c) = Nums(m.chain.actions)
      BY <1>2, <2>3, MessagesAre, FreshShown
    <3>2. Lasts(ms, b, 1) /\ ShownAt(ms, b, 1) = Nums(m.chain.actions)
      BY <1>2, <2>1, <2>3 DEF Lasts, ShownAt
    <3>3. mark[n] = p /\ (\A i \in 2..n : Leads(mark, ms, i)) /\ Tells(ShownAt(ms, b, 1), mark[1], d, k, x, l)
      BY <1>1, <1>6, <3>2 DEF FlowBy, n
    <3> QED
      BY <1>6, <2>2, <3>1, <3>2, <3>3
  <2>4. CASE b # NoBody
    <3>1. Stays(ms, 1)
      <4>1. \A j \in 1..n : j = 1 \/ j \in 2..n
        BY <1>2
      <4> QED
        BY <1>2, <2>1, <4>1 DEF Stays, n
    <3>2. Lasts(ms, b, 0) /\ ShownAt(ms, b, 0) = Shown(b)
      BY <2>4, <3>1 DEF Lasts, ShownAt
    <3>3. mark[n] = p /\ (\A i \in 1..n : Leads(mark, ms, i)) /\ Tells(Shown(b), mark[0], d, k, x, l)
      <4>1. mark[n] = p /\ (\A i \in 0 + 1..n : Leads(mark, ms, i)) /\ Tells(ShownAt(ms, b, 0), mark[0], d, k, x, l)
        BY <1>1, <1>6, <3>2 DEF FlowBy, n
      <4> QED
        BY <3>2, <4>1
    <3>4. new[n - 1] = p /\ \A i \in 1..(n - 1) : Leads(new, t, i)
      <4>1. \A i \in 2..n : i \in 1..n
        OBVIOUS
      <4> QED
        BY <2>2, <3>3, <4>1
    <3>5. IF m.type = "Move" THEN IsRun(m.acts, mark[0], mark[1]) ELSE mark[1] = mark[0]
      <4>1. Leads(mark, ms, 1) /\ 1 - 1 = 0
        BY <1>6, <3>3
      <4> QED
        BY <1>2, <4>1 DEF Leads
    <3>6. CASE m.type = "Spawn" /\ c = b
      BY <1>6, <3>3, <3>4, <3>5, <3>6
    <3>7. CASE m.type = "Move" /\ c = [b EXCEPT !.queue = @ \o m.acts]
      <4>1. m.acts \in Seq(Action) /\ b \in Body
        BY <1>2, <2>4, <3>7, MessagesAre
      <4>2. Shown(c) = Shown(b) \o Nums(m.acts) /\ Shown(b) \in Seq(Numbers)
        BY <3>7, <4>1, SnapshotShown, ShownIs
      <4>3. mark[0] \in Nat /\ mark[1] \in Nat /\ IsRun(m.acts, mark[0], mark[1])
        BY <1>5, <1>6, <3>5, <3>7
      <4>4. Tells(Shown(b) \o Nums(m.acts), mark[1], d, k, x, l)
        BY <3>3, <4>1, <4>2, <4>3, TellsMore
      <4> QED
        BY <1>6, <3>4, <4>2, <4>4
    <3> QED
      BY <2>1, <2>3, <2>4, <3>6, <3>7 DEF m
  <2> QED
    BY <2>1, <2>3, <2>4 DEF m
<1>11. ASSUME NEW j \in 0..(n - 1), Lasts(t, c, j)
       PROVE  /\ new[n - 1] = p
              /\ \A i \in j + 1..(n - 1) : Leads(new, t, i)
              /\ Tells(ShownAt(t, c, j), new[j], d, k, x, l)
  <2>1. CASE j = 0
    <3>1. ShownAt(t, c, j) = Shown(c) /\ j + 1 = 1
      BY <2>1 DEF ShownAt
    <3> QED
      BY <1>10, <1>11, <2>1, <3>1
  <2>2. CASE j # 0
    <3>1. j \in 1..(n - 1)
      BY <1>2, <2>2
    <3> QED
      BY <1>9, <1>11, <3>1
  <2> QED
    BY <2>1, <2>2
<1>12. FlowBy(new, t, c, p, d, k, x, l)
  BY <1>2, <1>11 DEF FlowBy
<1> QED
  BY <1>2, <1>4, <1>12 DEF Flow, t

LEMMA InitFlows == Init => Flows
<1> SUFFICES ASSUME Init, NEW v \in Viewers
             PROVE  Flow(down[v], body[v], Passed, done, born, missed, late)
  BY DEF Flows
<1>1. down[v] = <<>> /\ body[v] = NoBody /\ done = <<>>
  BY DEF Init
<1>2. <<>> \in Seq(Message) /\ <<>> \in Seq(Kinds) /\ Len(<<>>) = 0
  OBVIOUS
<1>3. \A j \in 0..Len(<<>>) : ~Lasts(<<>>, NoBody, j)
  BY <1>2 DEF Lasts
<1> QED
  BY <1>1, <1>2, <1>3, FlowNone

LEMMA LongerIs ==
  \A d \in Seq(Kinds) : Longer(d, d) /\ \A kinds \in Seq(Kinds) : Longer(d, d \o kinds)
<1> SUFFICES ASSUME NEW d \in Seq(Kinds)
             PROVE  Longer(d, d) /\ \A kinds \in Seq(Kinds) : Longer(d, d \o kinds)
  OBVIOUS
<1>1. Len(d) \in Nat
  OBVIOUS
<1> QED
  BY <1>1, MoreIsDone DEF Longer

LEMMA PassedIs ==
  ASSUME TypeOK, Queued
  PROVE  Passed \in 0..Len(done)
BY DEF TypeOK, Queued, Passed

(* Who has no body that stays. *)
LEMMA Bodiless ==
  ASSUME TypeOK, NEW v \in Viewers, ~Embodied(v), NEW p, NEW k, NEW l
  PROVE  Flow(down[v], body[v], p, done, k, missed, l)
<1>1. down[v] \in Seq(Message) /\ done \in Seq(Kinds)
  BY DEF TypeOK
<1>2. \A j \in 0..Len(down[v]) : ~Lasts(down[v], body[v], j)
  BY DEF Embodied, Lasts, Stays, Ends
<1> QED
  BY <1>1, <1>2, FlowNone

LEMMA RequestFlows ==
  ASSUME TypeOK, Queued, Flows, NEW kinds \in Seq(Kinds), NEW in \in SUBSET Viewers, OnReferencesMoveRequest(kinds, in)
  PROVE  Flows'
<1>1. /\ UNCHANGED <<stray, down, body, born, late>> /\ missed \subseteq missed' /\ done' = done \o kinds
      /\ Passed' = Passed
  BY RequestQueued DEF OnReferencesMoveRequest, clientVars
<1>2. done \in Seq(Kinds) /\ born \in Nat /\ done' \in Seq(Kinds) /\ Longer(done, done')
  BY <1>1, LongerIs, MoreIsDone DEF TypeOK
<1>3. ASSUME NEW v \in Viewers \ stray
      PROVE  Flow(down[v], body[v], Passed, done', born, missed', late)
  <2>1. down[v] \in Seq(Message) /\ body[v] \in Body \cup {NoBody}
    BY DEF TypeOK
  <2>2. Flow(down[v], body[v], Passed, done, born, missed, late)
    BY DEF Flows
  <2> QED
    BY <1>1, <1>2, <2>1, <2>2, FlowLater
<1> QED
  BY <1>1, <1>3 DEF Flows

LEMMA ProcessFlows ==
  ASSUME TypeOK, Queued, Flows, ProcessMovementChanges
  PROVE  Flows'
<1> DEFINE m == Move(pending)
<1>1. /\ UNCHANGED <<near, body, done, born, missed, late>> /\ down' = Tell(near, m) /\ Passed' = Len(done)
      /\ stray' = IF pending = <<>> THEN stray ELSE stray \cup {v \in Viewers \ near : Embodied(v)}
  BY ProcessQueued DEF ProcessMovementChanges
<1>2. m \in Message /\ m.type = "Move" /\ m.acts = pending
  BY MessagesAre, SpawnIs DEF TypeOK
<1>3. done \in Seq(Kinds) /\ Len(done) \in 0..Len(done) /\ Len(pending) \in Nat /\ DOMAIN pending = 1..Len(pending)
  BY DEF TypeOK
<1>4. IsRun(pending, Passed, Len(done))
  BY <1>3 DEF IsRun, Queued, Passed
<1> HIDE DEF m
<1>5. m.type # "Spawn"
  BY <1>2
<1>6. ASSUME NEW v \in Viewers \ stray'
      PROVE  Flow(down'[v], body[v], Len(done), done, born, missed, late)
  <2>1. /\ down'[v] = (IF v \in near THEN Append(down[v], m) ELSE down[v]) /\ down[v] \in Seq(Message)
        /\ v \notin stray
    BY <1>1, <1>2, TellIs DEF TypeOK
  <2>2. Flow(down[v], body[v], Passed, done, born, missed, late)
    BY <2>1 DEF Flows
  <2>3. CASE v \in near
    <3>1. Flow(Append(down[v], m), body[v], Len(done), done, born, missed, late)
      BY <1>2, <1>3, <1>4, <1>5, <2>1, <2>2, FlowAppend
    <3> QED
      BY <2>1, <2>3, <3>1
  <2>4. CASE v \notin near /\ pending = <<>>
    <3>1. Passed = Len(done)
      <4>1. Len(<<>>) = 0
        OBVIOUS
      <4> QED
        BY <1>3, <2>4, <4>1 DEF Passed
    <3> QED
      BY <2>1, <2>2, <2>4, <3>1
  <2>5. CASE v \notin near /\ pending # <<>>
    <3>1. ~Embodied(v)
      BY <1>1, <2>5
    <3>2. Flow(down[v], body[v], Len(done), done, born, missed, late)
      BY <3>1, Bodiless
    <3> QED
      BY <2>1, <2>5, <3>2
  <2> QED
    BY <2>3, <2>4, <2>5
<1> QED
  BY <1>1, <1>6 DEF Flows

(* The chain of the cache is sent to a viewer. *)
LEMMA SpawnFlow ==
  ASSUME TypeOK, Cached, Queued, Flows, NEW v \in Viewers \ stray
  PROVE  Flow(Append(down[v], Spawn(Chain(Refined(cache)))), body[v], Passed, done, born, missed, late)
<1> DEFINE m == Spawn(Chain(Refined(cache)))
<1>1. m \in Message /\ m.type = "Spawn" /\ m.chain = Chain(Refined(cache))
  BY RefinedTypes, MessagesAre, SpawnIs
<1>2. Tells(Nums(m.chain.actions), Passed, done, born, missed, late)
  BY <1>1, TellsChain
<1>3. down[v] \in Seq(Message) /\ done \in Seq(Kinds) /\ Passed \in 0..Len(done)
  BY PassedIs DEF TypeOK
<1> HIDE DEF m
<1>4. Flow(down[v], body[v], Passed, done, born, missed, late)
  BY DEF Flows
<1>5. m.type # "Move"
  BY <1>1
<1> QED
  BY <1>1, <1>2, <1>3, <1>4, <1>5, FlowAppend DEF m

LEMMA ShiftFlows ==
  ASSUME TypeOK, Cached, Queued, Flows, NEW w \in Viewers, HandleGridCellShift(w)
  PROVE  Flows'
<1> DEFINE m == Spawn(Chain(Refined(cache)))
<1>1. /\ UNCHANGED <<stray, body, pending, done, born, missed, late>>
      /\ down' = Tell({w}, m) \/ down' = down
  BY DEF HandleGridCellShift, SendSpawn, history
<1>2. m \in Message
  BY RefinedTypes, MessagesAre
<1>3. Passed' = Passed
  BY <1>1 DEF Passed
<1> HIDE DEF m
<1>4. ASSUME NEW v \in Viewers \ stray
      PROVE  Flow(down'[v], body[v], Passed, done, born, missed, late)
  <2>1. down'[v] = Append(down[v], m) \/ down'[v] = down[v]
    <3>1. CASE down' = Tell({w}, m)
      <4>1. down'[v] = IF v \in {w} THEN Append(down[v], m) ELSE down[v]
        BY <1>2, <3>1, TellIs DEF TypeOK
      <4> QED
        BY <4>1
    <3> QED
      BY <1>1, <3>1
  <2>2. Flow(Append(down[v], m), body[v], Passed, done, born, missed, late)
    BY SpawnFlow DEF m
  <2>3. Flow(down[v], body[v], Passed, done, born, missed, late)
    BY DEF Flows
  <2> QED
    BY <2>1, <2>2, <2>3
<1> QED
  BY <1>1, <1>3, <1>4 DEF Flows

LEMMA CellFlows ==
  ASSUME TypeOK, Cached, Queued, Flows, NEW in \in SUBSET Viewers, OnCharacterExteriorCellChange(in)
  PROVE  Flows'
<1>1. /\ UNCHANGED <<body, pending, done, born, missed, late>> /\ stray' = stray \cap in
      /\ \A v \in in : down'[v] = Append(down[v], Spawn(Chain(Refined(cache))))
      /\ \A v \in Viewers \ in : down'[v] = Append(down[v], Gone)
  BY DEF OnCharacterExteriorCellChange
<1>2. Passed' = Passed
  BY <1>1 DEF Passed
<1>3. ASSUME NEW v \in Viewers \ stray'
      PROVE  Flow(down'[v], body[v], Passed, done, born, missed, late)
  <2>1. CASE v \in in
    <3>1. v \in Viewers \ stray /\ down'[v] = Append(down[v], Spawn(Chain(Refined(cache))))
      BY <1>1, <2>1
    <3> QED
      BY <3>1, SpawnFlow
  <2>2. CASE v \notin in
    <3>1. down'[v] = Append(down[v], Gone) /\ down[v] \in Seq(Message) /\ done \in Seq(Kinds)
      BY <1>1, <2>2 DEF TypeOK
    <3>2. Gone \in Message /\ Ends(Gone)
      BY MessagesAre, SpawnIs DEF Ends
    <3> QED
      BY <3>1, <3>2, FlowEnds
  <2> QED
    BY <2>1, <2>2
<1> QED
  BY <1>1, <1>2, <1>3 DEF Flows

LEMMA RespawnFlows ==
  ASSUME TypeOK, Queued, Flows, RespawnOwner
  PROVE  Flows'
<1>1. /\ UNCHANGED <<body, done, missed>> /\ down' = Tell(near, Reborn) /\ Passed' = Passed
      /\ stray' = (stray \ near) \cup {v \in Viewers \ near : Embodied(v)}
  BY RespawnQueued DEF RespawnOwner
<1>2. Reborn \in Message /\ Ends(Reborn)
  BY MessagesAre, SpawnIs DEF Ends
<1>3. ASSUME NEW v \in Viewers \ stray'
      PROVE  Flow(down'[v], body[v], Passed, done, born', missed, late')
  <2>1. /\ down'[v] = (IF v \in near THEN Append(down[v], Reborn) ELSE down[v])
        /\ down[v] \in Seq(Message) /\ done \in Seq(Kinds)
    BY <1>1, <1>2, TellIs DEF TypeOK
  <2>2. CASE v \in near
    <3>1. Flow(Append(down[v], Reborn), body[v], Passed, done, born', missed, late')
      BY <1>2, <2>1, FlowEnds
    <3> QED
      BY <2>1, <2>2, <3>1
  <2>3. CASE v \notin near
    <3>1. ~Embodied(v)
      BY <1>1, <2>3
    <3>2. Flow(down[v], body[v], Passed, done, born', missed, late')
      BY <3>1, Bodiless
    <3> QED
      BY <2>1, <2>3, <3>2
  <2> QED
    BY <2>2, <2>3
<1> QED
  BY <1>1, <1>3 DEF Flows

LEMMA PlayerRespawnFlows ==
  ASSUME TypeOK, Queued, Flows, OnPlayerRespawnRequest
  PROVE  Flows'
<1>1. /\ UNCHANGED <<body, pending, done, born, missed, late>> /\ down' = Tell(near, Reborn)
      /\ stray' = stray \ near
  BY DEF OnPlayerRespawnRequest, serverVars
<1>2. Reborn \in Message /\ Ends(Reborn)
  BY MessagesAre, SpawnIs DEF Ends
<1>3. Passed' = Passed
  BY <1>1 DEF Passed
<1>4. ASSUME NEW v \in Viewers \ stray'
      PROVE  Flow(down'[v], body[v], Passed, done, born, missed, late)
  <2>1. /\ down'[v] = (IF v \in near THEN Append(down[v], Reborn) ELSE down[v])
        /\ down[v] \in Seq(Message) /\ done \in Seq(Kinds)
    BY <1>1, <1>2, TellIs DEF TypeOK
  <2>2. CASE v \in near
    <3>1. Flow(Append(down[v], Reborn), body[v], Passed, done, born, missed, late)
      BY <1>2, <2>1, FlowEnds
    <3> QED
      BY <2>1, <2>2, <3>1
  <2>3. CASE v \notin near
    BY <1>1, <2>1, <2>3 DEF Flows
  <2> QED
    BY <2>2, <2>3
<1> QED
  BY <1>1, <1>3, <1>4 DEF Flows

LEMMA RequestRespawnFlows ==
  ASSUME TypeOK, Cached, Queued, Flows, NEW w \in Viewers, RespawnViewer(w)
  PROVE  Flows'
<1> DEFINE m == Spawn(Chain(<<>>))
<1>1. /\ UNCHANGED <<body, pending, done, born, late, stray>> /\ missed' = missed \cup NumbersIn(cache)
      /\ down' = Tell({w}, m)
  BY DEF RespawnViewer, bounds
<1>2. m \in Message /\ m.type = "Spawn" /\ m.chain.actions = <<>>
  BY EmptyChain, MessagesAre, SpawnIs
<1>3. Passed' = Passed /\ Passed \in 0..Len(done) /\ done \in Seq(Kinds) /\ born \in Nat /\ Longer(done, done)
  BY <1>1, PassedIs, LongerIs DEF Passed, TypeOK
<1>4. Tells(Nums(m.chain.actions), Passed, done, born, missed', late)
  BY <1>1, <1>2, TellsNothing
<1> HIDE DEF m
<1>5. ASSUME NEW v \in Viewers \ stray
      PROVE  Flow(down'[v], body[v], Passed, done, born, missed', late)
  <2>1. /\ down[v] \in Seq(Message) /\ body[v] \in Body \cup {NoBody}
        /\ down'[v] = IF v = w THEN Append(down[v], m) ELSE down[v]
    BY <1>1, <1>2, TellIs DEF TypeOK
  <2>2. Flow(down[v], body[v], Passed, done, born, missed, late)
    BY DEF Flows
  <2>3. Flow(down[v], body[v], Passed, done, born, missed', late)
    BY <1>1, <1>3, <2>1, <2>2, FlowLater
  <2>4. m.type # "Move"
    BY <1>2
  <2>5. Flow(Append(down[v], m), body[v], Passed, done, born, missed', late)
    BY <1>2, <1>3, <1>4, <2>1, <2>3, <2>4, FlowAppend
  <2> QED
    BY <2>1, <2>3, <2>5
<1> QED
  BY <1>1, <1>3, <1>5 DEF Flows

LEMMA ReceiveFlows ==
  ASSUME TypeOK, Flows, NEW w \in Viewers, Receive(w)
  PROVE  Flows'
<1> DEFINE m == Head(down[w])
<1>1. /\ UNCHANGED <<stray, pending, done, born, missed, late>> /\ down[w] # <<>>
      /\ down' = [down EXCEPT ![w] = Tail(down[w])]
  BY DEF Receive, serverVars, history
<1>2. Passed' = Passed
  BY <1>1 DEF Passed
<1>3. down[w] \in Seq(Message) /\ body[w] \in Body \cup {NoBody} /\ done \in Seq(Kinds)
  BY DEF TypeOK
<1>4. \/ m.type = "Spawn" /\ (body'[w] = FreshBody(m.chain) \/ body'[w] = body[w])
      \/ m.type = "Move" /\ body'[w] = IF body[w] = NoBody THEN body[w] ELSE [body[w] EXCEPT !.queue = @ \o m.acts]
      \/ Ends(m) /\ body'[w] = NoBody
  <2>1. CASE m.type = "Spawn" /\ OnCharacterSpawn(w, m.chain)
    BY <2>1 DEF OnCharacterSpawn, TypeOK
  <2>2. CASE m.type = "Move" /\ OnSnapshot(w, m.acts)
    <3>1. body'[w] = IF body[w] = NoBody THEN body[w] ELSE [body[w] EXCEPT !.queue = @ \o m.acts]
      BY <2>2 DEF OnSnapshot, TypeOK
    <3> QED
      BY <2>2, <3>1
  <2>3. CASE m.type \in {"Gone", "Reborn"} /\ body' = [body EXCEPT ![w] = NoBody]
    BY <2>3 DEF Ends, TypeOK
  <2> QED
    BY <2>1, <2>2, <2>3 DEF Receive
<1>5. \A v \in Viewers : v # w => body'[v] = body[v] /\ down'[v] = down[v]
  BY DEF Receive, OnCharacterSpawn, OnSnapshot, TypeOK
<1>6. down'[w] = Tail(down[w])
  BY <1>1 DEF TypeOK
<1>7. ASSUME NEW v \in Viewers \ stray
      PROVE  Flow(down'[v], body'[v], Passed, done, born, missed, late)
  <2>1. Flow(down[v], body[v], Passed, done, born, missed, late)
    BY DEF Flows
  <2>2. CASE v # w
    BY <1>5, <2>1, <2>2
  <2>3. CASE v = w
    <3>1. Flow(Tail(down[w]), body'[w], Passed, done, born, missed, late)
      BY <1>1, <1>3, <1>4, <2>1, <2>3, FlowReceive
    <3> QED
      BY <1>6, <2>3, <3>1
  <2> QED
    BY <2>2, <2>3
<1> QED
  BY <1>1, <1>2, <1>7 DEF Flows

LEMMA UpdateFlows ==
  ASSUME TypeOK, Flows, NEW w \in Viewers, Update(w)
  PROVE  Flows'
<1>1. /\ UNCHANGED <<stray, pending, down, done, born, missed, late>>
      /\ body[w] \in Body /\ body[w].queue # <<>> /\ body' = [body EXCEPT ![w] = Played(body[w])]
  BY DEF Update, Played, serverVars, history, TypeOK
<1>2. Passed' = Passed
  BY <1>1 DEF Passed
<1>3. Shown(Played(body[w])) = Shown(body[w])
  BY <1>1, PlayedShown
<1>4. ASSUME NEW v \in Viewers \ stray
      PROVE  Flow(down[v], body'[v], Passed, done, born, missed, late)
  <2>1. Flow(down[v], body[v], Passed, done, born, missed, late)
    BY DEF Flows
  <2>2. CASE v # w
    BY <1>1, <2>1, <2>2 DEF TypeOK
  <2>3. CASE v = w
    <3>1. body'[v] = Played(body[v]) /\ body[v] # NoBody
      BY <2>3 DEF Update, Played, TypeOK
    <3>2. PICK mark \in [0..Len(down[v]) -> 0..Len(done)] :
            FlowBy(mark, down[v], body[v], Passed, done, born, missed, late)
      BY <2>1 DEF Flow
    <3>3. \A j \in 0..Len(down[v]) :
            /\ Lasts(down[v], body'[v], j) => Lasts(down[v], body[v], j)
            /\ ShownAt(down[v], body'[v], j) = ShownAt(down[v], body[v], j)
      BY <1>3, <2>3, <3>1 DEF Lasts, ShownAt
    <3>4. FlowBy(mark, down[v], body'[v], Passed, done, born, missed, late)
      BY <3>2, <3>3 DEF FlowBy
    <3> QED
      BY <3>2, <3>4 DEF Flow
  <2> QED
    BY <2>2, <2>3
<1> QED
  BY <1>1, <1>2, <1>4 DEF Flows

LEMMA NextFlows == TypeOK /\ Cached /\ Queued /\ Flows /\ [Next]_vars => Flows'
<1> SUFFICES ASSUME TypeOK, Cached, Queued, Flows, [Next]_vars PROVE Flows'
  OBVIOUS
<1>1. CASE Next
  <2>1. CASE \E v \in Viewers : HandleExteriorCellEnter(v)
    BY <2>1 DEF HandleExteriorCellEnter, clientVars, history, Flows, Passed
  <2> QED
    BY <1>1, <2>1, BoundedIs, RequestFlows, ProcessFlows, ShiftFlows, CellFlows, RespawnFlows, PlayerRespawnFlows,
       RequestRespawnFlows, ReceiveFlows, UpdateFlows DEF Next
<1>2. CASE UNCHANGED vars
  BY <1>2 DEF vars, serverVars, clientVars, bounds, history, Flows, Passed
<1> QED
  BY <1>1, <1>2

LEMMA FlowsAgree ==
  ASSUME TypeOK, Queued, Flows
  PROVE  PoseAgrees
<1> SUFFICES ASSUME NEW v \in Viewers, CaughtUp(v), v \notin stray
             PROVE  LET pose == body[v].pose
                        held == {pose[i] : i \in Counts(pose)}
                    IN  /\ Since(born) \ missed \subseteq held
                        /\ held \subseteq Since(born) \cup late
                        /\ \A i, j \in Counts(pose) : i < j => pose[i] < pose[j]
  BY DEF PoseAgrees
<1>1. body[v] # NoBody /\ pending = <<>> /\ down[v] = <<>> /\ body[v].queue = <<>>
  BY DEF CaughtUp
<1>2. body[v] \in Body
  BY <1>1 DEF TypeOK
<1>3. Passed = Len(done)
  <2>1. pending = <<>> /\ Len(done) \in Nat /\ Len(<<>>) = 0
    BY <1>1 DEF TypeOK
  <2> QED
    BY <2>1 DEF Passed
<1>4. Tells(Shown(body[v]), Len(done), done, born, missed, late)
  <2>1. Flow(<<>>, body[v], Len(done), done, born, missed, late)
    BY <1>1, <1>3 DEF Flows
  <2>2. Len(<<>>) = 0 /\ 0 \in 0..0 /\ Lasts(<<>>, body[v], 0) /\ ShownAt(<<>>, body[v], 0) = Shown(body[v])
    BY <1>1 DEF Lasts, Stays, ShownAt
  <2>3. PICK mark : FlowBy(mark, <<>>, body[v], Len(done), done, born, missed, late)
    BY <2>1 DEF Flow
  <2>4. /\ mark[0] = Len(done)
        /\ Tells(ShownAt(<<>>, body[v], 0), mark[0], done, born, missed, late)
    BY <2>2, <2>3 DEF FlowBy
  <2> QED
    BY <2>2, <2>4
<1>5. Shown(body[v]) = body[v].pose /\ body[v].pose \in Seq(Numbers)
  BY <1>1, <1>2, ShownIs, BodiesAre
<1> QED
  BY <1>4, <1>5, TellsPose

(* A body that has had everything meant for it shows the character in the  *)
(* pose of what the owner did since he last went back to his root state,   *)
(* in that order and with nothing else, in range or out of it, save what   *)
(* the cache had no room for or lost at a viewer's request, what the owner *)
(* did in an old body just before he respawned, and a body that missed an  *)
(* action or a respawn out of range.                                       *)
THEOREM ThePoseAgrees == Spec => []PoseAgrees
<1> DEFINE I == TypeOK /\ Cached /\ Queued /\ Flows
<1>1. Init => I
  BY InitTypes, InitCached, InitQueued, InitFlows
<1>2. I /\ [Next]_vars => I'
  BY NextTypes, NextCached, NextQueued, NextFlows
<1>3. I => PoseAgrees
  BY FlowsAgree
<1> QED
  BY <1>1, <1>2, <1>3, PTL DEF Spec
=============================================================================
