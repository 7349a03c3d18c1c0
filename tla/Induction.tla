----------------------------- MODULE Induction -----------------------------
(***************************************************************************)
(* Induction over the naturals in the form of facts about sets: a set of   *)
(* naturals has a least element, and one that holds 0 and is closed under  *)
(* successor holds them all.  The proofs of the other modules use them to  *)
(* follow a list node by node and a text line by line.  The last lemmas    *)
(* are about the elements of sequences, and about Hoisting, whose          *)
(* recursion they follow.                                                  *)
(***************************************************************************)
EXTENDS Hoisting, FiniteSets, FiniteSetTheorems, SequenceTheorems, TLAPS

(* The naturals below n.                                                   *)
Below(n) == 0 .. (n - 1)

LEMMA BelowFinite == \A n \in Nat : Below(n) \in FiniteSubsetsOf(Nat)
<1> TAKE n \in Nat
<1>1. IsFiniteSet(0 .. (n - 1))
  BY FS_Interval
<1>2. 0 .. (n - 1) \in SUBSET Nat
  OBVIOUS
<1>3. QED
  BY <1>1, <1>2 DEF Below, FiniteSubsetsOf

(* Every inhabited set of naturals has a least element.                    *)
LEMMA LeastNatural ==
  ASSUME NEW B \in SUBSET Nat, B # {}
  PROVE  \E m \in B : \A k \in B : m <= k
<1> DEFINE T == {Below(n) : n \in B}
           R == StrictSubsetOrdering(Nat)
<1>1. T \subseteq FiniteSubsetsOf(Nat) /\ T # {}
  BY BelowFinite
<1>2. IsWellFoundedOn(R, FiniteSubsetsOf(Nat))
  BY FS_StrictSubsetOrderingWellFounded
<1>3. \E x \in T : \A y \in T : ~ (<<y, x>> \in R)
  <2> HIDE DEF T, R
  <2> QED BY <1>1, <1>2, WFMin
<1>4. PICK m \in B : \A k \in B : ~ (<<Below(k), Below(m)>> \in R)
  BY <1>3
<1>5. ASSUME NEW k \in B, k < m
      PROVE  FALSE
  <2>1. Below(k) \subseteq Below(m) /\ Below(k) # Below(m)
    <3>1. k \in Below(m) /\ k \notin Below(k)
      BY <1>5 DEF Below
    <3>2. Below(k) \subseteq Below(m)
      BY <1>5 DEF Below
    <3>3. QED
      BY <3>1, <3>2
  <2>2. Below(k) \in SUBSET Nat /\ Below(m) \in SUBSET Nat
    BY BelowFinite DEF FiniteSubsetsOf
  <2>3. <<Below(k), Below(m)>> \in R
    BY <2>1, <2>2 DEF StrictSubsetOrdering
  <2>4. QED
    BY <1>4, <2>3
<1>6. QED
  BY <1>5

(* Induction: what holds at 0, and at n + 1 wherever it holds at n, holds  *)
(* at every natural.                                                       *)
LEMMA SetInduction ==
  ASSUME NEW S, 0 \in S, \A n \in Nat : n \in S => n + 1 \in S
  PROVE  Nat \subseteq S
<1> DEFINE B == Nat \ S
<1> SUFFICES ASSUME B # {}
             PROVE  FALSE
  OBVIOUS
<1>1. PICK m \in B : \A k \in B : m <= k
  <2> HIDE DEF B
  <2> B \in SUBSET Nat
    BY DEF B
  <2> QED BY LeastNatural
<1>2. m # 0 /\ m - 1 \in Nat
  OBVIOUS
<1>3. m - 1 \in S
  BY <1>1, <1>2
<1>4. QED
  BY <1>2, <1>3

-----------------------------------------------------------------------------
(* A sequence of values each of which is made of the one before: there is  *)
(* one, and only one.  The sums, powers and streams of the models are such *)
(* sequences.                                                              *)
Unfolds(g, a, F, n) == g[0] = a /\ \A i \in 1 .. n : g[i] = F[i][g[i - 1]]

LEMMA UnfoldsExists ==
  ASSUME NEW D, NEW a \in D, NEW n \in Nat, NEW F \in [1 .. n -> [D -> D]]
  PROVE  \E g \in [0 .. n -> D] : Unfolds(g, a, F, n)
<1> DEFINE P(m) == \E g \in [0 .. m -> D] : Unfolds(g, a, F, m)
           M == {m \in Nat : m <= n => P(m)}
<1>1. 0 \in M
  <2> DEFINE g == [i \in 0 .. 0 |-> a]
  <2>1. g \in [0 .. 0 -> D] /\ Unfolds(g, a, F, 0)
    BY DEF Unfolds
  <2>2. QED
    BY <2>1
<1>2. \A m \in Nat : m \in M => m + 1 \in M
  <2> HIDE DEF P
  <2> SUFFICES ASSUME NEW m \in Nat, m \in M, m + 1 <= n
               PROVE  P(m + 1)
    OBVIOUS
  <2> USE DEF P
  <2>1. PICK g \in [0 .. m -> D] : Unfolds(g, a, F, m)
    OBVIOUS
  <2> DEFINE x == F[m + 1][g[m]]
             h == [i \in 0 .. m + 1 |-> IF i = m + 1 THEN x ELSE g[i]]
  <2>2. x \in D
    OBVIOUS
  <2> HIDE DEF x
  <2>3. h \in [0 .. m + 1 -> D]
    BY <2>2
  <2>4. h[m + 1] = x /\ \A i \in 0 .. m : h[i] = g[i]
    OBVIOUS
  <2> HIDE DEF h
  <2>5. ASSUME NEW i \in 1 .. m + 1 PROVE h[i] = F[i][h[i - 1]]
    <3>1. CASE i = m + 1
      BY <2>4, <3>1 DEF x
    <3>2. CASE i \in 1 .. m
      BY <2>1, <2>4, <3>2 DEF Unfolds
    <3>3. QED
      BY <3>1, <3>2
  <2>6. h[0] = a
    BY <2>1, <2>4 DEF Unfolds
  <2>7. QED
    BY <2>3, <2>5, <2>6 DEF Unfolds
<1>3. n \in M
  <2> HIDE DEF M
  <2> QED BY <1>1, <1>2, SetInduction
<1>4. QED
  BY <1>3

LEMMA UnfoldsUnique ==
  ASSUME NEW a, NEW n \in Nat, NEW F, NEW g, NEW h, Unfolds(g, a, F, n), Unfolds(h, a, F, n)
  PROVE  \A i \in 0 .. n : g[i] = h[i]
<1> DEFINE M == {m \in Nat : m <= n => g[m] = h[m]}
<1>1. 0 \in M
  BY DEF Unfolds
<1>2. \A m \in Nat : m \in M => m + 1 \in M
  BY DEF Unfolds
<1>3. Nat \subseteq M
  <2> HIDE DEF M
  <2> QED BY <1>1, <1>2, SetInduction
<1>4. QED
  BY <1>3

-----------------------------------------------------------------------------
(* What a sequence holds, whatever the order.                              *)
Elements(s) == {s[i] : i \in DOMAIN s}

LEMMA ElementsAppend ==
  ASSUME NEW S, NEW s \in Seq(S), NEW x \in S
  PROVE  Append(s, x) \in Seq(S) /\ Elements(Append(s, x)) = Elements(s) \cup {x}
<1> DEFINE n == Len(s)
<1>1. /\ Append(s, x) \in Seq(S) /\ n \in Nat /\ DOMAIN s = 1 .. n
      /\ DOMAIN Append(s, x) = 1 .. n + 1 /\ Append(s, x)[n + 1] = x
      /\ \A i \in 1 .. n : Append(s, x)[i] = s[i]
  BY LenProperties, AppendProperties
<1> DEFINE t == Append(s, x)
<1> HIDE DEF n, t
<1>2. \A i \in 1 .. n + 1 : i \in 1 .. n \/ i = n + 1
  BY <1>1
<1>3. \A i \in 1 .. n : i \in 1 .. n + 1
  BY <1>1
<1>4. n + 1 \in 1 .. n + 1
  BY <1>1
<1>5. DOMAIN t = 1 .. n + 1 /\ t[n + 1] = x /\ \A i \in 1 .. n : t[i] = s[i]
  BY <1>1 DEF t
<1>6. Elements(t) = Elements(s) \cup {x}
  BY <1>1, <1>2, <1>3, <1>4, <1>5 DEF Elements
<1>7. QED
  BY <1>1, <1>6 DEF t

LEMMA ElementsConcat ==
  ASSUME NEW S, NEW s \in Seq(S), NEW t \in Seq(S)
  PROVE  s \o t \in Seq(S) /\ Elements(s \o t) = Elements(s) \cup Elements(t)
<1> DEFINE m == Len(s)
           n == Len(t)
           u == s \o t
<1>1. /\ u \in Seq(S) /\ m \in Nat /\ n \in Nat
      /\ DOMAIN s = 1 .. m /\ DOMAIN t = 1 .. n /\ DOMAIN u = 1 .. m + n
      /\ \A i \in 1 .. m + n : u[i] = IF i <= m THEN s[i] ELSE t[i - m]
  BY LenProperties, ConcatProperties
<1> HIDE DEF m, n, u
<1>2. \A i \in 1 .. m : i \in 1 .. m + n /\ i <= m
  BY <1>1
<1>3. \A i \in 1 .. n : i + m \in 1 .. m + n /\ ~(i + m <= m) /\ (i + m) - m = i
  BY <1>1
<1>4. \A i \in 1 .. m + n : IF i <= m THEN i \in 1 .. m ELSE i - m \in 1 .. n
  BY <1>1
<1>5. Elements(s) \subseteq Elements(u)
  BY <1>1, <1>2 DEF Elements
<1>6. Elements(t) \subseteq Elements(u)
  <2>1. ASSUME NEW i \in 1 .. n PROVE t[i] \in Elements(u)
    <3>1. u[i + m] = t[(i + m) - m]
      BY <1>1, <1>3
    <3>2. QED
      BY <1>1, <1>3, <3>1 DEF Elements
  <2>2. QED
    BY <1>1, <2>1 DEF Elements
<1>7. Elements(u) \subseteq Elements(s) \cup Elements(t)
  BY <1>1, <1>4 DEF Elements
<1>8. QED
  BY <1>1, <1>5, <1>6, <1>7 DEF u

LEMMA ChosenIs ==
  ASSUME NEW S, NEW s \in Seq(S), NEW I
  PROVE  /\ Chosen(s, I) \in Seq(S)
         /\ Elements(Chosen(s, I)) = {s[i] : i \in DOMAIN s \cap I}
<1> DEFINE l == Len(s)
           Step(g, n) == IF n = 0 THEN << >>
                         ELSE IF n \in I THEN Append(g[n - 1], s[n]) ELSE g[n - 1]
           E(m) == {g \in [0 .. m -> Seq(S)] : \A n \in 0 .. m : g[n] = Step(g, n)}
<1>1. l \in Nat /\ DOMAIN s = 1 .. l /\ \A n \in 1 .. l : s[n] \in S
  BY LenProperties, ElementOfSeq
<1>2. Nat \subseteq {m \in Nat : m <= l => E(m) # {}}
  <2> DEFINE M == {m \in Nat : m <= l => E(m) # {}}
  <2>1. 0 \in M
    <3> DEFINE g == [n \in 0 .. 0 |-> << >>]
    <3>1. << >> \in Seq(S)
      BY EmptySeq
    <3>2. g \in E(0)
      BY <3>1
    <3>3. QED
      BY <3>2
  <2>2. \A m \in Nat : m \in M => m + 1 \in M
    <3> HIDE DEF E
    <3> SUFFICES ASSUME NEW m \in Nat, m \in M, m + 1 <= l
                 PROVE  E(m + 1) # {}
      OBVIOUS
    <3> USE DEF E
    <3>1. m <= l
      BY <1>1
    <3>2. PICK g : g \in E(m)
      BY <3>1
    <3> DEFINE x == IF m + 1 \in I THEN Append(g[m], s[m + 1]) ELSE g[m]
               h == [n \in 0 .. m + 1 |-> IF n = m + 1 THEN x ELSE g[n]]
    <3>3. \A n \in 0 .. m : g[n] \in Seq(S) /\ g[n] = Step(g, n)
      BY <3>2
    <3>4. m \in 0 .. m /\ m + 1 \in 1 .. l
      BY <1>1
    <3>5. x \in Seq(S)
      BY <1>1, <3>3, <3>4, AppendProperties
    <3> HIDE DEF x
    <3>6. \A n \in 0 .. m + 1 : n = m + 1 \/ n \in 0 .. m
      OBVIOUS
    <3>7. h \in [0 .. m + 1 -> Seq(S)]
      BY <3>3, <3>5, <3>6
    <3>8. h[m + 1] = x /\ \A n \in 0 .. m : h[n] = g[n]
      OBVIOUS
    <3> HIDE DEF h
    <3>9. ASSUME NEW n \in 0 .. m + 1 PROVE h[n] = Step(h, n)
      <4>1. CASE n = m + 1
        <5>1. n # 0 /\ n - 1 = m
          BY <4>1
        <5>2. h[m] = g[m]
          BY <3>4, <3>8
        <5>3. QED
          BY <3>8, <4>1, <5>1, <5>2 DEF x
      <4>2. CASE n = 0
        BY <3>3, <3>8, <4>2
      <4>3. CASE n # m + 1 /\ n # 0
        <5>1. n \in 0 .. m /\ n - 1 \in 0 .. m
          BY <4>3
        <5>2. h[n] = g[n] /\ h[n - 1] = g[n - 1] /\ g[n] = Step(g, n)
          BY <3>3, <3>8, <5>1
        <5>3. QED
          BY <5>2
      <4>4. QED
        BY <4>1, <4>2, <4>3
    <3>10. h \in E(m + 1)
      <4> HIDE DEF Step
      <4>1. QED
        BY <3>7, <3>9
    <3> HIDE DEF E
    <3>11. QED
      BY <3>10
  <2> HIDE DEF M
  <2>3. QED
    BY <2>1, <2>2, SetInduction DEF M
<1>3. \E g : g = [n \in 0 .. l |-> Step(g, n)]
  <2>1. l \in {m \in Nat : m <= l => E(m) # {}}
    BY <1>1, <1>2
  <2>2. PICK g : g \in E(l)
    BY <1>1, <2>1
  <2>3. g = [n \in 0 .. l |-> Step(g, n)]
    <3> HIDE DEF Step
    <3>1. g \in [0 .. l -> Seq(S)] /\ \A n \in 0 .. l : g[n] = Step(g, n)
      BY <2>2
    <3>2. QED
      BY <3>1
  <2>4. QED
    BY <2>3
<1> DEFINE c == CHOOSE g : g = [n \in 0 .. l |-> Step(g, n)]
<1>4. c = [n \in 0 .. l |-> Step(c, n)]
  <2> HIDE DEF Step
  <2>1. QED
    BY <1>3
<1>5. Chosen(s, I) = c[l]
  BY Zenon DEF Chosen
<1> HIDE DEF c
<1>6. \A n \in 0 .. l : c[n] = Step(c, n)
  <2> HIDE DEF Step
  <2>1. QED
    BY <1>4
<1> DEFINE Is(n) == c[n] \in Seq(S) /\ Elements(c[n]) = {s[i] : i \in (1 .. n) \cap I}
           N == {n \in Nat : n <= l => Is(n)}
<1>7. 0 \in N
  <2>1. c[0] = << >>
    BY <1>1, <1>6
  <2>2. << >> \in Seq(S) /\ DOMAIN << >> = {}
    BY EmptySeq
  <2>3. Elements(<< >>) = {}
    BY <2>2 DEF Elements
  <2>4. {s[i] : i \in (1 .. 0) \cap I} = {}
    OBVIOUS
  <2>5. QED
    BY <2>1, <2>2, <2>3, <2>4
<1>8. \A n \in Nat : n \in N => n + 1 \in N
  <2> HIDE DEF Is
  <2> SUFFICES ASSUME NEW n \in Nat, n \in N, n + 1 <= l
               PROVE  Is(n + 1)
    OBVIOUS
  <2> USE DEF Is
  <2>1. n <= l /\ n + 1 \in 0 .. l /\ n + 1 \in 1 .. l /\ (n + 1) - 1 = n /\ n + 1 # 0
    BY <1>1
  <2>2. c[n] \in Seq(S) /\ Elements(c[n]) = {s[i] : i \in (1 .. n) \cap I}
    BY <2>1
  <2>3. c[n + 1] = IF n + 1 \in I THEN Append(c[n], s[n + 1]) ELSE c[n]
    BY <1>6, <2>1
  <2>4. \A i \in 1 .. n + 1 : i \in 1 .. n \/ i = n + 1
    OBVIOUS
  <2>5. CASE n + 1 \in I
    <3>1. {s[i] : i \in (1 .. n + 1) \cap I} = {s[i] : i \in (1 .. n) \cap I} \cup {s[n + 1]}
      BY <2>4, <2>5
    <3>2. s[n + 1] \in S
      BY <1>1, <2>1
    <3>3. c[n + 1] \in Seq(S) /\ Elements(c[n + 1]) = Elements(c[n]) \cup {s[n + 1]}
      BY <2>2, <2>3, <2>5, <3>2, ElementsAppend
    <3>4. QED
      BY <2>2, <3>1, <3>3
  <2>6. CASE n + 1 \notin I
    <3>1. {s[i] : i \in (1 .. n + 1) \cap I} = {s[i] : i \in (1 .. n) \cap I}
      BY <2>4, <2>6
    <3>2. QED
      BY <2>2, <2>3, <2>6, <3>1
  <2>7. QED
    BY <2>5, <2>6
<1>9. Is(l)
  <2> HIDE DEF N, Is
  <2>1. l \in N
    BY <1>1, <1>7, <1>8, SetInduction
  <2>2. QED
    BY <1>1, <2>1 DEF N
<1>10. QED
  BY <1>1, <1>5, <1>9

(* Hoisting moves statements and neither makes nor loses one.              *)
LEMMA HoistFromSame ==
  ASSUME NEW S, NEW s \in Seq(S), NEW I
  PROVE  HoistFrom(s, I) \in Seq(S) /\ Elements(HoistFrom(s, I)) = Elements(s)
<1> DEFINE a == Chosen(s, I)
           b == Chosen(s, DOMAIN s \ I)
<1>1. HoistFrom(s, I) = a \o b
  BY DEF HoistFrom
<1>2. /\ a \in Seq(S) /\ Elements(a) = {s[i] : i \in DOMAIN s \cap I}
      /\ b \in Seq(S) /\ Elements(b) = {s[i] : i \in DOMAIN s \cap (DOMAIN s \ I)}
  BY ChosenIs
<1> HIDE DEF a, b
<1>3. a \o b \in Seq(S) /\ Elements(a \o b) = Elements(a) \cup Elements(b)
  BY <1>2, ElementsConcat
<1>4. Elements(a) \cup Elements(b) = Elements(s)
  BY <1>2 DEF Elements
<1>5. QED
  BY <1>1, <1>3, <1>4
=============================================================================
