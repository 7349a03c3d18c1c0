--------------------------- MODULE CodegenProofs ---------------------------
(***************************************************************************)
(* The code of one statement, for statements of any number of operands,    *)
(* numbers, registers and stacks of any size: the interpreter reads the    *)
(* instructions as they were written, and executing them does what the     *)
(* statement means, when its operands are disjoint.                        *)
(***************************************************************************)
EXTENDS Codegen, Induction

(* Powers.                                                                 *)
Grows(g, b, n) == g[0] = 1 /\ \A i \in 1 .. n : g[i] = b * g[i - 1]

LEMMA PowerGrows ==
  ASSUME NEW b \in Nat \ {0}, NEW n \in Nat
  PROVE  \E g \in [0 .. n -> Nat \ {0}] : Grows(g, b, n) /\ Power(b, n) = g[n]
<1> DEFINE Step(g, i) == IF i = 0 THEN 1 ELSE b * g[i - 1]
           c == CHOOSE g : g = [i \in 0 .. n |-> Step(g, i)]
           F == [i \in 1 .. n |-> [x \in Nat \ {0} |-> b * x]]
<1>1. Power(b, n) = c[n]
  BY Zenon DEF Power
<1>2. F \in [1 .. n -> [Nat \ {0} -> Nat \ {0}]]
  OBVIOUS
<1>3. \A i \in 1 .. n : \A x \in Nat \ {0} : F[i][x] = b * x
  OBVIOUS
<1> HIDE DEF F
<1>4. PICK g \in [0 .. n -> Nat \ {0}] : Unfolds(g, 1, F, n)
  <2>1. 1 \in Nat \ {0}
    OBVIOUS
  <2>2. QED
    BY <1>2, <2>1, UnfoldsExists
<1>5. ASSUME NEW i \in 0 .. n
      PROVE  g[i] = Step(g, i)
  <2>1. CASE i = 0
    BY <1>4, <2>1 DEF Unfolds
  <2>2. CASE i # 0
    <3>1. i \in 1 .. n /\ g[i - 1] \in Nat \ {0}
      BY <2>2
    <3>2. QED
      BY <1>3, <1>4, <2>2, <3>1 DEF Unfolds
  <2>3. QED
    BY <2>1, <2>2
<1> HIDE DEF Step
<1>6. g = [i \in 0 .. n |-> Step(g, i)]
  BY <1>5
<1>7. c = [i \in 0 .. n |-> Step(c, i)]
  BY <1>6
<1> HIDE DEF c
<1>8. \A i \in 0 .. n : c[i] = Step(c, i)
  BY <1>7
<1>9. Grows(c, b, n)
  <2>1. \A i \in 1 .. n : i # 0 /\ i \in 0 .. n
    OBVIOUS
  <2>2. c[0] = 1
    BY <1>8 DEF Step
  <2>3. QED
    BY <1>8, <2>1, <2>2 DEF Grows, Step
<1>10. Grows(g, b, n)
  <2>1. \A i \in 1 .. n : i # 0 /\ i \in 0 .. n
    OBVIOUS
  <2>2. QED
    BY <1>5, <2>1 DEF Grows, Step
<1>11. n \in 0 .. n
  OBVIOUS
<1>12. c[n] = g[n]
  <2> DEFINE M == {m \in Nat : m <= n => c[m] = g[m]}
  <2>1. 0 \in M
    BY <1>9, <1>10 DEF Grows
  <2>2. \A m \in Nat : m \in M => m + 1 \in M
    <3> SUFFICES ASSUME NEW m \in Nat, m \in M, m + 1 <= n
                 PROVE  c[m + 1] = g[m + 1]
      OBVIOUS
    <3>1. m + 1 \in 1 .. n /\ (m + 1) - 1 = m /\ c[m] = g[m]
      OBVIOUS
    <3>2. QED
      BY <1>9, <1>10, <3>1 DEF Grows
  <2>3. Nat \subseteq M
    <3> HIDE DEF M
    <3> QED BY <2>1, <2>2, SetInduction
  <2>4. QED
    BY <2>3
<1>13. QED
  BY <1>1, <1>10, <1>12

LEMMA PowerIs ==
  ASSUME NEW b \in Nat \ {0}
  PROVE  /\ Power(b, 0) = 1
         /\ \A n \in Nat : Power(b, n) \in Nat \ {0} /\ Power(b, n + 1) = b * Power(b, n)
<1>1. Power(b, 0) = 1
  <2>1. 0 \in Nat
    OBVIOUS
  <2>2. QED
    BY <2>1, PowerGrows DEF Grows
<1>2. ASSUME NEW n \in Nat
      PROVE  Power(b, n) \in Nat \ {0} /\ Power(b, n + 1) = b * Power(b, n)
  <2>1. PICK g \in [0 .. n -> Nat \ {0}] : Grows(g, b, n) /\ Power(b, n) = g[n]
    BY PowerGrows
  <2>2. n + 1 \in Nat
    OBVIOUS
  <2>3. PICK h \in [0 .. n + 1 -> Nat \ {0}] : Grows(h, b, n + 1) /\ Power(b, n + 1) = h[n + 1]
    BY <2>2, PowerGrows
  <2> DEFINE M == {m \in Nat : m <= n => h[m] = g[m]}
  <2>4. 0 \in M
    BY <2>1, <2>3 DEF Grows
  <2>5. \A m \in Nat : m \in M => m + 1 \in M
    <3> SUFFICES ASSUME NEW m \in Nat, m \in M, m + 1 <= n
                 PROVE  h[m + 1] = g[m + 1]
      OBVIOUS
    <3>1. m + 1 \in 1 .. n /\ m + 1 \in 1 .. n + 1 /\ (m + 1) - 1 = m /\ h[m] = g[m]
      OBVIOUS
    <3>2. QED
      BY <2>1, <2>3, <3>1 DEF Grows
  <2>6. Nat \subseteq M
    <3> HIDE DEF M
    <3> QED BY <2>4, <2>5, SetInduction
  <2>7. h[n] = g[n] /\ n + 1 \in 1 .. n + 1 /\ (n + 1) - 1 = n /\ n \in 0 .. n
    BY <2>6
  <2>8. QED
    BY <2>1, <2>3, <2>7 DEF Grows
<1>3. QED
  BY <1>1, <1>2

LEMMA BytePower ==
  \A n \in Nat : Power(256, n) = Power(2, 8 * n)
<1> DEFINE M == {n \in Nat : Power(256, n) = Power(2, 8 * n)}
<1>1. 2 \in Nat \ {0} /\ 256 \in Nat \ {0}
  OBVIOUS
<1>2. 0 \in M
  BY <1>1, PowerIs
<1>3. ASSUME NEW n \in Nat, n \in M
      PROVE  n + 1 \in M
  <2> DEFINE P(i) == Power(2, i)
  <2>1. \A i \in Nat : P(i) \in Nat /\ P(i + 1) = 2 * P(i)
    BY <1>1, PowerIs
  <2> HIDE DEF P
  <2> DEFINE k == 8 * n
  <2>2. k \in Nat /\ 8 * (n + 1) = k + 8
    OBVIOUS
  <2> HIDE DEF k
  <2>3. P(k + 4) = 16 * P(k)
    <3>1. P(k + 1) = 2 * P(k) /\ P(k + 2) = 2 * P(k + 1)
          /\ P(k + 3) = 2 * P(k + 2) /\ P(k + 4) = 2 * P(k + 3)
      <4>1. k + 1 \in Nat /\ k + 2 = (k + 1) + 1 /\ k + 2 \in Nat /\ k + 3 = (k + 2) + 1
            /\ k + 3 \in Nat /\ k + 4 = (k + 3) + 1
        BY <2>2
      <4>2. QED
        BY <2>1, <2>2, <4>1
    <3>2. QED
      BY <2>1, <2>2, <3>1
  <2>4. P(k + 8) = 16 * P(k + 4)
    <3>1. P(k + 5) = 2 * P(k + 4) /\ P(k + 6) = 2 * P(k + 5)
          /\ P(k + 7) = 2 * P(k + 6) /\ P(k + 8) = 2 * P(k + 7)
      <4>1. k + 5 = (k + 4) + 1 /\ k + 6 = (k + 5) + 1 /\ k + 7 = (k + 6) + 1
            /\ k + 8 = (k + 7) + 1 /\ k + 4 \in Nat /\ k + 5 \in Nat /\ k + 6 \in Nat
            /\ k + 7 \in Nat
        BY <2>2
      <4>2. QED
        BY <2>1, <4>1
    <3>2. k + 4 \in Nat
      BY <2>2
    <3>3. QED
      BY <2>1, <3>1, <3>2
  <2>5. P(k + 8) = 256 * P(k)
    BY <2>1, <2>2, <2>3, <2>4
  <2>6. Power(256, n + 1) = 256 * Power(256, n)
    BY <1>1, PowerIs
  <2>7. Power(256, n) = P(k)
    BY <1>3 DEF k, P
  <2>8. Power(2, 8 * (n + 1)) = P(k + 8)
    BY <2>2 DEF P
  <2>9. QED
    BY <2>5, <2>6, <2>7, <2>8
<1>4. Nat \subseteq M
  <2> HIDE DEF M
  <2> QED BY <1>2, <1>3, SetInduction
<1>5. QED
  BY <1>4

-----------------------------------------------------------------------------
(* Numbers and their bytes.                                                *)
LEMMA DivMod ==
  ASSUME NEW m \in Nat \ {0}, NEW n \in Int
  PROVE  /\ n \div m \in Int /\ n % m \in 0 .. m - 1 /\ n = m * (n \div m) + (n % m)
         /\ \A q \in Int, r \in 0 .. m - 1 : n = m * q + r => n \div m = q /\ n % m = r
<1>1. n \div m \in Int /\ n % m \in 0 .. m - 1 /\ n = m * (n \div m) + (n % m)
  <2>1. n \div m \in Int
    OBVIOUS
  <2>2. n % m \in 0 .. m - 1
    OBVIOUS
  <2>3. n = m * (n \div m) + (n % m)
    OBVIOUS
  <2>4. QED
    BY <2>1, <2>2, <2>3
<1>2. ASSUME NEW q \in Int, NEW r \in 0 .. m - 1, n = m * q + r
      PROVE  n \div m = q /\ n % m = r
  <2> DEFINE d == n \div m
             e == n % m
  <2>1. d \in Int /\ e \in 0 .. m - 1 /\ m * q + r = m * d + e
    BY <1>1, <1>2
  <2> HIDE DEF d, e
  <2>2. q = d
    <3>1. CASE q > d
      <4>1. PICK k \in Nat : q = d + 1 + k
        <5>1. q - d - 1 \in Nat /\ q = d + 1 + (q - d - 1)
          BY <2>1, <3>1
        <5>2. QED
          BY <5>1
      <4>2. m * q = m * d + m + m * k /\ m * k \in Nat
        BY <2>1, <4>1
      <4>3. m * d \in Int
        BY <2>1
      <4>4. QED
        BY <2>1, <4>2, <4>3
    <3>2. CASE d > q
      <4>1. PICK k \in Nat : d = q + 1 + k
        <5>1. d - q - 1 \in Nat /\ d = q + 1 + (d - q - 1)
          BY <2>1, <3>2
        <5>2. QED
          BY <5>1
      <4>2. m * d = m * q + m + m * k /\ m * k \in Nat
        BY <2>1, <4>1
      <4>3. m * q \in Int
        OBVIOUS
      <4>4. QED
        BY <2>1, <4>2, <4>3
    <3>3. QED
      BY <2>1, <3>1, <3>2
  <2>3. r = e
    BY <2>1, <2>2
  <2>4. QED
    BY <2>2, <2>3 DEF d, e
<1>3. QED
  BY <1>1, <1>2

(* One more byte of a number.                                              *)
LEMMA ByteMore ==
  ASSUME NEW m \in Nat \ {0}, NEW n \in Int
  PROVE  n % (256 * m) = (n % m) + ((n \div m) % 256) * m
<1> DEFINE d == n \div m
           r == n % m
           q == d \div 256
           c == d % 256
<1>1. d \in Int /\ r \in 0 .. m - 1 /\ n = m * d + r
  BY DivMod
<1>2. q \in Int /\ c \in 0 .. 255 /\ d = 256 * q + c
  <2> HIDE DEF d
  <2> QED BY <1>1
<1> HIDE DEF d, r, q, c
<1>3. m * d = m * (256 * q) + m * c
  BY <1>1, <1>2
<1>4. m * (256 * q) = (256 * m) * q
  BY <1>2
<1>5. m * c \in Nat /\ m * c <= m * 255
  <2>1. PICK k \in Nat : c + k = 255
    <3>1. 255 - c \in Nat /\ c + (255 - c) = 255
      BY <1>2
    <3>2. QED
      BY <3>1
  <2>2. m * 255 = m * c + m * k /\ m * k \in Nat /\ m * c \in Nat
    BY <1>2, <2>1
  <2>3. QED
    BY <2>2
<1> DEFINE M == 256 * m
           R == m * c + r
<1>6. M \in Nat \ {0} /\ R \in 0 .. M - 1
  BY <1>1, <1>5
<1>7. n = M * q + R
  BY <1>1, <1>2, <1>3, <1>4, <1>5
<1> HIDE DEF M, R
<1>8. n % M = R
  BY <1>2, <1>6, <1>7, DivMod
<1>9. c * m = m * c
  BY <1>2
<1>10. QED
  BY <1>1, <1>5, <1>8, <1>9 DEF M, R, d, r, c

(* What is written as a field is read modulo the field.                    *)
LEMMA ReadIs ==
  ASSUME NEW n \in Int, NEW width \in Nat, NEW bytes, NEW skip \in Nat,
         \A i \in 1 .. width : bytes[skip + i] = (n \div Power(256, i - 1)) % 256
  PROVE  Read(bytes, skip, width) = n % Power(256, width)
<1> DEFINE P(i) == Power(256, i)
           Step(g, i) == IF i = 0 THEN 0 ELSE g[i - 1] + bytes[skip + i] * P(i - 1)
           c == CHOOSE g : g = [i \in 0 .. width |-> Step(g, i)]
           h == [i \in 0 .. width |-> n % P(i)]
<1>1. Read(bytes, skip, width) = c[width]
  BY Zenon DEF Read
<1>2. P(0) = 1 /\ \A i \in Nat : P(i) \in Nat \ {0} /\ P(i + 1) = 256 * P(i)
  <2>1. 256 \in Nat \ {0}
    OBVIOUS
  <2>2. QED
    BY <2>1, PowerIs
<1>3. \A i \in 1 .. width : bytes[skip + i] = (n \div P(i - 1)) % 256
  OBVIOUS
<1> HIDE DEF P
<1>4. \A i \in 0 .. width : h[i] = n % P(i)
  OBVIOUS
<1> HIDE DEF h
<1>5. ASSUME NEW i \in 0 .. width PROVE h[i] = Step(h, i)
  <2>1. CASE i = 0
    BY <1>2, <1>4, <2>1
  <2>2. CASE i # 0
    <3>1. i - 1 \in Nat /\ i - 1 \in 0 .. width /\ (i - 1) + 1 = i /\ i \in 1 .. width
      BY <2>2
    <3>2. P(i) = 256 * P(i - 1) /\ P(i - 1) \in Nat \ {0}
      BY <1>2, <3>1
    <3>3. n % P(i) = (n % P(i - 1)) + ((n \div P(i - 1)) % 256) * P(i - 1)
      <4> DEFINE m == P(i - 1)
      <4>1. m \in Nat \ {0} /\ P(i) = 256 * m
        BY <3>2
      <4> HIDE DEF m
      <4>2. n % (256 * m) = (n % m) + ((n \div m) % 256) * m
        BY <4>1, ByteMore
      <4>3. n % P(i) = (n % m) + ((n \div m) % 256) * m
        BY ONLY <4>1, <4>2
      <4>4. QED
        BY ONLY <4>3 DEF m
    <3>4. QED
      BY <1>3, <1>4, <2>2, <3>1, <3>3
  <2>3. QED
    BY <2>1, <2>2
<1>6. h = [i \in 0 .. width |-> Step(h, i)]
  <2>1. h = [i \in 0 .. width |-> h[i]]
    BY DEF h
  <2> HIDE DEF Step
  <2>2. QED
    BY <1>5, <2>1
<1>7. c = [i \in 0 .. width |-> Step(c, i)]
  <2> HIDE DEF Step
  <2> QED BY <1>6
<1> HIDE DEF c
<1>8. \A i \in 0 .. width : c[i] = Step(c, i)
  <2> HIDE DEF Step
  <2> QED BY <1>7
<1> DEFINE M == {m \in Nat : m <= width => c[m] = h[m]}
<1>9. 0 \in M
  BY <1>5, <1>8
<1>10. \A m \in Nat : m \in M => m + 1 \in M
  <2> SUFFICES ASSUME NEW m \in Nat, m \in M, m + 1 <= width
               PROVE  c[m + 1] = h[m + 1]
    OBVIOUS
  <2>1. m + 1 \in 0 .. width /\ (m + 1) - 1 = m /\ c[m] = h[m] /\ m + 1 # 0
    OBVIOUS
  <2>2. c[m + 1] = Step(c, m + 1) /\ h[m + 1] = Step(h, m + 1)
    BY <1>5, <1>8, <2>1
  <2>3. QED
    BY <2>1, <2>2
<1>11. Nat \subseteq M
  <2> HIDE DEF M
  <2> QED BY <1>9, <1>10, SetInduction
<1>12. QED
  BY <1>1, <1>4, <1>11 DEF P

LEMMA FieldIs ==
  ASSUME NEW n \in Int, NEW width \in Nat
  PROVE  /\ Field(n, width) \in Seq(Int) /\ Len(Field(n, width)) = width
         /\ \A i \in 1 .. width : Field(n, width)[i] = (n \div Power(256, i - 1)) % 256
<1>1. ASSUME NEW i \in 1 .. width
      PROVE  (n \div Power(256, i - 1)) % 256 \in Int
  <2>1. Power(256, i - 1) \in Nat \ {0}
    <3>1. 256 \in Nat \ {0} /\ i - 1 \in Nat
      OBVIOUS
    <3>2. QED
      BY <3>1, PowerIs
  <2>2. n \div Power(256, i - 1) \in Int
    BY <2>1
  <2>3. QED
    BY <2>2
<1>2. Field(n, width) \in [1 .. width -> Int]
  BY <1>1 DEF Field
<1>3. Field(n, width) \in Seq(Int) /\ Len(Field(n, width)) = width
  BY <1>2, LenProperties
<1>4. QED
  BY <1>3 DEF Field

(* Two's complement does not see what the field cuts.                      *)
LEMMA LongIs ==
  \A n \in Int : Long(n) \in Int /\ Long(n % Power(256, LongBytes)) = Long(n)
<1> TAKE n \in Int
<1> DEFINE m == Power(2, LongBits)
           h == m \div 2
<1>1. LongBits \in Nat /\ LongBytes \in Nat
  BY WidthsAssumption DEF LongBits
<1>2. m \in Nat \ {0}
  <2>1. 2 \in Nat \ {0}
    OBVIOUS
  <2>2. QED
    BY <1>1, <2>1, PowerIs
<1>3. Power(256, LongBytes) = m
  BY <1>1, BytePower DEF LongBits
<1>4. \A x : Long(x) = ((x + h) % m) - h
  BY DEF Long, Wrap
<1> HIDE DEF m
<1>5. h \in Int
  BY <1>2
<1> HIDE DEF h
<1> DEFINE q == n \div m
           r == n % m
<1>6. q \in Int /\ r \in 0 .. m - 1 /\ n = m * q + r
  BY <1>2, DivMod
<1> HIDE DEF q, r
<1>7. (n + h) % m = (r + h) % m
  <2> DEFINE a == (r + h) \div m
             b == (r + h) % m
  <2>1. a \in Int /\ b \in 0 .. m - 1 /\ r + h = m * a + b
    <3>1. r + h \in Int
      BY <1>5, <1>6
    <3>2. QED
      BY <1>2, <3>1, DivMod
  <2> HIDE DEF a, b
  <2>2. n + h = m * (q + a) + b
    <3>1. m * (q + a) = m * q + m * a
      BY <1>2, <1>6, <2>1
    <3>2. m * q \in Int /\ m * a \in Int
      BY <1>2, <1>6, <2>1
    <3>3. QED
      BY <1>5, <1>6, <2>1, <3>1, <3>2
  <2>3. q + a \in Int /\ n + h \in Int
    BY <1>5, <1>6, <2>1
  <2>4. (n + h) % m = b
    <3> DEFINE x == n + h
               y == q + a
    <3>1. x \in Int /\ y \in Int /\ x = m * y + b
      BY <2>2, <2>3
    <3> HIDE DEF x, y
    <3>2. \A k \in Int, j \in 0 .. m - 1 : x = m * k + j => x \div m = k /\ x % m = j
      BY <1>2, <3>1, DivMod
    <3>3. x % m = b
      BY <2>1, <3>1, <3>2, Zenon
    <3>4. QED
      BY <3>3 DEF x
  <2>5. QED
    BY <2>4 DEF b
<1>8. (n + h) % m \in Int
  BY <1>2, <1>5
<1>9. QED
  BY <1>3, <1>4, <1>5, <1>7, <1>8 DEF r

-----------------------------------------------------------------------------
(* Sequences joined one after the other.                                   *)
Joins(g, F, n) == g[0] = << >> /\ \A i \in 1 .. n : g[i] = g[i - 1] \o F[i]

LEMMA JoinsExists ==
  ASSUME NEW S, NEW n \in Nat, NEW F \in [1 .. n -> Seq(S)]
  PROVE  \E g \in [0 .. n -> Seq(S)] : Joins(g, F, n)
<1> DEFINE D == Seq(S)
           G == [i \in 1 .. n |-> [x \in D |-> x \o F[i]]]
<1>1. G \in [1 .. n -> [D -> D]]
  BY ConcatProperties
<1>2. \A i \in 1 .. n : \A x \in D : G[i][x] = x \o F[i]
  OBVIOUS
<1>3. << >> \in D
  BY EmptySeq
<1> HIDE DEF G, D
<1>4. PICK g \in [0 .. n -> D] : Unfolds(g, << >>, G, n)
  BY <1>1, <1>3, UnfoldsExists
<1>5. \A i \in 1 .. n : g[i] = g[i - 1] \o F[i]
  <2>1. \A i \in 1 .. n : g[i - 1] \in D
    OBVIOUS
  <2>2. QED
    BY <1>2, <1>4, <2>1 DEF Unfolds
<1>6. QED
  BY <1>4, <1>5 DEF Joins, Unfolds, D

LEMMA JoinsUnique ==
  ASSUME NEW n \in Nat, NEW F, NEW g, NEW h, Joins(g, F, n), Joins(h, F, n)
  PROVE  \A i \in 0 .. n : g[i] = h[i]
<1> DEFINE M == {m \in Nat : m <= n => g[m] = h[m]}
<1>1. 0 \in M
  BY DEF Joins
<1>2. \A m \in Nat : m \in M => m + 1 \in M
  <2> SUFFICES ASSUME NEW m \in Nat, m \in M, m + 1 <= n
               PROVE  g[m + 1] = h[m + 1]
    OBVIOUS
  <2>1. m + 1 \in 1 .. n /\ (m + 1) - 1 = m /\ g[m] = h[m]
    OBVIOUS
  <2>2. QED
    BY <2>1 DEF Joins
<1>3. Nat \subseteq M
  <2> HIDE DEF M
  <2> QED BY <1>1, <1>2, SetInduction
<1>4. QED
  BY <1>3

Cat(s, t) == s \o t

LEMMA CatAssociative ==
  \A S : \A x, y, z \in Seq(S) : Cat(Cat(x, y), z) = Cat(x, Cat(y, z))
  BY ConcatAssociative DEF Cat

(* g joins the parts F, and h those after the first.                       *)
JoinsTwice(S, n, F, G, g, h) ==
  /\ n \in Nat /\ F \in [1 .. n + 1 -> Seq(S)] /\ G \in [1 .. n -> Seq(S)]
  /\ \A i \in 1 .. n : G[i] = F[i + 1]
  /\ g \in [0 .. n + 1 -> Seq(S)] /\ Joins(g, F, n + 1)
  /\ h \in [0 .. n -> Seq(S)] /\ Joins(h, G, n)

LEMMA JoinsFirst ==
  ASSUME NEW S, NEW n, NEW F, NEW G, NEW g, NEW h, JoinsTwice(S, n, F, G, g, h)
  PROVE  g[n + 1] = Cat(F[1], h[n])
<1>0. /\ n \in Nat /\ F \in [1 .. n + 1 -> Seq(S)] /\ G \in [1 .. n -> Seq(S)]
      /\ \A i \in 1 .. n : G[i] = F[i + 1]
      /\ g \in [0 .. n + 1 -> Seq(S)] /\ Joins(g, F, n + 1)
      /\ h \in [0 .. n -> Seq(S)] /\ Joins(h, G, n)
  BY DEF JoinsTwice
<1> DEFINE D == Seq(S)
           P(m) == g[m + 1] = F[1] \o h[m]
           M == {m \in Nat : m <= n => P(m)}
<1>1. F[1] \in D /\ 1 \in 1 .. n + 1 /\ 1 - 1 = 0 /\ 0 + 1 = 1
  BY <1>0
<1>2. P(0)
  <2>1. g[1] = << >> \o F[1] /\ h[0] = << >>
    BY <1>0, <1>1 DEF Joins
  <2>2. << >> \o F[1] = F[1] /\ F[1] \o << >> = F[1]
    BY <1>1, ConcatEmptySeq
  <2>3. QED
    BY <1>1, <2>1, <2>2
<1>3. ASSUME NEW m \in Nat, m + 1 <= n, P(m)
      PROVE  P(m + 1)
  <2>1. /\ m + 1 \in 1 .. n /\ (m + 1) - 1 = m
        /\ (m + 1) + 1 \in 1 .. n + 1 /\ ((m + 1) + 1) - 1 = m + 1 /\ m \in 0 .. n
    BY <1>0, <1>3
  <2>2. g[(m + 1) + 1] = g[m + 1] \o F[(m + 1) + 1]
    BY <1>0, <2>1 DEF Joins
  <2>3. h[m + 1] = h[m] \o G[m + 1] /\ G[m + 1] = F[(m + 1) + 1]
    BY <1>0, <2>1 DEF Joins
  <2>4. G[m + 1] \in D /\ h[m] \in D
    BY <1>0, <2>1
  <2>5. (F[1] \o h[m]) \o G[m + 1] = F[1] \o (h[m] \o G[m + 1])
    <3>1. Cat(Cat(F[1], h[m]), G[m + 1]) = Cat(F[1], Cat(h[m], G[m + 1]))
      BY <1>1, <2>4, CatAssociative
    <3>2. QED
      BY <3>1 DEF Cat
  <2>6. QED
    BY <1>3, <2>2, <2>3, <2>5
<1> HIDE DEF P
<1>4. 0 \in M
  BY <1>0, <1>2
<1>5. \A m \in Nat : m \in M => m + 1 \in M
  BY <1>0, <1>3
<1>6. Nat \subseteq M
  <2> HIDE DEF M
  <2> QED BY <1>4, <1>5, SetInduction
<1>7. P(n)
  BY <1>0, <1>6
<1>8. QED
  BY <1>7 DEF P, Cat

(* A sequence that begins with a given element.                            *)
LEMMA ConsIs ==
  ASSUME NEW S, NEW x \in S, NEW s \in Seq(S)
  PROVE  /\ <<x>> \o s \in Seq(S) /\ Len(<<x>> \o s) = Len(s) + 1 /\ <<x>> \o s # << >>
         /\ (<<x>> \o s)[1] = x /\ Head(<<x>> \o s) = x /\ Tail(<<x>> \o s) = s
         /\ \A i \in 1 .. Len(s) : (<<x>> \o s)[i + 1] = s[i]
<1> DEFINE u == <<x>> \o s
<1>1. <<x>> \in Seq(S) /\ Len(<<x>>) = 1 /\ <<x>>[1] = x /\ Len(s) \in Nat
  BY LenProperties
<1>2. /\ u \in Seq(S) /\ Len(u) = 1 + Len(s)
      /\ \A i \in 1 .. 1 + Len(s) : u[i] = IF i <= 1 THEN <<x>>[i] ELSE s[i - 1]
  BY <1>1, ConcatProperties
<1> HIDE DEF u
<1>3. u[1] = x /\ \A i \in 1 .. Len(s) : u[i + 1] = s[i]
  BY <1>1, <1>2
<1>4. u # << >>
  BY <1>1, <1>2, EmptySeq
<1>5. Head(u) = x
  BY <1>2, <1>3, <1>4 DEF u
<1>6. /\ Tail(u) \in Seq(S) /\ Len(Tail(u)) = Len(s)
      /\ \A i \in 1 .. Len(s) : Tail(u)[i] = s[i]
  BY <1>1, <1>2, <1>3, <1>4, HeadTailProperties
<1>7. Tail(u) = s
  BY <1>6, SeqEqual
<1>8. QED
  BY <1>1, <1>2, <1>3, <1>4, <1>5, <1>7 DEF u

(* What is left of a stream after its first part.                          *)
LEMMA RestIs ==
  ASSUME NEW S, NEW s \in Seq(S), NEW t \in Seq(S)
  PROVE  SubSeq(s \o t, Len(s) + 1, Len(s \o t)) = t
<1> DEFINE m == Len(s) + 1
           n == Len(s \o t)
           u == s \o t
           r == SubSeq(u, m, n)
<1>1. /\ Len(s) \in Nat /\ Len(t) \in Nat /\ u \in Seq(S) /\ n = Len(s) + Len(t)
      /\ \A i \in 1 .. Len(s) + Len(t) : u[i] = IF i <= Len(s) THEN s[i] ELSE t[i - Len(s)]
  BY ConcatProperties, LenProperties
<1> HIDE DEF u
<1>2. \A i \in m .. n : u[i] \in S
  BY <1>1, ElementOfSeq DEF u
<1>3. m \in Int /\ n \in Int /\ n - m + 1 = Len(t) /\ (m <= n \/ Len(t) = 0)
  BY <1>1
<1>4. /\ r \in Seq(S) /\ Len(r) = Len(t)
      /\ \A i \in 1 .. Len(t) : r[i] = u[m + i - 1]
  <2> HIDE DEF m, n
  <2>1. /\ r \in Seq(S) /\ Len(r) = (IF m <= n THEN n - m + 1 ELSE 0)
        /\ \A i \in 1 .. n - m + 1 : r[i] = u[m + i - 1]
    BY <1>2, <1>3, SubSeqProperties
  <2>2. QED
    BY <1>1, <1>3, <2>1
<1> HIDE DEF r
<1>5. \A i \in 1 .. Len(t) : r[i] = t[i]
  <2> TAKE i \in 1 .. Len(t)
  <2>1. m + i - 1 = Len(s) + i /\ Len(s) + i \in 1 .. Len(s) + Len(t)
        /\ ~(Len(s) + i <= Len(s)) /\ (Len(s) + i) - Len(s) = i
    BY <1>1
  <2>2. r[i] = u[Len(s) + i]
    BY <1>4, <2>1
  <2>3. u[Len(s) + i] = t[(Len(s) + i) - Len(s)]
    BY <1>1, <2>1
  <2>4. QED
    BY <2>1, <2>2, <2>3
<1>6. r = t
  BY <1>4, <1>5, SeqEqual
<1>7. QED
  BY <1>6 DEF r, m, n, u

-----------------------------------------------------------------------------
(* Instructions and what their bytes are.                                  *)
Instr ==
  [op : {"load"}, to : Locations, value : Literal]
    \cup [op : {"mov", "cmp"} \cup BinOps, to : Locations, from : Locations]
    \cup [op : {"jmp"}, mode : DOMAIN JumpMode, of : Locations]
    \cup [op : {"push", "call", "print"}, of : Locations]
    \cup [op : {"pop"}, count : Nat]

LEMMA BinOpsIs ==
  /\ BinOps = {"add", "sub", "mul", "div", "mod", "xor", "and", "or", "shl", "shr"}
  /\ \A op \in BinOps : Operator(op) = Named[op]
  /\ DOMAIN Named = BinOps \cup {"load", "mov", "cmp", "jmp", "push", "pop", "call", "print"}
  /\ \A op \in DOMAIN Named : Named[op] \in Nat
<1>1. DOMAIN Arithmetic = {"add", "sub", "mul", "div", "mod"}
  BY DEF Arithmetic
<1>2. DOMAIN Bitwise = {"xor", "and", "or", "shl", "shr"}
  BY DEF Bitwise
<1>3. BinOps = {"add", "sub", "mul", "div", "mod", "xor", "and", "or", "shl", "shr"}
  BY <1>1, <1>2 DEF BinOps
<1>4. DOMAIN Named = BinOps \cup {"load", "mov", "cmp", "jmp", "push", "pop", "call", "print"}
  BY <1>3 DEF Named
<1>5. \A op \in BinOps : Operator(op) = Named[op]
  BY <1>1, <1>2, <1>3 DEF Operator, Arithmetic, Bitwise, Named
<1>6. \A op \in DOMAIN Named : Named[op] \in Nat
  BY DEF Named
<1>7. QED
  BY <1>3, <1>4, <1>5, <1>6

(* No two instructions have one number.                                    *)
LEMMA NamedApart ==
  \A p, q \in DOMAIN Named : Named[p] = Named[q] => p = q
<1> DEFINE back ==
      [n \in Nat |->
         CASE n = 1 -> "load" [] n = 2 -> "mov" [] n = 4 -> "cmp" [] n = 5 -> "jmp"
           [] n = 6 -> "push" [] n = 7 -> "pop" [] n = 8 -> "add" [] n = 9 -> "sub"
           [] n = 10 -> "mul" [] n = 11 -> "div" [] n = 12 -> "mod" [] n = 13 -> "xor"
           [] n = 14 -> "and" [] n = 15 -> "or" [] n = 16 -> "shl" [] n = 17 -> "shr"
           [] n = 20 -> "call" [] n = 21 -> "print"]
<1>1. \A p \in DOMAIN Named : back[Named[p]] = p
  BY BinOpsIs DEF Named
<1> HIDE DEF back
<1>2. QED
  BY <1>1

LEMMA SizesAre ==
  /\ {LocBytes, LongBytes, CountBytes} \subseteq Nat \ {0}
  /\ Size("load") = 1 + LocBytes + LongBytes
  /\ \A op \in {"mov", "cmp"} \cup BinOps : Size(op) = 1 + 2 * LocBytes
  /\ \A op \in {"jmp", "push", "call", "print"} : Size(op) = 1 + LocBytes
  /\ Size("pop") = 1 + CountBytes
  /\ \A op \in DOMAIN Named : Size(op) \in Nat \ {0}
<1>1. {LocBytes, LongBytes, CountBytes} \subseteq Nat \ {0}
  BY WidthsAssumption
<1>2. Size("load") = 1 + LocBytes + LongBytes
  BY BinOpsIs DEF Size
<1>3. \A op \in {"mov", "cmp"} \cup BinOps : Size(op) = 1 + 2 * LocBytes
  BY BinOpsIs DEF Size
<1>4. \A op \in {"jmp", "push", "call", "print"} : Size(op) = 1 + LocBytes
  BY BinOpsIs DEF Size
<1>5. Size("pop") = 1 + CountBytes
  BY BinOpsIs DEF Size
<1>6. \A op \in DOMAIN Named : Size(op) \in Nat \ {0}
  BY <1>1, <1>2, <1>3, <1>4, <1>5, BinOpsIs
<1>7. QED
  BY <1>1, <1>2, <1>3, <1>4, <1>5, <1>6

LEMMA PayloadIs ==
  ASSUME NEW l \in Locations
  PROVE  /\ Payload(l) = Magnitude(l.at) * 16 + StoreNumber[l.store]
                           + (IF l.at < 0 THEN 8 ELSE 12)
         /\ Payload(l) \in Nat /\ Magnitude(l.at) \in Nat /\ StoreNumber[l.store] \in 1 .. 3
<1>1. l.at \in Int /\ l.store \in {"R", "S", "L"}
  BY DEF Locations
<1>2. Magnitude(l.at) \in Nat
  BY <1>1 DEF Magnitude
<1>3. StoreNumber[l.store] \in 1 .. 3
  BY <1>1 DEF StoreNumber
<1>4. QED
  BY <1>1, <1>2, <1>3 DEF Payload

(* From a place on, a number's bytes.                                      *)
Holding(bytes, skip, n, width) ==
  \A b \in 1 .. width : bytes[skip + b] = (n \div Power(256, b - 1)) % 256

(* An opcode's byte and up to two fields after it.                         *)
Opened(x, m, v) == <<x>> \o Field(m, v)

LEMMA OneField ==
  ASSUME NEW x \in Int, NEW m \in Int, NEW v \in Nat
  PROVE  /\ Opened(x, m, v) \in Seq(Int) /\ Len(Opened(x, m, v)) = 1 + v
         /\ Opened(x, m, v)[1] = x /\ Holding(Opened(x, m, v), 1, m, v)
<1>1. /\ Field(m, v) \in Seq(Int) /\ Len(Field(m, v)) = v
      /\ \A b \in 1 .. v : Field(m, v)[b] = (m \div Power(256, b - 1)) % 256
  BY FieldIs
<1>2. PICK s : s = Field(m, v)
  OBVIOUS
<1>3. PICK u : u = <<x>> \o s
  OBVIOUS
<1>4. s \in Seq(Int)
  BY <1>1, <1>2
<1>5. /\ u \in Seq(Int) /\ Len(u) = Len(s) + 1 /\ u[1] = x
      /\ \A b \in 1 .. Len(s) : u[b + 1] = s[b]
  BY <1>3, <1>4, ConsIs
<1>6. \A b \in 1 .. v : 1 + b = b + 1
  OBVIOUS
<1>7. u = Opened(x, m, v)
  BY <1>2, <1>3 DEF Opened
<1>8. Len(u) = 1 + v
  BY <1>1, <1>2, <1>5
<1>9. Holding(u, 1, m, v)
  BY <1>1, <1>2, <1>5, <1>6 DEF Holding
<1>10. QED
  BY <1>5, <1>7, <1>8, <1>9

LEMMA TwoFields ==
  ASSUME NEW x \in Int, NEW m \in Int, NEW v \in Nat, NEW n \in Int, NEW w \in Nat
  PROVE  LET u == Cat(Opened(x, m, v), Field(n, w)) IN
         /\ u \in Seq(Int) /\ Len(u) = 1 + v + w /\ u[1] = x
         /\ Holding(u, 1, m, v) /\ Holding(u, 1 + v, n, w)
<1> DEFINE u == Cat(Opened(x, m, v), Field(n, w))
<1>1. PICK s : s = Opened(x, m, v)
  OBVIOUS
<1>2. PICK t : t = Field(n, w)
  OBVIOUS
<1>3. s \in Seq(Int) /\ Len(s) = 1 + v /\ s[1] = x /\ Holding(s, 1, m, v)
  BY <1>1, OneField
<1>4. /\ t \in Seq(Int) /\ Len(t) = w
      /\ \A b \in 1 .. w : t[b] = (n \div Power(256, b - 1)) % 256
  <2>1. /\ Field(n, w) \in Seq(Int) /\ Len(Field(n, w)) = w
        /\ \A b \in 1 .. w : Field(n, w)[b] = (n \div Power(256, b - 1)) % 256
    BY FieldIs
  <2>2. QED
    BY <1>2, <2>1
<1>5. u = s \o t
  BY <1>1, <1>2 DEF Cat
<1> HIDE DEF u
<1>6. /\ u \in Seq(Int) /\ Len(u) = Len(s) + Len(t)
      /\ \A b \in 1 .. Len(s) + Len(t) : u[b] = IF b <= Len(s) THEN s[b] ELSE t[b - Len(s)]
  <2>1. /\ s \o t \in Seq(Int) /\ Len(s \o t) = Len(s) + Len(t)
        /\ \A b \in 1 .. Len(s) + Len(t) :
             (s \o t)[b] = IF b <= Len(s) THEN s[b] ELSE t[b - Len(s)]
    <3>1. s \in Seq(Int) /\ t \in Seq(Int)
      BY <1>3, <1>4
    <3>2. QED
      BY <3>1, ConcatProperties
  <2>2. QED
    BY <1>5, <2>1
<1>7. u[1] = x /\ Len(u) = 1 + v + w
  BY <1>3, <1>4, <1>6
<1>8. Holding(u, 1, m, v)
  <2> SUFFICES ASSUME NEW b \in 1 .. v
               PROVE  u[1 + b] = (m \div Power(256, b - 1)) % 256
    BY DEF Holding
  <2>1. 1 + b \in 1 .. Len(s) + Len(t) /\ 1 + b <= Len(s)
    BY <1>3, <1>4
  <2>2. u[1 + b] = s[1 + b]
    BY <1>6, <2>1
  <2>3. QED
    BY <1>3, <2>2 DEF Holding
<1>9. Holding(u, 1 + v, n, w)
  <2> SUFFICES ASSUME NEW b \in 1 .. w
               PROVE  u[(1 + v) + b] = (n \div Power(256, b - 1)) % 256
    BY DEF Holding
  <2>1. (1 + v) + b \in 1 .. Len(s) + Len(t) /\ ~((1 + v) + b <= Len(s))
        /\ ((1 + v) + b) - Len(s) = b
    BY <1>3, <1>4
  <2>2. u[(1 + v) + b] = t[((1 + v) + b) - Len(s)]
    BY <1>6, <2>1
  <2>3. QED
    BY <1>4, <2>1, <2>2
<1>10. QED
  BY <1>6, <1>7, <1>8, <1>9 DEF u

LEMMA EncodeIs ==
  ASSUME NEW i \in Instr
  PROVE  /\ Encode(i) \in Seq(Int) /\ i.op \in DOMAIN Named /\ Len(Encode(i)) = Size(i.op)
         /\ Opcode(Encode(i)[1]) = Named[i.op]
         /\ i.op \in {"load", "mov", "cmp"} \cup BinOps =>
              /\ i.to \in Locations
              /\ Holding(Encode(i), 1, Payload(i.to), LocBytes)
         /\ i.op \in {"mov", "cmp"} \cup BinOps =>
              /\ i.from \in Locations
              /\ Holding(Encode(i), 1 + LocBytes, Payload(i.from), LocBytes)
         /\ i.op \in {"jmp", "push", "call", "print"} =>
              /\ i.of \in Locations
              /\ Holding(Encode(i), 1, Payload(i.of), LocBytes)
         /\ i.op = "jmp" =>
              i.mode \in DOMAIN JumpMode /\ Flags(Encode(i)[1]) = JumpMode[i.mode]
         /\ i.op = "load" =>
              i.value \in Literal /\ Holding(Encode(i), 1 + LocBytes, i.value, LongBytes)
         /\ i.op = "pop" =>
              i.count \in Nat /\ Holding(Encode(i), 1, i.count, CountBytes)
<1>1. \A c \in Nat : \A f \in 0 .. 7 :
        c * 8 + f \in Int /\ Opcode(c * 8 + f) = c /\ Flags(c * 8 + f) = f
  BY DEF Opcode, Flags
<1>2. LocBytes \in Nat /\ LongBytes \in Nat /\ CountBytes \in Nat /\ 0 \in 0 .. 7
  BY SizesAre
<1>3. \A n \in {1, 2, 4, 5, 6, 7, 20, 21} : n \in Nat
  OBVIOUS
<1>4. CASE i.op = "load"
  <2>1. i.to \in Locations /\ i.value \in Literal /\ i.op \notin BinOps
    BY <1>4, BinOpsIs DEF Instr
  <2>2. Encode(i) = Cat(Opened(1 * 8 + 2, Payload(i.to), LocBytes), Field(i.value, LongBytes))
    <3>1. Encode(i) = EncodeLoad(i)
      BY <1>4, <2>1 DEF Encode
    <3>2. QED
      BY <3>1 DEF EncodeLoad, Code, Location, Opened, Cat
  <2>3. 2 \in 0 .. 7 /\ Named["load"] = 1 /\ "load" \in DOMAIN Named
    BY BinOpsIs DEF Named
  <2>4. i.value \in Int /\ Payload(i.to) \in Int /\ 1 * 8 + 2 \in Int
    BY <2>1, PayloadIs, LiteralAssumption
  <2>5. /\ Encode(i) \in Seq(Int) /\ Len(Encode(i)) = 1 + LocBytes + LongBytes
        /\ Encode(i)[1] = 1 * 8 + 2
        /\ Holding(Encode(i), 1, Payload(i.to), LocBytes)
        /\ Holding(Encode(i), 1 + LocBytes, i.value, LongBytes)
    <3> DEFINE x == 1 * 8 + 2
               m == Payload(i.to)
               n == i.value
    <3>1. x \in Int /\ m \in Int /\ n \in Int
          /\ Encode(i) = Cat(Opened(x, m, LocBytes), Field(n, LongBytes))
      BY <2>2, <2>4
    <3> HIDE DEF x, m, n
    <3> DEFINE u == Encode(i)
    <3> HIDE DEF u
    <3>2. u = Cat(Opened(x, m, LocBytes), Field(n, LongBytes))
      BY <3>1 DEF u
    <3>3. /\ u \in Seq(Int) /\ Len(u) = 1 + LocBytes + LongBytes /\ u[1] = x
          /\ Holding(u, 1, m, LocBytes) /\ Holding(u, 1 + LocBytes, n, LongBytes)
      <4> DEFINE v == Cat(Opened(x, m, LocBytes), Field(n, LongBytes))
      <4>1. /\ v \in Seq(Int) /\ Len(v) = 1 + LocBytes + LongBytes /\ v[1] = x
            /\ Holding(v, 1, m, LocBytes) /\ Holding(v, 1 + LocBytes, n, LongBytes)
        BY <1>2, <3>1, TwoFields
      <4>2. QED
        BY <3>2, <4>1
    <3>4. QED
      BY <3>3 DEF x, m, n, u
  <2>6. QED
    BY <1>1, <1>3, <1>4, <2>1, <2>3, <2>5, SizesAre
<1>5. CASE i.op \in {"mov", "cmp"} \cup BinOps
  <2>1. i.to \in Locations /\ i.from \in Locations
    BY <1>5, BinOpsIs DEF Instr
  <2>2. Encode(i) = Cat(Opened(Named[i.op] * 8 + 0, Payload(i.to), LocBytes),
                        Field(Payload(i.from), LocBytes))
    <3>1. CASE i.op = "mov"
      <4>1. Encode(i) = EncodeMov(i)
        BY <3>1, BinOpsIs DEF Encode
      <4>2. Named[i.op] = 2
        BY <3>1 DEF Named
      <4>3. QED
        BY <4>1, <4>2 DEF EncodeMov, Code, Location, Opened, Cat
    <3>2. CASE i.op = "cmp"
      <4>1. Encode(i) = EncodeCmp(i)
        BY <3>2, BinOpsIs DEF Encode
      <4>2. Named[i.op] = 4
        BY <3>2 DEF Named
      <4>3. QED
        BY <4>1, <4>2 DEF EncodeCmp, Code, Location, Opened, Cat
    <3>3. CASE i.op \in BinOps
      <4>1. Encode(i) = EncodeBinOp(i)
        BY <3>3, BinOpsIs DEF Encode
      <4>2. Operator(i.op) = Named[i.op]
        BY <3>3, BinOpsIs
      <4>3. QED
        BY <4>1, <4>2 DEF EncodeBinOp, Code, Location, Opened, Cat
    <3>4. QED
      BY <1>5, <3>1, <3>2, <3>3
  <2>3. i.op \in DOMAIN Named /\ Named[i.op] \in Nat
    BY <1>5, BinOpsIs
  <2>4. Payload(i.to) \in Int /\ Payload(i.from) \in Int /\ Named[i.op] * 8 + 0 \in Int
    <3>1. Payload(i.to) \in Nat /\ Payload(i.from) \in Nat
      BY <2>1, PayloadIs
    <3>2. QED
      BY <2>3, <3>1
  <2>5. /\ Encode(i) \in Seq(Int) /\ Len(Encode(i)) = 1 + LocBytes + LocBytes
        /\ Encode(i)[1] = Named[i.op] * 8 + 0
        /\ Holding(Encode(i), 1, Payload(i.to), LocBytes)
        /\ Holding(Encode(i), 1 + LocBytes, Payload(i.from), LocBytes)
    <3> DEFINE x == Named[i.op] * 8 + 0
               m == Payload(i.to)
               n == Payload(i.from)
               u == Encode(i)
    <3>1. x \in Int /\ m \in Int /\ n \in Int
          /\ u = Cat(Opened(x, m, LocBytes), Field(n, LocBytes))
      BY <2>2, <2>4
    <3> HIDE DEF x, m, n, u
    <3>2. /\ u \in Seq(Int) /\ Len(u) = 1 + LocBytes + LocBytes /\ u[1] = x
          /\ Holding(u, 1, m, LocBytes) /\ Holding(u, 1 + LocBytes, n, LocBytes)
      <4> DEFINE v == Cat(Opened(x, m, LocBytes), Field(n, LocBytes))
      <4>1. /\ v \in Seq(Int) /\ Len(v) = 1 + LocBytes + LocBytes /\ v[1] = x
            /\ Holding(v, 1, m, LocBytes) /\ Holding(v, 1 + LocBytes, n, LocBytes)
        BY <1>2, <3>1, TwoFields
      <4>2. QED
        BY <3>1, <4>1
    <3>3. QED
      BY <3>2 DEF x, m, n, u
  <2>6. Size(i.op) = 1 + LocBytes + LocBytes
    <3>1. Size(i.op) = 1 + 2 * LocBytes
      BY <1>5, SizesAre
    <3>2. QED
      BY <1>2, <3>1
  <2>7. Opcode(Encode(i)[1]) = Named[i.op]
    BY <1>1, <1>2, <2>3, <2>5
  <2>8. i.op \notin {"jmp", "push", "call", "print", "load", "pop"}
    BY <1>5, BinOpsIs
  <2>9. QED
    BY <1>5, <2>1, <2>3, <2>5, <2>6, <2>7, <2>8
<1>6. CASE i.op \in {"jmp", "push", "call", "print"}
  <2> DEFINE f == IF i.op = "jmp" THEN JumpMode[i.mode] ELSE 0
  <2>1. i.of \in Locations /\ i.op \notin BinOps /\ (i.op = "jmp" => i.mode \in DOMAIN JumpMode)
    BY <1>6, BinOpsIs DEF Instr
  <2>2. Encode(i) = Opened(Named[i.op] * 8 + f, Payload(i.of), LocBytes)
    <3>1. CASE i.op = "jmp"
      <4>1. Encode(i) = EncodeJmp(i)
        BY <2>1, <3>1 DEF Encode
      <4>2. Named[i.op] = 5 /\ f = JumpMode[i.mode]
        BY <3>1 DEF Named
      <4>3. QED
        BY <4>1, <4>2 DEF EncodeJmp, Code, Location, Opened
    <3>2. CASE i.op = "push"
      <4>1. Encode(i) = EncodePush(i)
        BY <2>1, <3>2 DEF Encode
      <4>2. Named[i.op] = 6 /\ f = 0
        BY <3>2 DEF Named
      <4>3. QED
        BY <4>1, <4>2 DEF EncodePush, Code, Location, Opened
    <3>3. CASE i.op = "call"
      <4>1. Encode(i) = EncodeCall(i)
        BY <2>1, <3>3 DEF Encode
      <4>2. Named[i.op] = 20 /\ f = 0
        BY <3>3 DEF Named
      <4>3. QED
        BY <4>1, <4>2 DEF EncodeCall, Code, Location, Opened
    <3>4. CASE i.op = "print"
      <4>1. Encode(i) = EncodePrint(i)
        BY <2>1, <3>4 DEF Encode
      <4>2. Named[i.op] = 21 /\ f = 0
        BY <3>4 DEF Named
      <4>3. QED
        BY <4>1, <4>2 DEF EncodePrint, Code, Location, Opened
    <3>5. QED
      BY <1>6, <3>1, <3>2, <3>3, <3>4
  <2>3. i.op \in DOMAIN Named /\ Named[i.op] \in Nat
    BY <1>6, BinOpsIs
  <2>4. f \in 0 .. 7
    BY <2>1 DEF JumpMode
  <2> HIDE DEF f
  <2>5. Payload(i.of) \in Int /\ Named[i.op] * 8 + f \in Int
    <3>1. Payload(i.of) \in Nat
      BY <2>1, PayloadIs
    <3>2. QED
      BY <2>3, <2>4, <3>1
  <2>6. /\ Encode(i) \in Seq(Int) /\ Len(Encode(i)) = 1 + LocBytes
        /\ Encode(i)[1] = Named[i.op] * 8 + f
        /\ Holding(Encode(i), 1, Payload(i.of), LocBytes)
    <3> DEFINE x == Named[i.op] * 8 + f
               m == Payload(i.of)
    <3>1. x \in Int /\ m \in Int /\ Encode(i) = Opened(x, m, LocBytes)
      BY <2>2, <2>5
    <3> HIDE DEF x, m
    <3>2. /\ Opened(x, m, LocBytes) \in Seq(Int) /\ Len(Opened(x, m, LocBytes)) = 1 + LocBytes
          /\ Opened(x, m, LocBytes)[1] = x
          /\ Holding(Opened(x, m, LocBytes), 1, m, LocBytes)
      BY <1>2, <3>1, OneField
    <3>3. QED
      BY <3>1, <3>2 DEF x, m
  <2>7. Opcode(Encode(i)[1]) = Named[i.op] /\ Flags(Encode(i)[1]) = f
    BY <1>1, <2>3, <2>4, <2>6
  <2>8. Size(i.op) = 1 + LocBytes
    BY <1>6, SizesAre
  <2>9. QED
    BY <1>6, <2>1, <2>3, <2>6, <2>7, <2>8 DEF f
<1>7. CASE i.op = "pop"
  <2>1. i.count \in Nat /\ i.op \notin BinOps
    BY <1>7, BinOpsIs DEF Instr
  <2>2. Encode(i) = Opened(7 * 8 + 0, i.count, CountBytes)
    <3>1. Encode(i) = EncodePop(i)
      BY <1>7, <2>1 DEF Encode
    <3>2. QED
      BY <3>1 DEF EncodePop, Code, Opened
  <2>3. Named["pop"] = 7 /\ "pop" \in DOMAIN Named
    BY BinOpsIs DEF Named
  <2> DEFINE x == 7 * 8 + 0
  <2>6. x \in Int /\ i.count \in Int
    BY <2>1
  <2> HIDE DEF x
  <2>4. /\ Encode(i) \in Seq(Int) /\ Len(Encode(i)) = 1 + CountBytes
        /\ Encode(i)[1] = x
        /\ Holding(Encode(i), 1, i.count, CountBytes)
    <3> DEFINE n == i.count
    <3>1. Encode(i) = Opened(x, n, CountBytes) /\ n \in Int
      BY <2>2, <2>6 DEF x
    <3> HIDE DEF n
    <3>2. /\ Opened(x, n, CountBytes) \in Seq(Int) /\ Len(Opened(x, n, CountBytes)) = 1 + CountBytes
          /\ Opened(x, n, CountBytes)[1] = x
          /\ Holding(Opened(x, n, CountBytes), 1, n, CountBytes)
      BY <1>2, <2>6, <3>1, OneField
    <3>3. QED
      BY <3>1, <3>2 DEF n
  <2>5. QED
    BY <1>1, <1>2, <1>3, <1>7, <2>1, <2>3, <2>4, SizesAre DEF x
<1>8. QED
  BY <1>4, <1>5, <1>6, <1>7, BinOpsIs DEF Instr
-----------------------------------------------------------------------------
(* What remains of parts joined one after the other, before a given end.   *)
Rest(r, F, n, t) == r[n] = t /\ \A m \in 0 .. n - 1 : r[m] = F[m + 1] \o r[m + 1]

LEMMA RestExists ==
  ASSUME NEW S, NEW n \in Nat, NEW F \in [1 .. n -> Seq(S)], NEW t \in Seq(S)
  PROVE  \E r \in [0 .. n -> Seq(S)] : Rest(r, F, n, t)
<1> DEFINE D == Seq(S)
           G == [i \in 1 .. n |-> [x \in D |-> F[(n - i) + 1] \o x]]
<1>1. G \in [1 .. n -> [D -> D]]
  <2>1. \A i \in 1 .. n : F[(n - i) + 1] \in D
    OBVIOUS
  <2>2. QED
    BY <2>1, ConcatProperties
<1>2. \A i \in 1 .. n : \A x \in D : G[i][x] = F[(n - i) + 1] \o x
  OBVIOUS
<1> HIDE DEF G, D
<1>3. t \in D
  BY DEF D
<1>4. PICK g \in [0 .. n -> D] : Unfolds(g, t, G, n)
  BY <1>1, <1>3, UnfoldsExists
<1> DEFINE r == [m \in 0 .. n |-> g[n - m]]
<1>5. r \in [0 .. n -> D]
  OBVIOUS
<1>6. \A m \in 0 .. n : r[m] = g[n - m]
  OBVIOUS
<1> HIDE DEF r
<1>7. r[n] = t
  <2>1. n \in 0 .. n /\ n - n = 0
    OBVIOUS
  <2>2. QED
    BY <1>4, <1>6, <2>1 DEF Unfolds
<1>8. \A m \in 0 .. n - 1 : r[m] = F[m + 1] \o r[m + 1]
  <2> TAKE m \in 0 .. n - 1
  <2>1. /\ n - m \in 1 .. n /\ (n - m) - 1 = n - (m + 1) /\ m + 1 \in 0 .. n /\ m \in 0 .. n
        /\ (n - (n - m)) + 1 = m + 1 /\ n - (m + 1) \in 0 .. n
    OBVIOUS
  <2>2. g[n - m] = G[n - m][g[(n - m) - 1]]
    BY <1>4, <2>1 DEF Unfolds
  <2>3. g[n - (m + 1)] \in D
    BY <1>4, <2>1
  <2>4. g[n - m] = F[m + 1] \o g[n - (m + 1)]
    BY <1>2, <2>1, <2>2, <2>3
  <2>5. QED
    BY <1>6, <2>1, <2>4
<1>9. QED
  BY <1>5, <1>7, <1>8 DEF Rest, D

(* g joins the parts F, and r is what remains of them before t.            *)
Splits(S, n, F, g, r, t) ==
  /\ n \in Nat /\ F \in [1 .. n -> Seq(S)] /\ t \in Seq(S)
  /\ g \in [0 .. n -> Seq(S)] /\ Joins(g, F, n)
  /\ r \in [0 .. n -> Seq(S)] /\ Rest(r, F, n, t)

LEMMA RestJoins ==
  ASSUME NEW S, NEW n, NEW F, NEW g, NEW r, NEW t, Splits(S, n, F, g, r, t)
  PROVE  /\ \A m \in 0 .. n : Cat(g[m], r[m]) = r[0]
         /\ r[0] = Cat(g[n], t)
<1>0. /\ n \in Nat /\ F \in [1 .. n -> Seq(S)] /\ t \in Seq(S)
      /\ g \in [0 .. n -> Seq(S)] /\ Joins(g, F, n)
      /\ r \in [0 .. n -> Seq(S)] /\ Rest(r, F, n, t)
  BY DEF Splits
<1> DEFINE P(m) == Cat(g[m], r[m]) = r[0]
           M == {m \in Nat : m <= n => P(m)}
<1>1. P(0)
  <2>1. g[0] = << >> /\ r[0] \in Seq(S)
    BY <1>0 DEF Joins
  <2>2. << >> \o r[0] = r[0]
    BY <2>1, ConcatEmptySeq
  <2>3. QED
    BY <2>1, <2>2 DEF Cat
<1>2. ASSUME NEW m \in Nat, P(m), m + 1 <= n
      PROVE  P(m + 1)
  <2>1. m + 1 \in 1 .. n /\ (m + 1) - 1 = m /\ m \in 0 .. n - 1 /\ m \in 0 .. n /\ m + 1 \in 0 .. n
    BY <1>0, <1>2
  <2>2. g[m + 1] = Cat(g[m], F[m + 1]) /\ r[m] = Cat(F[m + 1], r[m + 1])
    BY <1>0, <2>1 DEF Joins, Rest, Cat
  <2>3. g[m] \in Seq(S) /\ F[m + 1] \in Seq(S) /\ r[m + 1] \in Seq(S)
    BY <1>0, <2>1
  <2>4. Cat(Cat(g[m], F[m + 1]), r[m + 1]) = Cat(g[m], Cat(F[m + 1], r[m + 1]))
    <3>1. \A x, y, z \in Seq(S) : Cat(Cat(x, y), z) = Cat(x, Cat(y, z))
      BY CatAssociative
    <3>2. QED
      BY Zenon, <2>3, <3>1
  <2>5. Cat(g[m], r[m]) = r[0]
    BY <1>2, <2>1
  <2>6. QED
    BY <2>2, <2>4, <2>5
<1> HIDE DEF P
<1>3. \A m \in Nat : m \in M => m + 1 \in M
  BY <1>0, <1>2
<1>4. Nat \subseteq M
  <2>1. 0 \in M
    BY <1>1
  <2> HIDE DEF M
  <2> QED BY <2>1, <1>3, SetInduction
<1>5. r[n] = t
  BY <1>0 DEF Rest
<1>6. \A m \in 0 .. n : P(m)
  BY <1>4
<1>7. QED
  BY <1>0, <1>5, <1>6 DEF P

-----------------------------------------------------------------------------
(* Streams of instructions.                                                *)
LEMMA EncodeAllJoins ==
  ASSUME NEW is \in Seq(Instr), NEW F, F = [k \in 1 .. Len(is) |-> Encode(is[k])]
  PROVE  /\ F \in [1 .. Len(is) -> Seq(Int)]
         /\ \E g \in [0 .. Len(is) -> Seq(Int)] :
              Joins(g, F, Len(is)) /\ EncodeAll(is) = g[Len(is)]
<1> DEFINE n == Len(is)
           Step(g, i) == IF i = 0 THEN << >> ELSE g[i - 1] \o Encode(is[i])
           c == CHOOSE g : g = [i \in 0 .. n |-> Step(g, i)]
<1>1. EncodeAll(is) = c[n]
  BY Zenon DEF EncodeAll
<1>2. n \in Nat /\ \A k \in 1 .. n : is[k] \in Instr
  BY LenProperties, ElementOfSeq
<1>3. \A k \in 1 .. n : Encode(is[k]) \in Seq(Int)
  BY <1>2, EncodeIs
<1>4. F \in [1 .. n -> Seq(Int)]
  BY <1>3
<1>5. \A k \in 1 .. n : F[k] = Encode(is[k])
  OBVIOUS
<1>6. PICK h \in [0 .. n -> Seq(Int)] : Joins(h, F, n)
  BY <1>2, <1>4, JoinsExists
<1>7. ASSUME NEW i \in 0 .. n PROVE h[i] = Step(h, i)
  <2>1. CASE i = 0
    BY <1>6, <2>1 DEF Joins
  <2>2. CASE i # 0
    <3>1. i \in 1 .. n
      BY <1>2, <2>2
    <3>2. QED
      BY <1>5, <1>6, <2>2, <3>1 DEF Joins
  <2>3. QED
    BY <2>1, <2>2
<1> HIDE DEF Step
<1>8. h = [i \in 0 .. n |-> Step(h, i)]
  BY <1>7
<1>9. c = [i \in 0 .. n |-> Step(c, i)]
  BY <1>8
<1> HIDE DEF c
<1>10. \A i \in 0 .. n : c[i] = Step(c, i)
  BY <1>9
<1>11. Joins(c, F, n)
  <2>1. \A i \in 1 .. n : i # 0 /\ i \in 0 .. n
    BY <1>2
  <2>2. 0 \in 0 .. n
    BY <1>2
  <2>3. QED
    BY <1>5, <1>10, <2>1, <2>2 DEF Joins, Step
<1>12. \A i \in 0 .. n : c[i] = h[i]
  BY <1>2, <1>6, <1>11, JoinsUnique
<1>13. c[n] = h[n]
  BY <1>2, <1>12
<1>14. QED
  BY <1>1, <1>4, <1>6, <1>13
(* One instruction before others.                                          *)
Then(i, is) == <<i>> \o is

LEMMA ThenIs ==
  ASSUME NEW S, NEW i \in S, NEW is \in Seq(S)
  PROVE  /\ Then(i, is) \in Seq(S) /\ Len(Then(i, is)) = Len(is) + 1 /\ Then(i, is) # << >>
         /\ Then(i, is)[1] = i /\ Head(Then(i, is)) = i /\ Tail(Then(i, is)) = is
         /\ \A k \in 1 .. Len(is) : Then(i, is)[k + 1] = is[k]
<1>1. PICK u : u = <<i>> \o is
  OBVIOUS
<1>2. /\ u \in Seq(S) /\ Len(u) = Len(is) + 1 /\ u # << >>
      /\ u[1] = i /\ Head(u) = i /\ Tail(u) = is
      /\ \A k \in 1 .. Len(is) : u[k + 1] = is[k]
  BY <1>1, ConsIs
<1>3. QED
  BY <1>1, <1>2 DEF Then

LEMMA EncodeAllIs ==
  /\ EncodeAll(<< >>) = << >>
  /\ \A is \in Seq(Instr) : EncodeAll(is) \in Seq(Int)
  /\ \A i \in Instr, is \in Seq(Instr) : EncodeAll(Then(i, is)) = Cat(Encode(i), EncodeAll(is))
<1>1. \A is \in Seq(Instr) : EncodeAll(is) \in Seq(Int)
  <2> TAKE is \in Seq(Instr)
  <2> DEFINE F == [k \in 1 .. Len(is) |-> Encode(is[k])]
  <2>1. PICK g \in [0 .. Len(is) -> Seq(Int)] : EncodeAll(is) = g[Len(is)]
    <3> HIDE DEF F
    <3>1. F = [k \in 1 .. Len(is) |-> Encode(is[k])]
      BY DEF F
    <3>2. QED
      BY <3>1, EncodeAllJoins
  <2>2. Len(is) \in 0 .. Len(is)
    BY LenProperties
  <2>3. QED
    BY <2>1, <2>2
<1>2. EncodeAll(<< >>) = << >>
  <2> DEFINE is == << >>
             F == [k \in 1 .. Len(is) |-> Encode(is[k])]
  <2>1. is \in Seq(Instr) /\ Len(is) = 0 /\ F = [k \in 1 .. Len(is) |-> Encode(is[k])]
    BY EmptySeq
  <2> HIDE DEF is, F
  <2>2. PICK g \in [0 .. Len(is) -> Seq(Int)] : Joins(g, F, Len(is)) /\ EncodeAll(is) = g[Len(is)]
    BY <2>1, EncodeAllJoins
  <2>3. EncodeAll(is) = << >>
    BY <2>1, <2>2 DEF Joins
  <2>4. QED
    BY <2>3 DEF is
<1>3. ASSUME NEW i \in Instr, NEW is \in Seq(Instr)
      PROVE  EncodeAll(Then(i, is)) = Cat(Encode(i), EncodeAll(is))
  <2> DEFINE n == Len(is)
             js == Then(i, is)
             F == [k \in 1 .. Len(js) |-> Encode(js[k])]
             G == [k \in 1 .. n |-> Encode(is[k])]
  <2>1. /\ js \in Seq(Instr) /\ Len(js) = n + 1 /\ n \in Nat /\ js[1] = i
        /\ \A k \in 1 .. n : js[k + 1] = is[k]
    BY ThenIs, LenProperties
  <2> HIDE DEF js
  <2>2. F = [k \in 1 .. Len(js) |-> Encode(js[k])] /\ G = [k \in 1 .. Len(is) |-> Encode(is[k])]
    OBVIOUS
  <2>3. F[1] = Encode(i) /\ \A k \in 1 .. n : G[k] = F[k + 1]
    <3>1. 1 \in 1 .. Len(js) /\ \A k \in 1 .. n : k + 1 \in 1 .. Len(js)
      BY <2>1
    <3>2. QED
      BY <2>1, <3>1
  <2> HIDE DEF F, G, n
  <2>4. F \in [1 .. Len(js) -> Seq(Int)] /\ G \in [1 .. Len(is) -> Seq(Int)]
    BY <2>1, <2>2, EncodeAllJoins
  <2>5. PICK g \in [0 .. Len(js) -> Seq(Int)] : Joins(g, F, Len(js)) /\ EncodeAll(js) = g[Len(js)]
    BY <2>1, <2>2, EncodeAllJoins
  <2>6. PICK h \in [0 .. Len(is) -> Seq(Int)] : Joins(h, G, Len(is)) /\ EncodeAll(is) = h[Len(is)]
    BY <2>2, EncodeAllJoins
  <2>7. g[n + 1] = Cat(F[1], h[n])
    <3>1. JoinsTwice(Int, n, F, G, g, h)
      BY <2>1, <2>3, <2>4, <2>5, <2>6 DEF n, JoinsTwice
    <3>2. QED
      BY <3>1, JoinsFirst
  <2>8. EncodeAll(js) = Cat(F[1], EncodeAll(is))
    BY <2>1, <2>5, <2>6, <2>7 DEF n
  <2>9. QED
    BY <2>3, <2>8 DEF js
<1>4. QED
  BY <1>1, <1>2, <1>3

(* A stream is whole instructions to the interpreter.                      *)
LEMMA StreamWhole ==
  ASSUME NEW is \in Seq(Instr)
  PROVE  Whole(EncodeAll(is))
<1> DEFINE bytes == EncodeAll(is)
           L == Len(bytes)
           W(g, p) == \/ p = L + 1
                      \/ \E op \in DOMAIN Named :
                           /\ Named[op] = Opcode(bytes[p])
                           /\ p + Size(op) <= L + 1
                           /\ g[p + Size(op)]
           c == CHOOSE g : g = [p \in 1 .. L + 1 |-> W(g, p)]
<1>1. Whole(bytes) = c[1]
  BY Zenon DEF Whole
<1>2. L \in Nat
  BY EncodeAllIs, LenProperties
<1>3. \A op \in DOMAIN Named : Size(op) \in Nat \ {0}
  BY SizesAre
<1> DEFINE P(k) == \E g \in [1 .. L + 1 -> BOOLEAN] :
                     \A p \in 1 .. L + 1 : p + k >= L + 1 => g[p] = W(g, p)
           M == {k \in Nat : P(k)}
<1> HIDE DEF bytes, L
<1>4. 0 \in M
  <2> DEFINE g == [p \in 1 .. L + 1 |-> TRUE]
  <2>1. g \in [1 .. L + 1 -> BOOLEAN]
    OBVIOUS
  <2>2. ASSUME NEW p \in 1 .. L + 1, p + 0 >= L + 1 PROVE g[p] = W(g, p)
    <3>1. p = L + 1
      BY <1>2, <2>2
    <3>2. W(g, p)
      BY <3>1
    <3> HIDE DEF W
    <3>3. g[p] = TRUE
      OBVIOUS
    <3>4. QED
      BY <3>2, <3>3
  <2> HIDE DEF W, g
  <2>3. P(0)
    BY <2>1, <2>2
  <2>4. QED
    BY <2>3
<1>5. ASSUME NEW k \in Nat, P(k) PROVE P(k + 1)
  <2>1. PICK g \in [1 .. L + 1 -> BOOLEAN] :
          \A p \in 1 .. L + 1 : p + k >= L + 1 => g[p] = W(g, p)
    BY <1>5
  <2> DEFINE h == [p \in 1 .. L + 1 |-> IF p + k >= L + 1 THEN g[p] ELSE W(g, p)]
  <2>2. h \in [1 .. L + 1 -> BOOLEAN]
    <3>1. \A p : W(g, p) \in BOOLEAN
      OBVIOUS
    <3> HIDE DEF W
    <3>2. QED
      BY <3>1
  <2>3. \A p \in 1 .. L + 1 : p + k >= L + 1 => h[p] = g[p]
    OBVIOUS
  <2>4. \A p \in 1 .. L + 1 : p + k < L + 1 => h[p] = W(g, p)
    <3> HIDE DEF W
    <3> QED BY <1>2
  <2>5. ASSUME NEW p \in 1 .. L + 1, p + (k + 1) >= L + 1
        PROVE  W(h, p) = W(g, p)
    <3>1. \A op \in DOMAIN Named : p + Size(op) <= L + 1 => h[p + Size(op)] = g[p + Size(op)]
      <4> SUFFICES ASSUME NEW op \in DOMAIN Named, p + Size(op) <= L + 1
                   PROVE  h[p + Size(op)] = g[p + Size(op)]
        OBVIOUS
      <4>1. p + Size(op) \in 1 .. L + 1 /\ (p + Size(op)) + k >= L + 1
        BY <1>2, <1>3, <2>5
      <4>2. QED
        BY <2>3, <4>1
    <3> HIDE DEF h
    <3>2. QED
      BY <3>1
  <2> HIDE DEF h
  <2>6. ASSUME NEW p \in 1 .. L + 1, p + (k + 1) >= L + 1
        PROVE  h[p] = W(h, p)
    <3> HIDE DEF W
    <3>1. h[p] = W(g, p)
      <4>1. CASE p + k >= L + 1
        BY <2>1, <2>3, <4>1
      <4>2. CASE p + k < L + 1
        BY <2>4, <4>2
      <4>3. QED
        BY <1>2, <4>1, <4>2
    <3>2. QED
      BY <2>5, <2>6, <3>1
  <2> HIDE DEF W
  <2>7. QED
    BY <2>2, <2>6
<1>6. Nat \subseteq M
  <2> HIDE DEF P
  <2>1. \A k \in Nat : k \in M => k + 1 \in M
    <3> SUFFICES ASSUME NEW k \in Nat, P(k) PROVE P(k + 1)
      OBVIOUS
    <3>1. QED
      BY <1>5
  <2> HIDE DEF M
  <2> QED BY <1>4, <2>1, SetInduction
<1>7. \E g \in [1 .. L + 1 -> BOOLEAN] : \A p \in 1 .. L + 1 : g[p] = W(g, p)
  <2> HIDE DEF W
  <2>1. P(L)
    BY <1>2, <1>6
  <2>2. \A p \in 1 .. L + 1 : p + L >= L + 1
    BY <1>2
  <2>3. QED
    BY <2>1, <2>2
<1>8. \A p \in 1 .. L + 1 : c[p] = W(c, p)
  <2> HIDE DEF W
  <2>1. PICK g \in [1 .. L + 1 -> BOOLEAN] : \A p \in 1 .. L + 1 : g[p] = W(g, p)
    BY <1>7
  <2>2. g = [p \in 1 .. L + 1 |-> W(g, p)]
    BY <2>1
  <2>3. c = [p \in 1 .. L + 1 |-> W(c, p)]
    BY <2>2
  <2> HIDE DEF c
  <2>4. QED
    BY <2>3
<1> HIDE DEF c
<1> DEFINE n == Len(is)
           F == [k \in 1 .. Len(is) |-> Encode(is[k])]
<1>9. n \in Nat /\ \A k \in 1 .. n : is[k] \in Instr
  BY LenProperties, ElementOfSeq
<1>10. F \in [1 .. n -> Seq(Int)] /\ \A k \in 1 .. n : F[k] = Encode(is[k])
  BY <1>9, EncodeIs
<1>11. PICK g : g \in [0 .. n -> Seq(Int)] /\ Joins(g, F, n) /\ bytes = g[n]
  <2> HIDE DEF F
  <2>1. F = [k \in 1 .. Len(is) |-> Encode(is[k])]
    BY DEF F
  <2>2. QED
    BY <2>1, EncodeAllJoins DEF bytes
<1> HIDE DEF F, n
<1>12. << >> \in Seq(Int)
  BY EmptySeq
<1>13. PICK r : r \in [0 .. n -> Seq(Int)] /\ Rest(r, F, n, << >>)
  BY <1>9, <1>10, <1>12, RestExists
<1>14. \A m \in 0 .. n : g[m] \o r[m] = bytes
  <2>1. \A m \in 0 .. n : Cat(g[m], r[m]) = r[0] /\ r[0] = Cat(g[n], << >>)
    <3>1. PICK t : t \in Seq(Int) /\ t = << >>
      BY <1>12
    <3>2. Rest(r, F, n, t) /\ Joins(g, F, n)
      BY <1>11, <1>13, <3>1
    <3>3. Splits(Int, n, F, g, r, t)
      BY <1>9, <1>10, <1>11, <1>13, <3>1, <3>2 DEF Splits
    <3>5. (\A m \in 0 .. n : Cat(g[m], r[m]) = r[0]) /\ r[0] = Cat(g[n], t)
      BY <3>3, RestJoins
    <3>4. QED
      BY <3>1, <3>5
  <2>2. bytes \in Seq(Int)
    BY <1>9, <1>11
  <2>3. bytes \o << >> = bytes
    BY <2>2, ConcatEmptySeq
  <2>4. QED
    BY <1>11, <2>1, <2>3 DEF Cat
<1> DEFINE N == {k \in Nat : k <= n => c[Len(g[n - k]) + 1]}
<1>15. 0 \in N
  <2>1. n - 0 = n /\ L = Len(g[n]) /\ L + 1 \in 1 .. L + 1
    BY <1>2, <1>9, <1>11 DEF L
  <2>2. QED
    BY <1>8, <2>1
<1>16. ASSUME NEW m \in 0 .. n - 1, c[Len(g[m + 1]) + 1]
       PROVE  c[Len(g[m]) + 1]
  <2>1. m + 1 \in 1 .. n /\ (m + 1) - 1 = m /\ m \in 0 .. n /\ m + 1 \in 0 .. n
    BY <1>9
  <2> DEFINE i == is[m + 1]
             p == Len(g[m]) + 1
  <2>2. i \in Instr /\ F[m + 1] = Encode(i)
    BY <1>9, <1>10, <2>1
  <2> HIDE DEF i
  <2>3. /\ Encode(i) \in Seq(Int) /\ Len(Encode(i)) = Size(i.op) /\ i.op \in DOMAIN Named
        /\ Opcode(Encode(i)[1]) = Named[i.op] /\ Size(i.op) \in Nat \ {0}
    BY <1>3, <2>2, EncodeIs
  <2>4. PICK u : u = Encode(i)
    OBVIOUS
  <2>5. PICK a : a \in Seq(Int) /\ a = g[m]
    BY <1>11, <2>1
  <2>6. PICK b : b \in Seq(Int) /\ b = r[m + 1]
    BY <1>13, <2>1
  <2>7. Len(g[m + 1]) = Len(a) + Len(u)
    <3>1. g[m + 1] = a \o u
      BY <1>11, <2>1, <2>2, <2>4, <2>5 DEF Joins
    <3>2. QED
      BY <2>3, <2>4, <2>5, <3>1, ConcatProperties
  <2>8. PICK d : d = u \o b
    OBVIOUS
  <2>9. /\ d \in Seq(Int) /\ Len(d) = Len(u) + Len(b)
        /\ \A k \in 1 .. Len(u) + Len(b) : d[k] = IF k <= Len(u) THEN u[k] ELSE b[k - Len(u)]
    BY <2>3, <2>4, <2>6, <2>8, ConcatProperties
  <2>10. r[m] = d
    BY <1>13, <2>1, <2>2, <2>4, <2>6, <2>8 DEF Rest
  <2>11. bytes = a \o d
    BY <1>14, <2>1, <2>5, <2>10
  <2>12. /\ Len(bytes) = Len(a) + Len(d)
         /\ \A k \in 1 .. Len(a) + Len(d) : bytes[k] = IF k <= Len(a) THEN a[k] ELSE d[k - Len(a)]
    <3>1. /\ Len(a \o d) = Len(a) + Len(d)
          /\ \A k \in 1 .. Len(a) + Len(d) :
               (a \o d)[k] = IF k <= Len(a) THEN a[k] ELSE d[k - Len(a)]
      <4>1. a \in Seq(Int) /\ d \in Seq(Int)
        BY <2>5, <2>9
      <4>2. QED
        BY <4>1, ConcatProperties
    <3>2. QED
      BY <2>11, <3>1
  <2>13. Len(a) \in Nat /\ Len(b) \in Nat /\ Len(u) = Size(i.op)
    BY <2>3, <2>4, <2>5, <2>6, LenProperties
  <2>14. bytes[Len(a) + 1] = d[1]
    <3>1. Len(a) + 1 \in 1 .. Len(a) + Len(d) /\ ~(Len(a) + 1 <= Len(a)) /\ (Len(a) + 1) - Len(a) = 1
      BY <2>3, <2>9, <2>13
    <3>2. bytes[Len(a) + 1] = d[(Len(a) + 1) - Len(a)]
      BY <2>12, <3>1
    <3>3. QED
      BY <3>1, <3>2
  <2>15. d[1] = u[1]
    BY <2>3, <2>9, <2>13
  <2>16. p \in 1 .. L + 1 /\ p + Size(i.op) <= L + 1 /\ p + Size(i.op) = Len(g[m + 1]) + 1
    <3>1. L = Len(a) + Len(u) + Len(b) /\ p = Len(a) + 1 /\ Len(g[m + 1]) = Len(a) + Len(u)
      BY <2>5, <2>7, <2>9, <2>12, <2>13 DEF L
    <3> HIDE DEF p
    <3> DEFINE s == Size(i.op)
    <3>2. s \in Nat \ {0} /\ Len(u) = s
      BY <2>3, <2>13
    <3> HIDE DEF s
    <3>3. p \in 1 .. L + 1 /\ p + s <= L + 1 /\ p + s = Len(g[m + 1]) + 1
      BY <2>13, <3>1, <3>2
    <3>4. QED
      BY <3>3 DEF s
  <2>17. Named[i.op] = Opcode(bytes[p])
    BY <2>3, <2>4, <2>5, <2>14, <2>15
  <2> HIDE DEF p
  <2>18. W(c, p)
    BY <1>16, <2>3, <2>16, <2>17
  <2> HIDE DEF W
  <2>19. QED
    BY <1>8, <2>16, <2>18 DEF p
<1>17. \A k \in Nat : k \in N => k + 1 \in N
  <2> SUFFICES ASSUME NEW k \in Nat, k \in N, k + 1 <= n
               PROVE  c[Len(g[n - (k + 1)]) + 1]
    OBVIOUS
  <2>1. n - (k + 1) \in 0 .. n - 1 /\ (n - (k + 1)) + 1 = n - k /\ c[Len(g[n - k]) + 1]
    BY <1>9
  <2>2. QED
    BY <1>16, <2>1
<1>18. Nat \subseteq N
  <2> HIDE DEF N
  <2> QED BY <1>15, <1>17, SetInduction
<1>19. c[Len(g[0]) + 1]
  <2>1. n - n = 0 /\ n <= n
    BY <1>9
  <2>2. n \in N
    BY <1>9, <1>18
  <2>3. QED
    BY <2>1, <2>2
<1>20. Len(g[0]) = 0
  BY <1>11, EmptySeq DEF Joins
<1>21. c[1]
  BY <1>19, <1>20
<1>22. QED
  BY <1>1, <1>21 DEF bytes
-----------------------------------------------------------------------------
(* The code of a statement: its instructions.                              *)
LoadOf(o, usage) == [op |-> "load", to |-> Loc("R", usage), value |-> o.value]
PrintOf(o) == [op |-> "print", of |-> ObjLoc(o, 0, 0)]
PushOf(o, usage, shift) == [op |-> "push", of |-> ObjLoc(o, usage, shift)]
PairOf(op, l, r, usage) ==
  [op |-> op, to |-> ObjLoc(l, 0, 0), from |-> ObjLoc(r, usage, 0)]
CallOf(s) == [op |-> "call", of |-> ObjLoc(s.left, 0, 0)]
PopOf(n) == IF n > 0 THEN <<[op |-> "pop", count |-> n]>> ELSE << >>

LEMMA InstrIs ==
  /\ \A o \in Readable : o.kind = "lit" => \A usage \in Int : LoadOf(o, usage) \in Instr
  /\ \A l \in Locations : \A op \in {"push", "call", "print"} : [op |-> op, of |-> l] \in Instr
  /\ \A l \in Locations, mode \in DOMAIN JumpMode :
       [op |-> "jmp", mode |-> mode, of |-> l] \in Instr
  /\ \A l, k \in Locations : \A op \in {"mov", "cmp"} \cup BinOps :
       [op |-> op, to |-> l, from |-> k] \in Instr
  /\ \A n \in Nat : [op |-> "pop", count |-> n] \in Instr
<1>1. ASSUME NEW o \in Readable, o.kind = "lit", NEW usage \in Int
      PROVE  LoadOf(o, usage) \in Instr
  <2>1. o.value \in Literal
    BY <1>1 DEF Readable, Locations
  <2>2. Loc("R", usage) \in Locations
    BY DEF Loc, Locations
  <2>3. QED
    BY <2>1, <2>2 DEF LoadOf, Instr
<1>2. \A l \in Locations : \A op \in {"push", "call", "print"} : [op |-> op, of |-> l] \in Instr
  BY DEF Instr
<1>3. \A l \in Locations, mode \in DOMAIN JumpMode :
        [op |-> "jmp", mode |-> mode, of |-> l] \in Instr
  BY DEF Instr
<1>4. \A l, k \in Locations : \A op \in {"mov", "cmp"} \cup BinOps :
        [op |-> op, to |-> l, from |-> k] \in Instr
  BY DEF Instr
<1>5. \A n \in Nat : [op |-> "pop", count |-> n] \in Instr
  BY DEF Instr
<1>6. QED
  BY <1>1, <1>2, <1>3, <1>4, <1>5

LEMMA ReadableIs ==
  ASSUME NEW o \in Readable
  PROVE  \/ /\ o.kind = "lit" /\ o.value \in Literal /\ o.value \in Int /\ Long(o.value) = o.value
            /\ o \notin Locations
         \/ o.kind = "loc" /\ o \in Locations /\ o.at \in Int /\ o.store \in {"R", "S", "L"}
<1>1. CASE o \in Locations
  BY <1>1 DEF Locations
<1>2. CASE o \notin Locations
  <2>1. o.kind = "lit" /\ o.value \in Literal
    BY <1>2 DEF Readable
  <2>2. QED
    BY <1>2, <2>1, LiteralAssumption
<1>3. QED
  BY <1>1, <1>2

LEMMA ObjLocIs ==
  ASSUME NEW o \in Readable, NEW usage \in Int, NEW shift \in Int
  PROVE  /\ ObjLoc(o, usage, shift) \in Locations
         /\ o.kind = "lit" => ObjLoc(o, usage, shift) = Loc("R", usage)
         /\ o.kind = "loc" => ObjLoc(o, usage, 0) = o
         /\ o.kind = "loc" /\ o.at >= 0 => ObjLoc(o, usage, shift) = o
         /\ o.kind = "loc" /\ o.at < 0 => ObjLoc(o, usage, shift) = Loc(o.store, o.at - shift)
<1>1. \A st \in {"R", "S", "L"}, n \in Int : Loc(st, n) \in Locations
  BY DEF Loc, Locations
<1>2. CASE o.kind = "lit"
  BY <1>1, <1>2 DEF ObjLoc
<1>3. CASE o.kind # "lit"
  <2>1. o.kind = "loc" /\ o \in Locations /\ o.at \in Int /\ o.store \in {"R", "S", "L"}
    BY <1>3, ReadableIs
  <2>2. o = Loc(o.store, o.at)
    BY <2>1 DEF Locations, Loc
  <2>3. o.at - shift \in Int /\ o.at - 0 = o.at /\ (o.at < 0 \/ o.at >= 0) /\ ~(o.at < 0 /\ o.at >= 0)
    BY <2>1
  <2>4. QED
    BY <1>1, <2>1, <2>2, <2>3 DEF ObjLoc
<1>4. QED
  BY <1>2, <1>3

(* An operand before the rest: nothing, or one load.                       *)
LEMMA OperandIs ==
  ASSUME NEW o \in Readable, NEW usage \in Int
  PROVE  /\ Operand(o, usage) \in Seq(Instr)
         /\ \A is \in Seq(Instr) :
              Cat(Operand(o, usage), is) = IF o.kind = "lit" THEN Then(LoadOf(o, usage), is) ELSE is
<1>1. CASE o.kind = "lit"
  <2>1. LoadOf(o, usage) \in Instr
    BY <1>1, InstrIs
  <2>2. Operand(o, usage) = <<LoadOf(o, usage)>>
    BY <1>1 DEF Operand, LoadOf
  <2>3. <<LoadOf(o, usage)>> \in Seq(Instr)
    BY <2>1
  <2>4. QED
    BY <1>1, <2>2, <2>3 DEF Cat, Then
<1>2. CASE o.kind # "lit"
  <2>1. Operand(o, usage) = << >>
    BY <1>2 DEF Operand
  <2>2. << >> \in Seq(Instr)
    BY EmptySeq
  <2>3. \A is \in Seq(Instr) : Cat(<< >>, is) = is
    BY ConcatEmptySeq DEF Cat
  <2>4. QED
    BY <1>2, <2>1, <2>2, <2>3
<1>3. QED
  BY <1>1, <1>2

(* Two operands and the instruction that reads them.                       *)
TwoCode(f, l, r, usage) == Cat(Operand(l, 0), Cat(Operand(r, usage), Then(f, << >>)))

LEMMA TwoCodeIs ==
  ASSUME NEW f \in Instr, NEW l \in Readable, NEW r \in Readable, NEW usage \in Int
  PROVE  /\ TwoCode(f, l, r, usage) \in Seq(Instr)
         /\ Cat(Cat(Operand(l, 0), Operand(r, usage)), <<f>>) = TwoCode(f, l, r, usage)
<1>1. << >> \in Seq(Instr) /\ 0 \in Int
  BY EmptySeq
<1>2. PICK p : p = Then(f, << >>)
  OBVIOUS
<1>3. p \in Seq(Instr) /\ p = <<f>>
  <2>1. <<f>> \in Seq(Instr)
    OBVIOUS
  <2>2. <<f>> \o << >> = <<f>>
    BY <2>1, ConcatEmptySeq
  <2>3. QED
    BY <1>2, <2>1, <2>2 DEF Then
<1>4. PICK a : a = Operand(l, 0)
  OBVIOUS
<1>5. PICK b : b = Operand(r, usage)
  OBVIOUS
<1>6. a \in Seq(Instr) /\ b \in Seq(Instr)
  BY <1>1, <1>4, <1>5, OperandIs
<1>7. Cat(Cat(a, b), p) = Cat(a, Cat(b, p))
  <2>1. \A x, y, z \in Seq(Instr) : Cat(Cat(x, y), z) = Cat(x, Cat(y, z))
    BY CatAssociative
  <2>2. QED
    BY Zenon, <1>3, <1>6, <2>1
<1>8. Cat(a, Cat(b, p)) \in Seq(Instr)
  <2>1. Cat(b, p) \in Seq(Instr)
    BY <1>3, <1>6, ConcatProperties DEF Cat
  <2>2. QED
    BY <1>6, <2>1, ConcatProperties DEF Cat
<1>9. QED
  BY <1>2, <1>3, <1>4, <1>5, <1>7, <1>8 DEF TwoCode
LEMMA CatIs ==
  ASSUME NEW S, NEW s \in Seq(S), NEW t \in Seq(S)
  PROVE  Cat(s, t) \in Seq(S)
  BY ConcatProperties DEF Cat

(* What a print shows, one argument after the other.                       *)
LEMMA PrintRest ==
  ASSUME NEW s, s.args \in Seq(Readable)
  PROVE  \E r \in [0 .. Len(s.args) -> Seq(Instr)] :
           /\ r[0] = BuildPrint(s) /\ r[Len(s.args)] = << >>
           /\ \A m \in 0 .. Len(s.args) - 1 :
                r[m] = Cat(Operand(s.args[m + 1], 0), Then(PrintOf(s.args[m + 1]), r[m + 1]))
<1> DEFINE n == Len(s.args)
           P(i) == <<PrintOf(s.args[i])>>
           O(i) == Operand(s.args[i], 0)
           Step(g, i) == IF i = 0 THEN << >> ELSE g[i - 1] \o O(i) \o P(i)
           c == CHOOSE g : g = [i \in 0 .. n |-> Step(g, i)]
           F == [i \in 1 .. n |-> Cat(O(i), P(i))]
<1>1. BuildPrint(s) = c[n]
  BY Zenon DEF BuildPrint, PrintOf
<1>2. n \in Nat /\ \A i \in 1 .. n : s.args[i] \in Readable
  BY LenProperties, ElementOfSeq
<1> HIDE DEF n
<1>3. ASSUME NEW i \in 1 .. n PROVE O(i) \in Seq(Instr) /\ P(i) \in Seq(Instr) /\ PrintOf(s.args[i]) \in Instr
  <2>1. s.args[i] \in Readable /\ 0 \in Int
    BY <1>2
  <2>2. ObjLoc(s.args[i], 0, 0) \in Locations
    BY <2>1, ObjLocIs
  <2>3. PrintOf(s.args[i]) \in Instr
    BY <2>2, InstrIs DEF PrintOf
  <2>4. O(i) \in Seq(Instr)
    BY <2>1, OperandIs
  <2>5. QED
    BY <2>3, <2>4
<1>4. \A i \in 1 .. n : F[i] = Cat(O(i), P(i))
  OBVIOUS
<1>5. F \in [1 .. n -> Seq(Instr)]
  <2>1. \A i \in 1 .. n : Cat(O(i), P(i)) \in Seq(Instr)
    <3> HIDE DEF O, P
    <3> QED BY <1>3, CatIs
  <2> HIDE DEF O, P
  <2>2. QED
    BY <2>1
<1> HIDE DEF F, O, P
<1>6. PICK h : h \in [0 .. n -> Seq(Instr)] /\ Joins(h, F, n)
  BY <1>2, <1>5, JoinsExists
<1>7. ASSUME NEW g, g \in [0 .. n -> Seq(Instr)], NEW i \in 1 .. n
      PROVE  g[i - 1] \o O(i) \o P(i) = g[i - 1] \o F[i]
  <2>1. g[i - 1] \in Seq(Instr)
    <3>1. i - 1 \in 0 .. n
      BY <1>2
    <3>2. QED
      BY <1>7, <3>1
  <2>2. O(i) \in Seq(Instr) /\ P(i) \in Seq(Instr)
    BY <1>3
  <2>3. \A x, y, z \in Seq(Instr) : Cat(Cat(x, y), z) = Cat(x, Cat(y, z))
    BY CatAssociative
  <2>4. Cat(Cat(g[i - 1], O(i)), P(i)) = Cat(g[i - 1], Cat(O(i), P(i)))
    BY Zenon, <2>1, <2>2, <2>3
  <2>5. QED
    BY <1>4, <2>4 DEF Cat
<1>8. ASSUME NEW i \in 0 .. n PROVE h[i] = Step(h, i)
  <2>1. CASE i = 0
    BY <1>6, <2>1 DEF Joins
  <2>2. CASE i # 0
    <3>1. i \in 1 .. n
      BY <1>2, <2>2
    <3>2. h[i] = h[i - 1] \o F[i]
      BY <1>6, <3>1 DEF Joins
    <3>3. h[i - 1] \o O(i) \o P(i) = h[i - 1] \o F[i]
      BY <1>6, <1>7, <3>1
    <3>4. QED
      BY <2>2, <3>2, <3>3
  <2>3. QED
    BY <2>1, <2>2
<1>9. h = [i \in 0 .. n |-> Step(h, i)]
  <2>1. h = [i \in 0 .. n |-> h[i]]
    BY <1>6
  <2> HIDE DEF Step
  <2>2. QED
    BY <1>8, <2>1
<1>10. c = [i \in 0 .. n |-> Step(c, i)]
  <2> HIDE DEF Step
  <2> QED BY <1>9
<1> HIDE DEF c
<1>11. \A i \in 0 .. n : c[i] = Step(c, i)
  <2> HIDE DEF Step
  <2> QED BY <1>10
<1> DEFINE Q(m) == c[m] = h[m]
           M == {m \in Nat : m <= n => Q(m)}
<1>12. Q(0)
  BY <1>2, <1>6, <1>11 DEF Joins
<1>13. ASSUME NEW m \in Nat, Q(m), m + 1 <= n
       PROVE  Q(m + 1)
  <2>1. m + 1 \in 0 .. n /\ (m + 1) - 1 = m /\ m + 1 # 0
    BY <1>13
  <2>2. c[m + 1] = Step(c, m + 1) /\ h[m + 1] = Step(h, m + 1)
    BY <1>8, <1>11, <2>1
  <2>3. QED
    BY <1>13, <2>1, <2>2
<1> HIDE DEF Q
<1>14. Nat \subseteq M
  <2>1. 0 \in M
    BY <1>12
  <2>2. \A m \in Nat : m \in M => m + 1 \in M
    <3> SUFFICES ASSUME NEW m \in Nat, m \in M, m + 1 <= n
                 PROVE  Q(m + 1)
      OBVIOUS
    <3>1. Q(m)
      BY <1>2
    <3>2. QED
      BY <1>13, <3>1
  <2> HIDE DEF M
  <2> QED BY <2>1, <2>2, SetInduction
<1>15. c[n] = h[n]
  BY <1>2, <1>14 DEF Q
<1>16. PICK t : t = << >> /\ t \in Seq(Instr)
  BY EmptySeq
<1>17. PICK r : r \in [0 .. n -> Seq(Instr)] /\ Rest(r, F, n, t)
  BY <1>2, <1>5, <1>16, RestExists
<1>18. Splits(Instr, n, F, h, r, t)
  BY <1>2, <1>5, <1>6, <1>16, <1>17 DEF Splits
<1>19. r[0] = Cat(h[n], t)
  BY <1>18, RestJoins
<1>20. r[0] = BuildPrint(s)
  <2>1. h[n] \in Seq(Instr)
    BY <1>2, <1>6
  <2>2. h[n] \o << >> = h[n]
    BY <2>1, ConcatEmptySeq
  <2>3. QED
    BY <1>1, <1>15, <1>16, <1>19, <2>2 DEF Cat
<1>21. ASSUME NEW m \in 0 .. n - 1
       PROVE  r[m] = Cat(O(m + 1), Then(PrintOf(s.args[m + 1]), r[m + 1]))
  <2>1. m + 1 \in 1 .. n /\ m + 1 \in 0 .. n
    BY <1>2
  <2>2. O(m + 1) \in Seq(Instr) /\ P(m + 1) \in Seq(Instr)
    BY <1>3, <2>1
  <2>3. r[m + 1] \in Seq(Instr)
    BY <1>17, <2>1
  <2>4. \A x, y, z \in Seq(Instr) : Cat(Cat(x, y), z) = Cat(x, Cat(y, z))
    BY CatAssociative
  <2>5. Cat(Cat(O(m + 1), P(m + 1)), r[m + 1]) = Cat(O(m + 1), Cat(P(m + 1), r[m + 1]))
    BY Zenon, <2>2, <2>3, <2>4
  <2>6. r[m] = Cat(F[m + 1], r[m + 1])
    BY <1>17, <2>1 DEF Rest, Cat
  <2>7. Cat(P(m + 1), r[m + 1]) = Then(PrintOf(s.args[m + 1]), r[m + 1])
    BY DEF P, Then, Cat
  <2>8. QED
    BY <1>4, <2>1, <2>5, <2>6, <2>7
<1>22. r[n] = << >>
  BY <1>16, <1>17 DEF Rest
<1>23. QED
  BY <1>17, <1>20, <1>21, <1>22 DEF n, O
(* What a call does, one argument after the other from the last, the call  *)
(* and the pop.                                                            *)
LEMMA CallRest ==
  ASSUME NEW s, s.args \in Seq(Readable), s.left \in Locations
  PROVE  \E r \in [0 .. Len(s.args) -> Seq(Instr)] :
           /\ r[0] = BuildCall(s) /\ r[Len(s.args)] = Then(CallOf(s), PopOf(Len(s.args)))
           /\ \A m \in 0 .. Len(s.args) - 1 :
                r[m] = Cat(Operand(s.args[Len(s.args) - m], 1),
                           Then(PushOf(s.args[Len(s.args) - m], 1, m), r[m + 1]))
<1> DEFINE n == Len(s.args)
           B(i) == BuildPush(s.args[n + 1 - i], 1, i - 1)
           Step(g, i) == IF i = 0 THEN << >> ELSE g[i - 1] \o B(i)
           c == CHOOSE g : g = [i \in 0 .. n |-> Step(g, i)]
           F == [i \in 1 .. n |-> B(i)]
<1>1. BuildCall(s) = c[n] \o <<CallOf(s)>>
                       \o (IF n > 0 THEN <<[op |-> "pop", count |-> n]>> ELSE << >>)
  BY Zenon DEF BuildCall, CallCode, CallOf
<1>2. BuildCall(s) = c[n] \o <<CallOf(s)>> \o PopOf(n)
  <2> HIDE DEF c
  <2> QED BY <1>1 DEF PopOf
<1>3. n \in Nat /\ \A i \in 1 .. n : s.args[i] \in Readable
  BY LenProperties, ElementOfSeq
<1> HIDE DEF n
<1>4. ASSUME NEW i \in 1 .. n
      PROVE  /\ n + 1 - i \in 1 .. n /\ i - 1 \in Int /\ s.args[n + 1 - i] \in Readable
             /\ PushOf(s.args[n + 1 - i], 1, i - 1) \in Instr
             /\ Operand(s.args[n + 1 - i], 1) \in Seq(Instr)
             /\ B(i) = Cat(Operand(s.args[n + 1 - i], 1), <<PushOf(s.args[n + 1 - i], 1, i - 1)>>)
             /\ B(i) \in Seq(Instr)
  <2> DEFINE o == s.args[n + 1 - i]
  <2>1. n + 1 - i \in 1 .. n /\ i - 1 \in Int /\ 1 \in Int
    BY <1>3
  <2>2. o \in Readable
    BY <1>3, <2>1
  <2> HIDE DEF o
  <2>3. ObjLoc(o, 1, i - 1) \in Locations
    BY <2>1, <2>2, ObjLocIs
  <2>4. PushOf(o, 1, i - 1) \in Instr
    BY <2>3, InstrIs DEF PushOf
  <2>5. Operand(o, 1) \in Seq(Instr)
    BY <2>1, <2>2, OperandIs
  <2>6. B(i) = Cat(Operand(o, 1), <<PushOf(o, 1, i - 1)>>)
    BY DEF o, BuildPush, PushOf, Cat
  <2>7. B(i) \in Seq(Instr)
    <3>1. <<PushOf(o, 1, i - 1)>> \in Seq(Instr)
      BY <2>4
    <3>2. QED
      BY <2>5, <2>6, <3>1, CatIs
  <2>8. QED
    BY <2>1, <2>2, <2>4, <2>5, <2>6, <2>7 DEF o
<1>5. F \in [1 .. n -> Seq(Instr)] /\ \A i \in 1 .. n : F[i] = B(i)
  <2> HIDE DEF B
  <2> QED BY <1>4
<1> HIDE DEF F, B
<1>6. PICK h : h \in [0 .. n -> Seq(Instr)] /\ Joins(h, F, n)
  BY <1>3, <1>5, JoinsExists
<1>7. ASSUME NEW i \in 0 .. n PROVE h[i] = Step(h, i)
  <2>1. CASE i = 0
    BY <1>6, <2>1 DEF Joins
  <2>2. CASE i # 0
    <3>1. i \in 1 .. n
      BY <1>3, <2>2
    <3>2. QED
      BY <1>5, <1>6, <2>2, <3>1 DEF Joins
  <2>3. QED
    BY <2>1, <2>2
<1>8. h = [i \in 0 .. n |-> Step(h, i)]
  <2>1. h = [i \in 0 .. n |-> h[i]]
    BY <1>6
  <2> HIDE DEF Step
  <2>2. QED
    BY <1>7, <2>1
<1>9. c = [i \in 0 .. n |-> Step(c, i)]
  <2> HIDE DEF Step
  <2> QED BY <1>8
<1> HIDE DEF c
<1>10. \A i \in 0 .. n : c[i] = Step(c, i)
  <2> HIDE DEF Step
  <2> QED BY <1>9
<1>11. Joins(c, F, n)
  <2>1. \A i \in 1 .. n : i # 0 /\ i \in 0 .. n
    BY <1>3
  <2>2. 0 \in 0 .. n
    BY <1>3
  <2>3. QED
    BY <1>5, <1>10, <2>1, <2>2 DEF Joins, Step
<1>12. c[n] = h[n]
  <2>1. \A i \in 0 .. n : c[i] = h[i]
    BY <1>3, <1>6, <1>11, JoinsUnique
  <2>2. QED
    BY <1>3, <2>1
<1>13. CallOf(s) \in Instr /\ PopOf(n) \in Seq(Instr)
  <2>1. ObjLoc(s.left, 0, 0) \in Locations
    <3>1. s.left \in Readable
      BY DEF Readable
    <3>2. QED
      BY <3>1, ObjLocIs
  <2>2. CallOf(s) \in Instr
    BY <2>1, InstrIs DEF CallOf
  <2>3. CASE n > 0
    <3>1. PopOf(n) = <<[op |-> "pop", count |-> n]>>
      BY <2>3 DEF PopOf
    <3>2. [op |-> "pop", count |-> n] \in Instr
      BY <1>3, InstrIs
    <3>3. QED
      BY <2>2, <3>1, <3>2
  <2>4. CASE ~(n > 0)
    BY <2>2, <2>4, EmptySeq DEF PopOf
  <2>5. QED
    BY <2>3, <2>4
<1>14. PICK t : t = Then(CallOf(s), PopOf(n)) /\ t \in Seq(Instr)
  BY <1>13, ThenIs
<1>15. PICK r : r \in [0 .. n -> Seq(Instr)] /\ Rest(r, F, n, t)
  BY <1>3, <1>5, <1>14, RestExists
<1>16. Splits(Instr, n, F, h, r, t)
  BY <1>3, <1>5, <1>6, <1>14, <1>15 DEF Splits
<1>17. r[0] = Cat(h[n], t)
  BY <1>16, RestJoins
<1>18. r[0] = BuildCall(s)
  <2>1. \A x, y, z \in Seq(Instr) : Cat(Cat(x, y), z) = Cat(x, Cat(y, z))
    BY CatAssociative
  <2>2. h[n] \in Seq(Instr) /\ <<CallOf(s)>> \in Seq(Instr)
    BY <1>3, <1>6, <1>13
  <2>3. Cat(Cat(h[n], <<CallOf(s)>>), PopOf(n)) = Cat(h[n], Cat(<<CallOf(s)>>, PopOf(n)))
    BY Zenon, <1>13, <2>1, <2>2
  <2>4. QED
    BY <1>2, <1>12, <1>14, <1>17, <2>3 DEF Cat, Then
<1>19. ASSUME NEW m \in 0 .. n - 1
       PROVE  r[m] = Cat(Operand(s.args[n - m], 1), Then(PushOf(s.args[n - m], 1, m), r[m + 1]))
  <2>1. m + 1 \in 1 .. n /\ m + 1 \in 0 .. n /\ n + 1 - (m + 1) = n - m /\ (m + 1) - 1 = m
    BY <1>3
  <2> DEFINE o == s.args[n - m]
             x == Operand(o, 1)
             y == <<PushOf(o, 1, m)>>
  <2>2. x \in Seq(Instr) /\ y \in Seq(Instr) /\ F[m + 1] = Cat(x, y)
    <3>1. /\ PushOf(s.args[n - m], 1, m) \in Instr
          /\ Operand(s.args[n - m], 1) \in Seq(Instr)
          /\ B(m + 1) = Cat(Operand(s.args[n - m], 1), <<PushOf(s.args[n - m], 1, m)>>)
      <4> HIDE DEF o, x, y
      <4>1. LET i == m + 1 IN
            /\ PushOf(s.args[n + 1 - i], 1, i - 1) \in Instr
            /\ Operand(s.args[n + 1 - i], 1) \in Seq(Instr)
            /\ B(i) = Cat(Operand(s.args[n + 1 - i], 1), <<PushOf(s.args[n + 1 - i], 1, i - 1)>>)
        BY <1>4, <2>1
      <4>2. QED
        BY <2>1, <4>1
    <3>2. QED
      BY <1>5, <2>1, <3>1
  <2>3. r[m + 1] \in Seq(Instr)
    BY <1>15, <2>1
  <2>4. r[m] = Cat(F[m + 1], r[m + 1])
    BY <1>15, <2>1 DEF Rest, Cat
  <2>5. \A u, v, w \in Seq(Instr) : Cat(Cat(u, v), w) = Cat(u, Cat(v, w))
    BY CatAssociative
  <2>6. Cat(y, r[m + 1]) = Then(PushOf(o, 1, m), r[m + 1])
    BY DEF Then, Cat
  <2> HIDE DEF x, y
  <2>7. Cat(Cat(x, y), r[m + 1]) = Cat(x, Cat(y, r[m + 1]))
    BY Zenon, <2>2, <2>3, <2>5
  <2>8. QED
    BY <2>2, <2>4, <2>6, <2>7 DEF x
<1>20. r[n] = t
  BY <1>15 DEF Rest
<1>21. QED
  BY <1>14, <1>15, <1>18, <1>19, <1>20 DEF n
LEMMA StatementIs ==
  ASSUME NEW s \in Statement
  PROVE  /\ s.stmt \in {"cmp", "mov", "push", "call", "print", "jmp", "pop"} \cup BinOps
         /\ s.stmt = "cmp" => s.left \in Readable /\ s.right \in Readable
         /\ s.stmt \in {"mov"} \cup BinOps => s.left \in Locations /\ s.right \in Readable
         /\ s.stmt = "push" => s.left \in Readable
         /\ s.stmt = "call" => s.left \in Locations /\ s.args \in Seq(Readable)
         /\ s.stmt = "print" => s.args \in Seq(Readable)
         /\ s.stmt = "jmp" => s.left \in Locations /\ s.mode \in DOMAIN JumpMode
         /\ s.stmt = "pop" => s.count \in Nat
<1>1. CASE s \in [stmt : {"cmp"}, left : Readable, right : Readable]
  BY <1>1, BinOpsIs
<1>2. CASE s \in [stmt : {"mov"} \cup BinOps, left : Locations, right : Readable]
  BY <1>2, BinOpsIs
<1>3. CASE s \in [stmt : {"push"}, left : Readable]
  BY <1>3, BinOpsIs
<1>4. CASE s \in [stmt : {"call"}, left : Locations, args : Seq(Readable)]
  BY <1>4, BinOpsIs
<1>5. CASE s \in [stmt : {"print"}, args : Seq(Readable)]
  BY <1>5, BinOpsIs
<1>6. CASE s \in [stmt : {"jmp"}, mode : DOMAIN JumpMode, left : Locations]
  BY <1>6, BinOpsIs
<1>7. CASE s \in [stmt : {"pop"}, count : Nat]
  BY <1>7, BinOpsIs
<1>8. QED
  BY <1>1, <1>2, <1>3, <1>4, <1>5, <1>6, <1>7 DEF Statement

JumpOf(s) == [op |-> "jmp", mode |-> s.mode, of |-> s.left]

LEMMA BuildIs ==
  ASSUME NEW s \in Statement
  PROVE  /\ Build(s) \in Seq(Instr)
         /\ s.stmt = "mov" =>
              /\ PairOf("mov", s.left, s.right, 0) \in Instr
              /\ Build(s) = TwoCode(PairOf("mov", s.left, s.right, 0), s.left, s.right, 0)
         /\ s.stmt \in {"cmp"} \cup BinOps =>
              /\ PairOf(s.stmt, s.left, s.right, 1) \in Instr
              /\ Build(s) = TwoCode(PairOf(s.stmt, s.left, s.right, 1), s.left, s.right, 1)
         /\ s.stmt = "push" =>
              /\ PushOf(s.left, 0, 0) \in Instr
              /\ Build(s) = Cat(Operand(s.left, 0), Then(PushOf(s.left, 0, 0), << >>))
         /\ s.stmt = "jmp" => JumpOf(s) \in Instr /\ Build(s) = Then(JumpOf(s), << >>)
         /\ s.stmt = "pop" =>
              Build(s) = Then([op |-> "pop", count |-> s.count], << >>)
         /\ s.stmt = "print" => Build(s) = BuildPrint(s)
         /\ s.stmt = "call" => Build(s) = BuildCall(s)
<1>1. 0 \in Int /\ 1 \in Int /\ << >> \in Seq(Instr)
  BY EmptySeq
<1>2. \A l, r \in Readable : \A op \in {"mov", "cmp"} \cup BinOps : \A usage \in {0, 1} :
        PairOf(op, l, r, usage) \in Instr
  BY <1>1, ObjLocIs, InstrIs DEF PairOf
<1>3. \A l \in Locations : l \in Readable
  BY DEF Readable
<1>4. \A i \in Instr : <<i>> = Then(i, << >>) /\ Then(i, << >>) \in Seq(Instr)
  <2> TAKE i \in Instr
  <2>1. <<i>> \in Seq(Instr)
    OBVIOUS
  <2>2. <<i>> \o << >> = <<i>>
    BY <2>1, ConcatEmptySeq
  <2>3. QED
    BY <2>1, <2>2 DEF Then
<1>5. CASE s.stmt = "mov"
  <2>1. s.left \in Readable /\ s.right \in Readable /\ s.stmt \notin BinOps
    BY <1>3, <1>5, StatementIs, BinOpsIs
  <2> DEFINE f == PairOf("mov", s.left, s.right, 0)
  <2>2. f \in Instr
    BY <1>2, <2>1
  <2>3. Build(s) = BuildMov(s)
    BY <1>5, <2>1 DEF Build
  <2>4. Build(s) = Operand(s.left, 0) \o Operand(s.right, 0) \o <<f>>
    BY <2>3 DEF BuildMov, PairOf
  <2> HIDE DEF f
  <2>5. Build(s) = TwoCode(f, s.left, s.right, 0) /\ Build(s) \in Seq(Instr)
    <3>1. Build(s) = Cat(Cat(Operand(s.left, 0), Operand(s.right, 0)), <<f>>)
      BY <2>4 DEF Cat
    <3>2. Cat(Cat(Operand(s.left, 0), Operand(s.right, 0)), <<f>>) = TwoCode(f, s.left, s.right, 0)
          /\ TwoCode(f, s.left, s.right, 0) \in Seq(Instr)
      BY <1>1, <2>1, <2>2, TwoCodeIs
    <3>3. QED
      BY <3>1, <3>2
  <2>6. QED
    BY <1>5, <2>1, <2>2, <2>5 DEF f
<1>6. CASE s.stmt \in {"cmp"} \cup BinOps
  <2>1. s.left \in Readable /\ s.right \in Readable
    BY <1>3, <1>6, StatementIs
  <2>2. s.stmt \notin {"mov", "push", "call", "print", "jmp", "pop"}
    BY <1>6, BinOpsIs
  <2> DEFINE f == PairOf(s.stmt, s.left, s.right, 1)
  <2>3. f \in Instr
    BY <1>2, <1>6, <2>1
  <2>4. Build(s) = BuildPair(s)
    <3>1. CASE s.stmt = "cmp"
      BY <3>1, BinOpsIs DEF Build
    <3>2. CASE s.stmt \in BinOps
      BY <3>2, BinOpsIs DEF Build, BuildBinOp
    <3>3. QED
      BY <1>6, <3>1, <3>2
  <2>5. Build(s) = Operand(s.left, 0) \o Operand(s.right, 1) \o <<f>>
    BY <2>4 DEF BuildPair, PairOf
  <2> HIDE DEF f
  <2>6. Build(s) = TwoCode(f, s.left, s.right, 1) /\ Build(s) \in Seq(Instr)
    <3>1. Build(s) = Cat(Cat(Operand(s.left, 0), Operand(s.right, 1)), <<f>>)
      BY <2>5 DEF Cat
    <3>2. Cat(Cat(Operand(s.left, 0), Operand(s.right, 1)), <<f>>) = TwoCode(f, s.left, s.right, 1)
          /\ TwoCode(f, s.left, s.right, 1) \in Seq(Instr)
      BY <1>1, <2>1, <2>3, TwoCodeIs
    <3>3. QED
      BY <3>1, <3>2
  <2>7. QED
    BY <1>6, <2>2, <2>3, <2>6 DEF f
<1>7. CASE s.stmt = "push"
  <2>1. s.left \in Readable /\ s.stmt \notin BinOps
    BY <1>7, StatementIs, BinOpsIs
  <2> DEFINE f == PushOf(s.left, 0, 0)
  <2>2. f \in Instr
    BY <1>1, <2>1, ObjLocIs, InstrIs DEF PushOf
  <2>3. Build(s) = BuildPush(s.left, 0, 0)
    BY <1>7, <2>1 DEF Build
  <2>4. Build(s) = Operand(s.left, 0) \o <<f>>
    BY <2>3 DEF BuildPush, PushOf
  <2> HIDE DEF f
  <2>5. Build(s) = Cat(Operand(s.left, 0), Then(f, << >>))
    BY <1>4, <2>2, <2>4 DEF Cat
  <2>6. Build(s) \in Seq(Instr)
    <3>1. Operand(s.left, 0) \in Seq(Instr) /\ Then(f, << >>) \in Seq(Instr)
      BY <1>1, <1>4, <2>1, <2>2, OperandIs
    <3>2. QED
      BY <2>5, <3>1, CatIs
  <2>7. QED
    BY <1>7, <2>1, <2>2, <2>5, <2>6 DEF f
<1>8. CASE s.stmt = "jmp"
  <2>1. s.left \in Locations /\ s.mode \in DOMAIN JumpMode /\ s.stmt \notin BinOps
    BY <1>8, StatementIs, BinOpsIs
  <2>2. JumpOf(s) \in Instr
    BY <2>1, InstrIs DEF JumpOf
  <2>3. Build(s) = <<JumpOf(s)>>
    BY <1>8, <2>1 DEF Build, BuildJmp, JumpOf
  <2>4. QED
    BY <1>4, <1>8, <2>1, <2>2, <2>3
<1>9. CASE s.stmt = "pop"
  <2>1. s.count \in Nat /\ s.stmt \notin BinOps
    BY <1>9, StatementIs, BinOpsIs
  <2> DEFINE f == [op |-> "pop", count |-> s.count]
  <2>2. f \in Instr
    BY <2>1, InstrIs
  <2>3. Build(s) = <<f>>
    BY <1>9, <2>1 DEF Build
  <2> HIDE DEF f
  <2>4. QED
    BY <1>4, <1>9, <2>1, <2>2, <2>3 DEF f
<1>10. CASE s.stmt = "print"
  <2>1. s.args \in Seq(Readable) /\ s.stmt \notin BinOps
    BY <1>10, StatementIs, BinOpsIs
  <2>2. Build(s) = BuildPrint(s)
    BY <1>10, <2>1 DEF Build
  <2>3. BuildPrint(s) \in Seq(Instr)
    <3>1. PICK r \in [0 .. Len(s.args) -> Seq(Instr)] : r[0] = BuildPrint(s)
      BY <2>1, PrintRest
    <3>2. 0 \in 0 .. Len(s.args)
      BY <2>1, LenProperties
    <3>3. QED
      BY <3>1, <3>2
  <2>4. QED
    BY <1>10, <2>1, <2>2, <2>3
<1>11. CASE s.stmt = "call"
  <2>1. s.left \in Locations /\ s.args \in Seq(Readable) /\ s.stmt \notin BinOps
    BY <1>11, StatementIs, BinOpsIs
  <2>2. Build(s) = BuildCall(s)
    BY <1>11, <2>1 DEF Build
  <2>3. BuildCall(s) \in Seq(Instr)
    <3>1. PICK r \in [0 .. Len(s.args) -> Seq(Instr)] : r[0] = BuildCall(s)
      BY <2>1, CallRest
    <3>2. 0 \in 0 .. Len(s.args)
      BY <2>1, LenProperties
    <3>3. QED
      BY <3>1, <3>2
  <2>4. QED
    BY <1>11, <2>1, <2>2, <2>3
<1>12. QED
  BY <1>5, <1>6, <1>7, <1>8, <1>9, <1>10, <1>11, StatementIs
-----------------------------------------------------------------------------
(* Reading the first instruction of a stream.                              *)
LEMMA FirstIs ==
  ASSUME NEW i \in Instr, NEW t \in Seq(Int)
  PROVE  LET c == Cat(Encode(i), t) IN
         /\ c # << >> /\ Head(c) = Encode(i)[1]
         /\ SubSeq(c, Size(i.op) + 1, Len(c)) = t
         /\ \A b \in 1 .. Size(i.op) : c[b] = Encode(i)[b]
<1>1. PICK u : u = Encode(i)
  OBVIOUS
<1>2. u \in Seq(Int) /\ Len(u) = Size(i.op) /\ Size(i.op) \in Nat \ {0}
  BY <1>1, EncodeIs, SizesAre
<1>3. PICK c : c = u \o t
  OBVIOUS
<1>4. /\ c \in Seq(Int) /\ Len(c) = Len(u) + Len(t)
      /\ \A b \in 1 .. Len(u) + Len(t) : c[b] = IF b <= Len(u) THEN u[b] ELSE t[b - Len(u)]
  <2>1. u \in Seq(Int) /\ t \in Seq(Int)
    BY <1>2
  <2>2. QED
    BY <1>3, <2>1, ConcatProperties
<1>5. Len(t) \in Nat
  BY LenProperties
<1>6. \A b \in 1 .. Size(i.op) : c[b] = u[b]
  <2> TAKE b \in 1 .. Size(i.op)
  <2>1. b \in 1 .. Len(u) + Len(t) /\ b <= Len(u)
    BY <1>2, <1>5
  <2>2. QED
    BY <1>4, <2>1
<1>7. c # << >>
  BY <1>2, <1>4, <1>5, EmptySeq
<1>8. Head(c) = u[1]
  <2>1. Head(c) = c[1]
    BY <1>4, <1>7
  <2>2. 1 \in 1 .. Size(i.op)
    BY <1>2
  <2>3. QED
    BY <1>6, <2>1, <2>2
<1>9. SubSeq(c, Len(u) + 1, Len(c)) = t
  BY <1>2, <1>3, RestIs
<1>10. c = Cat(Encode(i), t)
  BY <1>1, <1>3 DEF Cat
<1>11. QED
  BY <1>1, <1>2, <1>6, <1>7, <1>8, <1>9, <1>10

(* A field of the first instruction.                                       *)
LEMMA FieldRead ==
  ASSUME NEW i \in Instr, NEW t \in Seq(Int), NEW c, c = Cat(Encode(i), t),
         NEW skip \in Nat, NEW n \in Int, NEW w \in Nat, skip + w <= Size(i.op),
         Holding(Encode(i), skip, n, w)
  PROVE  Read(c, skip, w) = n % Power(256, w)
<1>1. \A b \in 1 .. Size(i.op) : c[b] = Encode(i)[b]
  BY FirstIs
<1>2. Size(i.op) \in Nat
  BY EncodeIs, SizesAre
<1>3. \A b \in 1 .. w : c[skip + b] = (n \div Power(256, b - 1)) % 256
  <2> TAKE b \in 1 .. w
  <2>1. skip + b \in 1 .. Size(i.op)
    BY <1>2
  <2>2. QED
    BY <1>1, <2>1 DEF Holding
<1>4. QED
  BY <1>3, ReadIs

(* Locations a field can hold.                                             *)
Near(l) == 16 * Magnitude(l.at) + 16 <= Power(256, LocBytes)

LEMMA SlotIs ==
  ASSUME NEW l \in Locations, sp \in Int, Near(l), NEW k,
         Read(code, 1 + (k - 1) * LocBytes, LocBytes) = Payload(l) % Power(256, LocBytes)
  PROVE  SlotAt(k) = Addr(l)
<1> DEFINE m == Magnitude(l.at)
           x == StoreNumber[l.store]
           y == IF l.at < 0 THEN 8 ELSE 12
           p == Payload(l)
           q == Power(256, LocBytes)
<1>1. /\ p = m * 16 + x + y /\ m \in Nat /\ x \in 1 .. 3 /\ y \in {8, 12}
  BY PayloadIs
<1>2. l.at \in Int /\ l.store \in {"R", "S", "L"}
  BY DEF Locations
<1>3. Storage[x + 1] = l.store
  BY <1>2 DEF Storage, StoreNumber
<1>4. y = 12 <=> ~(l.at < 0)
  OBVIOUS
<1>5. 16 * m + 16 <= q /\ q \in Nat
  <2>1. 256 \in Nat \ {0} /\ LocBytes \in Nat
    BY SizesAre
  <2>2. q \in Nat
    BY <2>1, PowerIs
  <2>3. QED
    BY <2>2 DEF Near
<1>6. m = IF l.at < 0 THEN -l.at ELSE l.at
  BY DEF Magnitude
<1>7. Read(code, 1 + (k - 1) * LocBytes, LocBytes) = p % q
  OBVIOUS
<1> HIDE DEF m, x, y, p, q
<1>8. p \in 0 .. q - 1
  BY <1>1, <1>5
<1>9. p % q = p
  BY <1>5, <1>8
<1>10. p % 4 = x /\ p \div 16 = m /\ ((p \div 4) % 4 = 3 <=> y = 12)
  BY <1>1
<1>11. StoreOf(p) = l.store /\ Distance(p) = m /\ (IsAbsolute(p) <=> ~(l.at < 0))
  BY <1>3, <1>4, <1>10 DEF StoreOf, Distance, IsAbsolute
<1>12. SlotAt(k) = <<l.store, IF IsAbsolute(p) THEN m ELSE Top(l.store) - m>>
  BY <1>7, <1>9, <1>11 DEF SlotAt
<1>13. Top(l.store) \in Int
  BY <1>2, StorageAssumption DEF Top
<1>14. CASE l.at < 0
  <2>1. Top(l.store) - m = Top(l.store) + l.at
    BY <1>2, <1>6, <1>13, <1>14
  <2>2. QED
    BY <1>11, <1>12, <1>14, <2>1 DEF Addr
<1>15. CASE ~(l.at < 0)
  BY <1>6, <1>11, <1>12, <1>15 DEF Addr
<1>16. QED
  BY <1>14, <1>15

LEMMA NearIs ==
  ASSUME NEW l \in Locations, sp \in 0 .. Depth - 1, Addr(l) \in Slots
  PROVE  Near(l)
<1>1. l.at \in Int /\ l.store \in {"R", "S", "L"}
  BY DEF Locations
<1>2. PICK n \in Reg \cup Static \cup {StaticTop, Depth} : Magnitude(l.at) <= n /\ n \in Nat
  <2>1. CASE l.at < 0
    <3>1. Magnitude(l.at) = -l.at
      BY <2>1 DEF Magnitude
    <3>2. Addr(l) = <<l.store, Top(l.store) + l.at>>
      BY <2>1 DEF Addr
    <3>3. CASE l.store = "L"
      <4>1. sp + l.at \in 0 .. Depth - 1
        BY <3>2, <3>3 DEF Top, Slots
      <4>2. Magnitude(l.at) <= Depth /\ Depth \in Nat
        BY <1>1, <3>1, <4>1, StorageAssumption
      <4>3. QED
        BY <4>2
    <3>4. CASE l.store = "S"
      <4>1. StaticTop + l.at \in Static /\ StaticTop \in Nat
        BY <3>2, <3>4, StorageAssumption DEF Top, Slots
      <4>2. Magnitude(l.at) <= StaticTop /\ StaticTop \in Nat
        BY <1>1, <3>1, <4>1, StorageAssumption
      <4>3. QED
        BY <4>2
    <3>5. CASE l.store = "R"
      <4>1. 0 + l.at \in Reg
        BY <3>2, <3>5 DEF Top, Slots
      <4>2. QED
        BY <1>1, <2>1, <4>1, StorageAssumption
    <3>6. QED
      BY <1>1, <3>3, <3>4, <3>5
  <2>2. CASE ~(l.at < 0)
    <3>1. Magnitude(l.at) = l.at /\ Addr(l) = <<l.store, l.at>> /\ l.at \in Nat
      BY <1>1, <2>2 DEF Magnitude, Addr
    <3>2. CASE l.store = "L"
      <4>1. l.at \in 0 .. Depth - 1
        BY <3>1, <3>2 DEF Slots
      <4>2. QED
        BY <3>1, <4>1, StorageAssumption
    <3>3. CASE l.store # "L"
      <4>1. l.at \in Reg \cup Static
        BY <3>1, <3>3 DEF Slots
      <4>2. QED
        BY <3>1, <4>1
    <3>4. QED
      BY <3>2, <3>3
  <2>3. QED
    BY <2>1, <2>2
<1>3. 16 * n + 16 <= Power(256, LocBytes)
  BY <1>2, AddressAssumption
<1>4. Magnitude(l.at) \in Nat
  BY <1>1 DEF Magnitude
<1>5. Power(256, LocBytes) \in Nat
  <2>1. 256 \in Nat \ {0} /\ LocBytes \in Nat
    BY SizesAre
  <2>2. QED
    BY <2>1, PowerIs
<1>6. QED
  BY <1>2, <1>3, <1>4, <1>5 DEF Near

LEMMA FirstInstruction ==
  ASSUME NEW i \in Instr, NEW is \in Seq(Instr), code = EncodeAll(Then(i, is))
  PROVE  /\ \A op \in DOMAIN Named : Instruction(op) =>
              op = i.op /\ code' = EncodeAll(is) /\ UNCHANGED <<meant, compared, done>>
         /\ code # << >>
         /\ i.op \in {"load", "mov", "cmp"} \cup BinOps /\ sp \in Int /\ Near(i.to) =>
              SlotAt(1) = Addr(i.to)
         /\ i.op \in {"mov", "cmp"} \cup BinOps /\ sp \in Int /\ Near(i.from) =>
              SlotAt(2) = Addr(i.from)
         /\ i.op \in {"jmp", "push", "call", "print"} /\ sp \in Int /\ Near(i.of) =>
              SlotAt(1) = Addr(i.of)
         /\ i.op = "jmp" => Flags(Head(code)) = JumpMode[i.mode]
         /\ i.op = "load" => Long(Read(code, 1 + LocBytes, LongBytes)) = i.value
         /\ i.op = "pop" => Read(code, 1, CountBytes) = i.count % Power(256, CountBytes)
<1> DEFINE t == EncodeAll(is)
<1>1. t \in Seq(Int) /\ code = Cat(Encode(i), t)
  BY EncodeAllIs
<1> HIDE DEF t
<1>2. /\ code # << >> /\ Head(code) = Encode(i)[1]
      /\ SubSeq(code, Size(i.op) + 1, Len(code)) = t
  BY <1>1, FirstIs
<1>3. i.op \in DOMAIN Named /\ Opcode(Encode(i)[1]) = Named[i.op]
  BY EncodeIs
<1>4. ASSUME NEW op \in DOMAIN Named, Instruction(op)
      PROVE  op = i.op /\ code' = t /\ UNCHANGED <<meant, compared, done>>
  <2>1. Named[op] = Named[i.op]
    BY <1>2, <1>3, <1>4 DEF Instruction
  <2>2. op = i.op
    BY <1>3, <2>1, NamedApart
  <2>3. QED
    BY <1>2, <1>4, <2>2 DEF Instruction
<1>5. /\ LocBytes \in Nat /\ LongBytes \in Nat /\ CountBytes \in Nat /\ 1 \in Nat
      /\ 1 + LocBytes \in Nat
      /\ 1 + (1 - 1) * LocBytes = 1 /\ 1 + (2 - 1) * LocBytes = 1 + LocBytes
  BY SizesAre
<1>6. ASSUME i.op \in {"load", "mov", "cmp"} \cup BinOps, sp \in Int, Near(i.to)
      PROVE  SlotAt(1) = Addr(i.to)
  <2>1. i.to \in Locations /\ Holding(Encode(i), 1, Payload(i.to), LocBytes)
    BY <1>6, EncodeIs
  <2>2. 1 + LocBytes <= Size(i.op)
    <3>1. Size(i.op) = 1 + LocBytes + LongBytes \/ Size(i.op) = 1 + 2 * LocBytes
      BY <1>6, SizesAre
    <3>2. QED
      BY <1>5, <3>1
  <2>3. Payload(i.to) \in Int
    BY <2>1, PayloadIs
  <2>4. Read(code, 1, LocBytes) = Payload(i.to) % Power(256, LocBytes)
    BY <1>1, <1>5, <2>1, <2>2, <2>3, FieldRead
  <2>5. QED
    BY <1>5, <1>6, <2>1, <2>4, SlotIs
<1>7. ASSUME i.op \in {"mov", "cmp"} \cup BinOps, sp \in Int, Near(i.from)
      PROVE  SlotAt(2) = Addr(i.from)
  <2>1. i.from \in Locations /\ Holding(Encode(i), 1 + LocBytes, Payload(i.from), LocBytes)
    BY <1>7, EncodeIs
  <2>2. (1 + LocBytes) + LocBytes <= Size(i.op)
    <3>1. Size(i.op) = 1 + 2 * LocBytes
      BY <1>7, SizesAre
    <3>2. QED
      BY <1>5, <3>1
  <2>3. Payload(i.from) \in Int
    BY <2>1, PayloadIs
  <2>4. Read(code, 1 + LocBytes, LocBytes) = Payload(i.from) % Power(256, LocBytes)
    BY <1>1, <1>5, <2>1, <2>2, <2>3, FieldRead
  <2>5. QED
    BY <1>5, <1>7, <2>1, <2>4, SlotIs
<1>8. ASSUME i.op \in {"jmp", "push", "call", "print"}, sp \in Int, Near(i.of)
      PROVE  SlotAt(1) = Addr(i.of)
  <2>1. i.of \in Locations /\ Holding(Encode(i), 1, Payload(i.of), LocBytes)
    BY <1>8, EncodeIs
  <2>2. 1 + LocBytes <= Size(i.op)
    BY <1>5, <1>8, SizesAre
  <2>3. Payload(i.of) \in Int
    BY <2>1, PayloadIs
  <2>4. Read(code, 1, LocBytes) = Payload(i.of) % Power(256, LocBytes)
    BY <1>1, <1>5, <2>1, <2>2, <2>3, FieldRead
  <2>5. QED
    BY <1>5, <1>8, <2>1, <2>4, SlotIs
<1>9. i.op = "jmp" => Flags(Head(code)) = JumpMode[i.mode]
  BY <1>2, EncodeIs
<1>10. ASSUME i.op = "load"
       PROVE  Long(Read(code, 1 + LocBytes, LongBytes)) = i.value
  <2>1. i.value \in Literal /\ Holding(Encode(i), 1 + LocBytes, i.value, LongBytes)
    BY <1>10, EncodeIs
  <2>2. (1 + LocBytes) + LongBytes <= Size(i.op)
    BY <1>5, <1>10, SizesAre
  <2>3. i.value \in Int /\ Long(i.value) = i.value
    BY <2>1, LiteralAssumption
  <2>4. Read(code, 1 + LocBytes, LongBytes) = i.value % Power(256, LongBytes)
    BY <1>1, <1>5, <2>1, <2>2, <2>3, FieldRead
  <2>5. Long(i.value % Power(256, LongBytes)) = Long(i.value)
    BY <2>3, LongIs
  <2>6. QED
    BY <2>3, <2>4, <2>5
<1>11. ASSUME i.op = "pop"
       PROVE  Read(code, 1, CountBytes) = i.count % Power(256, CountBytes)
  <2>1. i.count \in Int /\ Holding(Encode(i), 1, i.count, CountBytes)
    BY <1>11, EncodeIs
  <2>2. 1 + CountBytes <= Size(i.op)
    BY <1>5, <1>11, SizesAre
  <2>3. QED
    BY <1>1, <1>5, <2>1, <2>2, FieldRead
<1>12. QED
  BY <1>2, <1>4, <1>6, <1>7, <1>8, <1>9, <1>10, <1>11 DEF t
LEMMA NoInstruction ==
  ASSUME code = << >>
  PROVE  \A op : ~ Instruction(op)
  BY DEF Instruction

LEMMA NextIs ==
  ASSUME Next
  PROVE  (\E s \in Statements : Begin(s)) \/ \E op \in DOMAIN Named : Instruction(op)
<1>1. {"load", "mov", "cmp", "jmp", "push", "pop", "print", "call"} \cup BinOps \subseteq DOMAIN Named
  BY BinOpsIs
<1>2. QED
  BY <1>1 DEF Next, OpLoad, OpMov, OpBinary, OpCmp, OpJmp, OpPush, OpPop, OpPrint, OpCall

(* A sequence with elements begins with one.                               *)
LEMMA ThenExists ==
  ASSUME NEW S, NEW s \in Seq(S), s # << >>
  PROVE  \E x \in S, t \in Seq(S) : s = Then(x, t)
<1> DEFINE x == Head(s)
           t == Tail(s)
<1>1. /\ x \in S /\ t \in Seq(S) /\ Len(t) = Len(s) - 1
      /\ \A i \in 1 .. Len(t) : t[i] = s[i + 1]
  BY HeadTailProperties
<1>2. x = s[1] /\ Len(s) \in Nat \ {0}
  BY EmptySeq
<1> HIDE DEF x, t
<1>3. PICK u : u = Then(x, t)
  OBVIOUS
<1>4. /\ u \in Seq(S) /\ Len(u) = Len(t) + 1 /\ u[1] = x
      /\ \A k \in 1 .. Len(t) : u[k + 1] = t[k]
  <2>1. x \in S /\ t \in Seq(S)
    BY <1>1
  <2>2. QED
    <3>1. /\ Then(x, t) \in Seq(S) /\ Len(Then(x, t)) = Len(t) + 1 /\ Then(x, t)[1] = x
          /\ \A k \in 1 .. Len(t) : Then(x, t)[k + 1] = t[k]
      BY <2>1, ThenIs
    <3>2. QED
      BY <1>3, <3>1
<1>5. Len(u) = Len(s)
  BY <1>1, <1>2, <1>4
<1>6. \A k \in 1 .. Len(u) : u[k] = s[k]
  <2> TAKE k \in 1 .. Len(u)
  <2>1. CASE k = 1
    BY <1>2, <1>4, <2>1
  <2>2. CASE k # 1
    <3>1. k - 1 \in 1 .. Len(t) /\ (k - 1) + 1 = k
      BY <1>1, <1>2, <1>5, <2>2
    <3>2. u[(k - 1) + 1] = t[k - 1] /\ t[k - 1] = s[(k - 1) + 1]
      BY <1>1, <1>4, <3>1
    <3>3. QED
      BY <3>1, <3>2
  <2>3. QED
    BY <2>1, <2>2
<1>7. u = s
  BY <1>4, <1>5, <1>6, SeqEqual
<1>8. QED
  BY <1>1, <1>3, <1>7

-----------------------------------------------------------------------------
(* What is still to execute is a stream of instructions as they were       *)
(* written: the interpreter takes them off one by one.                     *)
Streams == \E is \in Seq(Instr) : code = EncodeAll(is)

LEMMA StreamsKept ==
  Spec => []Streams
<1>1. Init => Streams
  <2>1. << >> \in Seq(Instr)
    BY EmptySeq
  <2>2. QED
    BY <2>1, EncodeAllIs DEF Init, Streams
<1>2. Streams /\ [Next]_vars => Streams'
  <2> SUFFICES ASSUME Streams, [Next]_vars
               PROVE  Streams'
    OBVIOUS
  <2>1. CASE \E s \in Statements : Begin(s)
    <3>1. PICK s \in Statements : Begin(s)
      BY <2>1
    <3>2. Build(s) \in Seq(Instr)
      BY StatementsAssumption, BuildIs
    <3>3. code' = EncodeAll(Build(s))
      BY <3>1 DEF Begin
    <3>4. QED
      BY <3>2, <3>3 DEF Streams
  <2>2. CASE \E op \in DOMAIN Named : Instruction(op)
    <3>1. PICK op \in DOMAIN Named : Instruction(op)
      BY <2>2
    <3>2. PICK is \in Seq(Instr) : code = EncodeAll(is)
      BY DEF Streams
    <3>3. is # << >>
      BY <3>1, <3>2, EncodeAllIs, NoInstruction
    <3>4. PICK x \in Instr, t \in Seq(Instr) : is = Then(x, t)
      BY <3>3, ThenExists
    <3>5. code' = EncodeAll(t)
      BY <3>1, <3>2, <3>4, FirstInstruction
    <3>6. QED
      BY <3>5 DEF Streams
  <2>3. CASE UNCHANGED vars
    BY <2>3 DEF Streams, vars
  <2>4. QED
    BY <2>1, <2>2, <2>3, NextIs
<1>3. QED
  BY <1>1, <1>2, PTL DEF Spec

(* Whatever the statements and their operands, the interpreter is always   *)
(* at the beginning of an instruction, and what follows is whole           *)
(* instructions to its end: the accept methods write as many bytes as the  *)
(* interpreter reads.                                                      *)
THEOREM InterpreterInStep ==
  Spec => []InStep
<1>1. Streams => InStep
  BY StreamWhole DEF Streams, InStep
<1>2. QED
  BY <1>1, StreamsKept, PTL
-----------------------------------------------------------------------------
(* Locations and operands in a given store, on a stack of a given height.  *)
At(l, h) ==
  <<l.store,
    IF l.at < 0 THEN (CASE l.store = "L" -> h [] l.store = "S" -> StaticTop [] OTHER -> 0) + l.at
    ELSE l.at>>

ValueAt(o, st, h) == IF o.kind = "lit" THEN o.value ELSE st[At(o, h)]

LEMMA AtIs ==
  /\ \A l : Addr(l) = At(l, sp)
  /\ \A o : Value(o) = ValueAt(o, store, sp)
<1>1. \A l : Addr(l) = At(l, sp)
  BY DEF Addr, At, Top
<1>2. QED
  BY <1>1 DEF Value, ValueAt

(* The locations of an instruction are slots.                              *)
Placed(i, h) ==
  /\ i.op \in {"load", "mov", "cmp"} \cup BinOps => At(i.to, h) \in Slots
  /\ i.op \in {"mov", "cmp"} \cup BinOps => At(i.from, h) \in Slots
  /\ i.op \in {"jmp", "push", "call", "print"} => At(i.of, h) \in Slots

(* What executing it does.                                                 *)
Put(a, v) == store' = [store EXCEPT ![a] = v]

Does(i) ==
  /\ i.op = "load" =>
       Put(At(i.to, sp), i.value) /\ UNCHANGED <<sp, flags, jumped, called, seen>>
  /\ i.op = "mov" =>
       Put(At(i.to, sp), store[At(i.from, sp)]) /\ UNCHANGED <<sp, flags, jumped, called, seen>>
  /\ i.op \in BinOps =>
       /\ Put(At(i.to, sp), Result(i.op, store[At(i.to, sp)], store[At(i.from, sp)]))
       /\ UNCHANGED <<sp, flags, jumped, called, seen>>
  /\ i.op = "cmp" =>
       /\ flags' = CmpFlags(store[At(i.to, sp)], store[At(i.from, sp)])
       /\ UNCHANGED <<store, sp, jumped, called, seen>>
  /\ i.op = "jmp" =>
       /\ jumped' = Taken(i.mode, flags)
       /\ called' = (IF jumped' THEN store[At(i.of, sp)] ELSE called)
       /\ UNCHANGED <<store, sp, flags, seen>>
  /\ i.op = "push" =>
       /\ Put(<<"L", sp>>, store[At(i.of, sp)]) /\ sp' = sp + 1
       /\ UNCHANGED <<flags, jumped, called, seen>>
  /\ i.op = "pop" =>
       /\ sp' = sp - (i.count % Power(256, CountBytes))
       /\ UNCHANGED <<store, flags, jumped, called, seen>>
  /\ i.op = "print" =>
       /\ seen' = Append(seen, Wrap(store[At(i.of, sp)], IntBits))
       /\ UNCHANGED <<store, sp, flags, jumped, called>>
  /\ i.op = "call" =>
       /\ called' = store[At(i.of, sp)]
       /\ seen' = [k \in 1 .. sp |-> store[<<"L", sp - 1 - (k - 1)>>]]
       /\ \E v \in Literal : Put(<<"R", 0>>, v)
       /\ UNCHANGED <<sp, flags, jumped>>

LEMMA ModesApart ==
  \A p, q \in DOMAIN JumpMode : JumpMode[p] = JumpMode[q] => p = q
  BY DEF JumpMode

LEMMA StepIs ==
  ASSUME NEW i \in Instr, NEW is \in Seq(Instr), code = EncodeAll(Then(i, is)),
         sp \in 0 .. Depth - 1, Placed(i, sp), Next
  PROVE  Does(i) /\ code' = EncodeAll(is) /\ UNCHANGED <<meant, compared, done>>
<1>1. sp \in Int
  OBVIOUS
<1>2. \A op \in DOMAIN Named : Instruction(op) =>
        op = i.op /\ code' = EncodeAll(is) /\ UNCHANGED <<meant, compared, done>>
  BY FirstInstruction
<1>3. code # << >>
  BY FirstInstruction
<1>4. PICK op \in DOMAIN Named : Instruction(op)
  BY <1>3, NextIs DEF Begin
<1>5. op = i.op /\ code' = EncodeAll(is) /\ UNCHANGED <<meant, compared, done>>
  BY <1>2, <1>4
<1>6. i.op \in {"load", "mov", "cmp"} \cup BinOps => SlotAt(1) = At(i.to, sp)
  <2> SUFFICES ASSUME i.op \in {"load", "mov", "cmp"} \cup BinOps
               PROVE  SlotAt(1) = At(i.to, sp)
    OBVIOUS
  <2>1. i.to \in Locations /\ Addr(i.to) \in Slots
    BY EncodeIs, AtIs DEF Placed
  <2>2. Near(i.to)
    BY <2>1, NearIs
  <2>3. QED
    BY <1>1, <2>2, FirstInstruction, AtIs
<1>7. i.op \in {"mov", "cmp"} \cup BinOps => SlotAt(2) = At(i.from, sp)
  <2> SUFFICES ASSUME i.op \in {"mov", "cmp"} \cup BinOps
               PROVE  SlotAt(2) = At(i.from, sp)
    OBVIOUS
  <2>1. i.from \in Locations /\ Addr(i.from) \in Slots
    BY EncodeIs, AtIs DEF Placed
  <2>2. Near(i.from)
    BY <2>1, NearIs
  <2>3. QED
    BY <1>1, <2>2, FirstInstruction, AtIs
<1>8. i.op \in {"jmp", "push", "call", "print"} => SlotAt(1) = At(i.of, sp)
  <2> SUFFICES ASSUME i.op \in {"jmp", "push", "call", "print"}
               PROVE  SlotAt(1) = At(i.of, sp)
    OBVIOUS
  <2>1. i.of \in Locations /\ Addr(i.of) \in Slots
    BY EncodeIs, AtIs DEF Placed
  <2>2. Near(i.of)
    BY <2>1, NearIs
  <2>3. QED
    BY <1>1, <2>2, FirstInstruction, AtIs
<1>9. {"load", "mov", "cmp", "jmp", "push", "pop", "print", "call"} \cup BinOps \subseteq DOMAIN Named
  BY BinOpsIs
<1>10. i.op = "load" => Long(Read(code, 1 + LocBytes, LongBytes)) = i.value
  BY FirstInstruction
<1>11. i.op = "pop" => Read(code, 1, CountBytes) = i.count % Power(256, CountBytes)
  BY FirstInstruction
<1>12. i.op = "jmp" => i.mode \in DOMAIN JumpMode /\ Flags(Head(code)) = JumpMode[i.mode]
  BY EncodeIs, FirstInstruction
<1>13. Does(i)
  <2>1. CASE OpLoad
    <3>1. i.op = "load" /\ i.op \notin BinOps
      BY <1>2, <1>9, <2>1, BinOpsIs DEF OpLoad
    <3>2. QED
      BY <1>6, <1>10, <2>1, <3>1 DEF OpLoad, Set, Put, Does, heard
  <2>2. CASE OpMov
    <3>1. i.op = "mov" /\ i.op \notin BinOps
      BY <1>2, <1>9, <2>2, BinOpsIs DEF OpMov
    <3>2. QED
      BY <1>6, <1>7, <2>2, <3>1 DEF OpMov, Set, Put, Does, heard
  <2>3. CASE OpBinary
    <3>1. PICK o \in BinOps :
            Instruction(o) /\ Set(SlotAt(1), Result(o, store[SlotAt(1)], store[SlotAt(2)]))
      BY <2>3 DEF OpBinary
    <3>2. o = i.op /\ i.op \in BinOps
          /\ i.op \notin {"load", "mov", "cmp", "jmp", "push", "pop", "print", "call"}
      BY <1>2, <1>9, <3>1, BinOpsIs
    <3>3. UNCHANGED <<sp, flags, jumped, called, seen>>
      BY <2>3 DEF OpBinary, heard
    <3>4. Put(At(i.to, sp), Result(i.op, store[At(i.to, sp)], store[At(i.from, sp)]))
      BY <1>6, <1>7, <3>1, <3>2 DEF Set, Put
    <3>5. QED
      BY <3>2, <3>3, <3>4 DEF Does
  <2>4. CASE OpCmp
    <3>1. i.op = "cmp" /\ i.op \notin BinOps
      BY <1>2, <1>9, <2>4, BinOpsIs DEF OpCmp
    <3>2. QED
      BY <1>6, <1>7, <2>4, <3>1 DEF OpCmp, Does, heard
  <2>5. CASE OpJmp
    <3>1. i.op = "jmp" /\ i.op \notin BinOps
      BY <1>2, <1>9, <2>5, BinOpsIs DEF OpJmp
    <3>2. PICK mode \in DOMAIN JumpMode :
            JumpMode[mode] = Flags(Head(code)) /\ jumped' = Taken(mode, flags)
      BY <2>5 DEF OpJmp
    <3>3. mode = i.mode
      BY <1>12, <3>1, <3>2, ModesApart
    <3>4. /\ called' = (IF jumped' THEN store[SlotAt(1)] ELSE called)
          /\ UNCHANGED <<store, sp, flags, seen>>
      BY <2>5 DEF OpJmp
    <3>5. QED
      BY <1>8, <3>1, <3>2, <3>3, <3>4 DEF Does
  <2>6. CASE OpPush
    <3>1. i.op = "push" /\ i.op \notin BinOps
      BY <1>2, <1>9, <2>6, BinOpsIs DEF OpPush
    <3>2. QED
      BY <1>8, <2>6, <3>1 DEF OpPush, Set, Put, Does, heard
  <2>7. CASE OpPop
    <3>1. i.op = "pop" /\ i.op \notin BinOps
      BY <1>2, <1>9, <2>7, BinOpsIs DEF OpPop
    <3>2. QED
      BY <1>11, <2>7, <3>1 DEF OpPop, Does, heard
  <2>8. CASE OpPrint
    <3>1. i.op = "print" /\ i.op \notin BinOps
      BY <1>2, <1>9, <2>8, BinOpsIs DEF OpPrint
    <3>2. QED
      BY <1>8, <2>8, <3>1 DEF OpPrint, Does
  <2>9. CASE OpCall
    <3>1. i.op = "call" /\ i.op \notin BinOps
      BY <1>2, <1>9, <2>9, BinOpsIs DEF OpCall
    <3>2. QED
      BY <1>8, <2>9, <3>1 DEF OpCall, Arg, Set, Put, Does
  <2>10. QED
    BY <1>3, <2>1, <2>2, <2>3, <2>4, <2>5, <2>6, <2>7, <2>8, <2>9 DEF Next, Begin
<1>14. QED
  BY <1>5, <1>13
-----------------------------------------------------------------------------
(* Numbers: the results of instructions are integers.                      *)
LEMMA WrapIs ==
  ASSUME NEW x \in Int, NEW bits \in Nat
  PROVE  Wrap(x, bits) \in Int
<1> DEFINE m == Power(2, bits)
<1>1. m \in Nat \ {0}
  <2>1. 2 \in Nat \ {0}
    OBVIOUS
  <2>2. QED
    BY <2>1, PowerIs
<1>2. Wrap(x, bits) = ((x + m \div 2) % m) - m \div 2
  BY DEF Wrap
<1> HIDE DEF m
<1>3. m \div 2 \in Int
  BY <1>1
<1>4. (x + m \div 2) % m \in Int
  BY <1>1, <1>3
<1>5. QED
  BY <1>2, <1>3, <1>4

(* Partial sums of the numbers of w.                                       *)
Sums(g, w, n) == g[0] = 0 /\ \A i \in 1 .. n : g[i] = g[i - 1] + w[i]

LEMMA SumsExist ==
  ASSUME NEW n \in Nat, NEW w \in [1 .. n -> Int]
  PROVE  \E g \in [0 .. n -> Int] : Sums(g, w, n)
<1> DEFINE G == [i \in 1 .. n |-> [x \in Int |-> x + w[i]]]
<1>1. G \in [1 .. n -> [Int -> Int]] /\ \A i \in 1 .. n : \A x \in Int : G[i][x] = x + w[i]
  OBVIOUS
<1> HIDE DEF G
<1>2. 0 \in Int
  OBVIOUS
<1>3. PICK g \in [0 .. n -> Int] : Unfolds(g, 0, G, n)
  BY <1>1, <1>2, UnfoldsExists
<1>4. \A i \in 1 .. n : g[i - 1] \in Int
  OBVIOUS
<1>5. QED
  BY <1>1, <1>3, <1>4 DEF Sums, Unfolds

LEMMA SumsInt ==
  ASSUME NEW n \in Nat, NEW w \in [1 .. n -> Int], NEW c, Sums(c, w, n)
  PROVE  c[n] \in Int
<1>1. PICK g \in [0 .. n -> Int] : Sums(g, w, n)
  BY SumsExist
<1> DEFINE M == {m \in Nat : m <= n => c[m] = g[m]}
<1>2. 0 \in M
  BY <1>1 DEF Sums
<1>3. \A m \in Nat : m \in M => m + 1 \in M
  <2> SUFFICES ASSUME NEW m \in Nat, m \in M, m + 1 <= n
               PROVE  c[m + 1] = g[m + 1]
    OBVIOUS
  <2>1. m + 1 \in 1 .. n /\ (m + 1) - 1 = m /\ c[m] = g[m]
    OBVIOUS
  <2>2. QED
    BY <1>1, <2>1 DEF Sums
<1>4. Nat \subseteq M
  <2> HIDE DEF M
  <2> QED BY <1>2, <1>3, SetInduction
<1>5. c[n] = g[n]
  BY <1>4
<1>6. QED
  BY <1>5

LEMMA BitPower ==
  \A i \in 1 .. LongBits : Power(2, i - 1) \in Int
<1> TAKE i \in 1 .. LongBits
<1>1. LongBits \in Nat /\ 2 \in Nat \ {0}
  BY SizesAre DEF LongBits
<1>2. i - 1 \in Nat
  BY <1>1
<1>3. QED
  BY <1>1, <1>2, PowerIs

LEMMA BitsDiffer ==
  ASSUME NEW l, NEW r
  PROVE  Bits(Differ, l, r) \in Int
<1> DEFINE n == LongBits
           V(i) == IF Differ(Bit(l, i - 1), Bit(r, i - 1)) THEN Power(2, i - 1) ELSE 0
           Step(g, i) == IF i = 0 THEN 0 ELSE g[i - 1] + V(i)
           c == CHOOSE g : g = [i \in 0 .. n |-> Step(g, i)]
           w == [i \in 1 .. n |-> V(i)]
<1>1. Bits(Differ, l, r) = c[n]
  BY Zenon DEF Bits
<1>2. n \in Nat
  BY SizesAre DEF LongBits
<1>3. w \in [1 .. n -> Int] /\ \A i \in 1 .. n : w[i] = V(i)
  <2>1. \A i \in 1 .. n : V(i) \in Int
    <3> TAKE i \in 1 .. n
    <3>1. Power(2, i - 1) \in Int
      BY BitPower
    <3>2. QED
      BY <3>1
  <2> HIDE DEF V
  <2>2. QED
    BY <2>1
<1> HIDE DEF w, V, n
<1>4. PICK g : g \in [0 .. n -> Int] /\ Sums(g, w, n)
  BY <1>2, <1>3, SumsExist
<1>5. ASSUME NEW i \in 0 .. n PROVE g[i] = Step(g, i)
  <2>1. CASE i = 0
    BY <1>4, <2>1 DEF Sums
  <2>2. CASE i # 0
    <3>1. i \in 1 .. n
      BY <1>2, <2>2
    <3>2. QED
      BY <1>3, <1>4, <2>2, <3>1 DEF Sums
  <2>3. QED
    BY <2>1, <2>2
<1>6. c = [i \in 0 .. n |-> Step(c, i)]
  <2>1. g = [i \in 0 .. n |-> g[i]]
    BY <1>4
  <2> HIDE DEF Step
  <2>2. g = [i \in 0 .. n |-> Step(g, i)]
    BY <1>5, <2>1
  <2>3. QED
    BY <2>2
<1> HIDE DEF c
<1>7. \A i \in 0 .. n : c[i] = Step(c, i)
  <2> HIDE DEF Step
  <2> QED BY <1>6
<1>8. Sums(c, w, n)
  <2>1. 0 \in 0 .. n /\ \A i \in 1 .. n : i # 0 /\ i \in 0 .. n
    BY <1>2
  <2>2. QED
    BY <1>3, <1>7, <2>1 DEF Sums
<1>9. QED
  BY <1>1, <1>2, <1>3, <1>8, SumsInt

LEMMA BitsBoth ==
  ASSUME NEW l, NEW r
  PROVE  Bits(Both, l, r) \in Int
<1> DEFINE n == LongBits
           V(i) == IF Both(Bit(l, i - 1), Bit(r, i - 1)) THEN Power(2, i - 1) ELSE 0
           Step(g, i) == IF i = 0 THEN 0 ELSE g[i - 1] + V(i)
           c == CHOOSE g : g = [i \in 0 .. n |-> Step(g, i)]
           w == [i \in 1 .. n |-> V(i)]
<1>1. Bits(Both, l, r) = c[n]
  BY Zenon DEF Bits
<1>2. n \in Nat
  BY SizesAre DEF LongBits
<1>3. w \in [1 .. n -> Int] /\ \A i \in 1 .. n : w[i] = V(i)
  <2>1. \A i \in 1 .. n : V(i) \in Int
    <3> TAKE i \in 1 .. n
    <3>1. Power(2, i - 1) \in Int
      BY BitPower
    <3>2. QED
      BY <3>1
  <2> HIDE DEF V
  <2>2. QED
    BY <2>1
<1> HIDE DEF w, V, n
<1>4. PICK g : g \in [0 .. n -> Int] /\ Sums(g, w, n)
  BY <1>2, <1>3, SumsExist
<1>5. ASSUME NEW i \in 0 .. n PROVE g[i] = Step(g, i)
  <2>1. CASE i = 0
    BY <1>4, <2>1 DEF Sums
  <2>2. CASE i # 0
    <3>1. i \in 1 .. n
      BY <1>2, <2>2
    <3>2. QED
      BY <1>3, <1>4, <2>2, <3>1 DEF Sums
  <2>3. QED
    BY <2>1, <2>2
<1>6. c = [i \in 0 .. n |-> Step(c, i)]
  <2>1. g = [i \in 0 .. n |-> g[i]]
    BY <1>4
  <2> HIDE DEF Step
  <2>2. g = [i \in 0 .. n |-> Step(g, i)]
    BY <1>5, <2>1
  <2>3. QED
    BY <2>2
<1> HIDE DEF c
<1>7. \A i \in 0 .. n : c[i] = Step(c, i)
  <2> HIDE DEF Step
  <2> QED BY <1>6
<1>8. Sums(c, w, n)
  <2>1. 0 \in 0 .. n /\ \A i \in 1 .. n : i # 0 /\ i \in 0 .. n
    BY <1>2
  <2>2. QED
    BY <1>3, <1>7, <2>1 DEF Sums
<1>9. QED
  BY <1>1, <1>2, <1>3, <1>8, SumsInt

LEMMA BitsEither ==
  ASSUME NEW l, NEW r
  PROVE  Bits(Either, l, r) \in Int
<1> DEFINE n == LongBits
           V(i) == IF Either(Bit(l, i - 1), Bit(r, i - 1)) THEN Power(2, i - 1) ELSE 0
           Step(g, i) == IF i = 0 THEN 0 ELSE g[i - 1] + V(i)
           c == CHOOSE g : g = [i \in 0 .. n |-> Step(g, i)]
           w == [i \in 1 .. n |-> V(i)]
<1>1. Bits(Either, l, r) = c[n]
  BY Zenon DEF Bits
<1>2. n \in Nat
  BY SizesAre DEF LongBits
<1>3. w \in [1 .. n -> Int] /\ \A i \in 1 .. n : w[i] = V(i)
  <2>1. \A i \in 1 .. n : V(i) \in Int
    <3> TAKE i \in 1 .. n
    <3>1. Power(2, i - 1) \in Int
      BY BitPower
    <3>2. QED
      BY <3>1
  <2> HIDE DEF V
  <2>2. QED
    BY <2>1
<1> HIDE DEF w, V, n
<1>4. PICK g : g \in [0 .. n -> Int] /\ Sums(g, w, n)
  BY <1>2, <1>3, SumsExist
<1>5. ASSUME NEW i \in 0 .. n PROVE g[i] = Step(g, i)
  <2>1. CASE i = 0
    BY <1>4, <2>1 DEF Sums
  <2>2. CASE i # 0
    <3>1. i \in 1 .. n
      BY <1>2, <2>2
    <3>2. QED
      BY <1>3, <1>4, <2>2, <3>1 DEF Sums
  <2>3. QED
    BY <2>1, <2>2
<1>6. c = [i \in 0 .. n |-> Step(c, i)]
  <2>1. g = [i \in 0 .. n |-> g[i]]
    BY <1>4
  <2> HIDE DEF Step
  <2>2. g = [i \in 0 .. n |-> Step(g, i)]
    BY <1>5, <2>1
  <2>3. QED
    BY <2>2
<1> HIDE DEF c
<1>7. \A i \in 0 .. n : c[i] = Step(c, i)
  <2> HIDE DEF Step
  <2> QED BY <1>6
<1>8. Sums(c, w, n)
  <2>1. 0 \in 0 .. n /\ \A i \in 1 .. n : i # 0 /\ i \in 0 .. n
    BY <1>2
  <2>2. QED
    BY <1>3, <1>7, <2>1 DEF Sums
<1>9. QED
  BY <1>1, <1>2, <1>3, <1>8, SumsInt

LEMMA ResultIs ==
  ASSUME NEW op \in BinOps, NEW l \in Int, NEW r \in Int, Defined(op, l, r)
  PROVE  Result(op, l, r) \in Int
<1>1. op \in {"div", "mod"} => Quotient(l, r) \in Int
  <2> SUFFICES ASSUME op \in {"div", "mod"}
               PROVE  Quotient(l, r) \in Int
    OBVIOUS
  <2>1. r # 0
    BY DEF Defined
  <2>2. Magnitude(l) \in Nat /\ Magnitude(r) \in Nat \ {0}
    BY <2>1 DEF Magnitude
  <2>3. Magnitude(l) \div Magnitude(r) \in Int
    BY <2>2
  <2>4. QED
    BY <2>3 DEF Quotient
<1>2. op \in {"shl", "shr"} => Power(2, r) \in Nat \ {0}
  <2> SUFFICES ASSUME op \in {"shl", "shr"}
               PROVE  Power(2, r) \in Nat \ {0}
    OBVIOUS
  <2>1. r \in 0 .. LongBits - 1
    BY DEF Defined
  <2>2. r \in Nat /\ 2 \in Nat \ {0}
    BY <2>1
  <2>3. QED
    BY <2>2, PowerIs
<1> DEFINE q == Quotient(l, r)
           p == Power(2, r)
           v == CASE op = "add" -> l + r [] op = "sub" -> l - r [] op = "mul" -> l * r
                  [] op = "div" -> q
                  [] op = "mod" -> l - r * q
                  [] op = "xor" -> Bits(Differ, l, r)
                  [] op = "and" -> Bits(Both, l, r)
                  [] op = "or" -> Bits(Either, l, r)
                  [] op = "shl" -> l * p
                  [] op = "shr" -> l \div p
<1>3. Result(op, l, r) = Long(v)
  BY DEF Result
<1>4. /\ Bits(Differ, l, r) \in Int /\ Bits(Both, l, r) \in Int /\ Bits(Either, l, r) \in Int
  BY BitsDiffer, BitsBoth, BitsEither
<1>5. op \in {"div", "mod"} => q \in Int
  BY <1>1
<1>6. op \in {"shl", "shr"} => p \in Nat \ {0}
  BY <1>2
<1> HIDE DEF q, p
<1>7. v \in Int
  <2>1. CASE op \in {"add", "sub", "mul"}
    BY <2>1
  <2>2. CASE op \in {"div", "mod"}
    <3>1. q \in Int /\ r * q \in Int
      BY <1>5, <2>2
    <3>2. QED
      BY <2>2, <3>1
  <2>3. CASE op = "xor"
    BY <1>4, <2>3
  <2>4. CASE op = "and"
    BY <1>4, <2>4
  <2>5. CASE op = "or"
    BY <1>4, <2>5
  <2>6. CASE op \in {"shl", "shr"}
    <3>1. l * p \in Int /\ l \div p \in Int
      BY <1>6, <2>6
    <3>2. QED
      BY <2>6, <3>1
  <2>7. QED
    BY <2>1, <2>2, <2>3, <2>4, <2>5, <2>6, BinOpsIs
<1> HIDE DEF v
<1>8. QED
  BY <1>3, <1>7, LongIs

-----------------------------------------------------------------------------
(* Stages of a statement: what is still to execute, the store and the      *)
(* height of the stack, against what the statement means.                  *)
After(l, st, h) == [st EXCEPT ![At(l.to, h)] = l.value]

IsLoad(l, h) == l \in Instr /\ l.op = "load" /\ At(l.to, h) \in Slots

(* Executing f in this store does what a mov, an operation, a comparison   *)
(* or a push means.                                                        *)
Ready(f, st, h, mt, cm) ==
  /\ f \in Instr /\ Placed(f, h)
  /\ \/ /\ mt.stmt = "mov" /\ f.op = "mov"
        /\ mt.at = At(f.to, h) /\ mt.value = st[At(f.from, h)]
     \/ /\ mt.stmt = "binop" /\ f.op \in BinOps
        /\ mt.at = At(f.to, h) /\ mt.value \in Int
        /\ mt.value = Result(f.op, st[At(f.to, h)], st[At(f.from, h)])
     \/ /\ mt.stmt = "cmp" /\ f.op = "cmp"
        /\ cm[1] = st[At(f.to, h)] /\ cm[2] = st[At(f.from, h)]
     \/ /\ mt.stmt = "push" /\ f.op = "push" /\ h + 1 < Depth
        /\ mt.at = <<"L", h>> /\ mt.value = st[At(f.of, h)]

(* After no, one or two loads.                                             *)
Simple(p, st, h, mt, cm) ==
  \/ p = << >> /\ (mt.stmt # "cmp" => st[mt.at] = mt.value)
  \/ \E f : p = Then(f, << >>) /\ Ready(f, st, h, mt, cm)
  \/ \E l, f : /\ p = Then(l, Then(f, << >>)) /\ IsLoad(l, h)
               /\ Ready(f, After(l, st, h), h, mt, cm)
  \/ \E k, l, f : /\ p = Then(k, Then(l, Then(f, << >>))) /\ IsLoad(k, h) /\ IsLoad(l, h)
                  /\ Ready(f, After(l, After(k, st, h), h), h, mt, cm)

Typed == TypeOK /\ compared[1] \in Int /\ compared[2] \in Int

(* The flags are those of the last comparison.                             *)
Signed(fl, cm) == Fits(cm[1] - cm[2]) => fl = Sign(cm[1] - cm[2]) + 1

LEMMA PutTyped ==
  ASSUME store \in [Slots -> Int], NEW a \in Slots, NEW v \in Int, Put(a, v)
  PROVE  /\ store' \in [Slots -> Int] /\ store'[a] = v
         /\ \A b \in Slots : b # a => store'[b] = store[b]
  BY DEF Put

LEMMA CmpIs ==
  ASSUME NEW l \in Int, NEW r \in Int
  PROVE  /\ CmpFlags(l, r) \in 0 .. 2
         /\ \A cm : cm[1] = l /\ cm[2] = r => Signed(CmpFlags(l, r), cm)
<1>1. CmpFlags(l, r) \in 0 .. 2
  BY DEF CmpFlags, Sign
<1>2. \A cm : cm[1] = l /\ cm[2] = r => Signed(CmpFlags(l, r), cm)
  BY DEF Signed, Fits, CmpFlags
<1>3. QED
  BY <1>1, <1>2

(* A load leaves the code, the store and nothing else changed.             *)
LEMMA LoadSteps ==
  ASSUME Typed, NEW l, IsLoad(l, sp), NEW is \in Seq(Instr), code = EncodeAll(Then(l, is)), Next
  PROVE  /\ code' = EncodeAll(is) /\ store' = After(l, store, sp)
         /\ UNCHANGED <<sp, flags, jumped, called, seen, meant, compared, done>>
         /\ Typed'
<1>1. l \in Instr /\ l.op = "load" /\ l.op \notin BinOps /\ At(l.to, sp) \in Slots
  BY BinOpsIs DEF IsLoad
<1>2. Placed(l, sp)
  BY <1>1 DEF Placed
<1>3. sp \in 0 .. Depth - 1 /\ store \in [Slots -> Int]
  BY DEF Typed, TypeOK
<1>4. Does(l) /\ code' = EncodeAll(is) /\ UNCHANGED <<meant, compared, done>>
  BY <1>1, <1>2, <1>3, StepIs
<1>5. Put(At(l.to, sp), l.value) /\ UNCHANGED <<sp, flags, jumped, called, seen>>
  BY <1>1, <1>4 DEF Does
<1>6. l.value \in Int
  BY <1>1, EncodeIs, LiteralAssumption
<1>7. store' \in [Slots -> Int]
  BY <1>1, <1>3, <1>5, <1>6, PutTyped
<1>8. Typed'
  BY <1>4, <1>5, <1>7 DEF Typed, TypeOK
<1>9. QED
  BY <1>4, <1>5, <1>8 DEF Put, After

LEMMA ReadySteps ==
  ASSUME Typed, NEW f, Ready(f, store, sp, meant, compared), code = EncodeAll(Then(f, << >>)), Next
  PROVE  /\ code' = EncodeAll(<< >>) /\ UNCHANGED <<meant, compared>> /\ Typed'
         /\ Simple(<< >>, store', sp', meant', compared')
         /\ meant.stmt = "cmp" \/ Signed(flags, compared) => Signed(flags', compared')
<1>1. f \in Instr /\ Placed(f, sp) /\ << >> \in Seq(Instr)
  BY EmptySeq DEF Ready
<1>2. sp \in 0 .. Depth - 1 /\ store \in [Slots -> Int] /\ Depth \in Nat
  BY StorageAssumption DEF Typed, TypeOK
<1>3. Does(f) /\ code' = EncodeAll(<< >>) /\ UNCHANGED <<meant, compared, done>>
  BY <1>1, <1>2, StepIs
<1>4. CASE meant.stmt = "mov"
  <2>1. /\ f.op = "mov" /\ meant.at = At(f.to, sp) /\ meant.value = store[At(f.from, sp)]
        /\ At(f.to, sp) \in Slots /\ At(f.from, sp) \in Slots
    BY <1>1, <1>4 DEF Ready, Placed
  <2>2. Put(meant.at, meant.value) /\ UNCHANGED <<sp, flags, jumped>>
    BY <1>3, <2>1 DEF Does
  <2>3. meant.at \in Slots /\ meant.value \in Int
    BY <1>2, <2>1
  <2>4. store' \in [Slots -> Int] /\ store'[meant.at] = meant.value
    BY <1>2, <2>2, <2>3, PutTyped
  <2>5. Typed'
    BY <1>3, <2>2, <2>4 DEF Typed, TypeOK
  <2>6. QED
    BY <1>3, <1>4, <2>2, <2>4, <2>5 DEF Simple
<1>5. CASE meant.stmt = "binop"
  <2>1. /\ f.op \in BinOps /\ meant.at = At(f.to, sp) /\ meant.value \in Int
        /\ meant.value = Result(f.op, store[At(f.to, sp)], store[At(f.from, sp)])
        /\ At(f.to, sp) \in Slots
    BY <1>1, <1>5 DEF Ready, Placed
  <2>2. Put(meant.at, meant.value) /\ UNCHANGED <<sp, flags, jumped>>
    BY <1>3, <2>1 DEF Does
  <2>3. store' \in [Slots -> Int] /\ store'[meant.at] = meant.value
    BY <1>2, <2>1, <2>2, PutTyped
  <2>4. Typed'
    BY <1>3, <2>2, <2>3 DEF Typed, TypeOK
  <2>5. QED
    BY <1>3, <1>5, <2>2, <2>3, <2>4 DEF Simple
<1>6. CASE meant.stmt = "cmp"
  <2>1. /\ f.op = "cmp" /\ compared[1] = store[At(f.to, sp)] /\ compared[2] = store[At(f.from, sp)]
    BY <1>1, <1>6 DEF Ready, Placed
  <2>2. flags' = CmpFlags(compared[1], compared[2]) /\ UNCHANGED <<store, sp, jumped>>
    BY <1>3, <2>1 DEF Does
  <2>3. compared[1] \in Int /\ compared[2] \in Int
    BY DEF Typed
  <2>4. flags' \in 0 .. 2 /\ Signed(flags', compared)
    BY <2>2, <2>3, CmpIs
  <2>5. Typed'
    BY <1>3, <2>2, <2>4 DEF Typed, TypeOK
  <2>6. QED
    BY <1>3, <1>6, <2>4, <2>5 DEF Simple
<1>7. CASE meant.stmt = "push"
  <2>1. /\ f.op = "push" /\ meant.at = <<"L", sp>> /\ meant.value = store[At(f.of, sp)]
        /\ At(f.of, sp) \in Slots /\ sp + 1 < Depth
    BY <1>1, <1>7 DEF Ready, Placed
  <2>2. Put(meant.at, meant.value) /\ sp' = sp + 1 /\ UNCHANGED <<flags, jumped>>
    BY <1>3, <2>1 DEF Does
  <2>3. meant.at \in Slots /\ meant.value \in Int
    BY <1>2, <2>1 DEF Slots
  <2>4. store' \in [Slots -> Int] /\ store'[meant.at] = meant.value
    BY <1>2, <2>2, <2>3, PutTyped
  <2>5. sp' \in 0 .. Depth - 1
    BY <1>2, <2>1, <2>2
  <2>6. Typed'
    BY <1>3, <2>2, <2>4, <2>5 DEF Typed, TypeOK
  <2>7. QED
    BY <1>3, <1>7, <2>2, <2>4, <2>6 DEF Simple
<1>8. QED
  BY <1>4, <1>5, <1>6, <1>7 DEF Ready

LEMMA SimpleSteps ==
  ASSUME Typed, NEW p \in Seq(Instr), code = EncodeAll(p), p # << >>, Next,
         Simple(p, store, sp, meant, compared), meant.stmt # "cmp" => Signed(flags, compared)
  PROVE  \E q \in Seq(Instr) :
           /\ code' = EncodeAll(q) /\ Typed' /\ UNCHANGED <<meant, compared>>
           /\ Simple(q, store', sp', meant', compared')
           /\ q = << >> \/ meant'.stmt # "cmp" => Signed(flags', compared')
<1>1. << >> \in Seq(Instr)
  BY EmptySeq
<1>2. CASE \E f : p = Then(f, << >>) /\ Ready(f, store, sp, meant, compared)
  <2>1. PICK f : p = Then(f, << >>) /\ Ready(f, store, sp, meant, compared)
    BY <1>2
  <2>2. /\ code' = EncodeAll(<< >>) /\ UNCHANGED <<meant, compared>> /\ Typed'
        /\ Simple(<< >>, store', sp', meant', compared') /\ Signed(flags', compared')
    BY <2>1, ReadySteps
  <2>3. QED
    BY <1>1, <2>2
<1>3. CASE \E l, f : /\ p = Then(l, Then(f, << >>)) /\ IsLoad(l, sp)
                     /\ Ready(f, After(l, store, sp), sp, meant, compared)
  <2>1. PICK l, f : /\ p = Then(l, Then(f, << >>)) /\ IsLoad(l, sp)
                    /\ Ready(f, After(l, store, sp), sp, meant, compared)
    BY <1>3
  <2> DEFINE q == Then(f, << >>)
  <2>2. q \in Seq(Instr)
    BY <1>1, <2>1, ThenIs DEF Ready
  <2>3. /\ code' = EncodeAll(q) /\ store' = After(l, store, sp) /\ Typed'
        /\ UNCHANGED <<sp, flags, meant, compared>>
    <3> HIDE DEF q
    <3>1. code = EncodeAll(Then(l, q))
      BY <2>1 DEF q
    <3>2. QED
      BY <2>1, <2>2, <3>1, LoadSteps
  <2>4. Ready(f, store', sp', meant', compared')
    BY <2>1, <2>3
  <2>5. Simple(q, store', sp', meant', compared')
    BY <2>4 DEF Simple
  <2>6. f \in Instr
    BY <2>1 DEF Ready
  <2>7. q # << >>
    BY <1>1, <2>6, ThenIs
  <2> HIDE DEF q
  <2>8. QED
    BY <2>2, <2>3, <2>5, <2>7
<1>4. CASE \E k, l, f : /\ p = Then(k, Then(l, Then(f, << >>))) /\ IsLoad(k, sp) /\ IsLoad(l, sp)
                        /\ Ready(f, After(l, After(k, store, sp), sp), sp, meant, compared)
  <2>1. PICK k, l, f : /\ p = Then(k, Then(l, Then(f, << >>))) /\ IsLoad(k, sp) /\ IsLoad(l, sp)
                       /\ Ready(f, After(l, After(k, store, sp), sp), sp, meant, compared)
    BY <1>4
  <2> DEFINE q == Then(l, Then(f, << >>))
  <2>2. Then(f, << >>) \in Seq(Instr)
    BY <1>1, <2>1, ThenIs DEF Ready
  <2>3. q \in Seq(Instr) /\ q # << >>
    BY <2>1, <2>2, ThenIs DEF IsLoad
  <2>4. /\ code' = EncodeAll(q) /\ store' = After(k, store, sp) /\ Typed'
        /\ UNCHANGED <<sp, flags, meant, compared>>
    <3> HIDE DEF q
    <3>1. code = EncodeAll(Then(k, q))
      BY <2>1 DEF q
    <3>2. QED
      BY <2>1, <2>3, <3>1, LoadSteps
  <2>5. IsLoad(l, sp') /\ Ready(f, After(l, store', sp'), sp', meant', compared')
    BY <2>1, <2>4
  <2>6. Simple(q, store', sp', meant', compared')
    BY <2>5 DEF Simple
  <2> HIDE DEF q
  <2>7. QED
    BY <2>3, <2>4, <2>6
<1>5. QED
  BY <1>2, <1>3, <1>4 DEF Simple
-----------------------------------------------------------------------------
(* The beginning of a statement of two operands, or one.                   *)
LEMMA RegisterIs ==
  ASSUME NEW k \in {0, 1}, NEW h
  PROVE  /\ At(Loc("R", k), h) = <<"R", k>> /\ <<"R", k>> \in Slots
         /\ Loc("R", k) \in Locations
         /\ \A l \in Locations : At(l, h) \in Slots /\ l # Loc("R", k) => At(l, h) # <<"R", k>>
<1>1. <<"R", k>> \in Slots
  BY StorageAssumption DEF Slots
<1>2. At(Loc("R", k), h) = <<"R", k>> /\ Loc("R", k) \in Locations
  BY DEF At, Loc, Locations
<1>3. ASSUME NEW l \in Locations, At(l, h) \in Slots, At(l, h) = <<"R", k>>
      PROVE  l = Loc("R", k)
  <2>1. l.store = "R" /\ l.at \in Int
    BY <1>3 DEF At, Locations
  <2>2. l.at = k
    BY <1>3, <2>1 DEF At
  <2>3. QED
    BY <2>1, <2>2 DEF Loc, Locations
<1>4. QED
  BY <1>1, <1>2, <1>3

LEMMA LoadIs ==
  ASSUME NEW o \in Readable, o.kind = "lit", NEW k \in {0, 1}, NEW h, NEW st \in [Slots -> Int]
  PROVE  /\ IsLoad(LoadOf(o, k), h) /\ After(LoadOf(o, k), st, h) \in [Slots -> Int]
         /\ After(LoadOf(o, k), st, h)[<<"R", k>>] = o.value
         /\ \A a \in Slots : a # <<"R", k>> => After(LoadOf(o, k), st, h)[a] = st[a]
<1>1. LoadOf(o, k) \in Instr
  <2>1. k \in Int
    OBVIOUS
  <2>2. QED
    BY <2>1, InstrIs
<1>2. At(Loc("R", k), h) = <<"R", k>> /\ <<"R", k>> \in Slots
  BY RegisterIs
<1>3. o.value \in Int
  BY ReadableIs
<1>4. LoadOf(o, k).op = "load" /\ LoadOf(o, k).to = Loc("R", k) /\ LoadOf(o, k).value = o.value
  BY DEF LoadOf
<1>5. After(LoadOf(o, k), st, h) = [st EXCEPT ![<<"R", k>>] = o.value]
  BY <1>2, <1>4 DEF After
<1>6. QED
  BY <1>1, <1>2, <1>3, <1>4, <1>5 DEF IsLoad

(* The store after the code of an operand.                                 *)
Fetched(o, usage, st, h) == IF o.kind = "lit" THEN After(LoadOf(o, usage), st, h) ELSE st

LEMMA FetchedIs ==
  ASSUME NEW o \in Readable, NEW k \in {0, 1}, NEW h, NEW st \in [Slots -> Int],
         o.kind = "loc" => At(o, h) \in Slots
  PROVE  /\ Fetched(o, k, st, h) \in [Slots -> Int]
         /\ At(ObjLoc(o, k, 0), h) \in Slots
         /\ Fetched(o, k, st, h)[At(ObjLoc(o, k, 0), h)] = ValueAt(o, st, h)
         /\ \A a \in Slots : o.kind = "lit" /\ a # <<"R", k>>
              => Fetched(o, k, st, h)[a] = st[a]
         /\ \A a \in Slots : o.kind # "lit" => Fetched(o, k, st, h)[a] = st[a]
         /\ o.kind = "lit" => At(ObjLoc(o, k, 0), h) = <<"R", k>>
<1>1. k \in Int /\ 0 \in Int
  OBVIOUS
<1>2. CASE o.kind = "lit"
  <2>1. ObjLoc(o, k, 0) = Loc("R", k)
    BY <1>1, <1>2, ObjLocIs
  <2>2. At(ObjLoc(o, k, 0), h) = <<"R", k>> /\ <<"R", k>> \in Slots
    BY <2>1, RegisterIs
  <2>3. QED
    BY <1>2, <2>2, LoadIs DEF Fetched, ValueAt
<1>3. CASE o.kind # "lit"
  <2>1. o.kind = "loc"
    BY <1>3, ReadableIs
  <2>2. ObjLoc(o, k, 0) = o
    BY <1>1, <2>1, ObjLocIs
  <2>3. QED
    BY <1>3, <2>1, <2>2 DEF Fetched, ValueAt
<1>4. QED
  BY <1>2, <1>3

LEMMA TwoFetched ==
  ASSUME NEW l \in Readable, NEW r \in Readable, NEW u \in {0, 1}, NEW h,
         NEW st \in [Slots -> Int],
         l.kind = "loc" => At(l, h) \in Slots, r.kind = "loc" => At(r, h) \in Slots,
         l.kind = "lit" => u = 1 /\ r # Loc("R", 0)
  PROVE  LET after == Fetched(r, u, Fetched(l, 0, st, h), h)
         IN /\ after \in [Slots -> Int]
            /\ At(ObjLoc(l, 0, 0), h) \in Slots /\ At(ObjLoc(r, u, 0), h) \in Slots
            /\ after[At(ObjLoc(r, u, 0), h)] = ValueAt(r, st, h)
            /\ r.kind = "lit" /\ u = 1 /\ l # Loc("R", 1)
                 => after[At(ObjLoc(l, 0, 0), h)] = ValueAt(l, st, h)
            /\ r.kind # "lit" => after[At(ObjLoc(l, 0, 0), h)] = ValueAt(l, st, h)
<1> DEFINE first == Fetched(l, 0, st, h)
           after == Fetched(r, u, first, h)
<1>1. 0 \in {0, 1}
  OBVIOUS
<1>2. /\ first \in [Slots -> Int] /\ At(ObjLoc(l, 0, 0), h) \in Slots
      /\ first[At(ObjLoc(l, 0, 0), h)] = ValueAt(l, st, h)
      /\ \A a \in Slots : l.kind = "lit" /\ a # <<"R", 0>> => first[a] = st[a]
      /\ \A a \in Slots : l.kind # "lit" => first[a] = st[a]
      /\ l.kind = "lit" => At(ObjLoc(l, 0, 0), h) = <<"R", 0>>
  BY <1>1, FetchedIs
<1> HIDE DEF first
<1>3. /\ after \in [Slots -> Int] /\ At(ObjLoc(r, u, 0), h) \in Slots
      /\ after[At(ObjLoc(r, u, 0), h)] = ValueAt(r, first, h)
      /\ \A a \in Slots : r.kind = "lit" /\ a # <<"R", u>> => after[a] = first[a]
      /\ \A a \in Slots : r.kind # "lit" => after[a] = first[a]
  BY <1>2, FetchedIs
<1> HIDE DEF after
<1>4. ValueAt(r, first, h) = ValueAt(r, st, h)
  <2>1. CASE r.kind = "lit"
    BY <2>1 DEF ValueAt
  <2>2. CASE r.kind # "lit"
    <3>1. r \in Locations /\ At(r, h) \in Slots
      BY <2>2, ReadableIs
    <3>2. r # Loc("R", 0) => At(r, h) # <<"R", 0>>
      BY <1>1, <3>1, RegisterIs
    <3>3. first[At(r, h)] = st[At(r, h)]
      BY <1>2, <3>1, <3>2
    <3>4. QED
      BY <2>2, <3>3 DEF ValueAt
  <2>3. QED
    BY <2>1, <2>2
<1>5. ASSUME r.kind = "lit", u = 1, l # Loc("R", 1)
      PROVE  after[At(ObjLoc(l, 0, 0), h)] = ValueAt(l, st, h)
  <2>1. At(ObjLoc(l, 0, 0), h) # <<"R", 1>>
    <3>1. CASE l.kind = "lit"
      BY <1>2, <3>1
    <3>2. CASE l.kind # "lit"
      <4>1. l \in Locations /\ At(l, h) \in Slots /\ 1 \in {0, 1} /\ 0 \in Int /\ l.kind = "loc"
        BY <3>2, ReadableIs
      <4>2. ObjLoc(l, 0, 0) = l
        BY <4>1, ObjLocIs
      <4>3. QED
        BY <1>5, <4>1, <4>2, RegisterIs
    <3>3. QED
      BY <3>1, <3>2
  <2>2. QED
    BY <1>2, <1>3, <1>5, <2>1
<1>6. r.kind # "lit" => after[At(ObjLoc(l, 0, 0), h)] = ValueAt(l, st, h)
  BY <1>2, <1>3
<1>7. QED
  BY <1>2, <1>3, <1>4, <1>5, <1>6 DEF after, first

LEMMA TwoSimple ==
  ASSUME NEW f, NEW l \in Readable, NEW r \in Readable, NEW u \in {0, 1}, NEW h,
         NEW st \in [Slots -> Int], NEW mt, NEW cm,
         l.kind = "loc" => At(l, h) \in Slots, r.kind = "loc" => At(r, h) \in Slots,
         Ready(f, Fetched(r, u, Fetched(l, 0, st, h), h), h, mt, cm)
  PROVE  Simple(TwoCode(f, l, r, u), st, h, mt, cm) /\ TwoCode(f, l, r, u) # << >>
<1> DEFINE t == Then(f, << >>)
           p == TwoCode(f, l, r, u)
<1>1. f \in Instr /\ << >> \in Seq(Instr) /\ 0 \in Int /\ 0 \in {0, 1} /\ u \in Int
  BY EmptySeq DEF Ready
<1>2. t \in Seq(Instr)
  BY <1>1, ThenIs
<1>3. PICK c : c = Cat(Operand(r, u), t)
  OBVIOUS
<1>4. c \in Seq(Instr) /\ c = (IF r.kind = "lit" THEN Then(LoadOf(r, u), t) ELSE t)
  <2> HIDE DEF t
  <2>1. Operand(r, u) \in Seq(Instr)
    BY <1>1, OperandIs
  <2>2. QED
    BY <1>1, <1>2, <1>3, <2>1, OperandIs, CatIs
<1>5. p = (IF l.kind = "lit" THEN Then(LoadOf(l, 0), c) ELSE c)
  <2>1. p = Cat(Operand(l, 0), c)
    BY <1>3 DEF TwoCode
  <2> HIDE DEF p
  <2>2. QED
    BY <1>1, <1>4, <2>1, OperandIs
<1>6. l.kind = "lit" => IsLoad(LoadOf(l, 0), h)
  BY <1>1, LoadIs
<1>7. r.kind = "lit" => IsLoad(LoadOf(r, u), h)
  BY LoadIs
<1> HIDE DEF t, p
<1>20. t # << >> /\ c # << >> /\ p # << >>
  <2>1. t # << >>
    BY <1>1, ThenIs DEF t
  <2>2. c # << >>
    BY <1>2, <1>4, <1>7, <2>1, ThenIs DEF IsLoad
  <2>3. QED
    BY <1>4, <1>5, <1>6, <2>1, <2>2, ThenIs DEF IsLoad
<1> USE DEF t, p
<1>8. CASE l.kind = "lit" /\ r.kind = "lit"
  BY <1>4, <1>5, <1>6, <1>7, <1>8, <1>20 DEF Simple, Fetched
<1>9. CASE l.kind = "lit" /\ r.kind # "lit"
  BY <1>4, <1>5, <1>6, <1>9, <1>20 DEF Simple, Fetched
<1>10. CASE l.kind # "lit" /\ r.kind = "lit"
  BY <1>4, <1>5, <1>7, <1>10, <1>20 DEF Simple, Fetched
<1>11. CASE l.kind # "lit" /\ r.kind # "lit"
  BY <1>4, <1>5, <1>11, <1>20 DEF Simple, Fetched
<1>12. QED
  BY <1>8, <1>9, <1>10, <1>11
LEMMA ValueInt ==
  ASSUME Typed, NEW o \in Readable, o.kind = "loc" => Addr(o) \in Slots
  PROVE  /\ Value(o) \in Int /\ Value(o) = ValueAt(o, store, sp)
         /\ o.kind = "loc" => At(o, sp) \in Slots
<1>1. store \in [Slots -> Int]
  BY DEF Typed, TypeOK
<1>2. o.kind = "loc" \/ (o.kind = "lit" /\ o.value \in Int)
  BY ReadableIs
<1>3. QED
  BY <1>1, <1>2, AtIs DEF Value

LEMMA BeginTyped ==
  ASSUME Typed, NEW s \in Statement, Begin(s)
  PROVE  /\ Typed'
         /\ \A o \in Operands(s) : o \in Readable /\ (o.kind = "loc" => At(o, sp) \in Slots)
                                   /\ Value(o) \in Int /\ Value(o) = ValueAt(o, store, sp)
<1>1. \A o \in Operands(s) : o \in Readable
  <2>1. \A l \in Locations : l \in Readable
    BY DEF Readable
  <2>2. CASE s.stmt \in BinOps \cup {"mov", "cmp"}
    BY <2>1, <2>2, StatementIs, BinOpsIs DEF Operands
  <2>3. CASE s.stmt \in {"push", "jmp"}
    BY <2>1, <2>3, StatementIs, BinOpsIs DEF Operands
  <2>4. CASE s.stmt = "print"
    <3>1. \A i \in DOMAIN s.args : s.args[i] \in Readable
      BY <2>4, StatementIs, LenProperties, ElementOfSeq
    <3>2. QED
      BY <2>4, <3>1, BinOpsIs DEF Operands
  <2>5. CASE s.stmt = "call"
    <3>1. \A i \in DOMAIN s.args : s.args[i] \in Readable
      BY <2>5, StatementIs, LenProperties, ElementOfSeq
    <3>2. QED
      BY <2>1, <2>5, <3>1, StatementIs, BinOpsIs DEF Operands
  <2>6. CASE s.stmt = "pop"
    BY <2>6, BinOpsIs DEF Operands
  <2>7. QED
    BY <2>2, <2>3, <2>4, <2>5, <2>6, StatementIs
<1>2. \A o \in Operands(s) : o.kind = "loc" => Addr(o) \in Slots
  BY DEF Begin
<1>3. \A o \in Operands(s) : /\ o.kind = "loc" => At(o, sp) \in Slots
                             /\ Value(o) \in Int /\ Value(o) = ValueAt(o, store, sp)
  BY <1>1, <1>2, ValueInt
<1>4. compared'[1] \in Int /\ compared'[2] \in Int
  <2>1. CASE s.stmt = "cmp"
    <3>1. s.left \in Operands(s) /\ s.right \in Operands(s)
      BY <2>1 DEF Operands
    <3>2. compared' = <<Value(s.left), Value(s.right)>>
      BY <2>1 DEF Begin
    <3>3. QED
      BY <1>3, <3>1, <3>2
  <2>2. CASE s.stmt # "cmp"
    BY <2>2 DEF Begin, Typed
  <2>3. QED
    BY <2>1, <2>2
<1>5. done' \in 0 .. MaxStatements
  BY StorageAssumption DEF Begin, Typed, TypeOK
<1>6. TypeOK'
  BY <1>5 DEF Begin, Typed, TypeOK
<1>7. QED
  BY <1>1, <1>3, <1>4, <1>6 DEF Typed

LEMMA BeginSimple ==
  ASSUME Typed, NEW s \in Statement, Begin(s), Disjoint(s),
         s.stmt \in {"mov", "cmp", "push"} \cup BinOps
  PROVE  /\ Simple(Build(s), store, sp, meant', compared')
         /\ meant'.stmt \in {"mov", "binop", "cmp", "push"}
         /\ meant'.stmt = "cmp" <=> s.stmt = "cmp"
         /\ s.stmt = "cmp" => Build(s) # << >>
<1>1. store \in [Slots -> Int] /\ 0 \in {0, 1} /\ 1 \in {0, 1} /\ 0 \in Int
  BY DEF Typed, TypeOK
<1>2. \A o \in Operands(s) : /\ o \in Readable /\ (o.kind = "loc" => At(o, sp) \in Slots)
                             /\ Value(o) \in Int /\ Value(o) = ValueAt(o, store, sp)
  BY BeginTyped
<1>3. meant' = Meaning(s)
  BY DEF Begin
<1>4. CASE s.stmt = "mov"
  <2> DEFINE f == PairOf("mov", s.left, s.right, 0)
             st == Fetched(s.right, 0, Fetched(s.left, 0, store, sp), sp)
  <2>1. /\ s.left \in Locations /\ s.left \in Readable /\ s.right \in Readable
        /\ At(s.left, sp) \in Slots
        /\ s.right.kind = "loc" => At(s.right, sp) \in Slots
        /\ Value(s.right) = ValueAt(s.right, store, sp)
        /\ s.left.kind = "loc"
    <3>1. s.left \in Operands(s) /\ s.right \in Operands(s)
      BY <1>4 DEF Operands
    <3>2. s.left \in Locations
      BY <1>4, StatementIs
    <3>3. s.left.kind = "loc"
      BY <3>2 DEF Locations
    <3>4. QED
      BY <1>2, <3>1, <3>2, <3>3
  <2>2. f \in Instr /\ Build(s) = TwoCode(f, s.left, s.right, 0)
    BY <1>4, BuildIs
  <2>3. f.op = "mov" /\ f.to = ObjLoc(s.left, 0, 0) /\ f.from = ObjLoc(s.right, 0, 0)
    BY DEF PairOf
  <2>4. /\ At(f.to, sp) \in Slots /\ At(f.from, sp) \in Slots
        /\ st[At(f.from, sp)] = Value(s.right)
    <3> HIDE DEF f
    <3>1. s.left.kind # "lit"
      BY <2>1
    <3>2. QED
      BY <1>1, <2>1, <2>3, <3>1, TwoFetched
  <2>5. f.to = s.left
    BY <1>1, <2>1, <2>3, ObjLocIs
  <2>6. meant' = [stmt |-> "mov", at |-> At(s.left, sp), value |-> Value(s.right)]
    <3>1. meant' = [stmt |-> "mov", at |-> Addr(s.left), value |-> Value(s.right)]
      BY <1>3, <1>4, BinOpsIs DEF Meaning
    <3>2. QED
      BY <3>1, AtIs
  <2> HIDE DEF f, st
  <2>7. Placed(f, sp)
    BY <2>3, <2>4, BinOpsIs DEF Placed
  <2>8. Ready(f, st, sp, meant', compared')
    BY <2>2, <2>3, <2>4, <2>5, <2>6, <2>7 DEF Ready
  <2>9. Simple(TwoCode(f, s.left, s.right, 0), store, sp, meant', compared')
    BY <1>1, <2>1, <2>8, TwoSimple DEF st
  <2>10. QED
    BY <1>4, <2>2, <2>6, <2>9
<1>5. CASE s.stmt \in {"cmp"} \cup BinOps
  <2> DEFINE f == PairOf(s.stmt, s.left, s.right, 1)
             st == Fetched(s.right, 1, Fetched(s.left, 0, store, sp), sp)
  <2>1. /\ s.left \in Readable /\ s.right \in Readable
        /\ s.left.kind = "loc" => At(s.left, sp) \in Slots
        /\ s.right.kind = "loc" => At(s.right, sp) \in Slots
        /\ Value(s.left) = ValueAt(s.left, store, sp)
        /\ Value(s.right) = ValueAt(s.right, store, sp)
        /\ Value(s.left) \in Int /\ Value(s.right) \in Int
    <3>1. Operands(s) = {s.left, s.right}
      BY <1>5, BinOpsIs DEF Operands
    <3>2. QED
      BY <1>2, <3>1
  <2>2. f \in Instr /\ Build(s) = TwoCode(f, s.left, s.right, 1)
    BY <1>5, BuildIs
  <2>3. f.op = s.stmt /\ f.to = ObjLoc(s.left, 0, 0) /\ f.from = ObjLoc(s.right, 1, 0)
    BY DEF PairOf
  <2>4. /\ s.left.kind = "lit" => s.right # Loc("R", 0)
        /\ s.right.kind = "lit" => s.left # Loc("R", 1)
    BY <1>5, BinOpsIs DEF Disjoint
  <2>5. /\ At(f.to, sp) \in Slots /\ At(f.from, sp) \in Slots
        /\ st[At(f.from, sp)] = Value(s.right) /\ st[At(f.to, sp)] = Value(s.left)
    <3> HIDE DEF f
    <3>1. s.right.kind = "lit" \/ s.right.kind # "lit"
      OBVIOUS
    <3>2. QED
      BY <1>1, <2>1, <2>3, <2>4, <3>1, TwoFetched
  <2> HIDE DEF f, st
  <2>6. Placed(f, sp)
    BY <1>5, <2>3, <2>5, BinOpsIs DEF Placed
  <2>7. /\ Ready(f, st, sp, meant', compared')
        /\ meant'.stmt = (IF s.stmt = "cmp" THEN "cmp" ELSE "binop")
    <3>1. CASE s.stmt = "cmp"
      <4>1. meant' = [stmt |-> "cmp"]
        BY <1>3, <3>1, BinOpsIs DEF Meaning
      <4>2. compared' = <<Value(s.left), Value(s.right)>>
        BY <3>1 DEF Begin
      <4>3. compared'[1] = Value(s.left) /\ compared'[2] = Value(s.right)
        BY <4>2
      <4>4. QED
        BY <2>2, <2>3, <2>5, <2>6, <3>1, <4>1, <4>3 DEF Ready
    <3>2. CASE s.stmt \in BinOps
      <4>1. meant' = [stmt |-> "binop", at |-> Addr(ObjLoc(s.left, 0, 0)),
                      value |-> Result(s.stmt, Value(s.left), Value(s.right))]
        BY <1>3, <3>2, BinOpsIs DEF Meaning
      <4>2. Defined(s.stmt, Value(s.left), Value(s.right))
        BY <3>2 DEF Begin
      <4>3. Result(s.stmt, Value(s.left), Value(s.right)) \in Int
        BY <2>1, <3>2, <4>2, ResultIs
      <4>4. /\ meant'.stmt = "binop" /\ meant'.at = At(f.to, sp) /\ meant'.value \in Int
            /\ meant'.value = Result(f.op, st[At(f.to, sp)], st[At(f.from, sp)])
        BY <2>3, <2>5, <4>1, <4>3, AtIs
      <4>5. s.stmt # "cmp"
        BY <3>2, BinOpsIs
      <4>6. QED
        BY <2>2, <2>3, <2>6, <3>2, <4>4, <4>5 DEF Ready
    <3>3. QED
      BY <1>5, <3>1, <3>2
  <2>8. /\ Simple(TwoCode(f, s.left, s.right, 1), store, sp, meant', compared')
        /\ TwoCode(f, s.left, s.right, 1) # << >>
    BY <1>1, <2>1, <2>7, TwoSimple DEF st
  <2>9. QED
    BY <2>2, <2>7, <2>8
<1>6. CASE s.stmt = "push"
  <2> DEFINE f == PushOf(s.left, 0, 0)
             st == Fetched(s.left, 0, store, sp)
             t == Then(f, << >>)
  <2>1. /\ s.left \in Readable /\ Value(s.left) = ValueAt(s.left, store, sp)
        /\ s.left.kind = "loc" => At(s.left, sp) \in Slots
    <3>1. s.left \in Operands(s)
      BY <1>6, BinOpsIs DEF Operands
    <3>2. QED
      BY <1>2, <3>1
  <2>2. f \in Instr /\ Build(s) = Cat(Operand(s.left, 0), t)
    BY <1>6, BuildIs
  <2>3. f.op = "push" /\ f.of = ObjLoc(s.left, 0, 0)
    BY DEF PushOf
  <2>4. At(f.of, sp) \in Slots /\ st[At(f.of, sp)] = Value(s.left)
    <3> HIDE DEF f
    <3> QED BY <1>1, <2>1, <2>3, FetchedIs
  <2>5. sp + 1 < Depth
    BY <1>6 DEF Begin, Raises
  <2>6. meant' = [stmt |-> "push", at |-> <<"L", sp>>, value |-> Value(s.left)]
    BY <1>3, <1>6, BinOpsIs DEF Meaning
  <2> HIDE DEF f
  <2>7. Placed(f, sp)
    BY <2>3, <2>4, BinOpsIs DEF Placed
  <2>8. Ready(f, st, sp, meant', compared')
    BY <2>2, <2>3, <2>4, <2>5, <2>6, <2>7 DEF Ready
  <2>9. t \in Seq(Instr)
    BY <2>2, ThenIs, EmptySeq
  <2>10. Build(s) = IF s.left.kind = "lit" THEN Then(LoadOf(s.left, 0), t) ELSE t
    <3> HIDE DEF t
    <3> QED BY <1>1, <2>1, <2>2, <2>9, OperandIs
  <2>11. CASE s.left.kind = "lit"
    <3>1. IsLoad(LoadOf(s.left, 0), sp)
      BY <1>1, <2>1, <2>11, LoadIs
    <3>2. QED
      BY <1>6, <2>6, <2>8, <2>10, <2>11, <3>1 DEF Simple, Fetched
  <2>12. CASE s.left.kind # "lit"
    BY <1>6, <2>6, <2>8, <2>10, <2>12 DEF Simple, Fetched
  <2>13. QED
    BY <2>11, <2>12
<1>7. QED
  BY <1>4, <1>5, <1>6
-----------------------------------------------------------------------------
(* A print shows its arguments one by one.                                 *)
LEMMA KeepsValue ==
  ASSUME NEW o \in Readable, NEW k \in {0, 1}, NEW h, NEW st, NEW next,
         o.kind = "loc" => At(o, h) \in Slots /\ o # Loc("R", k),
         \A a \in Slots : a # <<"R", k>> => next[a] = st[a]
  PROVE  ValueAt(o, next, h) = ValueAt(o, st, h)
<1>1. CASE o.kind = "lit"
  BY <1>1 DEF ValueAt
<1>2. CASE o.kind # "lit"
  <2>1. o \in Locations /\ o.kind = "loc"
    BY <1>2, ReadableIs
  <2>2. At(o, h) \in Slots /\ At(o, h) # <<"R", k>>
    BY <2>1, RegisterIs
  <2>3. QED
    BY <1>2, <2>2 DEF ValueAt
<1>3. QED
  BY <1>1, <1>2

PrintCode(r, args) ==
  /\ args \in Seq(Readable) /\ r \in [0 .. Len(args) -> Seq(Instr)] /\ r[Len(args)] = << >>
  /\ \A m \in 0 .. Len(args) - 1 :
       r[m] = Cat(Operand(args[m + 1], 0), Then(PrintOf(args[m + 1]), r[m + 1]))

(* What was shown are the first arguments meant.                           *)
Shows(args, r, h, mt, sn) ==
  /\ PrintCode(r, args)
  /\ \A i, j \in 1 .. Len(args) : j < i /\ args[j].kind = "lit" => args[i] # Loc("R", 0)
  /\ \A i \in 1 .. Len(args) : args[i].kind = "loc" => At(args[i], h) \in Slots
  /\ mt.args \in [1 .. Len(args) -> Int]
  /\ sn \in Seq(Int) /\ Len(sn) <= Len(args)
  /\ \A i \in 1 .. Len(sn) : sn[i] = Wrap(mt.args[i], IntBits)

(* The arguments from the m-th on have the values meant.                   *)
Left(args, m, st, h, mt) ==
  \A i \in m .. Len(args) : ValueAt(args[i], st, h) = mt.args[i]

ToFetch(args, r, p, st, h, mt, sn) ==
  p = r[Len(sn)] /\ Left(args, Len(sn) + 1, st, h, mt)

ToShow(args, r, p, st, h, mt, sn) ==
  /\ Len(sn) < Len(args)
  /\ p = Then(PrintOf(args[Len(sn) + 1]), r[Len(sn) + 1])
  /\ At(ObjLoc(args[Len(sn) + 1], 0, 0), h) \in Slots
  /\ st[At(ObjLoc(args[Len(sn) + 1], 0, 0), h)] = mt.args[Len(sn) + 1]
  /\ Left(args, Len(sn) + 2, st, h, mt)

Printing(p, st, h, mt, sn) ==
  \E args, r :
    /\ Shows(args, r, h, mt, sn)
    /\ ToFetch(args, r, p, st, h, mt, sn) \/ ToShow(args, r, p, st, h, mt, sn)

LEMMA ShowStep ==
  ASSUME Typed, NEW args, NEW r, NEW p, Shows(args, r, sp, meant, seen),
         ToShow(args, r, p, store, sp, meant, seen), code = EncodeAll(p), Next
  PROVE  \E q \in Seq(Instr) :
           /\ code' = EncodeAll(q) /\ Typed'
           /\ UNCHANGED <<meant, compared, flags>>
           /\ Printing(q, store', sp', meant', seen')
<1> DEFINE k == Len(seen)
           o == args[k + 1]
           q == r[k + 1]
           f == PrintOf(o)
<1>1. /\ k \in Nat /\ Len(args) \in Nat /\ k < Len(args) /\ k + 1 \in 1 .. Len(args)
      /\ k + 1 \in 0 .. Len(args) /\ seen \in Seq(Int) /\ args \in Seq(Readable)
      /\ r \in [0 .. Len(args) -> Seq(Instr)] /\ 0 \in Int
  BY LenProperties DEF Shows, PrintCode, ToShow
<1>2. o \in Readable /\ q \in Seq(Instr)
  BY <1>1, ElementOfSeq
<1>3. f \in Instr /\ f.op = "print" /\ f.of = ObjLoc(o, 0, 0)
  <2>1. ObjLoc(o, 0, 0) \in Locations
    BY <1>1, <1>2, ObjLocIs
  <2>2. QED
    BY <2>1, InstrIs DEF PrintOf
<1>4. p = Then(f, q) /\ At(f.of, sp) \in Slots /\ store[At(f.of, sp)] = meant.args[k + 1]
  BY <1>3 DEF ToShow
<1>5. Left(args, k + 2, store, sp, meant)
  BY DEF ToShow
<1> HIDE DEF f, q, o
<1>6. Placed(f, sp)
  BY <1>3, <1>4, BinOpsIs DEF Placed
<1>7. sp \in 0 .. Depth - 1
  BY DEF Typed, TypeOK
<1>8. Does(f) /\ code' = EncodeAll(q) /\ UNCHANGED <<meant, compared, done>>
  BY <1>2, <1>3, <1>4, <1>6, <1>7, StepIs
<1>9. /\ seen' = Append(seen, Wrap(meant.args[k + 1], IntBits))
      /\ UNCHANGED <<store, sp, flags, jumped, called>>
  BY <1>3, <1>4, <1>8 DEF Does
<1>10. meant.args \in [1 .. Len(args) -> Int]
  BY DEF Shows
<1>11. Wrap(meant.args[k + 1], IntBits) \in Int
  BY <1>1, <1>10, WrapIs, IntAssumption
<1>12. /\ seen' \in Seq(Int) /\ Len(seen') = k + 1
       /\ \A i \in 1 .. k : seen'[i] = seen[i]
       /\ seen'[k + 1] = Wrap(meant.args[k + 1], IntBits)
  BY <1>1, <1>9, <1>11, AppendProperties
<1> HIDE DEF k
<1>13. \A i \in 1 .. Len(seen) : seen[i] = Wrap(meant.args[i], IntBits)
  BY DEF Shows
<1>14. \A i \in 1 .. Len(seen') : seen'[i] = Wrap(meant.args[i], IntBits)
  <2>1. ASSUME NEW i \in 1 .. Len(seen')
        PROVE  seen'[i] = Wrap(meant.args[i], IntBits)
    <3>1. i = k + 1 \/ i \in 1 .. k
      BY <1>1, <1>12
    <3>2. QED
      BY <1>12, <1>13, <3>1 DEF k
  <2>2. QED
    BY <2>1
<1>15. Shows(args, r, sp, meant, seen')
  <2>1. Len(seen') <= Len(args)
    BY <1>1, <1>12
  <2>2. /\ PrintCode(r, args)
        /\ \A i, j \in 1 .. Len(args) : j < i /\ args[j].kind = "lit" => args[i] # Loc("R", 0)
        /\ \A i \in 1 .. Len(args) : args[i].kind = "loc" => At(args[i], sp) \in Slots
    BY DEF Shows
  <2>3. QED
    BY Zenon, <1>10, <1>12, <1>14, <2>1, <2>2 DEF Shows
<1>16. (k + 1) + 1 = k + 2
  BY <1>1
<1>17. ToFetch(args, r, q, store, sp, meant, seen')
  BY <1>5, <1>12, <1>16 DEF ToFetch, q
<1>18. Printing(q, store', sp', meant', seen')
  BY <1>8, <1>9, <1>15, <1>17 DEF Printing
<1>19. Typed'
  BY <1>8, <1>9 DEF Typed, TypeOK
<1>20. QED
  BY <1>2, <1>8, <1>9, <1>18, <1>19

LEMMA PrintingSteps ==
  ASSUME Typed, NEW p \in Seq(Instr), code = EncodeAll(p), p # << >>, Next,
         Printing(p, store, sp, meant, seen)
  PROVE  \E q \in Seq(Instr) :
           /\ code' = EncodeAll(q) /\ Typed'
           /\ UNCHANGED <<meant, compared, flags>>
           /\ Printing(q, store', sp', meant', seen')
<1>1. PICK args, r : /\ Shows(args, r, sp, meant, seen)
                     /\ \/ ToFetch(args, r, p, store, sp, meant, seen)
                        \/ ToShow(args, r, p, store, sp, meant, seen)
  BY DEF Printing
<1>2. CASE ToShow(args, r, p, store, sp, meant, seen)
  BY <1>1, <1>2, ShowStep
<1>3. CASE ToFetch(args, r, p, store, sp, meant, seen)
  <2> DEFINE k == Len(seen)
             o == args[k + 1]
             q == Then(PrintOf(o), r[k + 1])
  <2>1. /\ k \in Nat /\ Len(args) \in Nat /\ k <= Len(args) /\ args \in Seq(Readable)
        /\ r \in [0 .. Len(args) -> Seq(Instr)] /\ r[Len(args)] = << >> /\ 0 \in {0, 1} /\ 0 \in Int
    BY <1>1, LenProperties DEF Shows, PrintCode
  <2>2. p = r[k] /\ Left(args, k + 1, store, sp, meant)
    BY <1>3 DEF ToFetch
  <2>3. k # Len(args)
    BY <2>1, <2>2
  <2>4. k + 1 \in 1 .. Len(args) /\ k + 1 \in 0 .. Len(args) /\ k \in 0 .. Len(args) - 1
        /\ k < Len(args)
    BY <2>1, <2>3
  <2>5. o \in Readable /\ r[k + 1] \in Seq(Instr)
    BY <2>1, <2>4, ElementOfSeq
  <2>6. PrintOf(o) \in Instr
    <3>1. ObjLoc(o, 0, 0) \in Locations
      BY <2>1, <2>5, ObjLocIs
    <3>2. QED
      BY <3>1, InstrIs DEF PrintOf
  <2>7. q \in Seq(Instr)
    BY <2>5, <2>6, ThenIs
  <2>8. p = Cat(Operand(o, 0), q)
    BY <1>1, <2>2, <2>4 DEF Shows, PrintCode
  <2>9. /\ o.kind = "loc" => At(o, sp) \in Slots
        /\ ValueAt(o, store, sp) = meant.args[k + 1]
    BY <1>1, <2>2, <2>4 DEF Shows, Left
  <2> HIDE DEF k
  <2>10. Left(args, k + 2, store, sp, meant)
    BY <2>1, <2>2 DEF Left
  <2> HIDE DEF q, o
  <2>11. p = IF o.kind = "lit" THEN Then(LoadOf(o, 0), q) ELSE q
    BY <2>1, <2>5, <2>7, <2>8, OperandIs
  <2>12. store \in [Slots -> Int]
    BY DEF Typed, TypeOK
  <2>13. /\ At(ObjLoc(o, 0, 0), sp) \in Slots
         /\ Fetched(o, 0, store, sp)[At(ObjLoc(o, 0, 0), sp)] = meant.args[k + 1]
    BY <2>1, <2>5, <2>9, <2>12, FetchedIs
  <2>14. CASE o.kind = "lit"
    <3>1. code = EncodeAll(Then(LoadOf(o, 0), q)) /\ IsLoad(LoadOf(o, 0), sp)
      BY <2>1, <2>5, <2>11, <2>12, <2>14, LoadIs
    <3>2. /\ code' = EncodeAll(q) /\ store' = After(LoadOf(o, 0), store, sp)
          /\ UNCHANGED <<sp, flags, jumped, called, seen, meant, compared, done>> /\ Typed'
      BY <2>7, <3>1, LoadSteps
    <3>3. store' = Fetched(o, 0, store, sp)
      BY <2>14, <3>2 DEF Fetched
    <3>4. \A a \in Slots : a # <<"R", 0>> => store'[a] = store[a]
      <4>1. \A a \in Slots :
              a # <<"R", 0>> => After(LoadOf(o, 0), store, sp)[a] = store[a]
        BY <2>5, <2>12, <2>14, LoadIs
      <4>2. store' = After(LoadOf(o, 0), store, sp)
        BY <3>2
      <4>3. QED
        BY ONLY <4>1, <4>2
    <3>5. ASSUME NEW i \in k + 2 .. Len(args)
          PROVE  ValueAt(args[i], store', sp) = meant.args[i]
      <4>1. i \in 1 .. Len(args) /\ k + 1 < i /\ k + 1 \in 1 .. Len(args)
        BY <2>1, <2>4
      <4>2. args[i] \in Readable
        BY <2>1, <4>1, ElementOfSeq
      <4>3. args[i] # Loc("R", 0) /\ (args[i].kind = "loc" => At(args[i], sp) \in Slots)
        BY <1>1, <2>14, <4>1 DEF Shows, o
      <4>4. ValueAt(args[i], store', sp) = ValueAt(args[i], store, sp)
        BY <2>1, <3>4, <4>2, <4>3, KeepsValue
      <4>5. QED
        BY <2>10, <4>4 DEF Left
    <3>6. Left(args, k + 2, store', sp, meant)
      BY <3>5 DEF Left
    <3>7. ToShow(args, r, q, store', sp, meant, seen)
      BY <2>4, <2>13, <3>3, <3>6 DEF ToShow, q, o, k
    <3>8. Printing(q, store', sp', meant', seen')
      BY <1>1, <3>2, <3>7 DEF Printing
    <3>9. QED
      BY <2>7, <3>2, <3>8
  <2>15. CASE o.kind # "lit"
    <3>1. Fetched(o, 0, store, sp) = store /\ p = q
      BY <2>11, <2>15 DEF Fetched
    <3>2. ToShow(args, r, p, store, sp, meant, seen)
      BY <2>4, <2>10, <2>13, <3>1 DEF ToShow, q, o, k
    <3>3. QED
      BY <1>1, <3>2, ShowStep
  <2>16. QED
    BY <2>14, <2>15
<1>4. QED
  BY <1>1, <1>2, <1>3

LEMMA BeginPrinting ==
  ASSUME Typed, NEW s \in Statement, Begin(s), Disjoint(s), s.stmt = "print"
  PROVE  /\ Printing(Build(s), store, sp, meant', << >>)
         /\ meant'.stmt = "print"
<1>1. s.args \in Seq(Readable) /\ Len(s.args) \in Nat /\ DOMAIN s.args = 1 .. Len(s.args)
  BY StatementIs, LenProperties
<1>2. meant' = [stmt |-> "print", args |-> [i \in DOMAIN s.args |-> Value(s.args[i])]]
  BY BinOpsIs DEF Begin, Meaning
<1>3. PICK r : /\ r \in [0 .. Len(s.args) -> Seq(Instr)]
               /\ r[0] = BuildPrint(s) /\ r[Len(s.args)] = << >>
               /\ \A m \in 0 .. Len(s.args) - 1 :
                    r[m] = Cat(Operand(s.args[m + 1], 0), Then(PrintOf(s.args[m + 1]), r[m + 1]))
  BY <1>1, PrintRest
<1>4. Operands(s) = {s.args[i] : i \in DOMAIN s.args}
  BY BinOpsIs DEF Operands
<1>5. \A i \in DOMAIN s.args :
        /\ s.args[i].kind = "loc" => At(s.args[i], sp) \in Slots
        /\ Value(s.args[i]) \in Int /\ Value(s.args[i]) = ValueAt(s.args[i], store, sp)
  BY <1>4, BeginTyped
<1>6. /\ meant'.args \in [1 .. Len(s.args) -> Int] /\ meant'.stmt = "print"
      /\ \A i \in 1 .. Len(s.args) : ValueAt(s.args[i], store, sp) = meant'.args[i]
  BY <1>1, <1>2, <1>5
<1>7. \A i, j \in 1 .. Len(s.args) :
        j < i /\ s.args[j].kind = "lit" => s.args[i] # Loc("R", 0)
  BY <1>1, BinOpsIs DEF Disjoint
<1>8. << >> \in Seq(Int) /\ Len(<< >>) = 0 /\ 0 <= Len(s.args) /\ 0 + 1 = 1
  BY <1>1, EmptySeq
<1>9. Shows(s.args, r, sp, meant', << >>)
  BY <1>1, <1>3, <1>5, <1>6, <1>7, <1>8 DEF Shows, PrintCode
<1>10. Build(s) = r[0]
  BY <1>3, BuildIs
<1>11. ToFetch(s.args, r, Build(s), store, sp, meant', << >>)
  BY <1>6, <1>8, <1>10 DEF ToFetch, Left
<1>12. QED
  BY <1>6, <1>9, <1>11 DEF Printing
-----------------------------------------------------------------------------
(* A call pushes its arguments from the last to the first.                 *)
CallShape(s, r) ==
  /\ r \in [0 .. Len(s.args) -> Seq(Instr)]
  /\ r[Len(s.args)] = Then(CallOf(s), PopOf(Len(s.args)))
  /\ \A m \in 0 .. Len(s.args) - 1 :
       r[m] = Cat(Operand(s.args[Len(s.args) - m], 1),
                  Then(PushOf(s.args[Len(s.args) - m], 1, m), r[m + 1]))

Calls(s, r, mt) ==
  /\ s \in Statements /\ s.stmt = "call" /\ Disjoint(s) /\ CallShape(s, r)
  /\ mt.args \in [1 .. Len(s.args) -> Int] /\ mt.left \in Int
  /\ mt.sp \in Nat /\ mt.sp + Len(s.args) < Depth
  /\ \A i \in 1 .. Len(s.args) : s.args[i].kind = "loc" => At(s.args[i], mt.sp) \in Slots
  /\ At(s.left, mt.sp) \in Slots

(* The last m arguments are on the stack, the first k and the function are *)
(* where they were.                                                        *)
Pushed(s, m, k, st, h, mt) ==
  /\ m \in 0 .. Len(s.args) /\ h = mt.sp + m
  /\ st[At(s.left, mt.sp)] = mt.left
  /\ \A j \in 1 .. m : st[<<"L", mt.sp + j - 1>>] = mt.args[Len(s.args) + 1 - j]
  /\ \A i \in 1 .. k : ValueAt(s.args[i], st, mt.sp) = mt.args[i]

ToPass(s, r, m, p, st, h, mt) ==
  p = r[m] /\ Pushed(s, m, Len(s.args) - m, st, h, mt)

ToPush(s, r, m, p, st, h, mt) ==
  /\ Pushed(s, m, Len(s.args) - m - 1, st, h, mt)
  /\ m < Len(s.args)
  /\ p = Then(PushOf(s.args[Len(s.args) - m], 1, m), r[m + 1])
  /\ At(ObjLoc(s.args[Len(s.args) - m], 1, m), h) \in Slots
  /\ st[At(ObjLoc(s.args[Len(s.args) - m], 1, m), h)] = mt.args[Len(s.args) - m]

(* The function was called and found its arguments.                        *)
Heard(mt, cl, sn) ==
  cl = mt.left /\ \A i \in DOMAIN mt.args : sn[i] = mt.args[i]

ToPop(s, p, h, mt, cl, sn) ==
  /\ Len(s.args) > 0 /\ p = PopOf(Len(s.args)) /\ h = mt.sp + Len(s.args)
  /\ Heard(mt, cl, sn)

Popped(s, p, h, mt, cl, sn) ==
  /\ p = << >> /\ (Len(s.args) < Power(256, CountBytes) => h = mt.sp)
  /\ Heard(mt, cl, sn)

Calling(p, st, h, mt, cl, sn) ==
  \E s, r :
    /\ Calls(s, r, mt)
    /\ \/ \E m : ToPass(s, r, m, p, st, h, mt) \/ ToPush(s, r, m, p, st, h, mt)
       \/ ToPop(s, p, h, mt, cl, sn)
       \/ Popped(s, p, h, mt, cl, sn)

LEMMA CallsIs ==
  ASSUME NEW s, NEW r, NEW mt, Calls(s, r, mt)
  PROVE  /\ s.args \in Seq(Readable) /\ s.left \in Locations /\ Len(s.args) \in Nat
         /\ \A i \in 1 .. Len(s.args) :
              /\ s.args[i] \in Readable
              /\ s.args[i].kind = "loc" => (s.args[i].store = "L" <=> s.args[i].at < 0)
              /\ s.args[i].kind = "lit" => s.left # Loc("R", 1)
              /\ s.args[i].kind = "lit" => \A j \in 1 .. i - 1 : s.args[j] # Loc("R", 1)
         /\ Len(s.args) > 0 => s.left.store # "L"
         /\ CallOf(s) \in Instr
<1>1. s \in Statement /\ s.stmt = "call" /\ Disjoint(s)
  BY StatementsAssumption DEF Calls
<1>2. s.args \in Seq(Readable) /\ s.left \in Locations
  BY <1>1, StatementIs
<1>3. Len(s.args) \in Nat /\ \A i \in 1 .. Len(s.args) : s.args[i] \in Readable
  BY <1>2, LenProperties, ElementOfSeq
<1>4. DOMAIN s.args = 1 .. Len(s.args)
  BY <1>2, LenProperties
<1>5. /\ s.left.store = "L" => s.args = << >>
      /\ \A j \in DOMAIN s.args :
           IF s.args[j].kind = "lit"
             THEN s.left # Loc("R", 1) /\ \A i \in 1 .. j - 1 : s.args[i] # Loc("R", 1)
             ELSE s.args[j].store = "L" <=> s.args[j].at < 0
  BY <1>1, BinOpsIs DEF Disjoint
<1>6. \A i \in 1 .. Len(s.args) :
        /\ s.args[i].kind = "loc" => (s.args[i].store = "L" <=> s.args[i].at < 0)
        /\ s.args[i].kind = "lit" => s.left # Loc("R", 1)
        /\ s.args[i].kind = "lit" => \A j \in 1 .. i - 1 : s.args[j] # Loc("R", 1)
  BY <1>4, <1>5
<1>7. Len(s.args) > 0 => s.left.store # "L"
  <2>1. Len(<< >>) = 0
    OBVIOUS
  <2>2. QED
    BY <1>3, <1>5, <2>1
<1>8. CallOf(s) \in Instr
  <2>1. ObjLoc(s.left, 0, 0) \in Locations
    <3>1. s.left \in Readable /\ 0 \in Int
      BY <1>2 DEF Readable
    <3>2. QED
      BY <3>1, ObjLocIs
  <2>2. QED
    BY <2>1, InstrIs DEF CallOf
<1>9. QED
  BY <1>2, <1>3, <1>6, <1>7, <1>8

(* The offset added to an argument is what the stack has grown by.         *)
LEMMA PassedIs ==
  ASSUME NEW o \in Readable, o.kind = "loc", o.store = "L" <=> o.at < 0, NEW m \in Nat, NEW b \in Nat
  PROVE  At(ObjLoc(o, 1, m), b + m) = At(o, b)
<1>1. o \in Locations /\ o.at \in Int /\ 1 \in Int /\ m \in Int
  BY ReadableIs
<1>2. CASE o.at >= 0
  <2>1. ObjLoc(o, 1, m) = o
    BY <1>1, <1>2, ObjLocIs
  <2>2. ~(o.at < 0)
    BY <1>1, <1>2
  <2>3. QED
    BY <2>1, <2>2 DEF At
<1>3. CASE o.at < 0
  <2>1. ObjLoc(o, 1, m) = Loc("L", o.at - m)
    BY <1>1, <1>3, ObjLocIs
  <2>2. o.at - m < 0 /\ (b + m) + (o.at - m) = b + o.at
    BY <1>1, <1>3
  <2>3. At(Loc("L", o.at - m), b + m) = <<"L", (b + m) + (o.at - m)>>
    BY <2>2 DEF At, Loc
  <2>4. At(o, b) = <<"L", b + o.at>>
    BY <1>3 DEF At
  <2>5. QED
    BY <2>1, <2>2, <2>3, <2>4
<1>4. QED
  BY <1>1, <1>2, <1>3

(* What a push writes is no operand of the statement.                      *)
LEMMA PushApart ==
  ASSUME NEW o \in Readable, o.kind = "loc", o.store = "L" => o.at < 0,
         NEW m \in Nat, NEW b \in Nat
  PROVE  At(o, b) # <<"L", b + m>>
<1>1. o \in Locations /\ o.at \in Int
  BY ReadableIs
<1>2. CASE o.store = "L"
  <2>1. At(o, b) = <<"L", b + o.at>>
    BY <1>2 DEF At
  <2>2. b + o.at # b + m
    BY <1>1, <1>2
  <2>3. QED
    BY <2>1, <2>2
<1>3. CASE o.store # "L"
  BY <1>3 DEF At
<1>4. QED
  BY <1>2, <1>3
LEMMA PushStep ==
  ASSUME Typed, NEW s, NEW r, NEW m, NEW p, Calls(s, r, meant),
         ToPush(s, r, m, p, store, sp, meant), code = EncodeAll(p), Next
  PROVE  \E q \in Seq(Instr) :
           /\ code' = EncodeAll(q) /\ Typed'
           /\ UNCHANGED <<meant, compared, flags>>
           /\ Calling(q, store', sp', meant', called', seen')
<1> DEFINE n == Len(s.args)
           o == s.args[n - m]
           q == r[m + 1]
           f == PushOf(o, 1, m)
<1>1. /\ n \in Nat /\ m \in Nat /\ m < n /\ n - m \in 1 .. n /\ m + 1 \in 0 .. n
      /\ meant.sp \in Nat /\ meant.sp + n < Depth /\ sp = meant.sp + m
      /\ meant.args \in [1 .. n -> Int] /\ meant.left \in Int
      /\ At(s.left, meant.sp) \in Slots /\ s.left.store # "L"
      /\ 1 \in Int /\ m \in Int
  <2>1. m \in 0 .. n /\ sp = meant.sp + m /\ m < n
    BY DEF ToPush, Pushed
  <2>2. /\ meant.sp \in Nat /\ meant.sp + n < Depth /\ meant.args \in [1 .. n -> Int]
        /\ meant.left \in Int /\ At(s.left, meant.sp) \in Slots
    BY DEF Calls
  <2>3. n \in Nat /\ (n > 0 => s.left.store # "L")
    BY CallsIs
  <2> HIDE DEF n
  <2>4. QED
    BY <2>1, <2>2, <2>3
<1>2. r \in [0 .. n -> Seq(Instr)]
  BY DEF Calls, CallShape
<1>3. \A i \in 1 .. n :
        /\ s.args[i] \in Readable
        /\ s.args[i].kind = "loc" => (s.args[i].store = "L" => s.args[i].at < 0)
        /\ s.args[i].kind = "loc" => At(s.args[i], meant.sp) \in Slots
  BY CallsIs DEF Calls
<1>4. o \in Readable /\ q \in Seq(Instr)
  BY <1>1, <1>2, <1>3
<1>5. f \in Instr /\ f.op = "push" /\ f.of = ObjLoc(o, 1, m)
  <2>1. ObjLoc(o, 1, m) \in Locations
    BY <1>1, <1>4, ObjLocIs
  <2>2. QED
    BY <2>1, InstrIs DEF PushOf
<1>6. p = Then(f, q) /\ At(f.of, sp) \in Slots /\ store[At(f.of, sp)] = meant.args[n - m]
  BY <1>5 DEF ToPush
<1>7. /\ store[At(s.left, meant.sp)] = meant.left
      /\ \A j \in 1 .. m : store[<<"L", meant.sp + j - 1>>] = meant.args[n + 1 - j]
      /\ \A i \in 1 .. n - m - 1 : ValueAt(s.args[i], store, meant.sp) = meant.args[i]
  BY DEF ToPush, Pushed
<1>8. Calls(s, r, meant)
  OBVIOUS
<1> HIDE DEF f, q, o
<1>9. Placed(f, sp)
  BY <1>5, <1>6, BinOpsIs DEF Placed
<1>10. sp \in 0 .. Depth - 1 /\ store \in [Slots -> Int] /\ Depth \in Nat
  BY StorageAssumption DEF Typed, TypeOK
<1>11. Does(f) /\ code' = EncodeAll(q) /\ UNCHANGED <<meant, compared, done>>
  BY <1>4, <1>5, <1>6, <1>9, <1>10, StepIs
<1>12. /\ Put(<<"L", sp>>, meant.args[n - m]) /\ sp' = sp + 1
       /\ UNCHANGED <<flags, jumped, called, seen>>
  BY <1>5, <1>6, <1>11 DEF Does
<1>13. <<"L", sp>> \in Slots /\ meant.args[n - m] \in Int
  BY <1>1, <1>10 DEF Slots
<1>14. /\ store' \in [Slots -> Int] /\ store'[<<"L", sp>>] = meant.args[n - m]
       /\ \A b \in Slots : b # <<"L", sp>> => store'[b] = store[b]
  BY <1>10, <1>12, <1>13, PutTyped
<1> HIDE DEF n
<1>15. sp' = meant.sp + (m + 1) /\ sp' \in 0 .. Depth - 1
  <2>1. PICK b : b = meant.sp
    OBVIOUS
  <2>2. b \in Nat /\ n \in Nat /\ m \in Nat /\ m < n /\ b + n < Depth /\ Depth \in Nat
        /\ sp' = (b + m) + 1
    BY <1>1, <1>10, <1>12, <2>1
  <2>3. sp' = b + (m + 1) /\ sp' \in 0 .. Depth - 1
    BY <2>2
  <2>4. QED
    BY <2>1, <2>3
<1>16. store'[At(s.left, meant.sp)] = meant.left
  <2>1. At(s.left, meant.sp) # <<"L", sp>>
    BY <1>1 DEF At
  <2>2. QED
    BY <1>1, <1>7, <1>14, <2>1
<1>17. ASSUME NEW j \in 1 .. m + 1
       PROVE  store'[<<"L", meant.sp + j - 1>>] = meant.args[n + 1 - j]
  <2>1. CASE j = m + 1
    <3>1. meant.sp + j - 1 = sp /\ n + 1 - j = n - m
      BY <1>1, <2>1
    <3>2. QED
      BY <1>14, <3>1
  <2>2. CASE j # m + 1
    <3>1. j \in 1 .. m /\ meant.sp + j - 1 # sp /\ meant.sp + j - 1 \in 0 .. Depth - 1
      BY <1>1, <1>10, <2>2
    <3>2. <<"L", meant.sp + j - 1>> \in Slots
      BY <3>1 DEF Slots
    <3>3. <<"L", meant.sp + j - 1>> # <<"L", sp>>
      BY <3>1
    <3>4. QED
      BY <1>7, <1>14, <3>1, <3>2, <3>3
  <2>3. QED
    BY <2>1, <2>2
<1>18. ASSUME NEW i \in 1 .. n - m - 1
       PROVE  ValueAt(s.args[i], store', meant.sp) = meant.args[i]
  <2>1. i \in 1 .. n
    BY <1>1
  <2>2. CASE s.args[i].kind = "loc"
    <3>1. At(s.args[i], meant.sp) # <<"L", meant.sp + m>>
      BY <1>1, <1>3, <2>1, <2>2, PushApart
    <3>2. store'[At(s.args[i], meant.sp)] = store[At(s.args[i], meant.sp)]
      BY <1>1, <1>3, <1>14, <2>1, <2>2, <3>1
    <3>3. QED
      BY <1>7, <2>2, <3>2 DEF ValueAt
  <2>3. CASE s.args[i].kind # "loc"
    <3>1. s.args[i].kind = "lit"
      BY <1>3, <2>1, <2>3, ReadableIs
    <3>2. QED
      BY <1>7, <3>1 DEF ValueAt
  <2>4. QED
    BY <2>2, <2>3
<1>19. n - (m + 1) = n - m - 1
  BY <1>1
<1>20. Pushed(s, m + 1, n - (m + 1), store', sp', meant)
  BY <1>1, <1>15, <1>16, <1>17, <1>18, <1>19 DEF Pushed, n
<1>21. ToPass(s, r, m + 1, q, store', sp', meant)
  BY <1>20 DEF ToPass, q, n
<1>22. Calling(q, store', sp', meant', called', seen')
  BY <1>8, <1>11, <1>21 DEF Calling
<1>23. Typed'
  BY <1>11, <1>12, <1>14, <1>15 DEF Typed, TypeOK
<1>24. QED
  BY <1>4, <1>11, <1>12, <1>22, <1>23

(* A count that fits its field is popped whole.                            *)
LEMMA CutIs ==
  ASSUME NEW n \in Nat, NEW w \in Nat \ {0}
  PROVE  n % w \in 0 .. n /\ (n < w => n % w = n)
<1>1. n % w \in 0 .. w - 1
  BY DivMod
<1>2. CASE n < w
  <2>1. n \in 0 .. w - 1 /\ 0 \in Int /\ n = w * 0 + n
    BY <1>2
  <2>2. n % w = n
    BY <2>1, DivMod
  <2>3. QED
    BY <2>2
<1>3. CASE ~(n < w)
  BY <1>1, <1>3
<1>4. QED
  BY <1>2, <1>3

LEMMA PopOfIs ==
  ASSUME NEW n \in Nat
  PROVE  /\ PopOf(n) \in Seq(Instr) /\ (n = 0 => PopOf(n) = << >>)
         /\ n > 0 => PopOf(n) = Then([op |-> "pop", count |-> n], << >>)
<1>1. [op |-> "pop", count |-> n] \in Instr
  BY InstrIs
<1>2. << >> \in Seq(Instr)
  BY EmptySeq
<1>3. PICK f : f = [op |-> "pop", count |-> n]
  OBVIOUS
<1>4. <<f>> \in Seq(Instr)
  BY <1>1, <1>3
<1>5. <<f>> \o << >> = <<f>>
  BY <1>4, ConcatEmptySeq
<1>6. CASE n > 0
  <2>1. PopOf(n) = <<f>>
    BY <1>3, <1>6 DEF PopOf
  <2>2. QED
    BY <1>3, <1>4, <1>5, <1>6, <2>1 DEF Then
<1>7. CASE ~(n > 0)
  BY <1>2, <1>7 DEF PopOf
<1>8. QED
  BY <1>6, <1>7

LEMMA CallStep ==
  ASSUME Typed, NEW s, NEW r, NEW p, Calls(s, r, meant),
         ToPass(s, r, Len(s.args), p, store, sp, meant), code = EncodeAll(p), Next
  PROVE  \E q \in Seq(Instr) :
           /\ code' = EncodeAll(q) /\ Typed'
           /\ UNCHANGED <<meant, compared, flags>>
           /\ Calling(q, store', sp', meant', called', seen')
<1> DEFINE n == Len(s.args)
           f == CallOf(s)
           q == PopOf(n)
<1>1. /\ n \in Nat /\ n - n = 0 /\ f \in Instr /\ s.left \in Locations
      /\ meant.sp \in Nat /\ meant.sp + n < Depth /\ sp = meant.sp + n
      /\ meant.args \in [1 .. n -> Int] /\ meant.left \in Int
      /\ At(s.left, meant.sp) \in Slots /\ (n > 0 => s.left.store # "L")
  <2>1. sp = meant.sp + n
    BY DEF ToPass, Pushed
  <2>2. /\ meant.sp \in Nat /\ meant.sp + n < Depth /\ meant.args \in [1 .. n -> Int]
        /\ meant.left \in Int /\ At(s.left, meant.sp) \in Slots
    BY DEF Calls
  <2>3. n \in Nat /\ f \in Instr /\ s.left \in Locations /\ (n > 0 => s.left.store # "L")
    BY CallsIs
  <2> HIDE DEF n, f
  <2>4. QED
    BY <2>1, <2>2, <2>3
<1>2. p = Then(f, q)
  BY DEF ToPass, Calls, CallShape
<1>3. /\ store[At(s.left, meant.sp)] = meant.left
      /\ \A j \in 1 .. n : store[<<"L", meant.sp + j - 1>>] = meant.args[n + 1 - j]
  BY DEF ToPass, Pushed
<1>4. f.op = "call" /\ f.of = s.left
  <2>1. s.left.kind = "loc" /\ s.left \in Readable /\ 0 \in Int
    BY <1>1 DEF Readable, Locations
  <2>2. ObjLoc(s.left, 0, 0) = s.left
    BY <2>1, ObjLocIs
  <2>3. QED
    BY <2>2 DEF CallOf
<1> HIDE DEF f
<1>5. At(f.of, sp) = At(s.left, meant.sp)
  <2> HIDE DEF n
  <2>1. CASE n > 0
    BY <1>1, <1>4, <2>1 DEF At
  <2>2. CASE ~(n > 0)
    <3>1. sp = meant.sp
      BY <1>1, <2>2
    <3>2. QED
      BY <1>4, <3>1
  <2>3. QED
    BY <2>1, <2>2
<1>6. q \in Seq(Instr) /\ (n = 0 => q = << >>)
  <2> HIDE DEF n
  <2> QED BY <1>1, PopOfIs
<1> HIDE DEF n, q
<1>7. Placed(f, sp)
  BY <1>1, <1>4, <1>5, BinOpsIs DEF Placed
<1>8. sp \in 0 .. Depth - 1 /\ store \in [Slots -> Int] /\ Depth \in Nat
  BY StorageAssumption DEF Typed, TypeOK
<1>9. Does(f) /\ code' = EncodeAll(q) /\ UNCHANGED <<meant, compared, done>>
  BY <1>1, <1>2, <1>6, <1>7, <1>8, StepIs
<1>10. /\ called' = meant.left
       /\ seen' = [k \in 1 .. sp |-> store[<<"L", sp - 1 - (k - 1)>>]]
       /\ \E v \in Literal : Put(<<"R", 0>>, v)
       /\ UNCHANGED <<sp, flags, jumped>>
  BY <1>3, <1>4, <1>5, <1>9 DEF Does
<1>11. \A i \in 1 .. n : seen'[i] = meant.args[i]
  <2>1. ASSUME NEW i \in 1 .. n
        PROVE  seen'[i] = meant.args[i]
    <3>1. i \in 1 .. sp /\ n + 1 - i \in 1 .. n
          /\ sp - 1 - (i - 1) = meant.sp + (n + 1 - i) - 1 /\ n + 1 - (n + 1 - i) = i
      <4>1. PICK b : b = meant.sp
        OBVIOUS
      <4>2. b \in Nat /\ n \in Nat /\ sp = b + n /\ i \in Int /\ 1 <= i /\ i <= n
        BY <1>1, <4>1
      <4>3. i \in 1 .. sp /\ n + 1 - i \in 1 .. n
            /\ sp - 1 - (i - 1) = b + (n + 1 - i) - 1 /\ n + 1 - (n + 1 - i) = i
        BY <4>2
      <4>4. QED
        BY <4>1, <4>3
    <3>2. seen'[i] = store[<<"L", meant.sp + (n + 1 - i) - 1>>]
      BY <1>10, <3>1
    <3>3. QED
      BY <1>3, <3>1, <3>2
  <2>2. QED
    BY <2>1
<1>12. Heard(meant, called', seen')
  BY <1>1, <1>10, <1>11 DEF Heard
<1>13. store' \in [Slots -> Int]
  <2>1. PICK v \in Literal : Put(<<"R", 0>>, v)
    BY <1>10
  <2>2. v \in Int
    BY LiteralAssumption
  <2>3. <<"R", 0>> \in Slots
    BY StorageAssumption DEF Slots
  <2>4. QED
    BY <1>8, <2>1, <2>2, <2>3, PutTyped
<1>14. Typed'
  BY <1>9, <1>10, <1>13 DEF Typed, TypeOK
<1>15. CASE n > 0
  <2>1. ToPop(s, q, sp', meant, called', seen')
    BY <1>1, <1>10, <1>12, <1>15 DEF ToPop, n, q
  <2>2. Calling(q, store', sp', meant', called', seen')
    BY <1>9, <2>1 DEF Calling
  <2>3. QED
    BY <1>6, <1>9, <1>10, <1>14, <2>2
<1>16. CASE n = 0
  <2>1. q = << >> /\ sp' = meant.sp
    BY <1>1, <1>6, <1>10, <1>16
  <2>2. Popped(s, q, sp', meant, called', seen')
    BY <1>12, <2>1 DEF Popped
  <2>3. Calling(q, store', sp', meant', called', seen')
    BY <1>9, <2>2 DEF Calling
  <2>4. QED
    BY <1>6, <1>9, <1>10, <1>14, <2>3
<1>17. QED
  BY <1>1, <1>15, <1>16

LEMMA PopStep ==
  ASSUME Typed, NEW s, NEW r, NEW p, Calls(s, r, meant),
         ToPop(s, p, sp, meant, called, seen), code = EncodeAll(p), Next
  PROVE  \E q \in Seq(Instr) :
           /\ code' = EncodeAll(q) /\ Typed'
           /\ UNCHANGED <<meant, compared, flags>>
           /\ Calling(q, store', sp', meant', called', seen')
<1> DEFINE n == Len(s.args)
           f == [op |-> "pop", count |-> n]
           w == Power(256, CountBytes)
<1>1. /\ n \in Nat /\ n > 0 /\ meant.sp \in Nat /\ sp = meant.sp + n
      /\ Heard(meant, called, seen)
  BY CallsIs DEF Calls, ToPop
<1>2. f \in Instr /\ << >> \in Seq(Instr) /\ f.op = "pop" /\ f.count = n
  <2> HIDE DEF n
  <2> QED BY <1>1, InstrIs, EmptySeq
<1>3. p = Then(f, << >>)
  <2>1. p = PopOf(n)
    BY DEF ToPop
  <2> HIDE DEF n
  <2>2. QED
    BY <1>1, <2>1, PopOfIs
<1> HIDE DEF f
<1>4. Placed(f, sp)
  BY <1>2, BinOpsIs DEF Placed
<1>5. sp \in 0 .. Depth - 1 /\ store \in [Slots -> Int] /\ Depth \in Nat
  BY StorageAssumption DEF Typed, TypeOK
<1>6. Does(f) /\ code' = EncodeAll(<< >>) /\ UNCHANGED <<meant, compared, done>>
  BY <1>2, <1>3, <1>4, <1>5, StepIs
<1>7. sp' = sp - (n % w) /\ UNCHANGED <<store, flags, jumped, called, seen>>
  BY <1>2, <1>6 DEF Does
<1>8. w \in Nat \ {0}
  <2>1. 256 \in Nat \ {0} /\ CountBytes \in Nat
    BY WidthsAssumption
  <2>2. QED
    BY <2>1, PowerIs
<1> HIDE DEF w
<1>9. n % w \in 0 .. n /\ (n < w => n % w = n)
  <2> HIDE DEF n
  <2> QED BY <1>1, <1>8, CutIs
<1>10. sp' \in 0 .. Depth - 1 /\ (n < w => sp' = meant.sp)
  <2>1. PICK b : b = meant.sp
    OBVIOUS
  <2>2. PICK c : c = n % w
    OBVIOUS
  <2>3. c \in 0 .. n /\ b \in Nat /\ n \in Nat /\ sp = b + n /\ sp' = sp - c
        /\ sp \in 0 .. Depth - 1 /\ Depth \in Nat /\ (n < w => c = n)
    BY <1>1, <1>5, <1>7, <1>9, <2>1, <2>2
  <2> HIDE DEF n
  <2>4. sp' \in 0 .. Depth - 1 /\ (c = n => sp' = b)
    BY <2>3
  <2>5. QED
    BY <2>1, <2>3, <2>4
<1>11. Popped(s, << >>, sp', meant, called', seen')
  BY <1>1, <1>7, <1>10 DEF Popped, n, w
<1>12. Calling(<< >>, store', sp', meant', called', seen')
  BY <1>6, <1>11 DEF Calling
<1>13. Typed'
  BY <1>6, <1>7, <1>10 DEF Typed, TypeOK
<1>14. QED
  BY <1>2, <1>6, <1>7, <1>12, <1>13
LEMMA PassStep ==
  ASSUME Typed, NEW s, NEW r, NEW m, NEW p \in Seq(Instr), Calls(s, r, meant),
         ToPass(s, r, m, p, store, sp, meant), m # Len(s.args), code = EncodeAll(p), Next
  PROVE  \E q \in Seq(Instr) :
           /\ code' = EncodeAll(q) /\ Typed'
           /\ UNCHANGED <<meant, compared, flags>>
           /\ Calling(q, store', sp', meant', called', seen')
<1> DEFINE n == Len(s.args)
           j == n - m
           o == s.args[j]
           f == PushOf(o, 1, m)
           q == Then(f, r[m + 1])
           st == Fetched(o, 1, store, sp)
<1>1. /\ p = r[m] /\ m \in 0 .. n /\ sp = meant.sp + m
      /\ store[At(s.left, meant.sp)] = meant.left
      /\ \A i \in 1 .. m : store[<<"L", meant.sp + i - 1>>] = meant.args[n + 1 - i]
      /\ \A i \in 1 .. n - m : ValueAt(s.args[i], store, meant.sp) = meant.args[i]
  BY DEF ToPass, Pushed
<1>2. /\ meant.sp \in Nat /\ meant.sp + n < Depth /\ At(s.left, meant.sp) \in Slots
      /\ \A i \in 1 .. n : s.args[i].kind = "loc" => At(s.args[i], meant.sp) \in Slots
      /\ CallShape(s, r)
  BY DEF Calls
<1>3. /\ n \in Nat /\ s.left \in Locations
      /\ \A i \in 1 .. n :
           /\ s.args[i] \in Readable
           /\ s.args[i].kind = "loc" => (s.args[i].store = "L" <=> s.args[i].at < 0)
           /\ s.args[i].kind = "lit" => s.left # Loc("R", 1)
           /\ s.args[i].kind = "lit" => \A i2 \in 1 .. i - 1 : s.args[i2] # Loc("R", 1)
  BY CallsIs
<1>4. /\ r \in [0 .. n -> Seq(Instr)]
      /\ \A k \in 0 .. n - 1 :
           r[k] = Cat(Operand(s.args[n - k], 1), Then(PushOf(s.args[n - k], 1, k), r[k + 1]))
  BY <1>2 DEF CallShape
<1>5. m # n
  OBVIOUS
<1>6. Calls(s, r, meant)
  OBVIOUS
<1> HIDE DEF n
<1>7. /\ m \in Nat /\ m < n /\ m \in 0 .. n - 1 /\ m + 1 \in 0 .. n /\ j \in 1 .. n
      /\ m \in Int /\ 1 \in Int /\ 1 \in {0, 1} /\ j - 1 = n - m - 1
      /\ n \in Nat /\ j \in Int
  BY <1>1, <1>3, <1>5
<1>8. o \in Readable /\ r[m + 1] \in Seq(Instr)
  BY <1>3, <1>4, <1>7
<1>9. p = Cat(Operand(o, 1), q)
  BY <1>1, <1>4, <1>7
<1>10. ValueAt(o, store, meant.sp) = meant.args[j]
  BY <1>1, <1>3, <1>7
<1>11. /\ o.kind = "loc" => (o.store = "L" <=> o.at < 0) /\ At(o, meant.sp) \in Slots
       /\ o.kind = "lit" => s.left # Loc("R", 1) /\ \A i \in 1 .. j - 1 : s.args[i] # Loc("R", 1)
  BY <1>2, <1>3, <1>7
<1> HIDE DEF o, j
<1>12. f \in Instr
  <2>1. ObjLoc(o, 1, m) \in Locations
    BY <1>7, <1>8, ObjLocIs
  <2>2. QED
    BY <2>1, InstrIs DEF PushOf
<1>13. q \in Seq(Instr)
  BY <1>8, <1>12, ThenIs
<1> HIDE DEF q
<1>14. p = IF o.kind = "lit" THEN Then(LoadOf(o, 1), q) ELSE q
  BY <1>7, <1>8, <1>9, <1>13, OperandIs
<1>15. store \in [Slots -> Int]
  BY DEF Typed, TypeOK
<1>16. \A i \in 1 .. j - 1 : ValueAt(s.args[i], store, meant.sp) = meant.args[i]
  <2>1. \A i \in 1 .. j - 1 : i \in 1 .. n - m
    BY <1>7
  <2>2. QED
    BY <1>1, <2>1
<1>17. CASE o.kind = "lit"
  <2>1. IsLoad(LoadOf(o, 1), sp)
    BY <1>7, <1>8, <1>15, <1>17, LoadIs
  <2>2. code = EncodeAll(Then(LoadOf(o, 1), q))
    BY <1>14, <1>17
  <2>3. /\ code' = EncodeAll(q) /\ store' = After(LoadOf(o, 1), store, sp)
        /\ UNCHANGED <<sp, flags, jumped, called, seen, meant, compared, done>> /\ Typed'
    BY <1>13, <2>1, <2>2, LoadSteps
  <2>4. /\ store'[<<"R", 1>>] = o.value
        /\ \A a \in Slots : a # <<"R", 1>> => store'[a] = store[a]
    BY <1>7, <1>8, <1>15, <1>17, <2>3, LoadIs
  <2>5. store'[At(s.left, meant.sp)] = meant.left
    <3>1. At(s.left, meant.sp) # <<"R", 1>>
      BY <1>2, <1>3, <1>7, <1>11, <1>17, RegisterIs
    <3>2. QED
      BY <1>1, <1>2, <2>4, <3>1
  <2>6. ASSUME NEW i \in 1 .. m
        PROVE  store'[<<"L", meant.sp + i - 1>>] = meant.args[n + 1 - i]
    <3>1. meant.sp + i - 1 \in 0 .. Depth - 1
      <4>1. PICK b : b = meant.sp
        OBVIOUS
      <4>2. b \in Nat /\ b + n < Depth /\ m \in Nat /\ m < n /\ n \in Nat /\ Depth \in Nat
        BY <1>2, <1>3, <1>7, <4>1, StorageAssumption
      <4>3. b + i - 1 \in 0 .. Depth - 1
        BY <4>2
      <4>4. QED
        BY <4>1, <4>3
    <3>2. <<"L", meant.sp + i - 1>> \in Slots
      BY <3>1 DEF Slots
    <3>3. QED
      BY <1>1, <2>4, <3>2
  <2>7. ASSUME NEW i \in 1 .. j - 1
        PROVE  ValueAt(s.args[i], store', meant.sp) = meant.args[i]
    <3>1. i \in 1 .. n
      BY <1>7
    <3>2. s.args[i] \in Readable /\ s.args[i] # Loc("R", 1)
          /\ (s.args[i].kind = "loc" => At(s.args[i], meant.sp) \in Slots)
      BY <1>2, <1>3, <1>11, <1>17, <3>1
    <3>3. ValueAt(s.args[i], store', meant.sp) = ValueAt(s.args[i], store, meant.sp)
      BY <1>7, <2>4, <3>2, KeepsValue
    <3>4. QED
      BY <1>16, <3>3
  <2>8. Pushed(s, m, n - m - 1, store', sp', meant)
    BY <1>1, <1>7, <2>3, <2>5, <2>6, <2>7 DEF Pushed, n
  <2>9. At(ObjLoc(o, 1, m), sp) = <<"R", 1>> /\ <<"R", 1>> \in Slots
    <3>1. ObjLoc(o, 1, m) = Loc("R", 1)
      BY <1>7, <1>8, <1>17, ObjLocIs
    <3>2. QED
      BY <1>7, <3>1, RegisterIs
  <2>10. o.value = meant.args[j]
    BY <1>10, <1>17 DEF ValueAt
  <2>11. ToPush(s, r, m, q, store', sp', meant)
    BY <1>7, <2>3, <2>4, <2>8, <2>9, <2>10 DEF ToPush, q, o, j, n
  <2>12. Calling(q, store', sp', meant', called', seen')
    BY <1>6, <2>3, <2>11 DEF Calling
  <2>13. QED
    BY <1>13, <2>3, <2>12
<1>18. CASE o.kind # "lit"
  <2>1. o.kind = "loc"
    BY <1>8, <1>18, ReadableIs
  <2>2. At(ObjLoc(o, 1, m), sp) = At(o, meant.sp)
    <3>1. PICK b : b = meant.sp
      OBVIOUS
    <3>2. At(ObjLoc(o, 1, m), b + m) = At(o, b)
      BY <1>2, <1>7, <1>8, <1>11, <2>1, <3>1, PassedIs
    <3>3. QED
      BY <1>1, <3>1, <3>2
  <2>3. At(ObjLoc(o, 1, m), sp) \in Slots /\ store[At(ObjLoc(o, 1, m), sp)] = meant.args[j]
    BY <1>10, <1>11, <1>18, <2>1, <2>2 DEF ValueAt
  <2>4. p = q
    BY <1>14, <1>18
  <2>5. Pushed(s, m, n - m - 1, store, sp, meant)
    BY <1>1, <1>7, <1>16 DEF Pushed, n
  <2>6. ToPush(s, r, m, p, store, sp, meant)
    BY <1>7, <2>3, <2>4, <2>5 DEF ToPush, q, o, j, n
  <2>7. QED
    BY <1>6, <2>6, PushStep
<1>19. QED
  BY <1>17, <1>18

LEMMA CallingSteps ==
  ASSUME Typed, NEW p \in Seq(Instr), code = EncodeAll(p), p # << >>, Next,
         Calling(p, store, sp, meant, called, seen)
  PROVE  \E q \in Seq(Instr) :
           /\ code' = EncodeAll(q) /\ Typed'
           /\ UNCHANGED <<meant, compared, flags>>
           /\ Calling(q, store', sp', meant', called', seen')
<1>1. PICK s, r : /\ Calls(s, r, meant)
                  /\ \/ \E m : \/ ToPass(s, r, m, p, store, sp, meant)
                               \/ ToPush(s, r, m, p, store, sp, meant)
                     \/ ToPop(s, p, sp, meant, called, seen)
                     \/ Popped(s, p, sp, meant, called, seen)
  BY DEF Calling
<1>2. CASE \E m : ToPass(s, r, m, p, store, sp, meant)
  <2>1. PICK m : ToPass(s, r, m, p, store, sp, meant)
    BY <1>2
  <2>2. CASE m = Len(s.args)
    <3>1. ToPass(s, r, Len(s.args), p, store, sp, meant)
      BY <2>1, <2>2
    <3>2. QED
      BY <1>1, <3>1, CallStep
  <2>3. CASE m # Len(s.args)
    BY <1>1, <2>1, <2>3, PassStep
  <2>4. QED
    BY <2>2, <2>3
<1>3. CASE \E m : ToPush(s, r, m, p, store, sp, meant)
  BY <1>1, <1>3, PushStep
<1>4. CASE ToPop(s, p, sp, meant, called, seen)
  BY <1>1, <1>4, PopStep
<1>5. ~Popped(s, p, sp, meant, called, seen)
  BY DEF Popped
<1>6. QED
  BY <1>1, <1>2, <1>3, <1>4, <1>5

LEMMA BeginCalling ==
  ASSUME Typed, NEW s \in Statements, Begin(s), Disjoint(s), s.stmt = "call"
  PROVE  /\ Calling(Build(s), store, sp, meant', called', seen')
         /\ meant'.stmt = "call"
<1> s \in Statement
  BY StatementsAssumption
<1>1. /\ s.args \in Seq(Readable) /\ Len(s.args) \in Nat /\ DOMAIN s.args = 1 .. Len(s.args)
      /\ s.left \in Locations
  BY StatementIs, LenProperties
<1>2. meant' = [stmt |-> "call", left |-> Value(s.left),
                args |-> [i \in DOMAIN s.args |-> Value(s.args[i])], sp |-> sp]
  BY BinOpsIs DEF Begin, Meaning
<1>3. PICK r : /\ r \in [0 .. Len(s.args) -> Seq(Instr)]
               /\ r[0] = BuildCall(s) /\ r[Len(s.args)] = Then(CallOf(s), PopOf(Len(s.args)))
               /\ \A m \in 0 .. Len(s.args) - 1 :
                    r[m] = Cat(Operand(s.args[Len(s.args) - m], 1),
                               Then(PushOf(s.args[Len(s.args) - m], 1, m), r[m + 1]))
  BY <1>1, CallRest
<1>4. Operands(s) = {s.left} \cup {s.args[i] : i \in DOMAIN s.args}
  BY BinOpsIs DEF Operands
<1>5. /\ \A i \in DOMAIN s.args :
           /\ s.args[i].kind = "loc" => At(s.args[i], sp) \in Slots
           /\ Value(s.args[i]) \in Int /\ Value(s.args[i]) = ValueAt(s.args[i], store, sp)
      /\ s.left.kind = "loc" => At(s.left, sp) \in Slots
      /\ Value(s.left) \in Int /\ Value(s.left) = ValueAt(s.left, store, sp)
  BY <1>4, BeginTyped
<1>6. s.left.kind = "loc"
  BY <1>1 DEF Locations
<1>7. At(s.left, sp) \in Slots /\ Value(s.left) = store[At(s.left, sp)]
  BY <1>5, <1>6 DEF ValueAt
<1>8. /\ meant'.args \in [1 .. Len(s.args) -> Int] /\ meant'.left = Value(s.left)
      /\ meant'.sp = sp /\ meant'.stmt = "call"
      /\ \A i \in 1 .. Len(s.args) : ValueAt(s.args[i], store, sp) = meant'.args[i]
  BY <1>1, <1>2, <1>5
<1>9. sp \in Nat /\ sp + Len(s.args) < Depth
  <2>1. Raises(s) = Len(s.args)
    BY DEF Raises
  <2>2. sp \in Nat
    BY DEF Typed, TypeOK
  <2>3. QED
    BY <2>1, <2>2 DEF Begin
<1>10. Calls(s, r, meant')
  BY <1>1, <1>3, <1>5, <1>7, <1>8, <1>9 DEF Calls, CallShape
<1>11. Build(s) = r[0]
  BY <1>3, BuildIs
<1>12. Len(s.args) - 0 = Len(s.args) /\ 0 \in 0 .. Len(s.args) /\ sp = sp + 0
       /\ \A j \in 1 .. 0 : FALSE
  BY <1>1, <1>9
<1>13. Pushed(s, 0, Len(s.args) - 0, store, sp, meant')
  BY <1>7, <1>8, <1>12 DEF Pushed
<1>14. ToPass(s, r, 0, Build(s), store, sp, meant')
  BY <1>11, <1>13 DEF ToPass
<1>15. QED
  BY <1>8, <1>10, <1>14 DEF Calling
-----------------------------------------------------------------------------
(* A jump, and a pop of the program.                                       *)
Jumps(f, st, h, mt) ==
  f \in Instr /\ f.op = "jmp" /\ f.mode = mt.mode /\ Placed(f, h) /\ st[At(f.of, h)] = mt.left

Jumping(p, st, h, mt, fl, jp, cl) ==
  /\ \E s \in Statements : s.stmt = "jmp" /\ s.mode = mt.mode
  /\ \/ \E f : p = Then(f, << >>) /\ Jumps(f, st, h, mt)
     \/ p = << >> /\ jp = Taken(mt.mode, fl) /\ (jp => cl = mt.left)

Popping(p, h) ==
  \/ p = << >>
  \/ \E c \in 0 .. h : p = Then([op |-> "pop", count |-> c], << >>)

LEMMA TakenIs ==
  ASSUME NEW mode \in DOMAIN JumpMode, NEW fl
  PROVE  Taken(mode, fl) \in BOOLEAN
<1>1. mode \in {"jmp", "je", "jne", "jg", "jge"}
  BY DEF JumpMode
<1>2. CASE mode = "jmp"
  BY <1>2 DEF Taken
<1>3. CASE mode = "je"
  BY <1>3 DEF Taken
<1>4. CASE mode = "jne"
  BY <1>4 DEF Taken
<1>5. CASE mode = "jg"
  BY <1>5 DEF Taken
<1>6. CASE mode = "jge"
  BY <1>6 DEF Taken
<1>7. QED
  BY <1>1, <1>2, <1>3, <1>4, <1>5, <1>6

LEMMA JumpingSteps ==
  ASSUME Typed, NEW p \in Seq(Instr), code = EncodeAll(p), p # << >>, Next,
         Jumping(p, store, sp, meant, flags, jumped, called)
  PROVE  \E q \in Seq(Instr) :
           /\ code' = EncodeAll(q) /\ Typed'
           /\ UNCHANGED <<meant, compared, flags>>
           /\ Jumping(q, store', sp', meant', flags', jumped', called')
<1>1. PICK s \in Statements : s.stmt = "jmp" /\ s.mode = meant.mode
  BY DEF Jumping
<1>2. PICK f : p = Then(f, << >>) /\ Jumps(f, store, sp, meant)
  BY DEF Jumping
<1>3. meant.mode \in DOMAIN JumpMode
  BY <1>1, StatementsAssumption, StatementIs
<1>4. /\ f \in Instr /\ f.op = "jmp" /\ f.mode = meant.mode /\ Placed(f, sp)
      /\ store[At(f.of, sp)] = meant.left
  BY <1>2 DEF Jumps
<1>5. << >> \in Seq(Instr) /\ sp \in 0 .. Depth - 1
  BY EmptySeq DEF Typed, TypeOK
<1>6. Does(f) /\ code' = EncodeAll(<< >>) /\ UNCHANGED <<meant, compared, done>>
  BY <1>2, <1>4, <1>5, StepIs
<1>7. /\ jumped' = Taken(meant.mode, flags) /\ (jumped' => called' = meant.left)
      /\ UNCHANGED <<store, sp, flags, seen>>
  BY <1>4, <1>6 DEF Does
<1>8. jumped' \in BOOLEAN
  BY <1>3, <1>7, TakenIs
<1>9. Typed'
  BY <1>6, <1>7, <1>8 DEF Typed, TypeOK
<1>10. Jumping(<< >>, store', sp', meant', flags', jumped', called')
  BY <1>1, <1>6, <1>7 DEF Jumping
<1>11. QED
  BY <1>5, <1>6, <1>7, <1>9, <1>10

LEMMA PoppingSteps ==
  ASSUME Typed, NEW p \in Seq(Instr), code = EncodeAll(p), p # << >>, Next, Popping(p, sp)
  PROVE  \E q \in Seq(Instr) :
           /\ code' = EncodeAll(q) /\ Typed'
           /\ UNCHANGED <<meant, compared, flags>>
           /\ Popping(q, sp')
<1>1. PICK c \in 0 .. sp : p = Then([op |-> "pop", count |-> c], << >>)
  BY DEF Popping
<1>2. c \in Nat /\ c <= sp /\ << >> \in Seq(Instr) /\ sp \in 0 .. Depth - 1 /\ Depth \in Nat
  BY EmptySeq, StorageAssumption DEF Typed, TypeOK
<1>3. PICK f : f = [op |-> "pop", count |-> c]
  OBVIOUS
<1>4. f \in Instr /\ f.op = "pop" /\ f.count = c
  BY <1>2, <1>3, InstrIs
<1>5. Placed(f, sp)
  BY <1>4, BinOpsIs DEF Placed
<1>6. Does(f) /\ code' = EncodeAll(<< >>) /\ UNCHANGED <<meant, compared, done>>
  BY <1>1, <1>2, <1>3, <1>4, <1>5, StepIs
<1>7. /\ sp' = sp - (c % Power(256, CountBytes))
      /\ UNCHANGED <<store, flags, jumped, called, seen>>
  BY <1>4, <1>6 DEF Does
<1>8. Power(256, CountBytes) \in Nat \ {0}
  <2>1. 256 \in Nat \ {0} /\ CountBytes \in Nat
    BY WidthsAssumption
  <2>2. QED
    BY <2>1, PowerIs
<1>9. c % Power(256, CountBytes) \in 0 .. c
  BY <1>2, <1>8, CutIs
<1>10. sp' \in 0 .. Depth - 1
  BY <1>2, <1>7, <1>9
<1>11. Typed'
  BY <1>6, <1>7, <1>10 DEF Typed, TypeOK
<1>12. QED
  BY <1>2, <1>6, <1>7, <1>11 DEF Popping

LEMMA BeginJumping ==
  ASSUME Typed, NEW s \in Statements, Begin(s), s.stmt = "jmp"
  PROVE  /\ Jumping(Build(s), store, sp, meant', flags', jumped', called')
         /\ meant'.stmt = "jmp"
<1>1. s \in Statement /\ s.left \in Locations
  BY StatementsAssumption, StatementIs
<1>2. meant' = [stmt |-> "jmp", mode |-> s.mode, left |-> Value(s.left)]
  BY BinOpsIs DEF Begin, Meaning
<1>3. JumpOf(s) \in Instr /\ Build(s) = Then(JumpOf(s), << >>)
  BY <1>1, BuildIs
<1>4. s.left.kind = "loc"
  BY <1>1 DEF Locations
<1>5. At(s.left, sp) \in Slots /\ Value(s.left) = store[At(s.left, sp)]
  <2>1. s.left \in Operands(s)
    BY BinOpsIs DEF Operands
  <2>2. QED
    BY <1>1, <1>4, <2>1, BeginTyped DEF ValueAt
<1>6. JumpOf(s).op = "jmp" /\ JumpOf(s).mode = s.mode /\ JumpOf(s).of = s.left
  BY DEF JumpOf
<1>7. Placed(JumpOf(s), sp)
  BY <1>5, <1>6, BinOpsIs DEF Placed
<1>8. meant'.stmt = "jmp" /\ meant'.mode = s.mode /\ meant'.left = Value(s.left)
  BY <1>2
<1>9. Jumps(JumpOf(s), store, sp, meant')
  BY <1>3, <1>5, <1>6, <1>7, <1>8 DEF Jumps
<1>10. QED
  BY <1>3, <1>8, <1>9 DEF Jumping

LEMMA BeginPopping ==
  ASSUME Typed, NEW s \in Statement, Begin(s), s.stmt = "pop"
  PROVE  Popping(Build(s), sp) /\ meant'.stmt = "pop"
<1>1. meant' = [stmt |-> s.stmt]
  BY BinOpsIs DEF Begin, Meaning
<1>2. Build(s) = Then([op |-> "pop", count |-> s.count], << >>)
  BY BuildIs
<1>3. s.count \in 0 .. sp
  <2>1. s.count \in Nat /\ s.count <= sp /\ sp \in Nat
    BY StatementIs DEF Begin, Typed, TypeOK
  <2>2. QED
    BY <2>1
<1>4. QED
  BY <1>1, <1>2, <1>3 DEF Popping
-----------------------------------------------------------------------------
(* The inductive invariant: what is still to execute is the rest of the    *)
(* code of one statement, at a stage that the store, the stack and what    *)
(* was seen agree with; the flags are those of the last comparison, except *)
(* within one.                                                             *)
Staged(p) ==
  \/ meant.stmt = "none" /\ p = << >>
  \/ /\ meant.stmt \in {"mov", "binop", "cmp", "push"}
     /\ Simple(p, store, sp, meant, compared)
  \/ meant.stmt = "print" /\ Printing(p, store, sp, meant, seen)
  \/ meant.stmt = "call" /\ Calling(p, store, sp, meant, called, seen)
  \/ meant.stmt = "jmp" /\ Jumping(p, store, sp, meant, flags, jumped, called)
  \/ meant.stmt = "pop" /\ Popping(p, sp)

Rests(p) ==
  /\ code = EncodeAll(p)
  /\ p = << >> \/ meant.stmt # "cmp" => Signed(flags, compared)
  /\ Staged(p)

IInv == Typed /\ \E p \in Seq(Instr) : Rests(p)

(* The programs spoken of: no operand's code disturbs another's, counts of *)
(* arguments fit the field of a pop, and jge, which is never taken, is not *)
(* used.                                                                   *)
AllDisjoint == \A s \in Statements : Disjoint(s)

CountsFit ==
  \A s \in Statements : s.stmt = "call" => Len(s.args) < Power(256, CountBytes)

NoJge == \A s \in Statements : s.stmt = "jmp" => s.mode # "jge"

LEMMA IInvStarts ==
  Init => IInv
<1> SUFFICES ASSUME Init
             PROVE  IInv
  OBVIOUS
<1>1. << >> \in Seq(Instr) /\ code = EncodeAll(<< >>)
  BY EmptySeq, EncodeAllIs DEF Init
<1>2. TypeOK
  <2>1. store \in [Slots -> Int]
    BY DEF Init
  <2>2. sp \in 0 .. Depth - 1 /\ done \in 0 .. MaxStatements
    BY StorageAssumption DEF Init
  <2>3. flags \in 0 .. 2 /\ jumped \in BOOLEAN
    <3>1. flags = 0 /\ jumped = FALSE
      BY Zenon DEF Init
    <3>2. flags \in 0 .. 2
      BY <3>1
    <3>3. jumped \in BOOLEAN
      BY Zenon, <3>1
    <3>4. QED
      BY <3>2, <3>3
  <2>4. QED
    BY <2>1, <2>2, <2>3 DEF TypeOK
<1>3. compared[1] = 0 /\ compared[2] = 1 /\ flags = 0
  BY DEF Init
<1>4. Typed
  BY <1>2, <1>3 DEF Typed
<1>5. Signed(flags, compared)
  BY <1>3 DEF Signed, Sign
<1>6. Staged(<< >>)
  BY DEF Init, Staged
<1>7. QED
  BY <1>1, <1>4, <1>5, <1>6 DEF IInv, Rests

(* Nothing is left to execute when a statement is finished.                *)
LEMMA Ended ==
  ASSUME IInv, code = << >>
  PROVE  Staged(<< >>) /\ Signed(flags, compared)
<1>1. PICK p \in Seq(Instr) : Rests(p)
  BY DEF IInv
<1>2. p = << >>
  <2> SUFFICES ASSUME p # << >>
               PROVE  FALSE
    OBVIOUS
  <2>1. PICK x \in Instr, t \in Seq(Instr) : p = Then(x, t)
    BY ThenExists
  <2>2. code # << >>
    BY <1>1, <2>1, FirstInstruction DEF Rests
  <2>3. QED
    BY <2>2
<1>3. QED
  BY <1>1, <1>2 DEF Rests
LEMMA IInvBegins ==
  ASSUME AllDisjoint, IInv, NEW s \in Statements, Begin(s)
  PROVE  IInv'
<1>1. s \in Statement /\ Typed /\ Disjoint(s)
  BY StatementsAssumption DEF IInv, AllDisjoint
<1>2. Typed'
  BY <1>1, BeginTyped
<1>5. Signed(flags, compared)
  BY Ended DEF Begin
<1>6. s.stmt # "cmp" => Signed(flags', compared')
  BY <1>5 DEF Begin
<1>7. Build(s) \in Seq(Instr) /\ code' = EncodeAll(Build(s))
  BY <1>1, BuildIs DEF Begin
<1>8. UNCHANGED <<store, sp, flags>> /\ seen' = << >>
  BY DEF Begin
<1> DEFINE q == Build(s)
<1>9. CASE s.stmt \in {"mov", "cmp", "push"} \cup BinOps
  <2>1. /\ Simple(q, store, sp, meant', compared')
        /\ meant'.stmt \in {"mov", "binop", "cmp", "push"}
        /\ meant'.stmt = "cmp" <=> s.stmt = "cmp"
        /\ s.stmt = "cmp" => q # << >>
    BY <1>1, <1>9, BeginSimple
  <2> HIDE DEF q
  <2>2. Staged(q)'
    BY <1>8, <2>1 DEF Staged
  <2>3. q = << >> \/ meant'.stmt # "cmp" => Signed(flags', compared')
    BY <1>6, <2>1
  <2>4. Rests(q)'
    BY <1>7, <2>2, <2>3 DEF Rests, q
  <2>5. QED
    BY <1>2, <1>7, <2>4 DEF IInv, q
<1>10. CASE s.stmt = "print"
  <2>1. Printing(q, store, sp, meant', << >>) /\ meant'.stmt = "print"
    BY <1>1, <1>10, BeginPrinting
  <2> HIDE DEF q
  <2>2. Staged(q)'
    BY <1>8, <2>1 DEF Staged
  <2>3. Rests(q)'
    BY <1>6, <1>7, <1>10, <2>2 DEF Rests, q
  <2>4. QED
    BY <1>2, <1>7, <2>3 DEF IInv, q
<1>11. CASE s.stmt = "call"
  <2>1. Calling(q, store, sp, meant', called', seen') /\ meant'.stmt = "call"
    BY <1>1, <1>11, BeginCalling
  <2> HIDE DEF q
  <2>2. Staged(q)'
    BY <1>8, <2>1 DEF Staged
  <2>3. Rests(q)'
    BY <1>6, <1>7, <1>11, <2>2 DEF Rests, q
  <2>4. QED
    BY <1>2, <1>7, <2>3 DEF IInv, q
<1>12. CASE s.stmt = "jmp"
  <2>1. Jumping(q, store, sp, meant', flags', jumped', called') /\ meant'.stmt = "jmp"
    BY <1>1, <1>12, BeginJumping
  <2> HIDE DEF q
  <2>2. Staged(q)'
    BY <1>8, <2>1 DEF Staged
  <2>3. Rests(q)'
    BY <1>6, <1>7, <1>12, <2>2 DEF Rests, q
  <2>4. QED
    BY <1>2, <1>7, <2>3 DEF IInv, q
<1>13. CASE s.stmt = "pop"
  <2>1. Popping(q, sp) /\ meant'.stmt = "pop"
    BY <1>1, <1>13, BeginPopping
  <2> HIDE DEF q
  <2>2. Staged(q)'
    BY <1>8, <2>1 DEF Staged
  <2>3. Rests(q)'
    BY <1>6, <1>7, <1>13, <2>2 DEF Rests, q
  <2>4. QED
    BY <1>2, <1>7, <2>3 DEF IInv, q
<1>14. QED
  BY <1>1, <1>9, <1>10, <1>11, <1>12, <1>13, StatementIs

LEMMA IInvSteps ==
  ASSUME IInv, Next, NEW p \in Seq(Instr), Rests(p), p # << >>
  PROVE  IInv'
<1>1. Typed /\ code = EncodeAll(p) /\ Staged(p)
      /\ (meant.stmt # "cmp" => Signed(flags, compared))
  BY DEF IInv, Rests
<1>2. CASE /\ meant.stmt \in {"mov", "binop", "cmp", "push"}
           /\ Simple(p, store, sp, meant, compared)
  <2>1. PICK q \in Seq(Instr) :
          /\ code' = EncodeAll(q) /\ Typed' /\ UNCHANGED <<meant, compared>>
          /\ Simple(q, store', sp', meant', compared')
          /\ q = << >> \/ meant'.stmt # "cmp" => Signed(flags', compared')
    BY <1>1, <1>2, SimpleSteps
  <2>2. Staged(q)'
    BY <1>2, <2>1 DEF Staged
  <2>3. QED
    BY <2>1, <2>2 DEF IInv, Rests
<1>3. CASE meant.stmt = "print" /\ Printing(p, store, sp, meant, seen)
  <2>1. PICK q \in Seq(Instr) :
          /\ code' = EncodeAll(q) /\ Typed' /\ UNCHANGED <<meant, compared, flags>>
          /\ Printing(q, store', sp', meant', seen')
    BY <1>1, <1>3, PrintingSteps
  <2>2. Staged(q)'
    BY <1>3, <2>1 DEF Staged
  <2>3. Signed(flags', compared')
    BY <1>1, <1>3, <2>1
  <2>4. QED
    BY <2>1, <2>2, <2>3 DEF IInv, Rests
<1>4. CASE meant.stmt = "call" /\ Calling(p, store, sp, meant, called, seen)
  <2>1. PICK q \in Seq(Instr) :
          /\ code' = EncodeAll(q) /\ Typed' /\ UNCHANGED <<meant, compared, flags>>
          /\ Calling(q, store', sp', meant', called', seen')
    BY <1>1, <1>4, CallingSteps
  <2>2. Staged(q)'
    BY <1>4, <2>1 DEF Staged
  <2>3. Signed(flags', compared')
    BY <1>1, <1>4, <2>1
  <2>4. QED
    BY <2>1, <2>2, <2>3 DEF IInv, Rests
<1>5. CASE meant.stmt = "jmp" /\ Jumping(p, store, sp, meant, flags, jumped, called)
  <2>1. PICK q \in Seq(Instr) :
          /\ code' = EncodeAll(q) /\ Typed' /\ UNCHANGED <<meant, compared, flags>>
          /\ Jumping(q, store', sp', meant', flags', jumped', called')
    BY <1>1, <1>5, JumpingSteps
  <2>2. Staged(q)'
    BY <1>5, <2>1 DEF Staged
  <2>3. Signed(flags', compared')
    BY <1>1, <1>5, <2>1
  <2>4. QED
    BY <2>1, <2>2, <2>3 DEF IInv, Rests
<1>6. CASE meant.stmt = "pop" /\ Popping(p, sp)
  <2>1. PICK q \in Seq(Instr) :
          /\ code' = EncodeAll(q) /\ Typed' /\ UNCHANGED <<meant, compared, flags>>
          /\ Popping(q, sp')
    BY <1>1, <1>6, PoppingSteps
  <2>2. Staged(q)'
    BY <1>6, <2>1 DEF Staged
  <2>3. Signed(flags', compared')
    BY <1>1, <1>6, <2>1
  <2>4. QED
    BY <2>1, <2>2, <2>3 DEF IInv, Rests
<1>7. QED
  BY <1>1, <1>2, <1>3, <1>4, <1>5, <1>6 DEF Staged

LEMMA IInvKept ==
  ASSUME AllDisjoint
  PROVE  Spec => []IInv
<1>1. Init => IInv
  BY IInvStarts
<1>2. IInv /\ [Next]_vars => IInv'
  <2> SUFFICES ASSUME IInv, [Next]_vars
               PROVE  IInv'
    OBVIOUS
  <2>1. CASE UNCHANGED vars
    BY <2>1 DEF vars, IInv, Typed, TypeOK, Rests, Staged
  <2>2. CASE Next
    <3>1. PICK p \in Seq(Instr) : Rests(p)
      BY DEF IInv
    <3>2. CASE p # << >>
      BY <2>2, <3>1, <3>2, IInvSteps
    <3>3. CASE p = << >>
      <4>1. code = << >>
        BY <3>1, <3>3, EncodeAllIs DEF Rests
      <4>2. PICK s \in Statements : Begin(s)
        BY <2>2, <4>1, NextIs, NoInstruction
      <4>3. QED
        BY <4>2, IInvBegins
    <3>4. QED
      BY <3>2, <3>3
  <2>3. QED
    BY <2>1, <2>2
<1>3. QED
  BY <1>1, <1>2, PTL DEF Spec

(* Registers, static data, the stack, its height and the flags keep to     *)
(* their types: no instruction writes outside the storages.                *)
THEOREM ExecutionTyped ==
  ASSUME AllDisjoint
  PROVE  Spec => []TypeOK
<1>1. IInv => TypeOK
  BY DEF IInv, Typed
<1>2. Spec => []IInv
  BY IInvKept
<1>3. QED
  BY <1>1, <1>2, PTL

LEMMA Unfinished ==
  \A i \in Instr, t \in Seq(Instr) : Then(i, t) \in Seq(Instr) /\ Then(i, t) # << >>
<1>1. ASSUME NEW i \in Instr, NEW t \in Seq(Instr)
      PROVE  Then(i, t) \in Seq(Instr) /\ Then(i, t) # << >>
  BY ThenIs
<1>2. QED
  BY <1>1

(* A mov, an operation and a push leave the value their operands had, when *)
(* the program keeps its operands apart from the registers literals take   *)
(* (AstMovStatement, AstBinOpStatement and AstPushStatement::build).       *)
THEOREM ResultsKept ==
  ASSUME AllDisjoint
  PROVE  Spec => []ResultMeant
<1>1. IInv => ResultMeant
  <2> SUFFICES ASSUME IInv, code = << >>, meant.stmt \in {"mov", "binop", "push"}
               PROVE  store[meant.at] = meant.value
    BY DEF ResultMeant, Finished
  <2>1. Staged(<< >>)
    BY Ended
  <2>2. Simple(<< >>, store, sp, meant, compared)
    BY <2>1 DEF Staged
  <2>3. << >> \in Seq(Instr)
    BY EmptySeq
  <2>5. \A f, st, h, mt, cm : Ready(f, st, h, mt, cm) => f \in Instr
    BY DEF Ready
  <2>6. \A l, h : IsLoad(l, h) => l \in Instr
    BY DEF IsLoad
  <2>7. QED
    BY <2>2, <2>3, <2>5, <2>6, Unfinished DEF Simple
<1>2. Spec => []IInv
  BY IInvKept
<1>3. QED
  BY <1>1, <1>2, PTL

(* What a print shows are the values before it, of its arguments in their  *)
(* order (AstPrintStatement::build, OP_PRINT).                             *)
THEOREM PrintsKept ==
  ASSUME AllDisjoint
  PROVE  Spec => []PrintsMeant
<1>1. IInv => PrintsMeant
  <2> SUFFICES ASSUME IInv, code = << >>, meant.stmt = "print"
               PROVE  /\ Len(seen) = Len(meant.args)
                      /\ \A i \in DOMAIN seen :
                           meant.args[i] = Wrap(meant.args[i], IntBits) => seen[i] = meant.args[i]
    BY DEF PrintsMeant, Finished
  <2>1. Printing(<< >>, store, sp, meant, seen)
    BY Ended DEF Staged
  <2>2. PICK args, r :
          /\ Shows(args, r, sp, meant, seen)
          /\ \/ ToFetch(args, r, << >>, store, sp, meant, seen)
             \/ ToShow(args, r, << >>, store, sp, meant, seen)
    BY <2>1 DEF Printing
  <2>3. /\ args \in Seq(Readable) /\ r \in [0 .. Len(args) -> Seq(Instr)]
        /\ \A m \in 0 .. Len(args) - 1 :
             r[m] = Cat(Operand(args[m + 1], 0), Then(PrintOf(args[m + 1]), r[m + 1]))
        /\ meant.args \in [1 .. Len(args) -> Int]
        /\ seen \in Seq(Int) /\ Len(seen) <= Len(args)
        /\ \A i \in 1 .. Len(seen) : seen[i] = Wrap(meant.args[i], IntBits)
        /\ Len(args) \in Nat /\ Len(seen) \in Nat /\ 0 \in Int
    BY <2>2, LenProperties DEF Shows, PrintCode
  <2>4. ASSUME NEW k \in 0 .. Len(args) - 1
        PROVE  /\ args[k + 1] \in Readable /\ r[k + 1] \in Seq(Instr)
               /\ PrintOf(args[k + 1]) \in Instr
               /\ Then(PrintOf(args[k + 1]), r[k + 1]) \in Seq(Instr)
               /\ Then(PrintOf(args[k + 1]), r[k + 1]) # << >>
               /\ r[k] # << >>
    <3> DEFINE o == args[k + 1]
               q == Then(PrintOf(o), r[k + 1])
    <3>1. k + 1 \in 1 .. Len(args) /\ k + 1 \in 0 .. Len(args)
      BY <2>3
    <3>2. o \in Readable /\ r[k + 1] \in Seq(Instr)
      BY <2>3, <3>1, ElementOfSeq
    <3>3. PrintOf(o) \in Instr
      <4>1. ObjLoc(o, 0, 0) \in Locations
        BY <2>3, <3>2, ObjLocIs
      <4>2. QED
        BY <4>1, InstrIs DEF PrintOf
    <3>4. q \in Seq(Instr) /\ q # << >>
      BY <3>2, <3>3, Unfinished
    <3>5. r[k] = Cat(Operand(o, 0), q)
      BY <2>3
    <3> HIDE DEF q, o
    <3>6. r[k] = IF o.kind = "lit" THEN Then(LoadOf(o, 0), q) ELSE q
      BY <2>3, <3>2, <3>4, <3>5, OperandIs
    <3>7. o.kind = "lit" => LoadOf(o, 0) \in Instr
      BY <2>3, <3>2, InstrIs
    <3>8. r[k] # << >>
      BY <3>4, <3>6, <3>7, Unfinished
    <3>9. QED
      BY <3>2, <3>3, <3>4, <3>8 DEF q, o
  <2>5. Len(seen) = Len(args)
    <3> SUFFICES ASSUME Len(seen) # Len(args)
                 PROVE  FALSE
      OBVIOUS
    <3>1. Len(seen) \in 0 .. Len(args) - 1
      BY <2>3
    <3>2. << >> = r[Len(seen)] \/ << >> = Then(PrintOf(args[Len(seen) + 1]), r[Len(seen) + 1])
      BY <2>2 DEF ToFetch, ToShow
    <3>3. QED
      BY <2>4, <3>1, <3>2
  <2>6. Len(meant.args) = Len(args)
    <3>1. PICK k \in Nat : k = Len(args)
      BY <2>3
    <3>2. PICK a : a = meant.args
      OBVIOUS
    <3>3. a \in [1 .. k -> Int]
      BY <2>3, <3>1, <3>2
    <3>4. a \in Seq(Int) /\ DOMAIN a = 1 .. k
      BY <3>3, IsASeq
    <3>5. QED
      BY <3>1, <3>2, <3>4, LenProperties
  <2>7. \A i \in DOMAIN seen : seen[i] = Wrap(meant.args[i], IntBits)
    <3>1. DOMAIN seen = 1 .. Len(seen)
      BY <2>3, LenProperties
    <3>2. QED
      BY <2>3, <3>1
  <2>8. QED
    BY <2>5, <2>6, <2>7
<1>2. Spec => []IInv
  BY IInvKept
<1>3. QED
  BY <1>1, <1>2, PTL

LEMMA CallEnds ==
  ASSUME IInv, code = << >>, meant.stmt = "call"
  PROVE  \E s, r : Calls(s, r, meant) /\ Popped(s, << >>, sp, meant, called, seen)
<1>1. Calling(<< >>, store, sp, meant, called, seen)
  BY Ended DEF Staged
<1>2. PICK s, r :
        /\ Calls(s, r, meant)
        /\ \/ \E m : \/ ToPass(s, r, m, << >>, store, sp, meant)
                     \/ ToPush(s, r, m, << >>, store, sp, meant)
           \/ ToPop(s, << >>, sp, meant, called, seen)
           \/ Popped(s, << >>, sp, meant, called, seen)
  BY <1>1 DEF Calling
<1> DEFINE n == Len(s.args)
<1>3. /\ n \in Nat /\ CallOf(s) \in Instr /\ 1 \in Int
      /\ \A i \in 1 .. n : s.args[i] \in Readable
      /\ r \in [0 .. n -> Seq(Instr)] /\ r[n] = Then(CallOf(s), PopOf(n))
      /\ \A m \in 0 .. n - 1 :
           r[m] = Cat(Operand(s.args[n - m], 1), Then(PushOf(s.args[n - m], 1, m), r[m + 1]))
  <2>1. n \in Nat /\ CallOf(s) \in Instr /\ \A i \in 1 .. n : s.args[i] \in Readable
    BY <1>2, CallsIs
  <2>2. CallShape(s, r)
    BY <1>2 DEF Calls
  <2>3. QED
    BY <2>1, <2>2 DEF CallShape
<1> HIDE DEF n
<1>4. ASSUME NEW m \in 0 .. n - 1
      PROVE  Then(PushOf(s.args[n - m], 1, m), r[m + 1]) # << >> /\ r[m] # << >>
  <2> DEFINE o == s.args[n - m]
             q == Then(PushOf(o, 1, m), r[m + 1])
  <2>1. n - m \in 1 .. n /\ m + 1 \in 0 .. n /\ m \in Int
    BY <1>3
  <2>2. o \in Readable /\ r[m + 1] \in Seq(Instr)
    BY <1>3, <2>1
  <2>3. PushOf(o, 1, m) \in Instr
    <3>1. ObjLoc(o, 1, m) \in Locations
      BY <1>3, <2>1, <2>2, ObjLocIs
    <3>2. QED
      BY <3>1, InstrIs DEF PushOf
  <2>4. q \in Seq(Instr) /\ q # << >>
    BY <2>2, <2>3, Unfinished
  <2>5. r[m] = Cat(Operand(o, 1), q)
    BY <1>3
  <2> HIDE DEF q, o
  <2>6. r[m] = IF o.kind = "lit" THEN Then(LoadOf(o, 1), q) ELSE q
    BY <1>3, <2>2, <2>4, <2>5, OperandIs
  <2>7. o.kind = "lit" => LoadOf(o, 1) \in Instr
    BY <1>3, <2>2, InstrIs
  <2>8. r[m] # << >>
    BY <2>4, <2>6, <2>7, Unfinished
  <2>9. QED
    BY <2>4, <2>8 DEF q, o
<1>5. r[n] # << >>
  BY <1>3, PopOfIs, Unfinished
<1>6. \A m : ~ToPass(s, r, m, << >>, store, sp, meant)
  <2> SUFFICES ASSUME NEW m, ToPass(s, r, m, << >>, store, sp, meant)
               PROVE  FALSE
    OBVIOUS
  <2>1. m \in 0 .. n /\ r[m] = << >>
    BY DEF ToPass, Pushed, n
  <2>2. m = n \/ m \in 0 .. n - 1
    BY <1>3, <2>1
  <2>3. QED
    BY <1>4, <1>5, <2>1, <2>2
<1>7. \A m : ~ToPush(s, r, m, << >>, store, sp, meant)
  <2> SUFFICES ASSUME NEW m, ToPush(s, r, m, << >>, store, sp, meant)
               PROVE  FALSE
    OBVIOUS
  <2>1. /\ m \in 0 .. n /\ m < n
        /\ Then(PushOf(s.args[n - m], 1, m), r[m + 1]) = << >>
    BY DEF ToPush, Pushed, n
  <2>2. m \in 0 .. n - 1
    BY <1>3, <2>1
  <2>3. QED
    BY <1>4, <2>1, <2>2
<1>8. ~ToPop(s, << >>, sp, meant, called, seen)
  <2> SUFFICES ASSUME ToPop(s, << >>, sp, meant, called, seen)
               PROVE  FALSE
    OBVIOUS
  <2>1. n > 0 /\ PopOf(n) = << >>
    BY DEF ToPop, n
  <2>2. PopOf(n) = Then([op |-> "pop", count |-> n], << >>)
    BY <1>3, <2>1, PopOfIs
  <2>3. [op |-> "pop", count |-> n] \in Instr /\ << >> \in Seq(Instr)
    BY <1>3, InstrIs, EmptySeq
  <2>4. QED
    BY <2>1, <2>2, <2>3, Unfinished
<1>9. QED
  BY <1>2, <1>6, <1>7, <1>8

(* A function finds its arguments in their order with their values, and    *)
(* the stack is as high after the call as before, when the count of        *)
(* arguments fits the pop that takes them off (AstCallStatement::build,    *)
(* args_getArg).                                                           *)
THEOREM ArgumentsKept ==
  ASSUME AllDisjoint, CountsFit
  PROVE  Spec => []ArgumentsMeant
<1>1. IInv => ArgumentsMeant
  <2> SUFFICES ASSUME IInv, code = << >>, meant.stmt = "call"
               PROVE  (\A i \in DOMAIN meant.args : seen[i] = meant.args[i]) /\ sp = meant.sp
    BY DEF ArgumentsMeant, Finished
  <2>1. PICK s, r : Calls(s, r, meant) /\ Popped(s, << >>, sp, meant, called, seen)
    BY CallEnds
  <2>2. Len(s.args) < Power(256, CountBytes)
    BY <2>1 DEF Calls, CountsFit
  <2>3. QED
    BY <2>1, <2>2 DEF Popped, Heard
<1>2. Spec => []IInv
  BY IInvKept
<1>3. QED
  BY <1>1, <1>2, PTL

(* The function called is the one its location named when the statement    *)
(* began, and a jump that is taken goes where its label is                 *)
(* (AstCallStatement and AstJmpStatement::build).                          *)
THEOREM CalleeKept ==
  ASSUME AllDisjoint
  PROVE  Spec => []CalleeMeant
<1>1. IInv => CalleeMeant
  <2> SUFFICES ASSUME IInv, code = << >>, meant.stmt \in {"call", "jmp"},
                      meant.stmt = "jmp" => jumped
               PROVE  called = meant.left
    BY DEF CalleeMeant, Finished
  <2>1. CASE meant.stmt = "call"
    BY <2>1, CallEnds DEF Popped, Heard
  <2>2. CASE meant.stmt = "jmp"
    <3>1. Jumping(<< >>, store, sp, meant, flags, jumped, called)
      BY <2>2, Ended DEF Staged
    <3>2. << >> \in Seq(Instr)
      BY EmptySeq
    <3>3. \A f \in Instr : Then(f, << >>) # << >>
      BY <3>2, Unfinished
    <3>4. QED
      BY <2>2, <3>1, <3>3 DEF Jumping, Jumps
  <2>3. QED
    BY <2>1, <2>2
<1>2. Spec => []IInv
  BY IInvKept
<1>3. QED
  BY <1>1, <1>2, PTL

(* A je, jne or jg is taken as the numbers of the last cmp compare, when   *)
(* their difference fits in an int, whatever lies between the two: nothing *)
(* but cmp writes the flags (OP_CMP, OP_JMP).                              *)
THEOREM JumpsFollow ==
  ASSUME AllDisjoint, NoJge
  PROVE  Spec => []JumpsAsCompared
<1>1. IInv => JumpsAsCompared
  <2> SUFFICES ASSUME IInv, code = << >>, meant.stmt = "jmp", meant.mode # "jmp",
                      Fits(compared[1] - compared[2])
               PROVE  jumped = Holds(meant.mode)
    BY DEF JumpsAsCompared, Finished
  <2> DEFINE l == compared[1]
             r == compared[2]
  <2>1. l \in Int /\ r \in Int
    BY DEF IInv, Typed
  <2>2. flags = Sign(l - r) + 1
    BY Ended DEF Signed
  <2>3. Jumping(<< >>, store, sp, meant, flags, jumped, called)
    BY Ended DEF Staged
  <2>4. PICK s \in Statements : s.stmt = "jmp" /\ s.mode = meant.mode
    BY <2>3 DEF Jumping
  <2>5. meant.mode \in {"je", "jne", "jg"}
    <3>1. meant.mode \in DOMAIN JumpMode /\ meant.mode # "jge"
      BY <2>4, StatementsAssumption, StatementIs DEF NoJge
    <3>2. QED
      BY <3>1 DEF JumpMode
  <2>6. jumped = Taken(meant.mode, flags)
    <3>1. << >> \in Seq(Instr)
      BY EmptySeq
    <3>2. \A f \in Instr : Then(f, << >>) # << >>
      BY <3>1, Unfinished
    <3>3. QED
      BY <2>3, <3>2 DEF Jumping, Jumps
  <2>7. CASE meant.mode = "je"
    <3>1. jumped <=> flags \in {1, 3}
      BY <2>6, <2>7 DEF Taken, Equal
    <3>2. Holds(meant.mode) <=> l = r
      BY <2>7 DEF Holds
    <3>3. jumped \in BOOLEAN
      BY DEF IInv, Typed, TypeOK
    <3>4. Holds(meant.mode) = (l = r)
      BY <2>7 DEF Holds
    <3> HIDE DEF l, r
    <3>5. flags \in {1, 3} <=> l = r
      BY <2>1, <2>2 DEF Sign
    <3>6. QED
      BY <3>1, <3>3, <3>4, <3>5
  <2>8. CASE meant.mode = "jne"
    BY <2>1, <2>2, <2>6, <2>8 DEF Holds, Taken, Equal, Sign
  <2>9. CASE meant.mode = "jg"
    BY <2>1, <2>2, <2>6, <2>9 DEF Holds, Taken, Greater, Sign
  <2>10. QED
    BY <2>5, <2>7, <2>8, <2>9
<1>2. Spec => []IInv
  BY IInvKept
<1>3. QED
  BY <1>1, <1>2, PTL
=============================================================================
