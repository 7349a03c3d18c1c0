---------------------------- MODULE LabelsProofs ----------------------------
(***************************************************************************)
(* The bytecode of a program with labels, for programs of any length whose *)
(* statements need at most StaticOffset static slots and at most one       *)
(* label: what the interpreter reads are the instructions that were        *)
(* emitted, the label's slot holds the address after the label, and the    *)
(* execution implements Flow.  With more labels, or more values, a label   *)
(* does not find its own load (the run labels_two).                        *)
(***************************************************************************)
EXTENDS Labels, Induction

OneLabel ==
  \A p \in Programs : \A i, j \in DOMAIN p :
    {p[i].arg, p[j].arg} \subseteq Label => p[i].arg = p[j].arg

Args(p) == {p[i].arg : i \in DOMAIN p}

FewValues == \A p \in Programs : Cardinality(Args(p)) <= StaticOffset

-----------------------------------------------------------------------------
(* Pieces of the sizes s laid one after the other from a on begin at b.    *)
Laid(b, a, s, n) == b[1] = a /\ \A j \in 1 .. n : b[j + 1] = b[j] + s[j]

LEMMA LaidExists ==
  ASSUME NEW n \in Nat, NEW a \in Nat, NEW s \in [1 .. n -> Nat]
  PROVE  \E b \in [1 .. n + 1 -> Nat] : Laid(b, a, s, n)
<1> DEFINE F == [i \in 1 .. n |-> [x \in Nat |-> x + s[i]]]
<1>1. F \in [1 .. n -> [Nat -> Nat]]
  OBVIOUS
<1>2. \A i \in 1 .. n : \A x \in Nat : F[i][x] = x + s[i]
  OBVIOUS
<1> HIDE DEF F
<1>3. PICK g \in [0 .. n -> Nat] : Unfolds(g, a, F, n)
  BY <1>1, UnfoldsExists
<1> DEFINE b == [j \in 1 .. n + 1 |-> g[j - 1]]
<1>4. b \in [1 .. n + 1 -> Nat] /\ \A j \in 1 .. n + 1 : b[j] = g[j - 1]
  OBVIOUS
<1> HIDE DEF b
<1>5. \A j \in 1 .. n : g[j] = g[j - 1] + s[j]
  <2>1. \A j \in 1 .. n : g[j - 1] \in Nat
    OBVIOUS
  <2>2. QED
    BY <1>2, <1>3, <2>1 DEF Unfolds
<1>6. ASSUME NEW j \in 1 .. n PROVE b[j + 1] = b[j] + s[j]
  <2>1. b[j + 1] = g[j] /\ b[j] = g[j - 1]
    BY <1>4
  <2>2. QED
    BY <1>5, <2>1
<1>7. b[1] = a
  BY <1>3, <1>4 DEF Unfolds
<1>8. QED
  BY <1>4, <1>6, <1>7 DEF Laid

LEMMA LaidApart ==
  ASSUME NEW n \in Nat, NEW a \in Nat, NEW s \in [1 .. n -> Nat],
         NEW b \in [1 .. n + 1 -> Nat], Laid(b, a, s, n)
  PROVE  \A j, k \in 1 .. n + 1 : j < k => b[j] + s[j] <= b[k]
<1> TAKE j \in 1 .. n + 1
<1> DEFINE M == {m \in Nat : j + m + 1 <= n + 1 => b[j] + s[j] <= b[j + m + 1]}
<1>1. 0 \in M
  BY DEF Laid
<1>2. \A m \in Nat : m \in M => m + 1 \in M
  <2> SUFFICES ASSUME NEW m \in Nat, m \in M, j + (m + 1) + 1 <= n + 1
               PROVE  b[j] + s[j] <= b[j + (m + 1) + 1]
    OBVIOUS
  <2>1. j + m + 1 \in 1 .. n /\ j \in 1 .. n
    OBVIOUS
  <2>2. b[(j + m + 1) + 1] = b[j + m + 1] + s[j + m + 1]
    BY <2>1 DEF Laid
  <2>3. (j + m + 1) + 1 = j + (m + 1) + 1
    OBVIOUS
  <2>4. b[j] + s[j] <= b[j + m + 1]
    BY <2>1
  <2>5. s[j + m + 1] \in Nat /\ b[j + m + 1] \in Nat /\ s[j] \in Nat /\ b[j] \in Nat
    BY <2>1
  <2>6. QED
    BY <2>2, <2>3, <2>4, <2>5
<1>3. Nat \subseteq M
  <2> HIDE DEF M
  <2> QED BY <1>1, <1>2, SetInduction
<1>4. ASSUME NEW k \in 1 .. n + 1, j < k
      PROVE  b[j] + s[j] <= b[k]
  <2>1. k - j - 1 \in Nat /\ j + (k - j - 1) + 1 = k
    BY <1>4
  <2> DEFINE m == k - j - 1
  <2>2. m \in M
    BY <1>3, <2>1
  <2> HIDE DEF m
  <2>3. j + m + 1 <= n + 1 => b[j] + s[j] <= b[j + m + 1]
    BY <2>2
  <2>4. QED
    BY <2>1, <2>3 DEF m
<1>5. QED
  BY <1>4

-----------------------------------------------------------------------------
(* Instructions and their sizes.                                           *)
Instruction ==
  [op : {"load"}, id : Nat, value : String \cup Nat]
    \cup [op : {"jmp", "je", "print", "marker"}, id : Nat] \cup {Halt}

LEMMA SizeIs ==
  /\ \A id \in Nat : \A v \in String \cup Nat :
       /\ Load(id, v) \in Instruction
       /\ Size(Load(id, v)) \in Nat \ {0}
  /\ \A id, k, v, w \in Nat : Size(Load(id, v)) = Size(Load(k, w))
  /\ \A i \in Instruction : i.op # "marker" => Size(i) \in Nat \ {0}
<1>1. \A i \in [op : {"load"}, id : Nat, value : String \cup Nat] : Size(i) \in Nat \ {0}
  BY LengthAssumption DEF Size
<1>2. ASSUME NEW id \in Nat, NEW v \in String \cup Nat
      PROVE  Load(id, v) \in [op : {"load"}, id : Nat, value : String \cup Nat]
  BY DEF Load
<1>3. \A id, k, v, w \in Nat : Size(Load(id, v)) = Size(Load(k, w))
  BY KindsAssumption DEF Size, Load
<1>4. \A i \in [op : {"jmp", "je", "print"}, id : Nat] : Size(i) = 5
  BY DEF Size
<1>5. Size(Halt) = 1
  BY DEF Size, Halt
<1>6. ASSUME NEW i \in Instruction, i.op # "marker"
      PROVE  Size(i) \in Nat \ {0}
  BY <1>1, <1>4, <1>5, <1>6 DEF Instruction
<1>7. QED
  BY <1>1, <1>2, <1>3, <1>6 DEF Instruction

(* Where the loads of the values begin.                                    *)
LEMMA ValuesLaid ==
  ASSUME values \in Seq(String \cup {Placeholder})
  PROVE  /\ Body \in Nat /\ Body = ValueAt(Len(values) + 1) /\ ValueAt(1) = 0
         /\ \A j \in 1 .. Len(values) + 1 : ValueAt(j) \in Nat
         /\ \A j \in 1 .. Len(values) :
              ValueAt(j + 1) = ValueAt(j) + Size(Load(StaticOffset, values[j]))
         /\ \A j, k \in 1 .. Len(values) + 1 : j < k =>
              ValueAt(j) + Size(Load(StaticOffset, values[j])) <= ValueAt(k)
<1> DEFINE n == Len(values)
           Z(j) == Size(Load(StaticOffset, values[j]))
           s == [j \in 1 .. n |-> Z(j)]
           Step(g, j) == IF j = 1 THEN 0 ELSE g[j - 1] + Z(j - 1)
           c == CHOOSE g : g = [j \in 1 .. n + 1 |-> Step(g, j)]
<1>1. n \in Nat /\ \A j \in 1 .. n : values[j] \in String \cup Nat
  BY LenProperties, ElementOfSeq, OffsetAssumption
<1>2. \A j \in 1 .. n : Z(j) \in Nat
  BY <1>1, SizeIs, OffsetAssumption
<1> HIDE DEF Z
<1>3. s \in [1 .. n -> Nat] /\ \A j \in 1 .. n : s[j] = Z(j)
  BY <1>2
<1>4. \A i : ValueAt(i) = c[i]
  BY Zenon DEF ValueAt, Z
<1> HIDE DEF n, s
<1>5. \E g : g = [j \in 1 .. n + 1 |-> Step(g, j)]
  <2>1. PICK b \in [1 .. n + 1 -> Nat] : Laid(b, 0, s, n)
    BY <1>1, <1>3, LaidExists
  <2>2. ASSUME NEW j \in 1 .. n + 1 PROVE b[j] = Step(b, j)
    <3>1. CASE j = 1
      BY <2>1, <3>1 DEF Laid
    <3>2. CASE j # 1
      <4>1. j - 1 \in 1 .. n /\ (j - 1) + 1 = j
        BY <1>1, <3>2
      <4>2. QED
        BY <1>3, <2>1, <3>2, <4>1 DEF Laid
    <3>3. QED
      BY <3>1, <3>2
  <2> HIDE DEF Step
  <2>3. b = [j \in 1 .. n + 1 |-> Step(b, j)]
    BY <2>2
  <2>4. QED
    BY <2>3
<1>6. c = [j \in 1 .. n + 1 |-> Step(c, j)]
  <2> HIDE DEF Step
  <2>1. QED
    BY <1>5
<1> HIDE DEF c
<1>7. \A j \in 1 .. n + 1 : c[j] = Step(c, j)
  <2> HIDE DEF Step
  <2>1. QED
    BY <1>6
<1>8. c[1] = 0 /\ \A j \in 1 .. n : c[j + 1] = c[j] + Z(j)
  <2>1. 1 \in 1 .. n + 1 /\ \A j \in 1 .. n : j + 1 \in 1 .. n + 1 /\ j + 1 # 1 /\ (j + 1) - 1 = j
    BY <1>1
  <2>2. QED
    BY <1>7, <2>1
<1>9. c \in [1 .. n + 1 -> Nat]
  <2> DEFINE M == {m \in Nat : m + 1 <= n + 1 => c[m + 1] \in Nat}
  <2>1. 0 \in M
    BY <1>8
  <2>2. \A m \in Nat : m \in M => m + 1 \in M
    <3> SUFFICES ASSUME NEW m \in Nat, m \in M, (m + 1) + 1 <= n + 1
                 PROVE  c[(m + 1) + 1] \in Nat
      OBVIOUS
    <3>1. m + 1 \in 1 .. n
      BY <1>1
    <3>2. c[m + 1] \in Nat
      BY <1>1
    <3>3. QED
      BY <1>2, <1>8, <3>1, <3>2
  <2>3. Nat \subseteq M
    <3> HIDE DEF M
    <3> QED BY <2>1, <2>2, SetInduction
  <2>4. ASSUME NEW j \in 1 .. n + 1 PROVE c[j] \in Nat
    <3>1. j - 1 \in Nat /\ (j - 1) + 1 = j
      OBVIOUS
    <3>2. QED
      BY <2>3, <3>1
  <2> HIDE DEF Step
  <2>5. QED
    BY <1>6, <2>4
<1>10. Laid(c, 0, s, n)
  BY <1>3, <1>8 DEF Laid
<1>11. \A j, k \in 1 .. n + 1 : j < k => c[j] + s[j] <= c[k]
  BY <1>1, <1>3, <1>9, <1>10, LaidApart
<1>12. n + 1 \in 1 .. n + 1 /\ \A j, k \in 1 .. n + 1 : j < k => j \in 1 .. n
  BY <1>1
<1>13. QED
  BY <1>3, <1>4, <1>8, <1>9, <1>11, <1>12 DEF n, Z, Body

-----------------------------------------------------------------------------
(* The program, and what the first two phases make of it.                  *)
Last == Len(source)

Declares(i) == source[i].stmt = "label"

(* A place where control stays: not a label.                               *)
Stop(i) == i <= Last => ~ Declares(i)

LEMMA ProgramIs ==
  ASSUME source \in Programs
  PROVE  /\ source \in Seq(Statement) /\ Last \in Nat \ {0} /\ DOMAIN source = 1 .. Last
         /\ \A i \in 1 .. Last :
              /\ source[i] \in Statement /\ source[i].arg \in Args(source)
              /\ source[i].stmt = "print" <=> source[i].arg \notin Label
              /\ source[i].arg \notin Label => source[i].arg \in String
              /\ source[i].stmt \in {"label", "jmp", "je", "print"}
<1>1. source \in Seq(Statement) /\ source # << >>
  BY ProgramsAssumption
<1>2. Last \in Nat /\ DOMAIN source = 1 .. Last /\ \A i \in 1 .. Last : source[i] \in Statement
  BY <1>1, LenProperties, ElementOfSeq DEF Last
<1>3. Last # 0
  BY <1>1, EmptySeq DEF Last
<1>4. \A s \in Statement :
        /\ s.stmt = "print" <=> s.arg \notin Label
        /\ s.arg \notin Label => s.arg \in String
        /\ s.stmt \in {"label", "jmp", "je", "print"}
  BY KindsAssumption DEF Statement
<1>5. \A i \in 1 .. Last : source[i].arg \in Args(source)
  BY <1>2 DEF Args
<1>6. QED
  BY <1>1, <1>2, <1>3, <1>4, <1>5

(* Every value has one place and every place one value; the label has the  *)
(* first.                                                                  *)
Placed ==
  /\ values \in Seq(String \cup {Placeholder})
  /\ DOMAIN place \subseteq Args(source)
  /\ \A x \in DOMAIN place :
       /\ place[x] \in 0 .. Len(values) - 1
       /\ values[place[x] + 1] = IF x \in Label THEN Placeholder ELSE x
       /\ x \in Label => place[x] = 0
  /\ \A k \in 0 .. Len(values) - 1 : \E x \in DOMAIN place : place[x] = k
  /\ \A x, y \in DOMAIN place : place[x] = place[y] => x = y

LabelsPlaced(n) ==
  \A i \in 1 .. n : source[i].arg \in Label => source[i].arg \in DOMAIN place

Instr(s) ==
  CASE s.stmt = "label" -> Marker(Id(s.arg))
    [] s.stmt = "jmp" -> Jmp(Id(s.arg))
    [] s.stmt = "je" -> Je(Id(s.arg))
    [] s.stmt = "print" -> Show(Id(s.arg))

Built(n) ==
  /\ chunk \in Seq(Instruction) /\ Len(chunk) = n
  /\ \A i \in 1 .. n : source[i].arg \in DOMAIN place /\ chunk[i] = Instr(source[i])

-----------------------------------------------------------------------------
(* The stream, and what it holds at a place.                               *)
Cell == [of : Instruction, byte : Nat]

Has(bytes, p, i) ==
  /\ p \in Nat /\ i \in Instruction /\ i.op # "marker" /\ p + Size(i) <= Len(bytes)
  /\ \A b \in 1 .. Size(i) : bytes[p + b] = [of |-> i, byte |-> b]

Declaration == CHOOSE d \in 1 .. Last : Declares(d)

(* The label has come by.                                                  *)
Declared == \E d \in 1 .. next - 1 : Declares(d)

(* What the load of the j-th value loads: for a label that has come by,    *)
(* its address.                                                            *)
Final(j) == IF j = 1 /\ Declared THEN StatementAt(Declaration) ELSE values[j]

Written ==
  /\ \A j \in 1 .. Len(values) :
       Has(stream, ValueAt(j), Load(StaticOffset + j - 1, Final(j)))
  /\ \A i \in 1 .. next - 1 : ~ Declares(i) => Has(stream, StatementAt(i), chunk[i])

OffsetsZero == \A x \in DOMAIN place \cap Label : OffsetOf(Id(x)) = 0

(* The first m values are loaded.                                          *)
Loaded(m) == \A j \in 1 .. m : static[StaticOffset + j - 1] = Final(j)

AtValue(j) == j \in 1 .. Len(values) /\ pc = ValueAt(j) /\ Loaded(j - 1)

AtStatement(i) ==
  i \in 1 .. Last + 1 /\ Stop(i) /\ pc = StatementAt(i) /\ Loaded(Len(values))

-----------------------------------------------------------------------------
(* The phases.                                                             *)
Visiting ==
  /\ phase = "visit" /\ next \in 1 .. Last /\ pc = 0
  /\ DOMAIN place \subseteq Label /\ LabelsPlaced(next - 1)
  /\ chunk = << >> /\ stream = << >> /\ offsetMap = << >>

Building ==
  /\ phase = "build" /\ next \in 1 .. Last /\ pc = 0
  /\ LabelsPlaced(Last) /\ Built(next - 1)
  /\ stream = << >> /\ offsetMap = << >>

Storing ==
  /\ phase = "storage" /\ next \in 1 .. Len(values) /\ pc = 0
  /\ Built(Last) /\ stream \in Seq(Cell) /\ Len(stream) = ValueAt(next)
  /\ \A j \in 1 .. next - 1 :
       Has(stream, ValueAt(j), Load(StaticOffset + j - 1, values[j]))
  /\ DOMAIN offsetMap = 0 .. next - 2

Emitting ==
  /\ phase = "emit" /\ next \in 1 .. Last + 1 /\ pc = 0
  /\ Built(Last) /\ stream \in Seq(Cell) /\ Len(stream) = StatementAt(next)
  /\ Written /\ OffsetsZero

Executing ==
  /\ phase = "run" /\ next = Last + 1
  /\ Built(Last) /\ stream \in Seq(Cell) /\ Len(stream) = StatementAt(next) + 1
  /\ Written /\ Has(stream, StatementAt(next), Halt)
  /\ DOMAIN static = StaticOffset .. StaticOffset + Len(values) - 1
  /\ (\E j \in 1 .. Len(values) : AtValue(j)) \/ (\E i \in 1 .. Last + 1 : AtStatement(i))

IInv ==
  /\ source \in Programs /\ Placed
  /\ Visiting \/ Building \/ Storing \/ Emitting \/ Executing

-----------------------------------------------------------------------------
(* Where the code of the statements begins.                                *)
LEMMA InstrIs ==
  ASSUME source \in Programs, NEW n \in 0 .. Last, Built(n), Placed
  PROVE  \A i \in 1 .. n :
           /\ chunk[i] = Instr(source[i]) /\ chunk[i] \in Instruction
           /\ chunk[i].op = IF Declares(i) THEN "marker" ELSE source[i].stmt
           /\ chunk[i].id = Id(source[i].arg) /\ Id(source[i].arg) \in Nat
<1> TAKE i \in 1 .. n
<1>1. i \in 1 .. Last /\ n \in Nat
  BY ProgramIs
<1>2. chunk[i] = Instr(source[i]) /\ source[i].arg \in DOMAIN place /\ chunk[i] \in Instruction
  BY ElementOfSeq DEF Built
<1>3. Id(source[i].arg) \in Nat
  <2>1. Len(values) \in Nat
    BY LenProperties DEF Placed
  <2>2. QED
    BY <1>2, <2>1, OffsetAssumption DEF Placed, Id
<1>4. source[i].stmt \in {"label", "jmp", "je", "print"}
  BY <1>1, ProgramIs
<1>5. QED
  BY <1>2, <1>3, <1>4 DEF Instr, Declares, Marker, Jmp, Je, Show

Width(i) == IF chunk[i].op = "marker" THEN 0 ELSE Size(chunk[i])

LEMMA StatementsLaid ==
  ASSUME source \in Programs, Built(Last), Placed
  PROVE  /\ StatementAt(1) = Body /\ Body \in Nat
         /\ \A i \in 1 .. Last + 1 : StatementAt(i) \in Nat
         /\ \A i \in 1 .. Last : /\ StatementAt(i + 1) = StatementAt(i) + Width(i)
                                 /\ Width(i) = IF Declares(i) THEN 0 ELSE Size(chunk[i])
                                 /\ Width(i) \in Nat
                                 /\ ~ Declares(i) => Width(i) # 0
         /\ \A i, k \in 1 .. Last + 1 : i < k => StatementAt(i) + Width(i) <= StatementAt(k)
<1> DEFINE n == Last
           Z(i) == IF chunk[i].op = "marker" THEN 0 ELSE Size(chunk[i])
           s == [i \in 1 .. n |-> Z(i)]
           Step(g, i) == IF i = 1 THEN Body ELSE g[i - 1] + Z(i - 1)
           c == CHOOSE g : g = [i \in 1 .. n + 1 |-> Step(g, i)]
<1>1. n \in Nat \ {0} /\ Len(chunk) = n /\ Body \in Nat
  BY ProgramIs, ValuesLaid DEF Built, Placed
<1>2. \A i \in 1 .. n : /\ Z(i) \in Nat
                        /\ Z(i) = IF Declares(i) THEN 0 ELSE Size(chunk[i])
                        /\ ~ Declares(i) => Z(i) # 0
  <2> SUFFICES ASSUME NEW i \in 1 .. n
               PROVE  /\ Z(i) \in Nat
                      /\ Z(i) = IF Declares(i) THEN 0 ELSE Size(chunk[i])
                      /\ ~ Declares(i) => Z(i) # 0
    OBVIOUS
  <2>1. chunk[i] \in Instruction /\ chunk[i].op = IF Declares(i) THEN "marker" ELSE source[i].stmt
    BY <1>1, InstrIs
  <2>2. source[i].stmt # "marker"
    BY ProgramIs
  <2>3. chunk[i].op # "marker" => Size(chunk[i]) \in Nat \ {0}
    BY <2>1, SizeIs
  <2>4. QED
    BY <2>1, <2>2, <2>3
<1>3. \A i \in 1 .. n : Width(i) = Z(i)
  BY DEF Width
<1> HIDE DEF Z
<1>4. s \in [1 .. n -> Nat] /\ \A i \in 1 .. n : s[i] = Z(i)
  BY <1>2
<1>5. \A i : StatementAt(i) = c[i]
  <2>1. \A i : StatementAt(i) =
          (CHOOSE g : g = [j \in 1 .. Len(chunk) + 1 |-> Step(g, j)])[i]
    BY Zenon DEF StatementAt, Z
  <2>2. QED
    BY <1>1, <2>1
<1> HIDE DEF n, s
<1>6. \E g : g = [i \in 1 .. n + 1 |-> Step(g, i)]
  <2>1. PICK b \in [1 .. n + 1 -> Nat] : Laid(b, Body, s, n)
    BY <1>1, <1>4, LaidExists
  <2>2. ASSUME NEW i \in 1 .. n + 1 PROVE b[i] = Step(b, i)
    <3>1. CASE i = 1
      BY <2>1, <3>1 DEF Laid
    <3>2. CASE i # 1
      <4>1. i - 1 \in 1 .. n /\ (i - 1) + 1 = i
        BY <1>1, <3>2
      <4>2. QED
        BY <1>4, <2>1, <3>2, <4>1 DEF Laid
    <3>3. QED
      BY <3>1, <3>2
  <2> HIDE DEF Step
  <2>3. b = [i \in 1 .. n + 1 |-> Step(b, i)]
    BY <2>2
  <2>4. QED
    BY <2>3
<1>7. c = [i \in 1 .. n + 1 |-> Step(c, i)]
  <2> HIDE DEF Step
  <2>1. QED
    BY <1>6
<1> HIDE DEF c
<1>8. \A i \in 1 .. n + 1 : c[i] = Step(c, i)
  <2> HIDE DEF Step
  <2>1. QED
    BY <1>7
<1>9. c[1] = Body /\ \A i \in 1 .. n : c[i + 1] = c[i] + Z(i)
  <2>1. 1 \in 1 .. n + 1 /\ \A i \in 1 .. n : i + 1 \in 1 .. n + 1 /\ i + 1 # 1 /\ (i + 1) - 1 = i
    BY <1>1
  <2>2. QED
    BY <1>8, <2>1
<1>10. c \in [1 .. n + 1 -> Nat]
  <2> DEFINE M == {m \in Nat : m + 1 <= n + 1 => c[m + 1] \in Nat}
  <2>1. 0 \in M
    BY <1>1, <1>9
  <2>2. \A m \in Nat : m \in M => m + 1 \in M
    <3> SUFFICES ASSUME NEW m \in Nat, m \in M, (m + 1) + 1 <= n + 1
                 PROVE  c[(m + 1) + 1] \in Nat
      OBVIOUS
    <3>1. m + 1 \in 1 .. n
      BY <1>1
    <3>2. c[m + 1] \in Nat
      BY <1>1
    <3>3. QED
      BY <1>2, <1>9, <3>1, <3>2
  <2>3. Nat \subseteq M
    <3> HIDE DEF M
    <3> QED BY <2>1, <2>2, SetInduction
  <2>4. ASSUME NEW j \in 1 .. n + 1 PROVE c[j] \in Nat
    <3>1. j - 1 \in Nat /\ (j - 1) + 1 = j
      OBVIOUS
    <3>2. QED
      BY <2>3, <3>1
  <2> HIDE DEF Step
  <2>5. QED
    BY <1>7, <2>4
<1>11. Laid(c, Body, s, n)
  BY <1>4, <1>9 DEF Laid
<1>12. \A i, k \in 1 .. n + 1 : i < k => c[i] + s[i] <= c[k]
  BY <1>1, <1>4, <1>10, <1>11, LaidApart
<1>13. \A i, k \in 1 .. n + 1 : i < k => i \in 1 .. n
  BY <1>1
<1>14. \A i \in 1 .. n : /\ StatementAt(i + 1) = StatementAt(i) + Width(i)
                         /\ Width(i) = IF Declares(i) THEN 0 ELSE Size(chunk[i])
                         /\ Width(i) \in Nat
                         /\ ~ Declares(i) => Width(i) # 0
  BY <1>2, <1>3, <1>5, <1>9
<1>15. \A i, k \in 1 .. n + 1 : i < k => StatementAt(i) + Width(i) <= StatementAt(k)
  BY <1>3, <1>4, <1>5, <1>12, <1>13
<1>16. StatementAt(1) = Body /\ \A i \in 1 .. n + 1 : StatementAt(i) \in Nat
  BY <1>5, <1>9, <1>10
<1>17. QED
  BY <1>1, <1>14, <1>15, <1>16 DEF n

(* Places in order: no two of them meet but over labels.                   *)
LEMMA StatementsApart ==
  ASSUME source \in Programs, Built(Last), Placed,
         NEW i \in 1 .. Last + 1, NEW k \in 1 .. Last + 1,
         Stop(i), Stop(k), StatementAt(i) = StatementAt(k)
  PROVE  i = k
<1>1. \A m \in 1 .. Last + 1, o \in 1 .. Last + 1 :
        m < o /\ Stop(m) => StatementAt(m) # StatementAt(o)
  <2> SUFFICES ASSUME NEW m \in 1 .. Last + 1, NEW o \in 1 .. Last + 1, m < o, Stop(m)
               PROVE  StatementAt(m) # StatementAt(o)
    OBVIOUS
  <2>1. Last \in Nat
    BY ProgramIs
  <2>2. m \in 1 .. Last /\ ~ Declares(m)
    BY <2>1 DEF Stop
  <2>3. Width(m) \in Nat \ {0} /\ StatementAt(m) + Width(m) <= StatementAt(o)
    BY <2>2, StatementsLaid
  <2>4. StatementAt(m) \in Nat /\ StatementAt(o) \in Nat
    BY StatementsLaid
  <2>5. QED
    BY <2>3, <2>4
<1>2. i \in Nat /\ k \in Nat
  BY ProgramIs
<1>3. QED
  BY <1>1, <1>2

-----------------------------------------------------------------------------
(* What the stream holds.                                                  *)
LEMMA BytesIs ==
  ASSUME NEW i \in Instruction, i.op # "marker"
  PROVE  /\ Bytes(i) \in Seq(Cell) /\ Len(Bytes(i)) = Size(i)
         /\ DOMAIN Bytes(i) = 1 .. Size(i) /\ Size(i) \in Nat \ {0}
         /\ \A b \in 1 .. Size(i) : Bytes(i)[b] = [of |-> i, byte |-> b]
<1>1. Size(i) \in Nat \ {0}
  BY SizeIs
<1>2. Bytes(i) \in [1 .. Size(i) -> Cell]
  BY <1>1 DEF Bytes, Cell
<1>3. Bytes(i) \in Seq(Cell) /\ Len(Bytes(i)) = Size(i)
  BY <1>1, <1>2, IsASeq, LenProperties
<1>4. QED
  BY <1>1, <1>2, <1>3 DEF Bytes

LEMMA HasAppended ==
  ASSUME NEW bytes \in Seq(Cell), NEW i \in Instruction, i.op # "marker"
  PROVE  /\ bytes \o Bytes(i) \in Seq(Cell)
         /\ Len(bytes) \in Nat /\ Len(bytes \o Bytes(i)) = Len(bytes) + Size(i)
         /\ Has(bytes \o Bytes(i), Len(bytes), i)
         /\ \A p, j : Has(bytes, p, j) => Has(bytes \o Bytes(i), p, j)
<1> DEFINE t == Bytes(i)
           u == bytes \o t
           m == Len(bytes)
           n == Size(i)
<1>1. t \in Seq(Cell) /\ Len(t) = n /\ n \in Nat \ {0} /\ m \in Nat
  BY BytesIs, LenProperties
<1>2. \A b \in 1 .. n : t[b] = [of |-> i, byte |-> b]
  BY BytesIs
<1> HIDE DEF t
<1>3. /\ u \in Seq(Cell) /\ Len(u) = m + n
      /\ \A b \in 1 .. m + n : u[b] = IF b <= m THEN bytes[b] ELSE t[b - m]
  BY <1>1, ConcatProperties
<1> HIDE DEF u, m, n
<1>4. \A b \in 1 .. n : u[m + b] = [of |-> i, byte |-> b]
  <2> TAKE b \in 1 .. n
  <2>1. m + b \in 1 .. m + n /\ ~(m + b <= m) /\ (m + b) - m = b
    BY <1>1
  <2>2. QED
    BY <1>2, <1>3, <2>1
<1>5. Has(u, m, i)
  BY <1>1, <1>3, <1>4 DEF Has, n
<1>6. ASSUME NEW p, NEW j, Has(bytes, p, j)
      PROVE  Has(u, p, j)
  <2>1. p \in Nat /\ Size(j) \in Nat /\ p + Size(j) <= m
    BY <1>6, SizeIs DEF Has, m
  <2>2. \A b \in 1 .. Size(j) : u[p + b] = bytes[p + b]
    BY <1>1, <1>3, <2>1
  <2>3. QED
    BY <1>1, <1>3, <1>6, <2>1, <2>2 DEF Has, m
<1>7. QED
  BY <1>1, <1>3, <1>5, <1>6 DEF u, t, m, n

LEMMA HasDecodes ==
  ASSUME stream \in Seq(Cell), NEW p, NEW i, Has(stream, p, i)
  PROVE  Whole(p) /\ At(p) = i
<1> DEFINE n == Size(i)
<1>1. /\ p \in Nat /\ n \in Nat \ {0} /\ p + n <= Len(stream) /\ Len(stream) \in Nat
      /\ i \in Instruction /\ i.op # "marker"
  BY SizeIs, LenProperties DEF Has
<1>2. \A b \in 1 .. n : stream[p + b] = [of |-> i, byte |-> b]
  BY DEF Has
<1>3. stream[p + 1].of = i
  <2>1. 1 \in 1 .. n
    BY <1>1
  <2>2. stream[p + 1] = [of |-> i, byte |-> 1]
    BY <1>2, <2>1
  <2>3. QED
    BY <2>2
<1>4. SubSeq(stream, p + 1, p + n) = Bytes(i)
  <2>1. /\ p + 1 \in Int /\ p + n \in Int /\ (p + n) - (p + 1) + 1 = n /\ p + 1 <= p + n
        /\ \A b \in p + 1 .. p + n : stream[b] \in Cell
    BY <1>1, ElementOfSeq
  <2> DEFINE s == SubSeq(stream, p + 1, p + n)
  <2>2. s \in Seq(Cell) /\ Len(s) = n /\ \A b \in 1 .. n : s[b] = stream[(p + 1) + b - 1]
    <3> DEFINE k == p + 1
               l == p + n
    <3> HIDE DEF k, l, n
    <3>1. k \in Int /\ l \in Int /\ k <= l /\ l - k + 1 = n /\ \A b \in k .. l : stream[b] \in Cell
      BY <2>1 DEF k, l
    <3>2. /\ SubSeq(stream, k, l) \in Seq(Cell)
          /\ Len(SubSeq(stream, k, l)) = IF k <= l THEN l - k + 1 ELSE 0
          /\ \A b \in 1 .. l - k + 1 : SubSeq(stream, k, l)[b] = stream[k + b - 1]
      BY <3>1, SubSeqProperties
    <3>3. QED
      BY <3>1, <3>2 DEF k, l
  <2>3. DOMAIN s = 1 .. n /\ s \in [1 .. n -> Cell]
    BY <2>2, LenProperties
  <2>4. \A b \in 1 .. n : s[b] = Bytes(i)[b]
    <3> HIDE DEF s
    <3> TAKE b \in 1 .. n
    <3>1. (p + 1) + b - 1 = p + b
      BY <1>1
    <3>2. Bytes(i)[b] = [of |-> i, byte |-> b]
      BY <1>1, BytesIs
    <3>3. s[b] = stream[p + b]
      BY <2>2, <3>1
    <3>4. QED
      BY <1>2, <3>2, <3>3
  <2>5. Bytes(i) \in [1 .. n -> Cell]
    BY <1>1, BytesIs, LenProperties
  <2> HIDE DEF s
  <2>6. s = Bytes(i)
    <3> DEFINE t == Bytes(i)
    <3> HIDE DEF t, n
    <3>1. t \in [1 .. n -> Cell] /\ \A b \in 1 .. n : s[b] = t[b]
      BY <2>4, <2>5 DEF t
    <3>2. s = [b \in 1 .. n |-> s[b]] /\ t = [b \in 1 .. n |-> t[b]]
      BY <2>3, <3>1
    <3>3. [b \in 1 .. n |-> s[b]] = [b \in 1 .. n |-> t[b]]
      BY <3>1
    <3>4. s = t
      BY <3>2, <3>3
    <3>5. QED
      BY <3>4 DEF t
  <2>7. QED
    BY <2>6 DEF s
<1>5. QED
  BY <1>1, <1>3, <1>4 DEF Whole, At

-----------------------------------------------------------------------------
(* A value is added for what has none.                                     *)
LEMMA PlaceKeeps ==
  ASSUME source \in Programs, Placed, NEW x \in Args(source), Place(x), source' = source,
         x \in Label => x \in DOMAIN place \/ values = << >>
  PROVE  /\ Placed' /\ DOMAIN place' = DOMAIN place \cup {x}
         /\ \A y \in DOMAIN place : place'[y] = place[y]
<1>1. CASE x \in DOMAIN place
  <2>1. values' = values /\ place' = place
    BY <1>1 DEF Place
  <2>2. Placed'
    BY <2>1 DEF Placed, Args
  <2>3. QED
    BY <1>1, <2>1, <2>2
<1>2. CASE x \notin DOMAIN place
  <2> DEFINE v == IF x \in Label THEN Placeholder ELSE x
             n == Len(values)
  <2>1. x \in Label \/ x \in String
    <3>1. PICK i \in 1 .. Last : source[i].arg = x
      BY ProgramIs DEF Args
    <3>2. QED
      BY <3>1, ProgramIs
  <2>2. v \in String \cup {Placeholder} /\ n \in Nat /\ values' = Append(values, v)
    BY <1>2, <2>1, LenProperties DEF Place, Placed
  <2>3. /\ DOMAIN place' = DOMAIN place \cup {x} /\ place'[x] = n
        /\ \A y \in DOMAIN place : place'[y] = place[y]
    BY <1>2 DEF Place
  <2>4. /\ values' \in Seq(String \cup {Placeholder}) /\ Len(values') = n + 1
        /\ values'[n + 1] = v /\ \A i \in 1 .. n : values'[i] = values[i]
    BY <2>2, AppendProperties DEF Placed
  <2>5. x \in Label => n = 0
    BY <1>2, EmptySeq
  <2>6. \A y \in DOMAIN place : place[y] \in 0 .. n - 1
    BY DEF Placed
  <2> HIDE DEF n, v
  <2>7. ASSUME NEW y \in DOMAIN place'
        PROVE  /\ place'[y] \in 0 .. n
               /\ values'[place'[y] + 1] = IF y \in Label THEN Placeholder ELSE y
               /\ y \in Label => place'[y] = 0
    <3>1. CASE y = x
      BY <2>2, <2>3, <2>4, <2>5, <3>1 DEF v
    <3>2. CASE y \in DOMAIN place
      <4>1. place[y] + 1 \in 1 .. n /\ place[y] \in 0 .. n
        BY <2>2, <2>6, <3>2
      <4>2. QED
        BY <2>3, <2>4, <3>2, <4>1 DEF Placed
    <3>3. QED
      BY <2>3, <3>1, <3>2
  <2>8. \A k \in 0 .. n : \E y \in DOMAIN place' : place'[y] = k
    <3>1. \A k \in 0 .. n : k = n \/ k \in 0 .. n - 1
      BY <2>2
    <3>2. QED
      BY <2>3, <3>1 DEF Placed, n
  <2>9. \A y, z \in DOMAIN place' : place'[y] = place'[z] => y = z
    <3>1. \A y \in DOMAIN place : place'[y] # n
      BY <2>2, <2>3, <2>6
    <3>2. QED
      BY <2>3, <3>1 DEF Placed
  <2>10. DOMAIN place' \subseteq Args(source)
    BY <2>3 DEF Placed
  <2>11. Len(values') - 1 = n
    BY <2>2, <2>4
  <2>12. QED
    BY <2>3, <2>4, <2>7, <2>8, <2>9, <2>10, <2>11 DEF Placed, Args
<1>3. QED
  BY <1>1, <1>2

-----------------------------------------------------------------------------
(* What stays as it is when the passes are over.                           *)
LEMMA LayoutKept ==
  ASSUME UNCHANGED <<source, values, place, chunk>>
  PROVE  /\ \A i : ValueAt(i)' = ValueAt(i) /\ StatementAt(i)' = StatementAt(i)
         /\ \A n : Built(n) => Built(n)'
         /\ Placed => Placed'
         /\ Body' = Body /\ Last' = Last
         /\ \A i : Declares(i)' = Declares(i) /\ Stop(i)' = Stop(i)
         /\ Declaration' = Declaration
         /\ (Declared' <=> Declared) => \A j : Final(j)' = Final(j)
<1>1. Body' = Body /\ Last' = Last /\ \A i : ValueAt(i)' = ValueAt(i)
  BY DEF Body, ValueAt, Last
<1>2. \A i : StatementAt(i)' = StatementAt(i)
  BY <1>1 DEF StatementAt
<1>3. \A n : Built(n) => Built(n)'
  BY DEF Built, Instr, Id
<1>4. Placed => Placed'
  BY DEF Placed, Args
<1>5. \A i : Declares(i)' = Declares(i) /\ Stop(i)' = Stop(i)
  BY <1>1 DEF Declares, Stop
<1>6. Declaration' = Declaration
  BY DEF Declaration, Declares, Last
<1>7. ASSUME Declared' <=> Declared, NEW j
      PROVE  Final(j)' = Final(j)
  BY <1>2, <1>6, <1>7 DEF Final
<1>8. QED
  BY <1>1, <1>2, <1>3, <1>4, <1>5, <1>6, <1>7

FirstAtZero == Placed => ValueAt(1) = 0

LEMMA FirstAtZeroNext == FirstAtZero'
<1>1. FirstAtZero
  BY ValuesLaid DEF Placed, FirstAtZero
<1>2. QED
  BY <1>1, PTL

-----------------------------------------------------------------------------
(* Each step keeps the invariant.                                          *)
LEMMA InitIInv == Init => IInv
<1> SUFFICES ASSUME Init PROVE IInv
  OBVIOUS
<1> USE DEF Init
<1>1. Last \in Nat \ {0}
  BY ProgramIs
<1>2. << >> \in Seq(String \cup {Placeholder}) /\ Len(<< >>) = 0 /\ DOMAIN << >> = {}
  BY EmptySeq
<1>3. Placed
  BY <1>2 DEF Placed
<1>4. Visiting
  BY <1>1, <1>2 DEF Visiting, LabelsPlaced
<1>5. QED
  BY <1>3, <1>4 DEF IInv

LEMMA VisitKeeps ==
  ASSUME IInv, OneLabel, Visit
  PROVE  IInv'
<1> DEFINE x == source[next].arg
<1>1. /\ Visiting /\ source \in Programs /\ source' = source /\ Placed
      /\ UNCHANGED <<chunk, stream, offsetMap, pc>>
  BY DEF IInv, Visit, Building, Storing, Emitting, Executing
<1>2. next \in 1 .. Last /\ Last \in Nat \ {0} /\ x \in Args(source)
  BY <1>1, ProgramIs DEF Visiting
<1>3. x \in Label => x \in DOMAIN place \/ values = << >>
  <2> SUFFICES ASSUME x \in Label, values # << >>
               PROVE  x \in DOMAIN place
    OBVIOUS
  <2>1. Len(values) \in Nat \ {0}
    BY <1>1, EmptySeq, LenProperties DEF Placed
  <2>2. 0 \in 0 .. Len(values) - 1
    BY <2>1
  <2>3. PICK y \in DOMAIN place : place[y] = 0
    BY <1>1, <2>2 DEF Placed
  <2>4. y \in Args(source) /\ y \in Label
    BY <1>1 DEF Placed, Visiting
  <2>5. PICK i \in DOMAIN source : y = source[i].arg
    BY <2>4 DEF Args
  <2>6. next \in DOMAIN source
    BY <1>1, <1>2, ProgramIs
  <2>7. x = y
    BY <1>1, <2>4, <2>5, <2>6 DEF OneLabel
  <2>8. QED
    BY <2>7
<1>4. /\ Placed' /\ DOMAIN place' \subseteq Label /\ DOMAIN place \subseteq DOMAIN place'
      /\ x \in Label => x \in DOMAIN place'
  <2>1. CASE x \in Label
    <3>1. Place(x)
      BY <2>1 DEF Visit
    <3>2. Placed' /\ DOMAIN place' = DOMAIN place \cup {x}
      BY <1>1, <1>2, <1>3, <3>1, PlaceKeeps
    <3>3. QED
      BY <1>1, <2>1, <3>2 DEF Visiting
  <2>2. CASE x \notin Label
    <3>1. values' = values /\ place' = place
      BY <2>2 DEF Visit
    <3>2. Placed'
      BY <1>1, <3>1 DEF Placed, Args
    <3>3. QED
      BY <1>1, <2>2, <3>1, <3>2 DEF Visiting
  <2>3. QED
    BY <2>1, <2>2
<1>5. /\ \A i \in 1 .. next : source'[i].arg \in Label => source'[i].arg \in DOMAIN place'
      /\ Last' = Last
  <2>1. \A i \in 1 .. next : i = next \/ i \in 1 .. next - 1
    BY <1>2
  <2>2. ASSUME NEW i \in 1 .. next, source[i].arg \in Label
        PROVE  source[i].arg \in DOMAIN place'
    BY <1>1, <1>4, <2>1, <2>2 DEF Visiting, LabelsPlaced
  <2>3. \A i \in 1 .. next : source[i].arg \in Label => source[i].arg \in DOMAIN place'
    BY <2>2
  <2>4. QED
    BY <1>1, <2>3 DEF Last
<1>6. CASE next < Last
  <2>1. next' = next + 1 /\ phase' = "visit"
    BY <1>1, <1>6 DEF Visit, Advance, Last, Visiting
  <2>2. next' \in 1 .. Last /\ next' - 1 = next
    BY <1>2, <1>6, <2>1
  <2>3. Visiting'
    BY <1>1, <1>4, <1>5, <2>1, <2>2 DEF Visiting, LabelsPlaced
  <2>4. QED
    BY <1>1, <1>4, <2>3 DEF IInv
<1>7. CASE ~(next < Last)
  <2>1. next' = 1 /\ phase' = "build" /\ next = Last
    BY <1>2, <1>7 DEF Visit, Advance, Last
  <2>2. Built(0)'
    BY <1>1, EmptySeq DEF Built, Visiting
  <2>3. LabelsPlaced(Last)'
    BY <1>5, <2>1 DEF LabelsPlaced
  <2>4. next' \in 1 .. Last' /\ next' - 1 = 0
    BY <1>2, <1>5, <2>1
  <2>5. Built(next - 1)'
    BY <2>2, <2>4
  <2>6. Building'
    BY <1>1, <2>1, <2>3, <2>4, <2>5 DEF Building, Visiting
  <2>7. QED
    BY <1>1, <1>4, <2>6 DEF IInv
<1>8. QED
  BY <1>6, <1>7

LEMMA BuildKeeps ==
  ASSUME IInv, Build
  PROVE  IInv'
<1>1. /\ Building /\ source \in Programs /\ source' = source /\ Placed
      /\ UNCHANGED <<stream, offsetMap, pc>>
  BY DEF IInv, Build, Visiting, Storing, Emitting, Executing
<1>2. PICK k \in 1 .. Last : k = next
  BY <1>1 DEF Building
<1> DEFINE x == source[k].arg
<1>3. Last \in Nat \ {0} /\ x \in Args(source) /\ Last' = Last /\ Len(source) = Last
  BY <1>1, ProgramIs DEF Last
<1>4. x \in Label => x \in DOMAIN place
  BY <1>1 DEF Building, LabelsPlaced
<1>5. Place(x)
  BY <1>1, <1>2 DEF Build
<1>6. /\ Placed' /\ DOMAIN place' = DOMAIN place \cup {x}
      /\ \A y \in DOMAIN place : place'[y] = place[y]
  BY <1>1, <1>3, <1>4, <1>5, PlaceKeeps
<1> DEFINE i == Instr(source[k])'
<1>7. chunk' = Append(chunk, i)
  BY <1>1, <1>2 DEF Build, Instr, Id
<1>8. chunk \in Seq(Instruction) /\ Len(chunk) = k - 1 /\ k - 1 \in Nat
  BY <1>1, <1>2 DEF Building, Built
<1>9. i \in Instruction
  <2>1. place'[x] \in Nat
    <3>1. Len(values') \in Nat
      BY <1>6, LenProperties DEF Placed
    <3>2. x \in DOMAIN place'
      BY <1>6
    <3>3. place'[x] \in 0 .. Len(values') - 1
      BY <1>6, <3>2 DEF Placed
    <3>4. QED
      BY <3>1, <3>3
  <2>2. source[k].stmt \in {"label", "jmp", "je", "print"}
    BY <1>1, ProgramIs
  <2>3. QED
    BY <1>1, <2>1, <2>2, OffsetAssumption DEF Instr, Id, Marker, Jmp, Je, Show, Instruction
<1>10. /\ chunk' \in Seq(Instruction) /\ Len(chunk') = k
       /\ chunk'[k] = i /\ \A j \in 1 .. k - 1 : chunk'[j] = chunk[j]
  <2> HIDE DEF i
  <2>1. Len(chunk) + 1 = k
    BY <1>8
  <2>2. QED
    BY <1>7, <1>8, <1>9, <2>1, AppendProperties
<1>11. \A j \in 1 .. k : source[j].arg \in DOMAIN place' /\ chunk'[j] = Instr(source[j])'
  <2> SUFFICES ASSUME NEW j \in 1 .. k
               PROVE  source[j].arg \in DOMAIN place' /\ chunk'[j] = Instr(source[j])'
    OBVIOUS
  <2>1. CASE j = k
    BY <1>6, <1>10, <2>1
  <2>2. CASE j \in 1 .. k - 1
    <3>1. source[j].arg \in DOMAIN place /\ chunk[j] = Instr(source[j])
      BY <1>1, <1>2, <2>2 DEF Building, Built
    <3>2. Id(source[j].arg)' = Id(source[j].arg)
      BY <1>1, <1>6, <3>1 DEF Id
    <3>3. Instr(source[j])' = Instr(source[j])
      BY <1>1, <3>2 DEF Instr
    <3>4. QED
      BY <1>6, <1>10, <2>2, <3>1, <3>3
  <2>3. QED
    BY <1>8, <2>1, <2>2
<1>12. Built(k)'
  BY <1>1, <1>10, <1>11 DEF Built
<1> HIDE DEF i
<1>13. CASE k < Last
  <2>1. next' = k + 1 /\ phase' = "build"
    BY <1>1, <1>2, <1>3, <1>13 DEF Build, Advance, Building
  <2>2. next' \in 1 .. Last' /\ next' - 1 = k
    BY <1>2, <1>3, <1>13, <2>1
  <2>3. Built(next - 1)'
    BY <1>12, <2>2
  <2>4. LabelsPlaced(Last)'
    <3>1. \A j \in 1 .. Last : source[j].arg \in Label => source[j].arg \in DOMAIN place'
      BY <1>1, <1>6 DEF Building, LabelsPlaced
    <3>2. QED
      BY <1>1, <1>3, <3>1 DEF LabelsPlaced
  <2>5. Building'
    BY <1>1, <2>1, <2>2, <2>3, <2>4 DEF Building
  <2>6. QED
    BY <1>1, <1>6, <2>5 DEF IInv
<1>14. CASE ~(k < Last)
  <2>1. next' = 1 /\ phase' = "storage" /\ k = Last
    BY <1>1, <1>2, <1>3, <1>14 DEF Build, Advance
  <2>2. Built(Last)'
    BY <1>3, <1>12, <2>1
  <2>3. stream' \in Seq(Cell) /\ Len(stream') = 0 /\ DOMAIN offsetMap' = {}
    BY <1>1, EmptySeq DEF Building
  <2>4. 1 \in 1 .. Len(values')
    <3>1. Len(values') \in Nat
      BY <1>6, LenProperties DEF Placed
    <3>2. place'[x] \in 0 .. Len(values') - 1
      BY <1>6 DEF Placed
    <3>3. QED
      BY <3>1, <3>2
  <2>5. ValueAt(next)' = 0
    BY <1>6, <2>1, FirstAtZeroNext DEF FirstAtZero
  <2>6. Storing'
    BY <1>1, <2>1, <2>2, <2>3, <2>4, <2>5 DEF Storing, Building
  <2>7. QED
    BY <1>1, <1>6, <2>6 DEF IInv
<1>15. QED
  BY <1>13, <1>14

(* There are no more values than things to place.                          *)
LEMMA FewPlaces ==
  ASSUME source \in Programs, Placed, FewValues
  PROVE  Len(values) <= StaticOffset
<1> DEFINE n == Len(values)
           A == Args(source)
<1>1. n \in Nat
  BY LenProperties DEF Placed
<1>2. IsFiniteSet(A) /\ Cardinality(A) \in Nat
  <2> DEFINE f == [i \in 1 .. Last |-> source[i].arg]
  <2>1. IsFiniteSet(1 .. Last)
    BY ProgramIs, FS_Interval
  <2>2. f \in Surjection(1 .. Last, A)
    BY ProgramIs DEF Args, Surjection
  <2>3. IsFiniteSet(A)
    BY <2>1, <2>2, FS_Surjection
  <2>4. QED
    BY <2>3, FS_CardinalityType
<1> HIDE DEF n
<1> DEFINE g == [k \in 0 .. n - 1 |-> CHOOSE x \in DOMAIN place : place[x] = k]
<1>3. \A k \in 0 .. n - 1 : g[k] \in DOMAIN place /\ place[g[k]] = k
  BY DEF Placed, n
<1>4. g \in Injection(0 .. n - 1, A)
  <2>1. g \in [0 .. n - 1 -> A]
    BY <1>3 DEF Placed
  <2> HIDE DEF g
  <2>2. \A j, k \in 0 .. n - 1 : g[j] = g[k] => j = k
    BY <1>3
  <2>3. QED
    BY <2>1, <2>2 DEF Injection, IsInjective
<1>5. Cardinality(0 .. n - 1) <= Cardinality(A)
  BY <1>2, <1>4, FS_Injection DEF ExistsInjection
<1>6. Cardinality(0 .. n - 1) = n
  BY <1>1, FS_Interval
<1>7. Cardinality(A) <= StaticOffset
  BY DEF FewValues
<1>8. QED
  BY <1>1, <1>2, <1>5, <1>6, <1>7, OffsetAssumption DEF n

(* A load is as long as the value it loads needs, whatever its number.     *)
LEMMA LoadsFit ==
  ASSUME Placed, NEW j \in 1 .. Len(values)
  PROVE  /\ StaticOffset + j - 1 \in Nat
         /\ values[j] \in String \cup Nat
         /\ Load(StaticOffset + j - 1, values[j]) \in Instruction
         /\ Load(StaticOffset + j - 1, values[j]).op = "load"
         /\ Size(Load(StaticOffset + j - 1, values[j])) = Size(Load(StaticOffset, values[j]))
<1>1. Len(values) \in Nat /\ StaticOffset + j - 1 \in Nat
  BY LenProperties, OffsetAssumption DEF Placed
<1>2. values[j] \in String \cup Nat
  BY ElementOfSeq, OffsetAssumption DEF Placed
<1>3. Size(Load(StaticOffset + j - 1, values[j])) = Size(Load(StaticOffset, values[j]))
  BY DEF Size, Load
<1>4. QED
  BY <1>1, <1>2, <1>3, SizeIs DEF Load

LEMMA EmitValueKeeps ==
  ASSUME IInv, FewValues, EmitValue
  PROVE  IInv'
<1>1. /\ Storing /\ source \in Programs /\ Placed
      /\ UNCHANGED <<source, values, place, chunk, pc>>
  BY DEF IInv, EmitValue, Visiting, Building, Emitting, Executing
<1>2. PICK k \in 1 .. Len(values) : k = next
  BY <1>1 DEF Storing
<1>3. Len(values) \in Nat /\ Last \in Nat
  BY <1>1, LenProperties, ProgramIs DEF Placed
<1> DEFINE l == Load(StaticOffset + k - 1, values[k])
<1>4. /\ l \in Instruction /\ l.op # "marker" /\ Size(l) = Size(Load(StaticOffset, values[k]))
      /\ stream' = stream \o Bytes(l)
  BY <1>1, <1>2, LoadsFit DEF EmitValue
<1>5. /\ stream' \in Seq(Cell) /\ Len(stream') = ValueAt(k) + Size(l)
      /\ Has(stream', ValueAt(k), l)
      /\ \A j \in 1 .. k - 1 :
           Has(stream', ValueAt(j), Load(StaticOffset + j - 1, values[j]))
  <2> HIDE DEF l
  <2>1. stream \in Seq(Cell) /\ Len(stream) = ValueAt(k)
    BY <1>1, <1>2 DEF Storing
  <2>2. /\ stream' \in Seq(Cell) /\ Len(stream') = ValueAt(k) + Size(l)
        /\ Has(stream', ValueAt(k), l)
        /\ \A p, j : Has(stream, p, j) => Has(stream', p, j)
    BY <1>4, <2>1, HasAppended
  <2>3. QED
    BY <1>1, <1>2, <2>2 DEF Storing
<1>6. /\ Len(stream') = ValueAt(k + 1)
      /\ \A j \in 1 .. k :
           Has(stream', ValueAt(j), Load(StaticOffset + j - 1, values[j]))
  <2>1. ValueAt(k + 1) = ValueAt(k) + Size(l)
    BY <1>1, <1>4, ValuesLaid DEF Placed
  <2>2. \A j \in 1 .. k : j = k \/ j \in 1 .. k - 1
    OBVIOUS
  <2>3. QED
    BY <1>5, <2>1, <2>2
<1>7. DOMAIN offsetMap' = 0 .. k - 1
  <2>1. DOMAIN offsetMap' = (0 .. k - 2) \cup {k - 1}
    BY <1>1, <1>2 DEF EmitValue, Storing
  <2>2. QED
    BY <2>1
<1> HIDE DEF l
<1>8. /\ Built(Last)' /\ Placed' /\ \A j : ValueAt(j)' = ValueAt(j)
      /\ \A j : StatementAt(j)' = StatementAt(j)
      /\ Last' = Last
  BY <1>1, LayoutKept DEF Storing
<1>9. CASE k < Len(values)
  <2>1. next' = k + 1 /\ phase' = "storage"
    BY <1>1, <1>2, <1>9 DEF EmitValue, Advance, Storing
  <2>2. /\ next' \in 1 .. Len(values') /\ next' - 1 = k /\ next' - 2 = k - 1
        /\ pc' = 0
    BY <1>1, <1>2, <1>3, <1>9, <2>1 DEF Storing
  <2>3. Storing'
    BY <1>1, <1>5, <1>6, <1>7, <1>8, <2>1, <2>2 DEF Storing
  <2>4. QED
    BY <1>1, <1>8, <2>3 DEF IInv
<1>10. CASE ~(k < Len(values))
  <2>1. next' = 1 /\ phase' = "emit" /\ k = Len(values) /\ pc' = 0
    BY <1>1, <1>2, <1>3, <1>10 DEF EmitValue, Advance, Storing
  <2>2. Len(stream') = StatementAt(next)'
    <3>1. Len(stream') = Body
      BY <1>1, <1>6, <2>1, ValuesLaid DEF Placed
    <3>2. StatementAt(1) = Body
      BY <1>1, StatementsLaid DEF Storing
    <3>3. StatementAt(next)' = StatementAt(1)
      BY <1>8, <2>1
    <3>4. QED
      BY <3>1, <3>2, <3>3
  <2>3. Written'
    <3>1. \A j : Final(j)' = values[j]
      BY <1>1, <2>1 DEF Final, Declared
    <3>2. \A j \in 1 .. Len(values') :
            Has(stream', ValueAt(j)', Load(StaticOffset + j - 1, Final(j)'))
      BY <1>1, <1>6, <1>8, <2>1, <3>1
    <3>3. QED
      BY <2>1, <3>2 DEF Written
  <2>4. OffsetsZero'
    <3>1. Len(values) <= StaticOffset
      BY <1>1, FewPlaces
    <3>2. StaticOffset \notin DOMAIN offsetMap'
      BY <1>3, <1>7, <2>1, <3>1, OffsetAssumption
    <3>3. \A x \in DOMAIN place \cap Label : Id(x)' = StaticOffset
      BY <1>1, OffsetAssumption DEF Placed, Id
    <3>4. QED
      BY <1>1, <3>2, <3>3 DEF OffsetsZero, OffsetOf
  <2>5. Emitting'
    BY <1>3, <1>5, <1>8, <2>1, <2>2, <2>3, <2>4 DEF Emitting
  <2>6. QED
    BY <1>1, <1>8, <2>5 DEF IInv
<1>11. QED
  BY <1>9, <1>10

(* The label is declared once.                                             *)
LEMMA DeclaredOnce ==
  ASSUME OneLabel, source \in Programs
  PROVE  \A d, e \in 1 .. Last : Declares(d) /\ Declares(e) => d = e
<1> SUFFICES ASSUME NEW d \in 1 .. Last, NEW e \in 1 .. Last, Declares(d), Declares(e)
             PROVE  d = e
  OBVIOUS
<1>1. /\ d \in DOMAIN source /\ e \in DOMAIN source
      /\ source[d].arg \in Label /\ source[e].arg \in Label
  BY ProgramIs DEF Declares
<1>2. source[d].arg = source[e].arg
  BY <1>1 DEF OneLabel
<1>3. source[d] \in Statement /\ source[e] \in Statement
  BY ProgramIs
<1>4. \A s \in Statement : s.stmt = "label" => s = [stmt |-> "label", arg |-> s.arg]
  BY DEF Statement
<1>5. source[d] = source[e]
  BY <1>2, <1>3, <1>4 DEF Declares
<1>6. QED
  BY <1>1, <1>5, ProgramsAssumption DEF Declares

(* What a slot is to hold fits where its load is.                          *)
LEMMA FinalIs ==
  ASSUME OneLabel, source \in Programs, Placed, Built(Last), next \in 1 .. Last + 1,
         NEW j \in 1 .. Len(values)
  PROVE  /\ Load(StaticOffset + j - 1, Final(j)) \in Instruction
         /\ Load(StaticOffset + j - 1, Final(j)).op = "load"
         /\ Load(StaticOffset + j - 1, Final(j)).id = StaticOffset + j - 1
         /\ Load(StaticOffset + j - 1, Final(j)).value = Final(j)
         /\ Final(j) \in String \cup Nat
         /\ Size(Load(StaticOffset + j - 1, Final(j))) = Size(Load(StaticOffset, values[j]))
         /\ \A d \in 1 .. next - 1 : Declares(d) => Final(1) = StatementAt(d)
<1>1. StaticOffset + j - 1 \in Nat /\ values[j] \in String \cup Nat
  BY LoadsFit
<1>2. ASSUME NEW d \in 1 .. next - 1, Declares(d)
      PROVE  Final(1) = StatementAt(d) /\ StatementAt(d) \in Nat /\ values[1] \in Nat
  <2>1. d \in 1 .. Last /\ d \in 1 .. Last + 1
    BY ProgramIs
  <2>2. Declaration = d
    BY <1>2, <2>1, DeclaredOnce DEF Declaration
  <2>3. Final(1) = StatementAt(d)
    BY <1>2, <2>2 DEF Final, Declared
  <2>4. source[d].arg \in DOMAIN place \cap Label
    BY <1>2, <2>1, ProgramIs DEF Built, Declares
  <2>5. values[1] = Placeholder
    BY <2>4 DEF Placed
  <2>6. QED
    BY <2>1, <2>3, <2>5, StatementsLaid, OffsetAssumption
<1>3. CASE j = 1 /\ Declared
  <2>1. PICK d \in 1 .. next - 1 : Declares(d)
    BY <1>3 DEF Declared
  <2>2. Final(j) \in Nat /\ values[j] \in Nat
    BY <1>2, <1>3, <2>1
  <2>3. QED
    BY <1>1, <1>2, <2>2, SizeIs, OffsetAssumption DEF Load
<1>4. CASE ~(j = 1 /\ Declared)
  <2>1. Final(j) = values[j]
    BY <1>4 DEF Final
  <2>2. QED
    BY <1>1, <1>2, <2>1, LoadsFit DEF Load
<1>5. QED
  BY <1>3, <1>4

(* A label at k writes over its own load and no other instruction.         *)
LEMMA MarkKeeps ==
  ASSUME IInv, OneLabel, EmitOp, NEW k \in 1 .. Last, k = next, Declares(k)
  PROVE  IInv'
<1>1. /\ Emitting /\ source \in Programs /\ Placed /\ Built(Last)
      /\ UNCHANGED <<source, values, place, chunk, pc, phase>>
      /\ next' = k + 1 /\ k <= Len(chunk) /\ Last \in Nat
  BY ProgramIs DEF IInv, EmitOp, Visiting, Building, Storing, Emitting, Executing
<1> DEFINE x == source[k].arg
           l == Load(StaticOffset, StatementAt(k))
<1>2. /\ x \in DOMAIN place \cap Label /\ place[x] = 0 /\ Id(x) = StaticOffset
      /\ chunk[k].op = "marker" /\ chunk[k].id = StaticOffset /\ OffsetOf(StaticOffset) = 0
  <2>1. x \in DOMAIN place /\ x \in Label
    BY <1>1, ProgramIs DEF Built, Declares
  <2>2. place[x] = 0 /\ Id(x) = StaticOffset
    BY <1>1, <2>1, OffsetAssumption DEF Placed, Id
  <2>3. chunk[k].op = "marker" /\ chunk[k].id = Id(x)
    BY <1>1, InstrIs
  <2>4. OffsetOf(Id(x)) = 0
    BY <1>1, <2>1 DEF Emitting, OffsetsZero
  <2>5. QED
    BY <2>1, <2>2, <2>3, <2>4
<1>3. Mark(StaticOffset)
  BY <1>1, <1>2 DEF EmitOp
<1>4. stream \in Seq(Cell) /\ Len(stream) = StatementAt(k) /\ StatementAt(k) \in Nat
  <2>1. k \in 1 .. Last + 1
    BY <1>1
  <2>2. QED
    BY <1>1, <2>1, StatementsLaid DEF Emitting
<1>5. l \in Instruction /\ l.op = "load" /\ Size(l) \in Nat \ {0}
  BY <1>4, SizeIs, OffsetAssumption DEF Load
<1>6. stream' = [b \in DOMAIN stream |-> IF b \in 1 .. Size(l) THEN Bytes(l)[b] ELSE stream[b]]
  <2>1. Patch(StaticOffset) = Bytes(l)
    BY <1>4 DEF Patch
  <2>2. DOMAIN Bytes(l) = 1 .. Size(l)
    BY <1>5, BytesIs
  <2> HIDE DEF l
  <2>3. \A b \in DOMAIN stream : b - 0 = b
    BY <1>4, LenProperties
  <2>4. stream' = [b \in DOMAIN stream |->
                     IF b - 0 \in 1 .. Size(l) THEN Bytes(l)[b - 0] ELSE stream[b]]
    BY <1>2, <1>3, <2>1, <2>2 DEF Mark
  <2>5. QED
    BY <2>3, <2>4
<1> DEFINE m == Len(stream)
<1>7. /\ Len(values) \in Nat \ {0} /\ 1 \in 1 .. Len(values)
      /\ values[1] = Placeholder
      /\ Size(l) = Size(Load(StaticOffset, values[1]))
      /\ ValueAt(1) = 0 /\ Size(l) <= Body /\ Body <= m
      /\ \A j \in 2 .. Len(values) : Size(l) <= ValueAt(j)
  <2>1. Len(values) \in Nat \ {0}
    BY <1>1, <1>2, LenProperties DEF Placed
  <2>2. values[1] = Placeholder /\ 1 \in 1 .. Len(values)
    BY <1>1, <1>2, <2>1 DEF Placed
  <2>3. Size(l) = Size(Load(StaticOffset, values[1]))
    BY <1>4, <2>2, SizeIs, OffsetAssumption
  <2> HIDE DEF l
  <2>4. ValueAt(1) = 0 /\ \A j \in 2 .. Len(values) + 1 : Size(l) <= ValueAt(j)
    <3>1. /\ ValueAt(1) = 0
          /\ \A i, j \in 1 .. Len(values) + 1 : i < j =>
               ValueAt(i) + Size(Load(StaticOffset, values[i])) <= ValueAt(j)
      BY <1>1, ValuesLaid DEF Placed
    <3>2. 1 \in 1 .. Len(values) + 1 /\ \A j \in 2 .. Len(values) + 1 : j \in 1 .. Len(values) + 1 /\ 1 < j
      BY <2>1
    <3>3. QED
      BY <1>5, <2>3, <3>1, <3>2
  <2>5. Size(l) <= Body
    BY <1>1, <2>1, <2>4, ValuesLaid DEF Placed
  <2>6. Body <= m
    <3>1. StatementAt(1) = Body /\ Body \in Nat
      BY <1>1, StatementsLaid
    <3>2. CASE k = 1
      BY <1>4, <3>1, <3>2
    <3>3. CASE k # 1
      <4>1. 1 \in 1 .. Last + 1 /\ k \in 1 .. Last + 1 /\ 1 < k /\ 1 \in 1 .. Last
        BY <1>1, <3>3
      <4>2. StatementAt(1) + Width(1) <= StatementAt(k) /\ Width(1) \in Nat
        BY <1>1, <4>1, StatementsLaid
      <4>3. QED
        BY <1>4, <3>1, <4>2
    <3>4. QED
      BY <3>2, <3>3
  <2>7. QED
    BY <2>1, <2>2, <2>3, <2>4, <2>5, <2>6
<1> HIDE DEF l
<1>8. stream' \in Seq(Cell) /\ Len(stream') = m /\ DOMAIN stream' = 1 .. m /\ m \in Nat
  <2>1. DOMAIN stream = 1 .. m /\ m \in Nat /\ \A b \in 1 .. m : stream[b] \in Cell
    BY <1>4, LenProperties, ElementOfSeq
  <2>2. \A b \in 1 .. Size(l) : Bytes(l)[b] \in Cell
    <3>1. Bytes(l) \in Seq(Cell) /\ Len(Bytes(l)) = Size(l)
      BY <1>5, BytesIs
    <3>2. QED
      BY <3>1, ElementOfSeq
  <2>3. stream' \in [1 .. m -> Cell]
    BY <1>6, <2>1, <2>2
  <2>4. QED
    BY <2>1, <2>3, IsASeq, LenProperties
<1>9. Has(stream', 0, l)
  <2>1. Size(l) <= m
    BY <1>4, <1>5, <1>7, StatementsLaid, <1>1
  <2>2. \A b \in 1 .. Size(l) : b \in DOMAIN stream /\ 0 + b = b
    BY <1>4, <1>5, <2>1, LenProperties
  <2>3. \A b \in 1 .. Size(l) : stream'[0 + b] = [of |-> l, byte |-> b]
    BY <1>5, <1>6, <2>2, BytesIs
  <2>4. QED
    BY <1>5, <1>8, <2>1, <2>3 DEF Has
<1>10. ASSUME NEW p, NEW i, Has(stream, p, i), Size(l) <= p
       PROVE  Has(stream', p, i)
  <2>1. p \in Nat /\ Size(i) \in Nat /\ p + Size(i) <= m
    BY <1>10, SizeIs DEF Has
  <2>2. \A b \in 1 .. Size(i) : p + b \in DOMAIN stream /\ p + b \notin 1 .. Size(l)
    BY <1>4, <1>5, <1>8, <1>10, <2>1, LenProperties
  <2>3. \A b \in 1 .. Size(i) : stream'[p + b] = stream[p + b]
    BY <1>6, <2>2
  <2>4. QED
    BY <1>8, <1>10, <2>3 DEF Has
<1>11. /\ Built(Last)' /\ Placed' /\ \A j : ValueAt(j)' = ValueAt(j)
       /\ \A j : StatementAt(j)' = StatementAt(j)
       /\ Last' = Last /\ \A j : Declares(j)' = Declares(j)
       /\ Declaration' = Declaration
  BY <1>1, LayoutKept
<1>12. Len(stream') = StatementAt(next)'
  <2>1. StatementAt(k + 1) = StatementAt(k) + 0
    BY <1>1, StatementsLaid
  <2>2. QED
    BY <1>1, <1>4, <1>8, <1>11, <2>1
<1>13. Final(1)' = StatementAt(k) /\ \A j \in 2 .. Len(values) : Final(j)' = Final(j)
  <2>1. Declaration = k
    BY <1>1, DeclaredOnce DEF Declaration
  <2>2. Declared'
    <3>1. k \in 1 .. next' - 1 /\ Declares(k)'
      BY <1>1, <1>11
    <3>2. QED
      BY <3>1 DEF Declared
  <2>3. Final(1)' = StatementAt(Declaration)'
    BY <2>2 DEF Final
  <2>4. StatementAt(Declaration)' = StatementAt(k)
    BY <1>11, <2>1
  <2>5. \A j \in 2 .. Len(values) : j # 1
    BY <1>7
  <2>6. \A j \in 2 .. Len(values) : Final(j)' = Final(j)
    BY <1>1, <2>5 DEF Final
  <2>7. QED
    BY <2>3, <2>4, <2>6
<1>14. Written'
  <2>1. ASSUME NEW j \in 1 .. Len(values)
        PROVE  Has(stream', ValueAt(j), Load(StaticOffset + j - 1, Final(j)'))
    <3>1. CASE j = 1
      <4>1. StaticOffset + j - 1 = StaticOffset
        BY <3>1, OffsetAssumption
      <4>2. QED
        BY <1>7, <1>9, <1>13, <3>1, <4>1 DEF l
    <3>2. CASE j # 1
      <4>1. j \in 2 .. Len(values)
        BY <1>7, <3>2
      <4>2. Has(stream, ValueAt(j), Load(StaticOffset + j - 1, Final(j)))
        BY <1>1 DEF Emitting, Written
      <4>3. QED
        BY <1>7, <1>10, <1>13, <4>1, <4>2
    <3>3. QED
      BY <3>1, <3>2
  <2>2. ASSUME NEW i \in 1 .. k, ~ Declares(i)
        PROVE  Has(stream', StatementAt(i), chunk[i])
    <3>1. i \in 1 .. k - 1
      BY <2>2
    <3>2. Has(stream, StatementAt(i), chunk[i])
      BY <1>1, <2>2, <3>1 DEF Emitting, Written
    <3>3. Body <= StatementAt(i)
      <4>1. StatementAt(1) = Body /\ Body \in Nat
        BY <1>1, StatementsLaid
      <4>2. CASE i # 1
        <5>1. 1 \in 1 .. Last + 1 /\ i \in 1 .. Last + 1 /\ 1 < i /\ 1 \in 1 .. Last
          BY <1>1, <4>2
        <5>2. StatementAt(1) + Width(1) <= StatementAt(i) /\ Width(1) \in Nat /\ StatementAt(i) \in Nat
          BY <1>1, <5>1, StatementsLaid
        <5>3. QED
          BY <4>1, <5>2
      <4>3. QED
        BY <4>1, <4>2
    <3>4. Size(l) <= StatementAt(i)
      <4>1. StatementAt(i) \in Nat /\ Body \in Nat
        BY <1>1, <2>2, StatementsLaid
      <4>2. QED
        BY <1>5, <1>7, <3>3, <4>1
    <3>5. QED
      BY <1>10, <3>2, <3>4
  <2>3. next' - 1 = k
    BY <1>1
  <2>4. QED
    BY <1>1, <1>11, <2>1, <2>2, <2>3 DEF Written
<1>15. OffsetsZero'
  <2>1. \A i : OffsetOf(i)' = OffsetOf(i)
    <3>1. offsetMap' = [i \in DOMAIN offsetMap \cup {StaticOffset} |-> OffsetOf(i)]
      BY <1>3 DEF Mark
    <3>2. QED
      BY <1>2, <3>1 DEF OffsetOf
  <2>2. \A y : Id(y)' = Id(y)
    BY <1>1 DEF Id
  <2>3. QED
    BY <1>1, <2>1, <2>2 DEF OffsetsZero, Emitting
<1>16. Emitting'
  BY <1>1, <1>8, <1>11, <1>12, <1>14, <1>15 DEF Emitting
<1>17. QED
  BY <1>1, <1>11, <1>16 DEF IInv

(* Any other statement adds its instruction.                               *)
LEMMA AppendKeeps ==
  ASSUME IInv, EmitOp, NEW k \in 1 .. Last, k = next, ~ Declares(k)
  PROVE  IInv'
<1>1. /\ Emitting /\ source \in Programs /\ Placed /\ Built(Last)
      /\ UNCHANGED <<source, values, place, chunk, pc, phase>>
      /\ next' = k + 1 /\ k <= Len(chunk) /\ Last \in Nat
  BY ProgramIs DEF IInv, EmitOp, Visiting, Building, Storing, Emitting, Executing
<1>2. chunk[k] \in Instruction /\ chunk[k].op # "marker"
  <2>1. chunk[k] \in Instruction /\ chunk[k].op = source[k].stmt
    BY <1>1, InstrIs
  <2>2. QED
    BY <1>1, <2>1, ProgramIs
<1>3. stream' = stream \o Bytes(chunk[k]) /\ offsetMap' = offsetMap
  BY <1>2 DEF EmitOp
<1>4. stream \in Seq(Cell) /\ Len(stream) = StatementAt(k)
  BY <1>1 DEF Emitting
<1>5. /\ stream' \in Seq(Cell) /\ Len(stream') = StatementAt(k) + Size(chunk[k])
      /\ Has(stream', StatementAt(k), chunk[k])
      /\ \A p, j : Has(stream, p, j) => Has(stream', p, j)
  BY <1>2, <1>3, <1>4, HasAppended
<1>6. /\ Built(Last)' /\ Placed' /\ \A j : ValueAt(j)' = ValueAt(j)
      /\ \A j : StatementAt(j)' = StatementAt(j)
      /\ Last' = Last /\ \A j : Declares(j)' = Declares(j)
  BY <1>1, LayoutKept
<1>7. Len(stream') = StatementAt(next)'
  <2>1. StatementAt(k + 1) = StatementAt(k) + Size(chunk[k])
    BY <1>1, StatementsLaid
  <2>2. QED
    BY <1>1, <1>5, <1>6, <2>1
<1>8. \A j : Final(j)' = Final(j)
  <2>1. Declared' <=> Declared
    <3>1. next' - 1 = k /\ \A d \in 1 .. k : d = k \/ d \in 1 .. k - 1
      BY <1>1
    <3>2. \A d \in 1 .. k - 1 : d \in 1 .. k
      OBVIOUS
    <3>3. QED
      BY <1>6, <3>1, <3>2 DEF Declared
  <2>2. QED
    BY <1>1, <2>1, LayoutKept
<1>9. Written'
  <2>1. \A j \in 1 .. Len(values) :
          Has(stream', ValueAt(j), Load(StaticOffset + j - 1, Final(j)'))
    BY <1>1, <1>5, <1>8 DEF Emitting, Written
  <2>2. ASSUME NEW i \in 1 .. k, ~ Declares(i)
        PROVE  Has(stream', StatementAt(i), chunk[i])
    <3>1. CASE i = k
      BY <1>5, <3>1
    <3>2. CASE i \in 1 .. k - 1
      BY <1>1, <1>5, <2>2, <3>2 DEF Emitting, Written
    <3>3. QED
      BY <3>1, <3>2
  <2>3. next' - 1 = k
    BY <1>1
  <2>4. QED
    BY <1>1, <1>6, <2>1, <2>2, <2>3 DEF Written
<1>10. OffsetsZero'
  BY <1>1, <1>3 DEF OffsetsZero, OffsetOf, Id, Emitting
<1>11. Emitting'
  BY <1>1, <1>5, <1>6, <1>7, <1>9, <1>10 DEF Emitting
<1>12. QED
  BY <1>1, <1>6, <1>11 DEF IInv

LEMMA EmitOpKeeps ==
  ASSUME IInv, OneLabel, EmitOp
  PROVE  IInv'
<1>1. Emitting /\ Len(chunk) = Last
  BY DEF IInv, EmitOp, Visiting, Building, Storing, Emitting, Executing, Built
<1>2. PICK k \in 1 .. Last : k = next
  BY <1>1 DEF EmitOp, Emitting
<1>3. QED
  BY <1>2, MarkKeeps, AppendKeeps

LEMMA EmitHaltKeeps ==
  ASSUME IInv, EmitHalt
  PROVE  IInv'
<1>1. /\ Emitting /\ source \in Programs /\ Placed /\ Built(Last) /\ Last \in Nat
      /\ UNCHANGED <<source, values, place, chunk, pc, next>>
  BY ProgramIs DEF IInv, EmitHalt, Visiting, Building, Storing, Emitting, Executing
<1>2. next = Last + 1 /\ pc = 0 /\ phase' = "run"
  BY <1>1 DEF EmitHalt, Emitting, Built
<1>3. Halt \in Instruction /\ Halt.op # "marker" /\ Size(Halt) = 1
  BY DEF Halt, Instruction, Size
<1>4. stream \in Seq(Cell) /\ Len(stream) = StatementAt(next)
  BY <1>1 DEF Emitting
<1>5. /\ stream' \in Seq(Cell) /\ Len(stream') = StatementAt(next) + 1
      /\ Has(stream', StatementAt(next), Halt)
      /\ \A p, j : Has(stream, p, j) => Has(stream', p, j)
  BY <1>3, <1>4, HasAppended DEF EmitHalt
<1>6. /\ Built(Last)' /\ Placed' /\ \A j : ValueAt(j)' = ValueAt(j)
      /\ \A j : StatementAt(j)' = StatementAt(j)
      /\ Last' = Last /\ \A j : Declares(j)' = Declares(j)
  BY <1>1, LayoutKept
<1>7. Written'
  <2>1. \A j : Final(j)' = Final(j)
    BY <1>1, <1>6, LayoutKept DEF Declared
  <2>2. QED
    BY <1>1, <1>5, <1>6, <2>1 DEF Emitting, Written
<1>8. DOMAIN static' = StaticOffset .. StaticOffset + Len(values') - 1
  BY <1>1 DEF EmitHalt
<1>9. 1 \in 1 .. Len(values') /\ AtValue(1)'
  <2>1. Len(values) \in Nat \ {0}
    <3>1. 1 \in 1 .. Last
      BY <1>1, ProgramIs
    <3>2. source[1].arg \in DOMAIN place
      BY <1>1, <3>1 DEF Built
    <3>3. QED
      BY <1>1, <3>2, LenProperties DEF Placed
  <2>2. ValueAt(1) = 0
    BY <1>1, ValuesLaid DEF Placed
  <2>3. Loaded(0)'
    BY DEF Loaded
  <2>4. 1 - 1 = 0 /\ 1 \in 1 .. Len(values')
    BY <1>1, <2>1
  <2>5. QED
    BY <1>1, <1>2, <1>6, <2>2, <2>3, <2>4 DEF AtValue
<1>10. Executing'
  BY <1>1, <1>2, <1>5, <1>6, <1>7, <1>8, <1>9 DEF Executing
<1>11. QED
  BY <1>1, <1>6, <1>10 DEF IInv

-----------------------------------------------------------------------------
(* Labels do nothing: control passes to the first place where it stays.    *)
LEMMA LandingIs ==
  ASSUME source \in Programs, Built(Last), Placed, NEW i \in 1 .. Last + 1
  PROVE  /\ Control!Landing(i) \in i .. Last + 1 /\ Stop(Control!Landing(i))
         /\ \A k \in i .. Control!Landing(i) - 1 : Declares(k)
         /\ StatementAt(Control!Landing(i)) = StatementAt(i)
<1>1. Last \in Nat \ {0} /\ Last = Len(source)
  BY ProgramIs DEF Last
<1> DEFINE B == {m \in Nat : i + m <= Last + 1 /\ Stop(i + m)}
<1>2. Last + 1 - i \in B
  BY <1>1 DEF Stop
<1>3. PICK m \in B : \A k \in B : m <= k
  <2> B \in SUBSET Nat
    OBVIOUS
  <2> HIDE DEF B
  <2> QED BY <1>2, LeastNatural
<1>4. i + m \in i .. Last + 1 /\ Stop(i + m)
  BY <1>1, <1>3
<1>5. ASSUME NEW k \in i .. (i + m) - 1
      PROVE  Declares(k)
  <2>1. k - i \in Nat /\ i + (k - i) = k /\ k < i + m /\ ~(m <= k - i)
    BY <1>3
  <2>2. k - i \notin B
    BY <1>3, <2>1
  <2>3. k <= Last + 1
    BY <1>1, <1>4, <2>1
  <2>4. ~ Stop(k)
    BY <2>1, <2>2, <2>3
  <2>5. QED
    BY <2>4 DEF Stop
<1>6. ASSUME NEW j \in i .. Last + 1
      PROVE  Stop(j) <=> (j = Len(source) + 1 \/ source[j].stmt # "label")
  <2>1. j <= Last <=> j # Last + 1
    BY <1>1
  <2>2. QED
    BY <1>1, <2>1 DEF Stop, Declares
<1>7. /\ Control!Landing(i) \in i .. Last + 1 /\ Stop(Control!Landing(i))
      /\ \A k \in i .. Control!Landing(i) - 1 : Declares(k)
  <2> DEFINE P(j) == /\ j = Len(source) + 1 \/ source[j].stmt # "label"
                     /\ \A k \in i .. j - 1 : source[k].stmt = "label"
  <2>1. Control!Landing(i) = CHOOSE j \in i .. Len(source) + 1 : P(j)
    BY DEF Control!Landing
  <2>2. P(i + m)
    BY <1>4, <1>5, <1>6 DEF Declares
  <2>3. \A j \in i .. Last + 1 : P(j) => Stop(j) /\ \A k \in i .. j - 1 : Declares(k)
    BY <1>6 DEF Declares
  <2> HIDE DEF P
  <2>4. Control!Landing(i) \in i .. Last + 1 /\ P(Control!Landing(i))
    BY <1>1, <1>4, <2>1, <2>2
  <2>5. QED
    BY <2>3, <2>4
<1> DEFINE j == Control!Landing(i)
           M == {k \in Nat : i + k <= j => StatementAt(i + k) = StatementAt(i)}
<1>8. j \in i .. Last + 1 /\ \A k \in i .. j - 1 : Declares(k)
  BY <1>7
<1> HIDE DEF j
<1>9. 0 \in M
  OBVIOUS
<1>10. \A k \in Nat : k \in M => k + 1 \in M
  <2> SUFFICES ASSUME NEW k \in Nat, k \in M, i + (k + 1) <= j
               PROVE  StatementAt(i + (k + 1)) = StatementAt(i)
    OBVIOUS
  <2>1. i + k \in i .. j - 1 /\ i + k \in 1 .. Last /\ i + k \in 1 .. Last + 1
        /\ i + (k + 1) = (i + k) + 1
    BY <1>1, <1>8
  <2>2. Declares(i + k) /\ StatementAt(i + k) = StatementAt(i)
    BY <1>8, <2>1
  <2>3. StatementAt((i + k) + 1) = StatementAt(i + k) + 0 /\ StatementAt(i + k) \in Nat
    BY <2>1, <2>2, StatementsLaid
  <2>4. QED
    BY <2>1, <2>2, <2>3
<1>11. Nat \subseteq M
  <2> HIDE DEF M
  <2> QED BY <1>9, <1>10, SetInduction
<1>12. StatementAt(j) = StatementAt(i)
  <2>1. j - i \in Nat /\ i + (j - i) = j
    BY <1>8
  <2>2. QED
    BY <1>11, <2>1
<1>13. QED
  BY <1>7, <1>12 DEF j

-----------------------------------------------------------------------------
(* What the interpreter meets.                                             *)
LEMMA RunIs ==
  ASSUME IInv, phase = "run"
  PROVE  /\ Executing /\ source \in Programs /\ Placed /\ Built(Last)
         /\ next = Last + 1 /\ next \in 1 .. Last + 1 /\ Last \in Nat \ {0}
         /\ Len(values) \in Nat \ {0} /\ stream \in Seq(Cell)
         /\ \A d \in 1 .. Last : d \in 1 .. next - 1
<1>1. Executing /\ source \in Programs /\ Placed
  BY DEF IInv, Visiting, Building, Storing, Emitting
<1>2. Built(Last) /\ next = Last + 1 /\ stream \in Seq(Cell) /\ Last \in Nat \ {0}
  BY <1>1, ProgramIs DEF Executing
<1>3. Len(values) \in Nat \ {0}
  <2>1. 1 \in 1 .. Last
    BY <1>2
  <2>2. source[1].arg \in DOMAIN place
    BY <1>2, <2>1 DEF Built
  <2>3. QED
    BY <1>1, <2>2, LenProperties DEF Placed
<1>4. QED
  BY <1>1, <1>2, <1>3

LEMMA AtValueReads ==
  ASSUME IInv, OneLabel, phase = "run", NEW j \in 1 .. Len(values), pc = ValueAt(j)
  PROVE  /\ Whole(pc) /\ At(pc) = Load(StaticOffset + j - 1, Final(j)) /\ AtStart
         /\ Past = ValueAt(j + 1)
<1> DEFINE l == Load(StaticOffset + j - 1, Final(j))
<1>1. Has(stream, pc, l)
  BY RunIs DEF Executing, Written
<1>2. Whole(pc) /\ At(pc) = l
  BY <1>1, RunIs, HasDecodes
<1>3. Size(l) = Size(Load(StaticOffset, values[j])) /\ Size(l) \in Nat \ {0}
  BY RunIs, FinalIs, SizeIs
<1> HIDE DEF l
<1>4. ValueAt(j + 1) = pc + Size(l)
  BY <1>3, RunIs, ValuesLaid DEF Placed
<1>5. pc + Size(l) <= Body /\ pc \in Nat /\ Body \in Nat
  <2>1. j \in 1 .. Len(values) + 1 /\ Len(values) + 1 \in 1 .. Len(values) + 1
        /\ j < Len(values) + 1
    BY RunIs
  <2>2. QED
    BY <1>3, <2>1, RunIs, ValuesLaid DEF Placed
<1>6. pc < Body
  BY <1>3, <1>5
<1>7. QED
  BY <1>2, <1>4, <1>6 DEF Past, AtStart, l

LEMMA AtStatementReads ==
  ASSUME IInv, phase = "run", NEW i \in 1 .. Last + 1, Stop(i), pc = StatementAt(i)
  PROVE  /\ Whole(pc) /\ At(pc) = (IF i = Last + 1 THEN Halt ELSE chunk[i]) /\ ~ AtStart
         /\ i # Last + 1 =>
              /\ i \in 1 .. Last /\ i + 1 \in 1 .. Last + 1 /\ Past = StatementAt(i + 1)
              /\ chunk[i].op = source[i].stmt /\ chunk[i].id = Id(source[i].arg)
              /\ source[i].stmt \in {"jmp", "je", "print"}
<1>1. Body <= StatementAt(i) /\ Body \in Nat /\ StatementAt(i) \in Nat
  <2>1. StatementAt(1) = Body /\ Body \in Nat /\ StatementAt(i) \in Nat
    BY RunIs, StatementsLaid
  <2>2. CASE i # 1
    <3>1. 1 \in 1 .. Last + 1 /\ 1 < i /\ 1 \in 1 .. Last
      BY <2>2, RunIs
    <3>2. StatementAt(1) + Width(1) <= StatementAt(i) /\ Width(1) \in Nat
      BY <3>1, RunIs, StatementsLaid
    <3>3. QED
      BY <2>1, <3>2
  <2>3. QED
    BY <2>1, <2>2
<1>2. ~ AtStart
  BY <1>1 DEF AtStart
<1>3. CASE i = Last + 1
  <2>1. Has(stream, pc, Halt)
    BY <1>3, RunIs DEF Executing
  <2>2. QED
    BY <1>2, <1>3, <2>1, RunIs, HasDecodes
<1>4. CASE i # Last + 1
  <2>1. i \in 1 .. Last /\ i + 1 \in 1 .. Last + 1 /\ ~ Declares(i)
    BY <1>4, RunIs DEF Stop
  <2>2. Has(stream, pc, chunk[i])
    BY <2>1, RunIs DEF Executing, Written
  <2>3. Whole(pc) /\ At(pc) = chunk[i]
    BY <2>2, RunIs, HasDecodes
  <2>4. Past = StatementAt(i + 1)
    BY <2>1, <2>3, RunIs, StatementsLaid DEF Past
  <2>5. chunk[i].op = source[i].stmt /\ chunk[i].id = Id(source[i].arg)
    BY <2>1, RunIs, InstrIs
  <2>6. source[i].stmt \in {"jmp", "je", "print"}
    BY <2>1, RunIs, ProgramIs DEF Declares
  <2>7. QED
    BY <1>2, <1>4, <2>1, <2>3, <2>4, <2>5, <2>6
<1>5. QED
  BY <1>3, <1>4

(* The slot of a jump's label holds where the label is.                    *)
LEMMA TargetIs ==
  ASSUME IInv, OneLabel, phase = "run", Loaded(Len(values)),
         NEW x \in DOMAIN place \cap Label
  PROVE  /\ Control!Declaration(x) \in 1 .. Last /\ Id(x) = StaticOffset
         /\ source[Control!Declaration(x)] = [stmt |-> "label", arg |-> x]
         /\ \A d \in DOMAIN source :
              source[d] = [stmt |-> "label", arg |-> x] => d = Control!Declaration(x)
         /\ static[Id(x)] = StatementAt(Control!Declaration(x))
         /\ static[Id(x)] # Null
<1>1. PICK i \in DOMAIN source : x = source[i].arg
  BY RunIs DEF Placed, Args
<1>2. PICK d \in DOMAIN source : source[d] = [stmt |-> "label", arg |-> x]
  BY <1>1, RunIs, ProgramsAssumption
<1>3. d \in 1 .. Last /\ Declares(d) /\ d \in 1 .. next - 1
  BY <1>2, RunIs, ProgramIs DEF Declares
<1>4. \A e \in DOMAIN source :
        source[e].stmt = "label" /\ source[e].arg = x => e = d
  BY <1>3, RunIs, ProgramIs, DeclaredOnce DEF Declares
<1>5. Control!Declaration(x) = d
  BY <1>2, <1>4 DEF Control!Declaration
<1>6. place[x] = 0 /\ Id(x) = StaticOffset
  BY RunIs, OffsetAssumption DEF Placed, Id
<1>7. 1 \in 1 .. Len(values) /\ StaticOffset + 1 - 1 = StaticOffset
  BY RunIs, OffsetAssumption
<1>8. static[StaticOffset] = Final(1)
  BY <1>7 DEF Loaded
<1>9. Final(1) = StatementAt(d)
  BY <1>3, <1>7, RunIs, FinalIs
<1>10. StatementAt(d) \in Nat
  BY <1>3, RunIs, StatementsLaid
<1>11. QED
  BY <1>2, <1>3, <1>4, <1>5, <1>6, <1>8, <1>9, <1>10, KindsAssumption

-----------------------------------------------------------------------------
(* A step to where the code of statement d begins comes to rest after it.  *)
LEMMA LandsKeeps ==
  ASSUME IInv, phase = "run", UNCHANGED <<compiled, phase, next>>,
         DOMAIN static' = DOMAIN static, NEW d \in 1 .. Last + 1, pc' = StatementAt(d),
         \A j \in 1 .. Len(values) : static'[StaticOffset + j - 1] = Final(j)
  PROVE  \E k : k = Control!Landing(d) /\ AtStatement(k)' /\ IInv'
<1>1. /\ UNCHANGED <<source, values, place, chunk, stream>>
      /\ source \in Programs /\ Placed /\ Built(Last) /\ Executing /\ next = Last + 1
  BY RunIs DEF compiled
<1>2. /\ Built(Last)' /\ Placed' /\ \A j : ValueAt(j)' = ValueAt(j)
      /\ \A j : StatementAt(j)' = StatementAt(j)
      /\ Last' = Last /\ \A j : Declares(j)' = Declares(j) /\ Stop(j)' = Stop(j)
      /\ \A j : Final(j)' = Final(j)
  BY <1>1, LayoutKept DEF Declared
<1>3. PICK k \in 1 .. Last + 1 : k = Control!Landing(d) /\ Stop(k) /\ StatementAt(k) = pc'
  <2>1. Control!Landing(d) \in d .. Last + 1 /\ d .. Last + 1 \subseteq 1 .. Last + 1
    BY <1>1, LandingIs
  <2>2. QED
    BY <1>1, <2>1, LandingIs
<1>4. Loaded(Len(values))'
  BY <1>1, <1>2 DEF Loaded
<1>5. AtStatement(k)'
  BY <1>2, <1>3, <1>4 DEF AtStatement
<1>6. Written'
  BY <1>1, <1>2 DEF Executing, Written
<1>7. Executing'
  BY <1>1, <1>2, <1>5, <1>6 DEF Executing
<1>8. QED
  BY <1>1, <1>2, <1>3, <1>5, <1>7 DEF IInv

LEMMA OpLoadKeeps ==
  ASSUME IInv, OneLabel, OpLoad
  PROVE  /\ IInv' /\ AtStart
         /\ AtStart' \/ \E k : k = Control!Landing(1) /\ AtStatement(k)'
<1>1. /\ phase = "run" /\ Executing /\ source \in Programs /\ Placed /\ Built(Last)
      /\ next = Last + 1 /\ Len(values) \in Nat \ {0}
      /\ UNCHANGED <<source, values, place, chunk, stream, next, phase>>
      /\ UNCHANGED compiled
  BY RunIs DEF OpLoad, Executes, compiled
<1>2. PICK j \in 1 .. Len(values) : AtValue(j)
  <2>1. ASSUME NEW i \in 1 .. Last + 1, AtStatement(i)
        PROVE  FALSE
    <3>1. /\ At(pc) = (IF i = Last + 1 THEN Halt ELSE chunk[i])
          /\ i # Last + 1 => chunk[i].op \in {"jmp", "je", "print"}
      BY <1>1, <2>1, AtStatementReads DEF AtStatement
    <3>2. QED
      BY <3>1 DEF OpLoad, Executes, Halt
  <2>2. QED
    BY <1>1, <2>1 DEF Executing
<1>3. At(pc) = Load(StaticOffset + j - 1, Final(j)) /\ AtStart /\ Past = ValueAt(j + 1)
  BY <1>1, <1>2, AtValueReads DEF AtValue
<1>4. At(pc).id = StaticOffset + j - 1 /\ At(pc).value = Final(j)
  BY <1>3 DEF Load
<1>5. static' = [static EXCEPT ![StaticOffset + j - 1] = Final(j)] /\ pc' = ValueAt(j + 1)
  BY <1>3, <1>4 DEF OpLoad
<1>6. /\ DOMAIN static' = DOMAIN static
      /\ \A i \in 1 .. j : static'[StaticOffset + i - 1] = Final(i)
  <2>1. DOMAIN static = StaticOffset .. StaticOffset + Len(values) - 1
    BY <1>1 DEF Executing
  <2>2. StaticOffset + j - 1 \in DOMAIN static
    BY <1>1, <2>1, OffsetAssumption
  <2>3. static'[StaticOffset + j - 1] = Final(j)
    BY <1>5, <2>2
  <2>4. ASSUME NEW i \in 1 .. j - 1
        PROVE  static'[StaticOffset + i - 1] = Final(i)
    <3>1. StaticOffset + i - 1 # StaticOffset + j - 1 /\ StaticOffset + i - 1 \in DOMAIN static
      BY <1>1, <2>1, OffsetAssumption
    <3>2. static[StaticOffset + i - 1] = Final(i)
      BY <1>2 DEF AtValue, Loaded
    <3>3. QED
      BY <1>5, <3>1, <3>2
  <2>5. \A i \in 1 .. j : i = j \/ i \in 1 .. j - 1
    OBVIOUS
  <2>6. QED
    BY <1>5, <2>3, <2>4, <2>5
<1>7. CASE j = Len(values)
  <2>1. pc' = StatementAt(1) /\ 1 \in 1 .. Last + 1
    BY <1>1, <1>5, <1>7, RunIs, ValuesLaid, StatementsLaid DEF Placed
  <2>2. \E k : k = Control!Landing(1) /\ AtStatement(k)' /\ IInv'
    BY <1>1, <1>6, <1>7, <2>1, LandsKeeps
  <2>3. QED
    BY <1>3, <2>2
<1>8. CASE j # Len(values)
  <2>1. j + 1 \in 1 .. Len(values) /\ (j + 1) - 1 = j
    BY <1>1, <1>8
  <2>2. /\ Built(Last)' /\ Placed' /\ \A i : ValueAt(i)' = ValueAt(i)
        /\ \A i : StatementAt(i)' = StatementAt(i)
        /\ Last' = Last /\ \A i : Declares(i)' = Declares(i)
        /\ \A i : Final(i)' = Final(i) /\ Body' = Body
    BY <1>1, LayoutKept DEF Declared
  <2>3. Loaded((j + 1) - 1)'
    BY <1>6, <2>1, <2>2 DEF Loaded
  <2>4. AtValue(j + 1)'
    BY <1>1, <1>5, <2>1, <2>2, <2>3 DEF AtValue
  <2>5. Written'
    BY <1>1, <2>2 DEF Executing, Written
  <2>6. Executing'
    BY <1>1, <1>6, <2>1, <2>2, <2>4, <2>5 DEF Executing
  <2>7. AtStart'
    <3>1. \A l, m \in 1 .. Len(values) + 1 : l < m =>
            ValueAt(l) + Size(Load(StaticOffset, values[l])) <= ValueAt(m)
      BY <1>1, ValuesLaid DEF Placed
    <3>2. j + 1 \in 1 .. Len(values) + 1 /\ Len(values) + 1 \in 1 .. Len(values) + 1
          /\ j + 1 < Len(values) + 1
      BY <1>1, <2>1
    <3>3. ValueAt(j + 1) \in Nat /\ Body \in Nat /\ Body = ValueAt(Len(values) + 1)
      BY <1>1, <3>2, ValuesLaid DEF Placed
    <3>4. Size(Load(StaticOffset, values[j + 1])) \in Nat \ {0}
      BY <1>1, <2>1, LoadsFit, SizeIs, OffsetAssumption
    <3>5. ValueAt(j + 1) + Size(Load(StaticOffset, values[j + 1])) <= Body
      BY <3>1, <3>2, <3>3
    <3>6. ValueAt(j + 1) < Body
      BY <3>3, <3>4, <3>5
    <3>7. QED
      BY <1>5, <2>2, <3>6 DEF AtStart
  <2>8. QED
    BY <1>1, <1>3, <2>2, <2>6, <2>7 DEF IInv
<1>9. QED
  BY <1>7, <1>8

(* From statement to statement, as Flow says.                              *)
LEMMA OpKeeps ==
  ASSUME IInv, OneLabel, OpPrint \/ OpJmp \/ OpJe
  PROVE  \E i \in 1 .. Last : \E k :
           /\ AtStatement(i) /\ AtStatement(k)' /\ IInv'
           /\ \/ /\ source[i].stmt \in {"print", "je"}
                 /\ k = Control!Landing(i + 1)
              \/ /\ source[i].stmt \in {"jmp", "je"}
                 /\ k = Control!Landing(Control!Declaration(source[i].arg))
<1>1. /\ phase = "run" /\ Executing /\ source \in Programs /\ Placed /\ Built(Last)
      /\ UNCHANGED <<compiled, phase, next, static>>
      /\ At(pc).op \in {"print", "jmp", "je"}
  BY RunIs DEF OpPrint, OpJmp, OpJe, Executes
<1>2. PICK i \in 1 .. Last + 1 : AtStatement(i)
  <2>1. ASSUME NEW j \in 1 .. Len(values), AtValue(j)
        PROVE  FALSE
    <3>1. At(pc) = Load(StaticOffset + j - 1, Final(j))
      BY <1>1, <2>1, AtValueReads DEF AtValue
    <3>2. QED
      BY <1>1, <3>1 DEF Load
  <2>2. QED
    BY <1>1, <2>1 DEF Executing
<1>3. /\ i \in 1 .. Last /\ i + 1 \in 1 .. Last + 1 /\ Past = StatementAt(i + 1)
      /\ At(pc) = chunk[i] /\ chunk[i].op = source[i].stmt
      /\ chunk[i].id = Id(source[i].arg) /\ source[i].stmt \in {"jmp", "je", "print"}
  <2>1. /\ At(pc) = (IF i = Last + 1 THEN Halt ELSE chunk[i])
        /\ i # Last + 1 =>
              /\ i \in 1 .. Last /\ i + 1 \in 1 .. Last + 1 /\ Past = StatementAt(i + 1)
              /\ chunk[i].op = source[i].stmt /\ chunk[i].id = Id(source[i].arg)
              /\ source[i].stmt \in {"jmp", "je", "print"}
    BY <1>1, <1>2, AtStatementReads DEF AtStatement
  <2>2. i # Last + 1
    BY <1>1, <2>1 DEF Halt
  <2>3. QED
    BY <2>1, <2>2
<1>4. \A j \in 1 .. Len(values) : static'[StaticOffset + j - 1] = Final(j)
  BY <1>1, <1>2 DEF AtStatement, Loaded
<1>5. \A d \in 1 .. Last + 1 : pc' = StatementAt(d) =>
        \E k : k = Control!Landing(d) /\ AtStatement(k)' /\ IInv'
  BY <1>1, <1>4, LandsKeeps
<1>6. CASE pc' = Past /\ (OpPrint \/ OpJe)
  <2>1. source[i].stmt \in {"print", "je"}
    BY <1>3, <1>6 DEF OpPrint, OpJe, Executes
  <2>2. PICK k : k = Control!Landing(i + 1) /\ AtStatement(k)' /\ IInv'
    BY <1>3, <1>5, <1>6
  <2>3. QED
    BY <1>2, <1>3, <2>1, <2>2
<1>7. CASE Seek /\ (OpJmp \/ OpJe)
  <2> DEFINE x == source[i].arg
             d == Control!Declaration(x)
  <2>1. source[i].stmt \in {"jmp", "je"}
    BY <1>3, <1>7 DEF OpJmp, OpJe, Executes
  <2>2. x \in DOMAIN place \cap Label
    BY <1>1, <1>3, <2>1, ProgramIs DEF Built
  <2>3. d \in 1 .. Last + 1 /\ static[Id(x)] = StatementAt(d) /\ static[Id(x)] # Null
    <3>1. Loaded(Len(values)) /\ \A e \in 1 .. Last : e \in 1 .. Last + 1
      BY <1>1, <1>2, RunIs DEF AtStatement
    <3>2. QED
      BY <1>1, <2>2, <3>1, TargetIs
  <2>4. pc' = StatementAt(d)
    BY <1>3, <1>7, <2>3 DEF Seek
  <2>5. PICK k : k = Control!Landing(d) /\ AtStatement(k)' /\ IInv'
    BY <1>5, <2>3, <2>4
  <2>6. QED
    BY <1>2, <1>3, <2>1, <2>5
<1>8. QED
  BY <1>6, <1>7 DEF OpPrint, OpJmp, OpJe

LEMMA StutterKeeps ==
  ASSUME IInv, UNCHANGED vars
  PROVE  IInv'
<1>1. UNCHANGED <<source, phase, next, values, place, chunk, stream, offsetMap, static, pc>>
  BY DEF vars
<1>2. /\ Placed' /\ \A n : Built(n) => Built(n)'
      /\ \A j : ValueAt(j)' = ValueAt(j) /\ StatementAt(j)' = StatementAt(j)
      /\ Last' = Last /\ \A j : Declares(j)' = Declares(j) /\ Stop(j)' = Stop(j)
      /\ \A j : Final(j)' = Final(j)
  BY <1>1, LayoutKept DEF Declared, IInv
<1>3. Visiting => Visiting'
  BY <1>1, <1>2 DEF Visiting, LabelsPlaced
<1>4. Building => Building'
  BY <1>1, <1>2 DEF Building, LabelsPlaced
<1>5. Storing => Storing'
  BY <1>1, <1>2 DEF Storing
<1>6. Written => Written'
  BY <1>1, <1>2 DEF Written
<1>7. OffsetsZero => OffsetsZero'
  BY <1>1 DEF OffsetsZero, OffsetOf, Id
<1>8. Emitting => Emitting'
  BY <1>1, <1>2, <1>6, <1>7 DEF Emitting
<1>9. /\ \A n : Loaded(n) => Loaded(n)'
      /\ \A j : AtValue(j) => AtValue(j)'
      /\ \A i : AtStatement(i) => AtStatement(i)'
  BY <1>1, <1>2 DEF Loaded, AtValue, AtStatement
<1>10. Executing => Executing'
  BY <1>1, <1>2, <1>6, <1>9 DEF Executing
<1>11. QED
  BY <1>1, <1>2, <1>3, <1>4, <1>5, <1>8, <1>10 DEF IInv

LEMMA Inductive ==
  ASSUME OneLabel, FewValues
  PROVE  Spec => []IInv
<1>1. Init => IInv
  BY InitIInv
<1>2. IInv /\ [Next]_vars => IInv'
  BY VisitKeeps, BuildKeeps, EmitValueKeeps, EmitOpKeeps, EmitHaltKeeps, OpLoadKeeps,
     OpKeeps, StutterKeeps DEF Next, OpHalt
<1>3. QED
  BY <1>1, <1>2, PTL DEF Spec

-----------------------------------------------------------------------------
(* The results.                                                            *)

(* Whatever the program jumps to, the interpreter (interpreter.c) meets    *)
(* whole instructions: the one label has not written over a part of one.   *)
THEOREM InstructionsWhole ==
  ASSUME OneLabel, FewValues
  PROVE  Spec => []Decodes
<1>1. IInv => Decodes
  <2> SUFFICES ASSUME IInv, phase = "run"
               PROVE  Whole(pc)
    BY DEF Decodes
  <2>1. Executing
    BY RunIs
  <2>2. CASE \E j \in 1 .. Len(values) : AtValue(j)
    BY <2>2, AtValueReads DEF AtValue
  <2>3. CASE \E i \in 1 .. Last + 1 : AtStatement(i)
    BY <2>3, AtStatementReads DEF AtStatement
  <2>4. QED
    BY <2>1, <2>2, <2>3 DEF Executing
<1>2. QED
  BY <1>1, Inductive, PTL

(* The label, when it looks itself up in m_labelOffsetMap                  *)
(* (label_marker.cpp), finds where its own load begins.                    *)
THEOREM LabelsFindLoads ==
  ASSUME OneLabel, FewValues
  PROVE  Spec => []OffsetsByLabel
<1>1. IInv => OffsetsByLabel
  <2> SUFFICES ASSUME IInv, phase = "emit", NEW l \in DOMAIN place \cap Label
               PROVE  OffsetOf(Id(l)) = ValueAt(place[l] + 1)
    BY DEF OffsetsByLabel
  <2>1. Emitting /\ Placed
    BY DEF IInv, Visiting, Building, Storing, Executing
  <2>2. place[l] = 0 /\ OffsetOf(Id(l)) = 0
    BY <2>1 DEF Placed, Emitting, OffsetsZero
  <2>3. ValueAt(1) = 0
    BY <2>1, ValuesLaid DEF Placed
  <2>4. QED
    BY <2>2, <2>3
<1>2. QED
  BY <1>1, Inductive, PTL

(* From the first statement on, the slot of the label holds the address of *)
(* the statement after it, and each string's slot the string.              *)
THEOREM StaticLoaded ==
  ASSUME OneLabel, FewValues
  PROVE  Spec => []StaticMeant
<1>1. IInv => StaticMeant
  <2> SUFFICES ASSUME IInv, phase = "run", pc >= Body, NEW x \in DOMAIN place
               PROVE  static[Id(x)] =
                        IF x \in Label
                          THEN StatementAt(CHOOSE i \in DOMAIN source :
                                             source[i] = [stmt |-> "label", arg |-> x])
                          ELSE x
    BY DEF StaticMeant
  <2>1. Loaded(Len(values)) /\ Placed /\ source \in Programs
    <3>1. ASSUME NEW j \in 1 .. Len(values), AtValue(j)
          PROVE  FALSE
      <4>1. AtStart
        BY <3>1, AtValueReads DEF AtValue
      <4>2. Body \in Nat /\ pc \in Nat
        <5>1. j \in 1 .. Len(values) + 1
          BY RunIs
        <5>2. QED
          BY <3>1, <5>1, RunIs, ValuesLaid DEF Placed, AtValue
      <4>3. QED
        BY <4>1, <4>2 DEF AtStart
    <3>2. QED
      BY <3>1, RunIs DEF Executing, AtStatement
  <2>2. CASE x \in Label
    <3>1. /\ Control!Declaration(x) \in DOMAIN source
          /\ source[Control!Declaration(x)] = [stmt |-> "label", arg |-> x]
          /\ \A d \in DOMAIN source :
               source[d] = [stmt |-> "label", arg |-> x] => d = Control!Declaration(x)
          /\ static[Id(x)] = StatementAt(Control!Declaration(x))
      BY <2>1, <2>2, TargetIs, ProgramIs
    <3>2. (CHOOSE i \in DOMAIN source : source[i] = [stmt |-> "label", arg |-> x])
            = Control!Declaration(x)
      BY <3>1
    <3>3. QED
      BY <2>2, <3>1, <3>2
  <2>3. CASE x \notin Label
    <3> DEFINE j == place[x] + 1
    <3>1. j \in 1 .. Len(values) /\ place[x] \in Nat
      BY <2>1, RunIs DEF Placed
    <3>2. StaticOffset + j - 1 = Id(x)
      BY <3>1, OffsetAssumption DEF Id
    <3>3. static[Id(x)] = Final(j)
      BY <2>1, <3>1, <3>2 DEF Loaded
    <3>4. values[j] = x
      BY <2>1, <2>3 DEF Placed
    <3>5. ~(j = 1 /\ Declared)
      <4> SUFFICES ASSUME j = 1, NEW d \in 1 .. next - 1, Declares(d)
                   PROVE  FALSE
        BY DEF Declared
      <4>1. d \in 1 .. Last
        BY RunIs
      <4>2. source[d].arg \in DOMAIN place \cap Label
        BY <4>1, RunIs, ProgramIs DEF Built, Declares
      <4>3. place[source[d].arg] = place[x]
        BY <2>1, <3>1, <4>2 DEF Placed
      <4>4. QED
        BY <2>1, <2>3, <4>2, <4>3 DEF Placed
    <3> HIDE DEF j
    <3>6. QED
      BY <2>3, <3>3, <3>4, <3>5 DEF Final
  <2>4. QED
    BY <2>2, <2>3
<1>2. QED
  BY <1>1, Inductive, PTL

-----------------------------------------------------------------------------
(* The refinement: the statement about to be executed.                     *)
Spot ==
  IF ~ AtStart
    THEN IF Here = {} THEN 0 ELSE CHOOSE i \in Here : TRUE
    ELSE CHOOSE i \in 1 .. Len(source) + 1 :
           /\ i <= Len(source) => source[i].stmt # "label"
           /\ \A j \in 1 .. i - 1 : source[j].stmt = "label"

Spots ==
  /\ AtStart => Spot = Control!Landing(1)
  /\ phase = "run" => \A i \in 1 .. Last + 1 : AtStatement(i) => Spot = i
  /\ phase = "run" /\ pc = 0 => AtStart

LEMMA SpotIs ==
  ASSUME OneLabel, IInv
  PROVE  Spots
<1>1. source \in Programs /\ Last \in Nat \ {0} /\ Last = Len(source)
  BY ProgramIs DEF IInv, Last
<1>2. ASSUME AtStart
      PROVE  Spot = Control!Landing(1)
  <2> DEFINE P(j) == /\ j = Len(source) + 1 \/ source[j].stmt # "label"
                     /\ \A k \in 1 .. j - 1 : source[k].stmt = "label"
             Q(j) == /\ j <= Len(source) => source[j].stmt # "label"
                     /\ \A k \in 1 .. j - 1 : source[k].stmt = "label"
  <2>1. Control!Landing(1) = CHOOSE j \in 1 .. Len(source) + 1 : P(j)
    BY DEF Control!Landing
  <2>2. Spot = CHOOSE j \in 1 .. Len(source) + 1 : Q(j)
    BY <1>2 DEF Spot
  <2>3. \A j \in 1 .. Len(source) + 1 : P(j) <=> Q(j)
    <3>1. \A j \in 1 .. Len(source) + 1 : j = Len(source) + 1 <=> ~(j <= Len(source))
      BY <1>1
    <3>2. QED
      BY <3>1
  <2> HIDE DEF P, Q
  <2>4. QED
    BY <2>1, <2>2, <2>3
<1>3. ASSUME phase = "run", NEW i \in 1 .. Last + 1, AtStatement(i)
      PROVE  Spot = i
  <2>1. ~ AtStart
    BY <1>3, AtStatementReads DEF AtStatement
  <2>2. \A k \in 1 .. Len(source) + 1 :
          k \in Here <=> StatementAt(k) = StatementAt(i) /\ Stop(k)
    BY <1>1, <1>3 DEF Here, AtStatement, Stop, Declares
  <2>3. i \in Here
    BY <1>1, <1>3, <2>2 DEF AtStatement
  <2>4. \A k \in Here : k = i
    <3>1. \A k \in Here : k \in 1 .. Last + 1
      BY <1>1 DEF Here
    <3>2. QED
      BY <1>1, <1>3, <2>2, <3>1, RunIs, StatementsApart DEF AtStatement
  <2>5. QED
    BY <2>1, <2>3, <2>4 DEF Spot
<1>4. ASSUME phase = "run", pc = 0
      PROVE  AtStart
  <2>1. 1 \in 1 .. Len(values)
    BY <1>4, RunIs
  <2>2. ValueAt(1) = 0
    BY <1>4, RunIs, ValuesLaid DEF Placed
  <2>3. QED
    BY <1>4, <2>1, <2>2, AtValueReads
<1>5. QED
  BY <1>2, <1>3, <1>4 DEF Spots

(* The bytecode implements Flow: nothing that the passes, the loads of     *)
(* static data or the jumps by static slots do passes control otherwise    *)
(* than the program says.                                                  *)
THEOREM FlowImplemented ==
  ASSUME OneLabel, FewValues
  PROVE  Spec => FlowKept
<1>1. Init => Control!Begin
  <2> SUFFICES ASSUME Init PROVE Control!Begin
    OBVIOUS
  <2>1. IInv /\ AtStart
    BY InitIInv DEF Init, AtStart
  <2>2. Spot = Control!Landing(1)
    BY <2>1, SpotIs DEF Spots
  <2>3. QED
    BY <2>2 DEF Control!Begin, Spot
<1>2. IInv /\ Spots /\ Spots' /\ [Next]_vars => [Control!Step]_<<source, Spot>>
  <2> SUFFICES ASSUME IInv, Spots, Spots', [Next]_vars
               PROVE  [Control!Step]_<<source, Spot>>
    OBVIOUS
  <2>1. source' = source
    BY DEF Next, Visit, Build, EmitValue, EmitOp, EmitHalt, OpLoad, OpPrint, OpJmp, OpJe,
           OpHalt, compiled, vars
  <2>2. Last' = Last /\ \A i : Control!Landing(i)' = Control!Landing(i)
    BY <2>1 DEF Last, Control!Landing
  <2>3. CASE AtStart /\ AtStart'
    BY <2>1, <2>2, <2>3 DEF Spots
  <2>4. CASE OpLoad
    <3>1. AtStart /\ (AtStart' \/ \E k : k = Control!Landing(1) /\ AtStatement(k)')
      BY <2>4, OpLoadKeeps
    <3>2. phase' = "run"
      BY <2>4 DEF OpLoad, Executes
    <3>3. ASSUME NEW k, k = Control!Landing(1), AtStatement(k)'
          PROVE  Spot' = Spot
      BY <2>2, <3>1, <3>2, <3>3 DEF Spots, AtStatement
    <3>4. QED
      BY <2>1, <2>3, <3>1, <3>3
  <2>5. CASE OpPrint \/ OpJmp \/ OpJe
    <3>1. phase = "run" /\ phase' = "run"
      BY <2>5 DEF OpPrint, OpJmp, OpJe, Executes
    <3> DEFINE Moves(i, k) ==
          /\ AtStatement(i) /\ AtStatement(k)'
          /\ \/ /\ source[i].stmt \in {"print", "je"}
                /\ k = Control!Landing(i + 1)
             \/ /\ source[i].stmt \in {"jmp", "je"}
                /\ k = Control!Landing(Control!Declaration(source[i].arg))
    <3>0. PICK i \in 1 .. Last : \E k : Moves(i, k)
      BY <2>5, OpKeeps
    <3>2. PICK k : Moves(i, k)
      BY <3>0
    <3>3. i \in 1 .. Last + 1 /\ i \in DOMAIN source
      BY <3>2, ProgramIs DEF IInv
    <3>4. Spot = i /\ Spot' = k
      BY <3>1, <3>2, <3>3 DEF Spots, AtStatement
    <3>5. Control!Step
      BY <2>1, <3>2, <3>3, <3>4 DEF Control!Step, Control!Forward, Control!Jump, Spot
    <3>6. QED
      BY <3>5
  <2>6. CASE OpHalt \/ UNCHANGED vars
    <3>1. UNCHANGED vars
      BY <2>6 DEF OpHalt
    <3>2. UNCHANGED <<source, chunk, values, phase, pc>>
      BY <3>1 DEF vars
    <3>3. Spot' = Spot
      BY <3>2, LayoutKept DEF Spot, AtStart, Here, Body, ValueAt, StatementAt
    <3>4. QED
      BY <2>1, <3>3
  <2>7. CASE Visit \/ Build \/ EmitValue \/ EmitOp \/ EmitHalt
    <3>1. AtStart
      BY <2>7 DEF Visit, Build, EmitValue, EmitOp, EmitHalt, AtStart
    <3>2. AtStart'
      <4>1. CASE EmitHalt
        <5>1. phase' = "run" /\ pc' = 0
          BY <4>1 DEF EmitHalt, IInv, Visiting, Building, Storing, Emitting, Executing
        <5>2. QED
          BY <5>1 DEF Spots
      <4>2. CASE ~ EmitHalt
        <5>1. phase' # "run"
          BY <2>7, <4>2 DEF Visit, Build, EmitValue, EmitOp, Advance
        <5>2. QED
          BY <5>1 DEF AtStart
      <4>3. QED
        BY <4>1, <4>2
    <3>3. QED
      BY <2>3, <3>1, <3>2
  <2>8. QED
    BY <2>4, <2>5, <2>6, <2>7 DEF Next
<1>3. IInv => Spots
  BY SpotIs
<1>4. QED
  BY <1>1, <1>2, <1>3, Inductive, PTL DEF Spec, FlowKept, Control!Spec, Spot
=============================================================================
