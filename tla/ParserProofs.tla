---------------------------- MODULE ParserProofs ----------------------------
(***************************************************************************)
(* What the reader promises, for every set of files: messages name the     *)
(* right line, a line is a statement, nothing is dropped in silence,       *)
(* braces match and the parser resumes at the beginning of a line.         *)
(*                                                                         *)
(* The first part is about the lexer: what each reader leaves is Sound,    *)
(* and a turn of its loop keeps the tokens in step with the lines.  The    *)
(* second is about the parser, the third about the units it opens.         *)
(***************************************************************************)
EXTENDS Parser, Induction, SequenceTheorems, FunctionTheorems

(* The first place from p on that is in S.                                 *)
LEMMA FirstPlace ==
  ASSUME NEW p \in Nat, NEW n \in Nat, NEW S \in SUBSET (p .. n), S # {}
  PROVE  \E q \in S : \A i \in p .. q - 1 : i \notin S
<1>1. S \in SUBSET Nat
  OBVIOUS
<1>2. PICK q \in S : \A i \in S : q <= i
  BY <1>1, LeastNatural
<1>3. QED
  BY <1>2

-----------------------------------------------------------------------------
(* Texts and the ends of lines in them.                                    *)
OneLine(t) == \A i \in DOMAIN t : t[i] # Newline

LEMMA PastIs ==
  ASSUME text \in Seq(Alphabet), NEW p \in 1 .. Size + 1, NEW C
  PROVE  /\ Past(p, C) \in p .. Size + 1
         /\ Past(p, C) <= Size => text[Past(p, C)] \notin C
         /\ \A i \in p .. Past(p, C) - 1 : text[i] \in C
<1> DEFINE n == Size + 1
           S == {q \in p .. n : q <= Size => text[q] \notin C}
<1>1. Size \in Nat
  BY DEF Size
<1>2. n \in S
  BY <1>1
<1>3. PICK q \in S : \A i \in p .. q - 1 : i \notin S
  <2> HIDE DEF S
  <2>1. S \in SUBSET (p .. n) /\ p \in Nat /\ n \in Nat
    BY <1>1 DEF S
  <2>2. QED
    BY <1>2, <2>1, FirstPlace
<1>4. q \in p .. Size + 1 /\ (HasNext(q) => text[q] \notin C)
      /\ \A i \in p .. q - 1 : text[i] \in C
  BY <1>1, <1>3 DEF HasNext
<1>5. QED
  BY <1>1, <1>4 DEF Past, HasNext

LEMMA UntilIs ==
  ASSUME text \in Seq(Alphabet), NEW p \in 1 .. Size + 1, NEW C
  PROVE  /\ Until(p, C) \in p .. Size + 1
         /\ Until(p, C) <= Size => text[Until(p, C)] \in C
         /\ \A i \in p .. Until(p, C) - 1 : text[i] \notin C
<1> DEFINE n == Size + 1
           S == {q \in p .. n : q <= Size => text[q] \in C}
<1>1. Size \in Nat
  BY DEF Size
<1>2. n \in S
  BY <1>1
<1>3. PICK q \in S : \A i \in p .. q - 1 : i \notin S
  <2> HIDE DEF S
  <2>1. S \in SUBSET (p .. n) /\ p \in Nat /\ n \in Nat
    BY <1>1 DEF S
  <2>2. QED
    BY <1>2, <2>1, FirstPlace
<1>4. q \in p .. Size + 1 /\ (HasNext(q) => text[q] \in C)
      /\ \A i \in p .. q - 1 : text[i] \notin C
  BY <1>1, <1>3 DEF HasNext
<1>5. QED
  BY <1>1, <1>4 DEF Until, HasNext

(* The ends of lines between two places are finitely many, and those of    *)
(* adjacent stretches add up.                                              *)
LEMMA NewlinesSplit ==
  ASSUME NEW p \in Nat, NEW q \in Nat, NEW r \in Nat, p <= q, q <= r
  PROVE  /\ Newlines(p, q) \in Nat
         /\ Newlines(p, r) = Newlines(p, q) + Newlines(q, r)
<1> DEFINE A == {i \in p .. q - 1 : text[i] = Newline}
           B == {i \in q .. r - 1 : text[i] = Newline}
           C == {i \in p .. r - 1 : text[i] = Newline}
<1>1. IsFiniteSet(A) /\ IsFiniteSet(B)
  <2>1. IsFiniteSet(p .. q - 1) /\ IsFiniteSet(q .. r - 1)
    BY FS_Interval
  <2>2. A \in SUBSET (p .. q - 1) /\ B \in SUBSET (q .. r - 1)
    OBVIOUS
  <2>3. QED
    BY <2>1, <2>2, FS_Subset
<1>2. C = A \cup B /\ A \cap B = {}
  OBVIOUS
<1>3. Newlines(p, q) = Cardinality(A) /\ Newlines(q, r) = Cardinality(B)
      /\ Newlines(p, r) = Cardinality(C)
  BY DEF Newlines
<1> HIDE DEF A, B, C
<1>4. Cardinality(A) \in Nat /\ Cardinality(B) \in Nat
  BY <1>1, FS_CardinalityType
<1>5. Cardinality(A \cup B) = Cardinality(A) + Cardinality(B) - Cardinality(A \cap B)
  BY <1>1, FS_Union
<1>6. Cardinality(A \cap B) = 0
  BY <1>2, FS_EmptySet
<1>7. QED
  BY <1>2, <1>3, <1>4, <1>5, <1>6

LEMMA NewlinesNone ==
  ASSUME NEW p, NEW q, \A i \in p .. q - 1 : text[i] # Newline
  PROVE  Newlines(p, q) = 0
<1>1. {i \in p .. q - 1 : text[i] = Newline} = {}
  OBVIOUS
<1>2. QED
  BY <1>1, FS_EmptySet DEF Newlines

LEMMA NewlinesSome ==
  ASSUME NEW p \in Nat, NEW q \in Nat, NEW i \in p .. q - 1, text[i] = Newline
  PROVE  Newlines(p, q) > 0
<1> DEFINE A == {j \in p .. q - 1 : text[j] = Newline}
<1>1. IsFiniteSet(A)
  <2>1. IsFiniteSet(p .. q - 1)
    BY FS_Interval
  <2>2. QED
    BY <2>1, FS_Subset
<1>2. i \in A /\ Newlines(p, q) = Cardinality(A)
  BY DEF Newlines
<1> HIDE DEF A
<1>3. Cardinality(A) \in Nat /\ Cardinality(A) # 0
  BY <1>1, <1>2, FS_CardinalityType, FS_EmptySet
<1>4. QED
  BY <1>2, <1>3

(* A stretch with one end of a line, its last character.                   *)
LEMMA NewlinesLast ==
  ASSUME NEW p \in Nat, NEW q \in Nat, p <= q, text[q] = Newline,
         \A i \in p .. q - 1 : text[i] # Newline
  PROVE  Newlines(p, q + 1) = 1
<1>1. {i \in p .. (q + 1) - 1 : text[i] = Newline} = {q}
  OBVIOUS
<1>2. QED
  BY <1>1, FS_Singleton DEF Newlines
-----------------------------------------------------------------------------
(* What a reader that begins at pos may leave.                             *)
Classes ==
  Punctuation \cup {"string", "integer", "float", "newline", "directive", "label",
                    "ident", "data", "interpolation"}

Braces(v, b) == {i \in DOMAIN v : v[i] = b}

Balanced(v) == Cardinality(Braces(v, LeftBrace)) = Cardinality(Braces(v, RightBrace))

Sound(t) ==
  /\ t.class \in Classes \cup {"empty"} /\ t.value \in Seq(Alphabet)
  /\ t.to \in pos .. Size + 1 /\ t.lines \in Nat /\ t.error \in BOOLEAN
  /\ ~Swallows => t.lines = Newlines(pos, t.to)
  /\ t.class = "empty" \/ t.lines > 0 => t.error
  /\ t.lines > 0 => ~OneLine(text)
  /\ t.class = "newline" => t.to > Size \/ text[t.to] = Newline
  /\ t.class = "interpolation" => OneLine(t.value) /\ Balanced(t.value)
  /\ Peek(pos) = LeftBrace => t.class = LeftBrace
  /\ Peek(pos) = "." =>
       t.class = "empty" \/ (t.class = "float" /\ t.value[1] = ".")

(* The lexer stands on a character that is no space.                       *)
Standing ==
  /\ text \in Seq(Alphabet) /\ pos \in 1 .. Size + 1
  /\ HasNext(pos) => text[pos] \notin Space

LEMMA SliceIs ==
  ASSUME text \in Seq(Alphabet), NEW p \in 1 .. Size + 1, NEW q \in 1 .. Size + 1
  PROVE  /\ Slice(p, q) \in Seq(Alphabet)
         /\ Len(Slice(p, q)) = IF p < q THEN q - p ELSE 0
         /\ \A i \in 1 .. q - p : Slice(p, q)[i] = text[p + i - 1]
<1>1. Size \in Nat /\ p \in Int /\ q - 1 \in Int
  BY DEF Size
<1>2. \A i \in p .. q - 1 : text[i] \in Alphabet
  BY <1>1 DEF Size
<1>3. /\ SubSeq(text, p, q - 1) \in Seq(Alphabet)
      /\ Len(SubSeq(text, p, q - 1)) = IF p <= q - 1 THEN (q - 1) - p + 1 ELSE 0
      /\ \A i \in 1 .. (q - 1) - p + 1 : SubSeq(text, p, q - 1)[i] = text[p + i - 1]
  BY <1>1, <1>2, SubSeqProperties
<1>4. (q - 1) - p + 1 = q - p /\ (p <= q - 1 <=> p < q)
  BY <1>1
<1>5. QED
  BY <1>3, <1>4 DEF Slice

(* A token of one line, neither a comment nor an interpolation.            *)
LEMMA PlainSound ==
  ASSUME Standing, NEW class \in Classes \ {"newline", "interpolation"},
         NEW value \in Seq(Alphabet), NEW to \in pos .. Size + 1,
         ~Swallows => \A i \in pos .. to - 1 : text[i] # Newline,
         Peek(pos) \notin {LeftBrace, "."}
  PROVE  Sound(Plain(class, value, to))
<1>1. ~Swallows => Newlines(pos, to) = 0
  BY NewlinesNone
<1>2. class \notin {"empty", "newline", "interpolation"} /\ class \in Classes
  BY DEF Classes, Punctuation, Comma, LeftBrace, RightBrace
<1>3. QED
  BY <1>1, <1>2 DEF Sound, Plain, Scan

(* An escaped character stands behind a backslash, and the last place of   *)
(* a text and the one after it are not both escaped.                       *)
LEMMA EscapedIs ==
  ASSUME text \in Seq(Alphabet), NEW p \in 1 .. Size
  PROVE  /\ Escaped(p) \in SUBSET (p + 1 .. Size + 1)
         /\ p + 1 \notin Escaped(p)
         /\ \A i \in p + 2 .. Size + 1 :
              i \in Escaped(p) <=> text[i - 1] = "\\" /\ i - 1 \notin Escaped(p)
<1> DEFINE n == Size - p
           E(m) == {S \in SUBSET (p + 1 .. p + 1 + m) :
                      /\ p + 1 \notin S
                      /\ \A i \in p + 2 .. p + 1 + m :
                           i \in S <=> text[i - 1] = "\\" /\ i - 1 \notin S}
           D == p + 1 .. Size + 1
           F(esc) == [i \in D |-> i > p + 1 /\ text[i - 1] = "\\" /\ ~esc[i - 1]]
<1>1. Size \in Nat /\ n \in Nat
  BY DEF Size
<1>2. Nat \subseteq {m \in Nat : E(m) # {}}
  <2> DEFINE M == {m \in Nat : E(m) # {}}
  <2>1. 0 \in M
    <3>1. {} \in E(0)
      BY <1>1
    <3>2. QED
      BY <3>1
  <2>2. \A m \in Nat : m \in M => m + 1 \in M
    <3> TAKE m \in Nat
    <3> HAVE m \in M
    <3>1. PICK S : S \in E(m)
      OBVIOUS
    <3> DEFINE l == p + 2 + m
               T == IF text[l - 1] = "\\" /\ l - 1 \notin S THEN S \cup {l} ELSE S
    <3>2. l \notin S /\ S \in SUBSET (p + 1 .. p + 1 + m)
      BY <1>1, <3>1
    <3>3. \A i \in p + 1 .. p + 1 + m : i \in T <=> i \in S
      BY <1>1, <3>2
    <3>4. T \in SUBSET (p + 1 .. p + 1 + (m + 1))
      BY <1>1, <3>2
    <3>5. l \in T <=> text[l - 1] = "\\" /\ l - 1 \notin T
      <4>1. l - 1 \in p + 1 .. p + 1 + m
        BY <1>1
      <4>2. QED
        BY <3>2, <3>3, <4>1
    <3> HIDE DEF T
    <3>6. \A i \in p + 2 .. p + 1 + (m + 1) :
            i \in T <=> text[i - 1] = "\\" /\ i - 1 \notin T
      <4> SUFFICES ASSUME NEW i \in p + 2 .. p + 1 + (m + 1)
                   PROVE  i \in T <=> text[i - 1] = "\\" /\ i - 1 \notin T
        OBVIOUS
      <4>1. CASE i = l
        BY <3>5, <4>1
      <4>2. CASE i # l
        <5>1. i \in p + 2 .. p + 1 + m /\ i \in p + 1 .. p + 1 + m
              /\ i - 1 \in p + 1 .. p + 1 + m
          BY <1>1, <4>2
        <5>2. QED
          BY <3>1, <3>3, <5>1
      <4>3. QED
        BY <4>1, <4>2
    <3>7. p + 1 \notin T
      BY <1>1, <3>1, <3>3
    <3>8. T \in E(m + 1)
      BY <3>4, <3>6, <3>7
    <3> HIDE DEF E
    <3>9. QED
      BY <3>8
  <2> HIDE DEF M
  <2>3. QED
    BY <2>1, <2>2, SetInduction DEF M
<1>3. PICK S \in E(n) : TRUE
  BY <1>1, <1>2
<1>4. /\ S \in SUBSET D /\ p + 1 \notin S
      /\ \A i \in p + 2 .. Size + 1 : i \in S <=> text[i - 1] = "\\" /\ i - 1 \notin S
  BY <1>1, <1>3
<1> HIDE DEF E
<1> DEFINE f == [i \in D |-> IF i \in S THEN TRUE ELSE FALSE]
<1>5. \A i \in D : (i \in S) <=> (i > p + 1 /\ text[i - 1] = "\\" /\ ~(i - 1 \in S))
  BY <1>1, <1>4
<1>6. \A i \in D : i > p + 1 => i - 1 \in D
  BY <1>1
<1>7. f = F(f)
  <2>1. \A i \in D : i > p + 1 => (f[i - 1] <=> i - 1 \in S)
    BY <1>6
  <2>2. \A i \in D : f[i] = F(f)[i]
    <3> SUFFICES ASSUME NEW i \in D PROVE f[i] = F(f)[i]
      OBVIOUS
    <3>1. f[i] = IF i \in S THEN TRUE ELSE FALSE
      OBVIOUS
    <3>2. F(f)[i] = (i > p + 1 /\ text[i - 1] = "\\" /\ ~f[i - 1])
      BY Zenon
    <3>3. (i \in S) <=> (i > p + 1 /\ text[i - 1] = "\\" /\ ~(i - 1 \in S))
      BY <1>5
    <3>4. i > p + 1 => (f[i - 1] <=> i - 1 \in S)
      BY <2>1
    <3>5. (i \in S) <=> (i > p + 1 /\ text[i - 1] = "\\" /\ ~f[i - 1])
      BY <3>3, <3>4
    <3> HIDE DEF f, F, D
    <3>6. CASE i \in S
      <4>1. f[i] = TRUE
        BY <3>1, <3>6
      <4>2. F(f)[i] = TRUE
        BY <3>2, <3>5, <3>6
      <4>3. QED
        BY <4>1, <4>2
    <3>7. CASE i \notin S
      <4>1. f[i] = FALSE
        BY <3>1, <3>7
      <4>2. F(f)[i] = FALSE
        BY <3>2, <3>5, <3>7
      <4>3. QED
        BY <4>1, <4>2
    <3>8. QED
      BY <3>6, <3>7
  <2>3. QED
    BY <2>2, Zenon
<1>8. ASSUME NEW g, g = F(g)
      PROVE  \A i \in D : g[i] <=> i \in S
  <2> DEFINE M == {m \in Nat : m <= n => (g[p + 1 + m] <=> p + 1 + m \in S)}
  <2>1. \A i \in D : g[i] = (i > p + 1 /\ text[i - 1] = "\\" /\ ~g[i - 1])
    BY <1>8, Zenon
  <2>2. \A i \in D : g[i] <=> (i > p + 1 /\ text[i - 1] = "\\" /\ ~g[i - 1])
    BY <2>1, Zenon
  <2>3. 0 \in M
    <3>1. p + 1 \in D /\ ~(p + 1 > p + 1) /\ p + 1 + 0 = p + 1
      BY <1>1
    <3>2. ~g[p + 1]
      BY <2>2, <3>1
    <3>3. QED
      BY <3>1, <3>2, <1>4
  <2>4. \A m \in Nat : m \in M => m + 1 \in M
    <3> SUFFICES ASSUME NEW m \in Nat, m \in M, m + 1 <= n
                 PROVE  g[p + 1 + (m + 1)] <=> p + 1 + (m + 1) \in S
      OBVIOUS
    <3> DEFINE i == p + 1 + (m + 1)
    <3>1. i \in D /\ i > p + 1 /\ i - 1 = p + 1 + m /\ m <= n
      BY <1>1
    <3>2. g[i - 1] <=> i - 1 \in S
      BY <3>1
    <3> HIDE DEF i
    <3>3. g[i] <=> i \in S
      BY <2>2, <3>1, <3>2, <1>5
    <3>4. QED
      BY <3>3 DEF i
  <2> HIDE DEF M
  <2>5. Nat \subseteq M
    BY <2>3, <2>4, SetInduction
  <2>6. ASSUME NEW i \in D
        PROVE  g[i] <=> i \in S
    <3>1. i - (p + 1) \in Nat /\ i - (p + 1) <= n /\ p + 1 + (i - (p + 1)) = i
      BY <1>1
    <3>2. QED
      BY <2>5, <3>1 DEF M
  <2>7. QED
    BY <2>6
<1> HIDE DEF f
<1>9. Escaped(p) = S
  <2> DEFINE g == CHOOSE esc : esc = F(esc)
  <2>1. g = F(g)
    BY <1>7
  <2>2. \A i \in D : g[i] <=> i \in S
    BY <2>1, <1>8
  <2>3. Escaped(p) = {i \in D : g[i]}
    BY DEF Escaped
  <2> HIDE DEF g
  <2>4. {i \in D : g[i]} = {i \in D : i \in S}
    BY <2>2, Zenon
  <2>5. {i \in D : i \in S} = S
    BY <1>4
  <2>6. QED
    BY <2>3, <2>4, <2>5
<1>10. QED
  BY <1>4, <1>9
-----------------------------------------------------------------------------
(* The readers, one by one.                                                *)
LEMMA Marks ==
  /\ \A c \in {Blank, DoubleQuote, Comma, LeftBrace, RightBrace} :
       c \notin {Newline, Nul, ".", "@", "#", "$", "/", "0", "\\", "x", "(", ")", "[", "]",
                 "'", "empty", "newline", "interpolation", "string", "integer", "float",
                 "directive", "label", "ident", "data"}
  /\ LeftBrace \notin {Blank, DoubleQuote, Comma, RightBrace}
  /\ RightBrace \notin {Blank, DoubleQuote, Comma}
  BY Zenon DEF Blank, DoubleQuote, Comma, LeftBrace, RightBrace, Newline, Nul

LEMMA Here ==
  ASSUME Standing, Reading
  PROVE  /\ pos \in 1 .. Size /\ Size \in Nat /\ Peek(pos) = text[pos]
         /\ text[pos] \notin Space /\ text[pos] # Newline /\ text[pos] # Nul
         /\ \A i \in Nat : Peek(i) # Nul => i <= Size /\ Peek(i) = text[i]
  BY DEF Standing, Reading, HasNext, Peek, Size, Space

LEMMA Unlettered ==
  /\ \A c \in Letters \cup Digits :
       c \notin {Newline, Nul, ".", "@", "#", "$", "/", LeftBrace, RightBrace}
  /\ \A c \in Letters \cup Digits : c \notin Quotes
  BY CharactersAssumption DEF Space, Punctuation

LEMMA StringSound ==
  ASSUME Standing, Reading, IsString(pos)
  PROVE  Sound(StringAt(pos))
<1> DEFINE esc == Escaped(pos)
           Ends1(i) ==
             i \notin esc /\ (Peek(i) \in {text[pos], Newline} \/ i >= Size)
           D == pos + 1 .. Size + 1
           S == {i \in D : Ends1(i)}
<1>1. pos \in 1 .. Size /\ Size \in Nat /\ text \in Seq(Alphabet)
      /\ text[pos] \in Quotes /\ text[pos] \notin {Newline, LeftBrace, "."}
      /\ Peek(pos) = text[pos]
  BY Here, Marks DEF IsString, Quotes, Standing
<1>2. /\ esc \in SUBSET D /\ pos + 1 \notin esc
      /\ \A i \in pos + 2 .. Size + 1 :
           i \in esc <=> text[i - 1] = "\\" /\ i - 1 \notin esc
  BY <1>1, EscapedIs
<1> HIDE DEF esc
<1>3. S # {}
  <2>1. CASE pos = Size
    <3>1. pos + 1 \in S
      BY <1>1, <1>2, <2>1
    <3>2. QED
      BY <3>1
  <2>2. CASE pos < Size /\ Size \notin esc
    <3>1. Size \in S
      BY <1>1, <2>2
    <3>2. QED
      BY <3>1
  <2>3. CASE pos < Size /\ Size \in esc
    <3>1. Size + 1 \notin esc
      <4>1. Size + 1 \in pos + 2 .. Size + 1 /\ (Size + 1) - 1 = Size
        BY <1>1, <2>3
      <4>2. QED
        BY <1>2, <2>3, <4>1
    <3>2. Size + 1 \in S
      BY <1>1, <3>1
    <3>3. QED
      BY <3>2
  <2>4. QED
    BY <1>1, <2>1, <2>2, <2>3
<1>4. \E end \in D : Ends1(end) /\ \A j \in pos + 1 .. end - 1 : ~Ends1(j)
  <2> DEFINE P(i) == Ends1(i)
  <2>1. PICK end \in S : \A i \in pos + 1 .. end - 1 : i \notin S
    <3>1. S \in SUBSET (pos + 1 .. Size + 1) /\ pos + 1 \in Nat /\ Size + 1 \in Nat
      BY <1>1
    <3> HIDE DEF S
    <3>2. QED
      BY <1>3, <3>1, FirstPlace
  <2>2. \A i \in pos + 1 .. end - 1 : i \in D
    BY <1>1, <2>1
  <2>3. end \in D /\ Ends1(end)
    BY <2>1
  <2> HIDE DEF Ends1, D
  <2>4. \A i \in pos + 1 .. end - 1 : ~Ends1(i)
    BY <2>1, <2>2
  <2>5. QED
    BY <2>3, <2>4
<1>5. PICK end \in D :
        /\ Ends1(end) /\ \A j \in pos + 1 .. end - 1 : ~Ends1(j)
        /\ StringAt(pos) =
             Scan("string", Slice(pos + 1, end), IF HasNext(end) THEN end + 1 ELSE end,
                  IF Peek(end) = Newline THEN 1 ELSE 0,
                  ~(Peek(end) = text[pos])
                    \/ \E i \in esc : i < end /\ text[i] \notin Escapes)
  <2> DEFINE e == CHOOSE i \in D : Ends1(i) /\ \A j \in pos + 1 .. i - 1 : ~Ends1(j)
  <2>1. e \in D /\ Ends1(e) /\ \A j \in pos + 1 .. e - 1 : ~Ends1(j)
    BY <1>4
  <2>2. QED
    BY <2>1 DEF StringAt, esc
<1> DEFINE to == IF HasNext(end) THEN end + 1 ELSE end
<1>6. ASSUME ~Swallows, NEW i \in pos .. end - 1
      PROVE  text[i] # Newline
  <2>1. CASE i = pos
    BY <1>1, <2>1
  <2>2. CASE i # pos
    <3>1. i \in pos + 1 .. end - 1 /\ i \in 1 .. Size
      BY <1>1, <1>5, <2>2
    <3>2. i \in esc \/ Peek(i) # Newline
      BY <1>5, <3>1
    <3>3. Peek(i) = text[i]
      BY <3>1 DEF Peek, HasNext
    <3>4. ASSUME i \in esc PROVE text[i - 1] = "\\" /\ i \in 2 .. Size
      <4>1. i \in pos + 2 .. Size + 1
        BY <1>1, <1>2, <3>1, <3>4
      <4>2. QED
        BY <1>1, <1>2, <3>1, <3>4, <4>1
    <3>5. QED
      BY <1>6, <3>2, <3>3, <3>4 DEF Swallows
  <2>3. QED
    BY <2>1, <2>2
<1>7. to \in pos .. Size + 1 /\ end \in 1 .. Size + 1 /\ pos + 1 \in 1 .. Size + 1
  BY <1>1, <1>5 DEF HasNext
<1>8. Peek(end) = Newline <=> (HasNext(end) /\ text[end] = Newline)
  BY DEF Peek, Nul, Newline
<1>9. ~Swallows => Newlines(pos, to) = IF Peek(end) = Newline THEN 1 ELSE 0
  <2> SUFFICES ASSUME ~Swallows
               PROVE  Newlines(pos, to) = IF Peek(end) = Newline THEN 1 ELSE 0
    OBVIOUS
  <2>1. CASE Peek(end) = Newline
    <3>1. pos \in Nat /\ end \in Nat /\ pos <= end /\ to = end + 1 /\ text[end] = Newline
      BY <1>1, <1>5, <1>8, <2>1
    <3>2. QED
      BY <1>6, <2>1, <3>1, NewlinesLast
  <2>2. CASE Peek(end) # Newline
    <3>1. \A i \in pos .. to - 1 : text[i] # Newline
      BY <1>1, <1>5, <1>6, <1>8, <2>2 DEF HasNext
    <3>2. QED
      BY <2>2, <3>1, NewlinesNone
  <2>3. QED
    BY <2>1, <2>2
<1>10. Slice(pos + 1, end) \in Seq(Alphabet)
  BY <1>1, <1>7, SliceIs
<1>11. Peek(end) = Newline => ~OneLine(text) /\ ~(Peek(end) = text[pos])
  <2>1. HasNext(end) => end \in DOMAIN text
    BY <1>1, <1>5, <1>7 DEF HasNext, Size
  <2>2. QED
    BY <1>1, <1>8, <2>1 DEF OneLine
<1>12. "string" \in Classes /\ "string" \notin {"empty", "newline", "interpolation"}
  BY DEF Classes
<1> HIDE DEF to
<1> DEFINE t == StringAt(pos)
<1>13. t.class = "string" /\ t.value = Slice(pos + 1, end) /\ t.to = to
       /\ t.lines = (IF Peek(end) = Newline THEN 1 ELSE 0)
  BY <1>5 DEF Scan, to
<1> DEFINE error == ~(Peek(end) = text[pos])
                      \/ \E i \in esc : i < end /\ text[i] \notin Escapes
<1>14. t.error \in BOOLEAN /\ (Peek(end) = Newline => t.error)
  <2>1. error \in BOOLEAN /\ (Peek(end) = Newline => error)
    BY <1>11, Zenon
  <2> HIDE DEF error
  <2>2. t.error = error
    BY <1>5 DEF Scan, error
  <2>3. QED
    BY <2>1, <2>2
<1> HIDE DEF t
<1>15. Sound(t)
  BY <1>1, <1>7, <1>9, <1>10, <1>11, <1>12, <1>13, <1>14 DEF Sound
<1>16. QED
  BY <1>15 DEF t

LEMMA HexSound ==
  ASSUME Standing, Reading, IsHex(pos)
  PROVE  Sound(HexAt(pos))
<1> DEFINE to == IF HasNext(pos + 2) THEN Past(pos + 3, Digits \cup HexLetters)
                 ELSE pos + 2
<1>1. pos \in 1 .. Size /\ Size \in Nat /\ text \in Seq(Alphabet)
      /\ Peek(pos) = "0" /\ text[pos] = "0" /\ pos + 1 <= Size /\ text[pos + 1] = "x"
  BY Here DEF IsHex, Nul, Standing
<1>2. to \in pos .. Size + 1
      /\ \A i \in pos + 3 .. to - 1 : text[i] \in Digits \cup HexLetters
  <2>1. CASE HasNext(pos + 2)
    <3>1. pos + 3 \in 1 .. Size + 1
      BY <1>1, <2>1 DEF HasNext
    <3>2. QED
      BY <1>1, <2>1, <3>1, PastIs
  <2>2. CASE ~HasNext(pos + 2)
    BY <1>1, <2>2
  <2>3. QED
    BY <2>1, <2>2
<1> HIDE DEF to
<1>3. ASSUME ~Swallows, NEW i \in pos .. to - 1
      PROVE  text[i] # Newline
  <2>1. CASE i \in {pos, pos + 1}
    BY <1>1, <2>1 DEF Newline
  <2>2. CASE i = pos + 2
    <3>1. i \in 2 .. Size /\ text[i - 1] = "x"
      BY <1>1, <1>2, <2>2
    <3>2. QED
      BY <1>3, <3>1 DEF Swallows
  <2>3. CASE i >= pos + 3
    <3>1. text[i] \in Letters \cup Digits
      BY <1>1, <1>2, <2>3, LettersAssumption
    <3>2. QED
      BY <3>1, Unlettered
  <2>4. QED
    BY <1>1, <1>2, <2>1, <2>2, <2>3
<1>4. Slice(pos, to) \in Seq(Alphabet)
  BY <1>1, <1>2, SliceIs
<1>5. Peek(pos) \notin {LeftBrace, "."}
  BY <1>1, Marks
<1>6. "integer" \in Classes \ {"newline", "interpolation"}
  BY DEF Classes
<1>7. Sound(Plain("integer", Slice(pos, to), to))
  BY <1>2, <1>3, <1>4, <1>5, <1>6, PlainSound
<1>8. QED
  BY <1>7 DEF HexAt, to

LEMMA NumberSound ==
  ASSUME Standing, Reading, IsNumber(pos)
  PROVE  Sound(NumberAt(pos))
<1> DEFINE point == Past(pos, Digits)
           to == Past(point + 1, Digits)
<1>1. pos \in 1 .. Size /\ Size \in Nat /\ text \in Seq(Alphabet) /\ Peek(pos) = text[pos]
      /\ (text[pos] \in Digits \/ text[pos] = ".")
  BY Here DEF IsNumber, Standing
<1>2. /\ point \in pos .. Size + 1
      /\ \A i \in pos .. point - 1 : text[i] \in Digits
      /\ text[pos] = "." => point = pos
  <2>1. /\ point \in pos .. Size + 1
        /\ \A i \in pos .. point - 1 : text[i] \in Digits
    BY <1>1, PastIs
  <2>2. text[pos] = "." => point = pos
    BY <1>1, <2>1, Unlettered
  <2>3. QED
    BY <2>1, <2>2
<1>3. "." \notin Digits /\ "." # Nul /\ Newline \notin Digits /\ "." # Newline
      /\ LeftBrace \notin Digits \cup {"."}
  BY Unlettered, Marks DEF Nul, Newline
<1>4. CASE Peek(point) = "." /\ (point = pos \/ Peek(point + 1) \notin Letters)
  <2>1. point \in pos .. Size /\ text[point] = "."
    BY <1>1, <1>2, <1>3, <1>4 DEF Peek, HasNext
  <2>2. /\ to \in point + 1 .. Size + 1
        /\ \A i \in point + 1 .. to - 1 : text[i] \in Digits
    <3>1. point + 1 \in 1 .. Size + 1
      BY <1>1, <2>1
    <3>2. QED
      BY <1>1, <3>1, PastIs
  <2> HIDE DEF point, to
  <2>3. \A i \in pos .. to - 1 : text[i] # Newline
    BY <1>1, <1>2, <1>3, <2>1, <2>2
  <2>4. to \in pos .. Size + 1
    BY <1>1, <2>1, <2>2
  <2>5. Slice(pos, to) \in Seq(Alphabet) /\ Slice(pos, to)[1] = text[pos]
    <3>1. pos \in 1 .. Size + 1 /\ to \in 1 .. Size + 1 /\ 1 \in 1 .. to - pos
          /\ pos + 1 - 1 = pos
      BY <1>1, <2>1, <2>2, <2>4
    <3>2. QED
      BY <1>1, <3>1, SliceIs
  <2>6. Newlines(pos, to) = 0
    BY <2>3, NewlinesNone
  <2>7. NumberAt(pos) = Plain("float", Slice(pos, to), to)
    BY <1>4 DEF NumberAt, point, to
  <2> DEFINE t == NumberAt(pos)
  <2>8. t.class = "float" /\ t.value = Slice(pos, to) /\ t.to = to
        /\ t.lines = 0 /\ t.error \in BOOLEAN
    BY <2>7 DEF Plain, Scan
  <2>9. "float" \in Classes \ {"newline", "interpolation", "empty"}
    BY DEF Classes
  <2>10. Peek(pos) # LeftBrace
    BY <1>1, <1>3
  <2> HIDE DEF t
  <2>11. Sound(t)
    BY <1>1, <2>4, <2>5, <2>6, <2>8, <2>9, <2>10 DEF Sound
  <2>12. QED
    BY <2>11 DEF t
<1>5. CASE ~(Peek(point) = "." /\ (point = pos \/ Peek(point + 1) \notin Letters))
  <2>1. text[pos] # "."
    <3>1. ASSUME text[pos] = "." PROVE FALSE
      BY <1>1, <1>2, <1>5, <3>1
    <3>2. QED
      BY <3>1
  <2>2. Peek(pos) \notin {LeftBrace, "."}
    BY <1>1, <1>3, <2>1
  <2>3. NumberAt(pos) = Plain("integer", Slice(pos, point), point)
    BY <1>5 DEF NumberAt
  <2> HIDE DEF point, to
  <2>4. \A i \in pos .. point - 1 : text[i] # Newline
    BY <1>2, <1>3
  <2>5. Slice(pos, point) \in Seq(Alphabet)
    <3>1. pos \in 1 .. Size + 1 /\ point \in 1 .. Size + 1
      BY <1>1, <1>2
    <3>2. QED
      BY <1>1, <3>1, SliceIs
  <2>6. "integer" \in Classes \ {"newline", "interpolation"}
    BY DEF Classes
  <2>7. Sound(Plain("integer", Slice(pos, point), point))
    BY <1>2, <2>2, <2>4, <2>5, <2>6, PlainSound
  <2>8. QED
    BY <2>3, <2>7
<1>6. QED
  BY <1>4, <1>5

LEMMA CommentSound ==
  ASSUME Standing, Reading, IsComment(pos)
  PROVE  Sound(CommentAt(pos))
<1> DEFINE to == Until(pos + 2, {Newline})
<1>1. pos \in 1 .. Size /\ Size \in Nat /\ text \in Seq(Alphabet)
      /\ Peek(pos) = "/" /\ text[pos] = "/" /\ pos + 1 <= Size /\ text[pos + 1] = "/"
  BY Here DEF IsComment, Nul, Standing
<1>2. /\ to \in pos + 2 .. Size + 1
      /\ to <= Size => text[to] = Newline
      /\ \A i \in pos + 2 .. to - 1 : text[i] # Newline
  <2>1. pos + 2 \in 1 .. Size + 1
    BY <1>1
  <2>2. QED
    BY <1>1, <2>1, UntilIs
<1>3. CommentAt(pos) = Plain("newline", << >>, to)
  BY DEF CommentAt
<1> HIDE DEF to
<1>4. \A i \in pos .. to - 1 : text[i] # Newline
  <2> SUFFICES ASSUME NEW i \in pos .. to - 1 PROVE text[i] # Newline
    OBVIOUS
  <2>1. CASE i \in {pos, pos + 1}
    BY <1>1, <2>1 DEF Newline
  <2>2. CASE i >= pos + 2
    BY <1>1, <1>2, <2>2
  <2>3. QED
    BY <1>1, <2>1, <2>2
<1>5. Newlines(pos, to) = 0 /\ to \in pos .. Size + 1
  BY <1>1, <1>2, <1>4, NewlinesNone
<1> DEFINE t == CommentAt(pos)
<1>6. t.class = "newline" /\ t.value = << >> /\ t.to = to /\ t.lines = 0
      /\ t.error \in BOOLEAN
  BY <1>3 DEF Plain, Scan
<1>7. "newline" \in Classes /\ << >> \in Seq(Alphabet) /\ Peek(pos) \notin {LeftBrace, "."}
  BY <1>1, Marks DEF Classes
<1> HIDE DEF t
<1>8. Sound(t)
  BY <1>1, <1>2, <1>5, <1>6, <1>7 DEF Sound
<1>9. QED
  BY <1>8 DEF t

(* readIdentifier stays in the line, from wherever it begins.              *)
LEMMA IdentifierIs ==
  ASSUME text \in Seq(Alphabet), NEW p \in 1 .. Size + 1
  PROVE  \E to \in p .. Size + 1, class \in {"ident", "label"}, value \in Seq(Alphabet) :
           /\ IdentifierAt(p) = Plain(class, value, to)
           /\ \A i \in p .. to - 1 : text[i] \in Letters \cup Digits \cup {":"}
<1> DEFINE to == Past(p, Letters \cup Digits \cup {":"})
<1>1. /\ Size \in Nat /\ to \in p .. Size + 1
      /\ \A i \in p .. to - 1 : text[i] \in Letters \cup Digits \cup {":"}
  BY PastIs DEF Size
<1> HIDE DEF to
<1>2. CASE to > p /\ text[to - 1] = ":"
  <2>1. IdentifierAt(p) = Plain("label", Slice(p, to - 1), to)
    BY <1>2 DEF IdentifierAt, to
  <2>2. Slice(p, to - 1) \in Seq(Alphabet)
    <3>1. p \in 1 .. Size + 1 /\ to - 1 \in 1 .. Size + 1
      BY <1>1, <1>2
    <3>2. QED
      BY <3>1, SliceIs
  <2>3. QED
    BY <1>1, <2>1, <2>2
<1>3. CASE ~(to > p /\ text[to - 1] = ":")
  <2>1. IdentifierAt(p) = Plain("ident", Slice(p, to), to)
    BY <1>3 DEF IdentifierAt, to
  <2>2. Slice(p, to) \in Seq(Alphabet)
    <3>1. p \in 1 .. Size + 1 /\ to \in 1 .. Size + 1
      BY <1>1
    <3>2. QED
      BY <3>1, SliceIs
  <2>3. QED
    BY <1>1, <2>1, <2>2
<1>4. QED
  BY <1>2, <1>3

LEMMA DirectiveSound ==
  ASSUME Standing, Reading, Peek(pos) = "@"
  PROVE  Sound(DirectiveAt(pos))
<1> DEFINE to == Past(pos + 1, Letters \cup Digits)
<1>1. pos \in 1 .. Size /\ Size \in Nat /\ text \in Seq(Alphabet) /\ text[pos] = "@"
  BY Here DEF Standing
<1>2. /\ to \in pos + 1 .. Size + 1
      /\ \A i \in pos + 1 .. to - 1 : text[i] \in Letters \cup Digits
  <2>1. pos + 1 \in 1 .. Size + 1
    BY <1>1
  <2>2. QED
    BY <1>1, <2>1, PastIs
<1>3. DirectiveAt(pos) = Plain("directive", Slice(pos + 1, to), to)
  BY DEF DirectiveAt
<1> HIDE DEF to
<1>4. \A i \in pos .. to - 1 : text[i] # Newline
  <2> SUFFICES ASSUME NEW i \in pos .. to - 1 PROVE text[i] # Newline
    OBVIOUS
  <2>1. CASE i = pos
    BY <1>1, <2>1 DEF Newline
  <2>2. CASE i # pos
    BY <1>1, <1>2, <2>2, Unlettered
  <2>3. QED
    BY <2>1, <2>2
<1>5. Slice(pos + 1, to) \in Seq(Alphabet) /\ to \in pos .. Size + 1
  <2>1. pos + 1 \in 1 .. Size + 1 /\ to \in 1 .. Size + 1 /\ to \in pos .. Size + 1
    BY <1>1, <1>2
  <2>2. QED
    BY <1>1, <2>1, SliceIs
<1>6. "directive" \in Classes \ {"newline", "interpolation"} /\ Peek(pos) \notin {LeftBrace, "."}
  BY Marks DEF Classes
<1>7. QED
  BY <1>3, <1>4, <1>5, <1>6, PlainSound

LEMMA IdentifierSound ==
  ASSUME Standing, Reading, Peek(pos) \in Letters
  PROVE  Sound(IdentifierAt(pos))
<1>1. pos \in 1 .. Size + 1 /\ text \in Seq(Alphabet)
  BY DEF Standing
<1>2. PICK to \in pos .. Size + 1, class \in {"ident", "label"}, value \in Seq(Alphabet) :
        /\ IdentifierAt(pos) = Plain(class, value, to)
        /\ \A i \in pos .. to - 1 : text[i] \in Letters \cup Digits \cup {":"}
  BY <1>1, IdentifierIs
<1>3. \A i \in pos .. to - 1 : text[i] # Newline
  BY <1>2, Unlettered DEF Newline
<1>4. Peek(pos) \notin {LeftBrace, "."}
  BY Unlettered
<1>5. class \in Classes \ {"newline", "interpolation"}
  BY DEF Classes
<1>6. QED
  BY <1>2, <1>3, <1>4, <1>5, PlainSound

LEMMA DataLocationSound ==
  ASSUME Standing, Reading, Peek(pos) = "$"
  PROVE  Sound(DataLocationAt(pos))
<1>1. pos \in 1 .. Size /\ pos + 1 \in 1 .. Size + 1 /\ Size \in Nat
      /\ text \in Seq(Alphabet) /\ text[pos] = "$"
  BY Here DEF Standing
<1>2. PICK to \in pos + 1 .. Size + 1, class \in {"ident", "label"},
           value \in Seq(Alphabet) :
        /\ IdentifierAt(pos + 1) = Plain(class, value, to)
        /\ \A i \in pos + 1 .. to - 1 : text[i] \in Letters \cup Digits \cup {":"}
  BY <1>1, IdentifierIs
<1> DEFINE name == IdentifierAt(pos + 1)
           offset == Past(to + 1, Digits \cup {"-", "+"})
<1>3. name.to = to /\ name.value = value
  BY <1>2 DEF Plain, Scan
<1>4. \A i \in pos .. to - 1 : text[i] # Newline
  <2> SUFFICES ASSUME NEW i \in pos .. to - 1 PROVE text[i] # Newline
    OBVIOUS
  <2>1. CASE i = pos
    BY <1>1, <2>1 DEF Newline
  <2>2. CASE i # pos
    <3>1. i \in pos + 1 .. to - 1
      BY <1>1, <2>2
    <3>2. text[i] \in Letters \cup Digits \cup {":"}
      BY <1>2, <3>1
    <3>3. QED
      BY <3>2, Unlettered DEF Newline
  <2>3. QED
    BY <2>1, <2>2
<1>5. "data" \in Classes \ {"newline", "interpolation", "empty"}
      /\ Peek(pos) \notin {LeftBrace, "."} /\ to \in pos .. Size + 1
  BY <1>1, Marks DEF Classes
<1> HIDE DEF name
<1>6. CASE Peek(to) # "["
  <2>1. DataLocationAt(pos) = Plain("data", value, to)
    BY <1>3, <1>6 DEF DataLocationAt, name
  <2>2. QED
    BY <1>4, <1>5, <2>1, PlainSound
<1>7. CASE Peek(to) = "["
  <2>1. to \in pos + 1 .. Size /\ text[to] = "["
    BY <1>1, <1>2, <1>7 DEF Peek, HasNext, Nul
  <2>2. /\ offset \in to + 1 .. Size + 1
        /\ \A i \in to + 1 .. offset - 1 : text[i] \in Digits \cup {"-", "+"}
    <3>1. to + 1 \in 1 .. Size + 1
      BY <1>1, <2>1
    <3>2. QED
      BY <1>1, <3>1, PastIs
  <2>3. DataLocationAt(pos) =
          IF Expected(offset, "]")
            THEN Plain("data", value \o Slice(to, offset + 1), offset + 1)
            ELSE Scan("data", value \o Slice(to, offset), offset, 0, TRUE)
    BY <1>3, <1>7 DEF DataLocationAt, name
  <2> HIDE DEF offset
  <2>4. \A i \in pos .. offset - 1 : text[i] # Newline
    <3> SUFFICES ASSUME NEW i \in pos .. offset - 1 PROVE text[i] # Newline
      OBVIOUS
    <3>1. CASE i < to
      BY <1>1, <1>4, <2>1, <3>1
    <3>2. CASE i = to
      BY <2>1, <3>2 DEF Newline
    <3>3. CASE i > to
      <4>1. text[i] \in Digits \cup {"-", "+"}
        BY <1>1, <2>1, <2>2, <3>3
      <4>2. QED
        BY <4>1, Unlettered DEF Newline
    <3>4. QED
      BY <1>1, <2>1, <3>1, <3>2, <3>3
  <2>5. CASE Expected(offset, "]")
    <3>1. offset <= Size /\ text[offset] = "]"
      BY <2>5 DEF Expected, HasNext, Peek
    <3>2. \A i \in pos .. (offset + 1) - 1 : text[i] # Newline
      <4> SUFFICES ASSUME NEW i \in pos .. (offset + 1) - 1 PROVE text[i] # Newline
        OBVIOUS
      <4>1. CASE i = offset
        BY <3>1, <4>1 DEF Newline
      <4>2. CASE i # offset
        BY <1>1, <2>1, <2>2, <2>4, <4>2
      <4>3. QED
        BY <4>1, <4>2
    <3>3. to \in 1 .. Size + 1 /\ offset + 1 \in 1 .. Size + 1
          /\ offset + 1 \in pos .. Size + 1
      BY <1>1, <2>1, <2>2, <3>1
    <3>4. Slice(to, offset + 1) \in Seq(Alphabet)
      BY <1>1, <3>3, SliceIs
    <3>5. value \o Slice(to, offset + 1) \in Seq(Alphabet)
      BY <3>4, ConcatProperties
    <3>6. QED
      BY <1>5, <2>3, <2>5, <3>2, <3>3, <3>5, PlainSound
  <2>6. CASE ~Expected(offset, "]")
    <3>1. to \in 1 .. Size + 1 /\ offset \in 1 .. Size + 1 /\ offset \in pos .. Size + 1
      BY <1>1, <2>1, <2>2
    <3>2. Slice(to, offset) \in Seq(Alphabet)
      BY <1>1, <3>1, SliceIs
    <3>3. value \o Slice(to, offset) \in Seq(Alphabet)
      BY <3>2, ConcatProperties
    <3>4. Newlines(pos, offset) = 0
      BY <2>4, NewlinesNone
    <3> DEFINE t == DataLocationAt(pos)
    <3>5. t.class = "data" /\ t.value = value \o Slice(to, offset) /\ t.to = offset
          /\ t.lines = 0 /\ t.error \in BOOLEAN
      BY <2>3, <2>6 DEF Scan
    <3> HIDE DEF t
    <3>6. Sound(t)
      BY <1>5, <3>1, <3>3, <3>4, <3>5 DEF Sound
    <3>7. QED
      BY <3>6 DEF t
  <2>7. QED
    BY <2>5, <2>6
<1>8. QED
  BY <1>6, <1>7

(* The marks of one kind in a slice, at their places in the text.          *)
LEMMA SliceBraces ==
  ASSUME text \in Seq(Alphabet), NEW a \in 1 .. Size + 1, NEW b \in a .. Size + 1, NEW c
  PROVE  /\ IsFiniteSet({i \in a .. b - 1 : text[i] = c})
         /\ Cardinality(Braces(Slice(a, b), c)) = Cardinality({i \in a .. b - 1 : text[i] = c})
<1> DEFINE S == {i \in a .. b - 1 : text[i] = c}
           T == Braces(Slice(a, b), c)
           f == [i \in S |-> i - a + 1]
<1>1. Size \in Nat /\ a \in Nat /\ b \in Nat /\ a <= b
  BY DEF Size
<1>2. IsFiniteSet(S)
  <2>1. IsFiniteSet(a .. b - 1)
    BY <1>1, FS_Interval
  <2>2. QED
    BY <2>1, FS_Subset
<1>3. DOMAIN Slice(a, b) = 1 .. b - a
      /\ \A i \in 1 .. b - a : Slice(a, b)[i] = text[a + i - 1]
  <2>1. b \in 1 .. Size + 1
    BY <1>1
  <2>2. /\ Slice(a, b) \in Seq(Alphabet)
        /\ Len(Slice(a, b)) = IF a < b THEN b - a ELSE 0
        /\ \A i \in 1 .. b - a : Slice(a, b)[i] = text[a + i - 1]
    BY <2>1, SliceIs
  <2>3. QED
    BY <1>1, <2>2
<1>4. T = {i \in 1 .. b - a : text[a + i - 1] = c}
  BY <1>3 DEF Braces
<1> HIDE DEF T
<1>5. f \in [S -> T]
  BY <1>1, <1>4
<1>6. \A i, j \in S : f[i] = f[j] => i = j
  BY <1>1
<1>7. \A j \in T : \E i \in S : f[i] = j
  <2> SUFFICES ASSUME NEW j \in T PROVE \E i \in S : f[i] = j
    OBVIOUS
  <2>1. a + j - 1 \in S /\ f[a + j - 1] = j
    BY <1>1, <1>4
  <2>2. QED
    BY <2>1
<1> HIDE DEF f, S
<1>8. f \in Bijection(S, T)
  <2>1. f \in Injection(S, T)
    BY <1>5, <1>6, Fun_IsInj
  <2>2. f \in Surjection(S, T)
    BY <1>5, <1>7 DEF Surjection
  <2>3. QED
    BY <2>1, <2>2 DEF Bijection
<1>9. Cardinality(T) = Cardinality(S)
  BY <1>2, <1>8, FS_Bijection DEF ExistsBijection
<1>10. QED
  BY <1>2, <1>9 DEF S, T

LEMMA InterpolationSound ==
  ASSUME Standing, Reading, Peek(pos) = "#"
  PROVE  Sound(InterpolationAt(pos))
<1> DEFINE last == Until(pos, {Newline})
           Of(b, q) == {i \in pos + 1 .. q : text[i] = b}
           Count(b, q) == Cardinality(Of(b, q))
           closing == {q \in pos + 2 .. last - 1 :
                         text[q] = RightBrace /\ Count(LeftBrace, q) = Count(RightBrace, q)}
<1>1. pos \in 1 .. Size /\ Size \in Nat /\ text \in Seq(Alphabet) /\ text[pos] = "#"
      /\ "#" # Newline /\ Peek(pos) \notin {LeftBrace, "."}
  BY Here, Marks DEF Standing, Newline
<1>2. /\ last \in pos .. Size + 1
      /\ \A i \in pos .. last - 1 : text[i] # Newline
  BY <1>1, UntilIs
<1>3. "empty" \in Classes \cup {"empty"} /\ << >> \in Seq(Alphabet)
      /\ "empty" \notin {"newline", "interpolation"}
  OBVIOUS
<1> HIDE DEF last
<1>4. CASE ~Expected(pos + 1, LeftBrace)
  <2>1. Newlines(pos, pos + 1) = 0
    <3>1. \A i \in pos .. (pos + 1) - 1 : text[i] # Newline
      BY <1>1
    <3>2. QED
      BY <3>1, NewlinesNone
  <2> DEFINE t == InterpolationAt(pos)
  <2>2. t = Scan("empty", << >>, pos + 1, 0, TRUE)
    BY <1>4 DEF InterpolationAt
  <2>3. t.class = "empty" /\ t.value = << >> /\ t.to = pos + 1 /\ t.lines = 0
    BY <2>2 DEF Scan
  <2>4. t.error \in BOOLEAN /\ t.error
    BY <2>2 DEF Scan
  <2> HIDE DEF t
  <2>5. Sound(t)
    BY <1>1, <1>3, <2>1, <2>3, <2>4 DEF Sound
  <2>6. QED
    BY <2>5 DEF t
<1>5. CASE Expected(pos + 1, LeftBrace) /\ closing = {}
  <2>1. Newlines(pos, last) = 0
    BY <1>2, NewlinesNone
  <2> DEFINE t == InterpolationAt(pos)
  <2>2. t = Scan("empty", << >>, last, 0, TRUE)
    BY <1>5 DEF InterpolationAt, last
  <2>3. t.class = "empty" /\ t.value = << >> /\ t.to = last /\ t.lines = 0
    BY <2>2 DEF Scan
  <2>4. t.error \in BOOLEAN /\ t.error
    BY <2>2 DEF Scan
  <2> HIDE DEF t
  <2>5. Sound(t)
    BY <1>1, <1>2, <1>3, <2>1, <2>3, <2>4 DEF Sound
  <2>6. QED
    BY <2>5 DEF t
<1>6. CASE Expected(pos + 1, LeftBrace) /\ closing # {}
  <2> DEFINE close == CHOOSE q \in closing : \A r \in closing : q <= r
  <2>1. close \in closing
    <3>1. closing \in SUBSET Nat
      BY <1>1
    <3> HIDE DEF closing
    <3>2. \E q \in closing : \A r \in closing : q <= r
      BY <1>6, <3>1, LeastNatural
    <3>3. QED
      BY <3>2
  <2>2. InterpolationAt(pos) =
          Plain("interpolation", Slice(pos + 2, close), close + 1)
    BY <1>6 DEF InterpolationAt, last
  <2> HIDE DEF close
  <2>3. /\ close \in pos + 2 .. last - 1 /\ text[close] = RightBrace
        /\ Count(LeftBrace, close) = Count(RightBrace, close)
    BY <2>1
  <2>4. text[pos + 1] = LeftBrace
    BY <1>6 DEF Expected, HasNext, Peek
  <2>5. /\ pos + 2 \in 1 .. Size + 1 /\ close \in pos + 2 .. Size + 1
        /\ close \in 1 .. Size + 1 /\ close + 1 \in pos .. Size + 1
        /\ close <= Size /\ close \in Nat
    BY <1>1, <1>2, <2>3
  <2> DEFINE v == Slice(pos + 2, close)
             In(b) == {i \in pos + 2 .. close - 1 : text[i] = b}
  <2>6. /\ v \in Seq(Alphabet) /\ DOMAIN v = 1 .. close - (pos + 2)
        /\ \A i \in 1 .. close - (pos + 2) : v[i] = text[pos + 2 + i - 1]
    <3>1. /\ v \in Seq(Alphabet)
          /\ Len(v) = IF pos + 2 < close THEN close - (pos + 2) ELSE 0
          /\ \A i \in 1 .. close - (pos + 2) : v[i] = text[pos + 2 + i - 1]
      BY <1>1, <2>5, SliceIs
    <3> HIDE DEF v
    <3>2. QED
      BY <1>1, <2>3, <3>1
  <2>7. OneLine(v)
    <3> SUFFICES ASSUME NEW i \in 1 .. close - (pos + 2) PROVE v[i] # Newline
      BY <2>6 DEF OneLine
    <3>1. v[i] = text[pos + 2 + i - 1]
      BY <2>6
    <3> DEFINE k == pos + 2 + i - 1
    <3>2. k \in pos .. last - 1
      BY <1>1, <1>2, <2>3
    <3> HIDE DEF k
    <3>3. text[k] # Newline
      BY <1>2, <3>2
    <3>4. QED
      BY <3>1, <3>3 DEF k
  <2>8. Balanced(v)
    <3>1. /\ IsFiniteSet(In(LeftBrace)) /\ IsFiniteSet(In(RightBrace))
          /\ Cardinality(Braces(v, LeftBrace)) = Cardinality(In(LeftBrace))
          /\ Cardinality(Braces(v, RightBrace)) = Cardinality(In(RightBrace))
      <4> DEFINE a == pos + 2
      <4>1. a \in 1 .. Size + 1 /\ close \in a .. Size + 1 /\ text \in Seq(Alphabet)
        BY <1>1, <2>5
      <4> HIDE DEF a
      <4>2. \A c : /\ IsFiniteSet({i \in a .. close - 1 : text[i] = c})
                   /\ Cardinality(Braces(Slice(a, close), c))
                        = Cardinality({i \in a .. close - 1 : text[i] = c})
        BY <4>1, SliceBraces
      <4>3. QED
        BY <4>2 DEF a
    <3>2. LeftBrace # RightBrace
      BY Marks
    <3>3. Of(LeftBrace, close) = In(LeftBrace) \cup {pos + 1}
      BY <1>1, <2>3, <2>4, <2>5, <3>2
    <3>4. Of(RightBrace, close) = In(RightBrace) \cup {close}
      BY <1>1, <2>3, <2>4, <2>5, <3>2
    <3>5. pos + 1 \notin In(LeftBrace) /\ close \notin In(RightBrace)
      BY <1>1, <2>5
    <3> HIDE DEF In, v
    <3>6. Cardinality(In(LeftBrace) \cup {pos + 1}) = Cardinality(In(LeftBrace)) + 1
      BY <3>1, <3>5, FS_AddElement
    <3>7. Cardinality(In(RightBrace) \cup {close}) = Cardinality(In(RightBrace)) + 1
      BY <3>1, <3>5, FS_AddElement
    <3>8. Cardinality(In(LeftBrace)) \in Nat /\ Cardinality(In(RightBrace)) \in Nat
      BY <3>1, FS_CardinalityType
    <3>9. Cardinality(Of(LeftBrace, close)) = Cardinality(Of(RightBrace, close))
      BY <2>3
    <3> HIDE DEF Of
    <3>10. QED
      BY <3>1, <3>3, <3>4, <3>6, <3>7, <3>8, <3>9 DEF Balanced
  <2>9. Newlines(pos, close + 1) = 0
    <3>1. \A i \in pos .. (close + 1) - 1 : text[i] # Newline
      BY <1>1, <1>2, <2>3, <2>5
    <3>2. QED
      BY <3>1, NewlinesNone
  <2> HIDE DEF v
  <2> DEFINE t == InterpolationAt(pos)
  <2>10. t.class = "interpolation" /\ t.value = v /\ t.to = close + 1 /\ t.lines = 0
         /\ t.error \in BOOLEAN
    BY <2>2 DEF Plain, Scan, v
  <2>11. "interpolation" \in Classes \ {"newline", "empty"}
    BY DEF Classes
  <2> HIDE DEF t
  <2>12. Sound(t)
    BY <1>1, <2>5, <2>6, <2>7, <2>8, <2>9, <2>10, <2>11 DEF Sound
  <2>13. QED
    BY <2>12 DEF t
<1>7. QED
  BY <1>4, <1>5, <1>6

LEMMA PunctuationSound ==
  ASSUME Standing, Reading, Peek(pos) \in Punctuation
  PROVE  Sound(Plain(Peek(pos), << >>, pos + 1))
<1>1. pos \in 1 .. Size /\ Size \in Nat /\ text[pos] # Newline
  BY Here
<1>2. Newlines(pos, pos + 1) = 0
  <2>1. \A i \in pos .. (pos + 1) - 1 : text[i] # Newline
    BY <1>1
  <2>2. QED
    BY <2>1, NewlinesNone
<1> DEFINE t == Plain(Peek(pos), << >>, pos + 1)
<1>3. t.class = Peek(pos) /\ t.value = << >> /\ t.to = pos + 1 /\ t.lines = 0
      /\ t.error \in BOOLEAN
  BY DEF Plain, Scan
<1>4. Peek(pos) \in Classes /\ Peek(pos) \notin {"empty", "newline", "interpolation", "."}
  BY Marks DEF Classes, Punctuation
<1>5. << >> \in Seq(Alphabet) /\ pos + 1 \in pos .. Size + 1
  BY <1>1
<1> HIDE DEF t
<1>6. Sound(t)
  BY <1>1, <1>2, <1>3, <1>4, <1>5 DEF Sound
<1>7. QED
  BY <1>6 DEF t

LEMMA UnknownSound ==
  ASSUME Standing, Reading, ~Known(pos)
  PROVE  Sound(Scan("empty", << >>, pos + 1, 0, TRUE))
<1>1. pos \in 1 .. Size /\ Size \in Nat /\ text[pos] # Newline
  BY Here
<1>2. Newlines(pos, pos + 1) = 0
  <2>1. \A i \in pos .. (pos + 1) - 1 : text[i] # Newline
    BY <1>1
  <2>2. QED
    BY <2>1, NewlinesNone
<1> DEFINE t == Scan("empty", << >>, pos + 1, 0, TRUE)
<1>3. t.class = "empty" /\ t.value = << >> /\ t.to = pos + 1 /\ t.lines = 0
  BY DEF Scan
<1>4. t.error \in BOOLEAN /\ t.error
  BY DEF Scan
<1>5. << >> \in Seq(Alphabet) /\ pos + 1 \in pos .. Size + 1
  BY <1>1
<1>6. Peek(pos) # LeftBrace
  BY DEF Known, Punctuation
<1> HIDE DEF t
<1>7. Sound(t)
  <2>1. "empty" \in Classes \cup {"empty"} /\ "empty" \notin {"newline", "interpolation"}
    OBVIOUS
  <2>2. /\ t.class \in Classes \cup {"empty"} /\ t.value \in Seq(Alphabet)
        /\ t.to \in pos .. Size + 1 /\ t.lines \in Nat
    BY <1>3, <1>5, <2>1
  <2>3. ~Swallows => t.lines = Newlines(pos, t.to)
    BY <1>2, <1>3
  <2>4. t.class \notin {"newline", "interpolation"} /\ ~(t.lines > 0)
    BY <1>3, <2>1
  <2>5. t.error \in BOOLEAN /\ t.error /\ Peek(pos) # LeftBrace /\ t.class = "empty"
    BY <1>3, <1>4, <1>6
  <2>6. QED
    BY <2>2, <2>3, <2>4, <2>5 DEF Sound
<1>8. QED
  BY <1>7 DEF t

(* Whatever the lexer reads, it reads it with one of the readers.          *)
LEMMA NextSound ==
  ASSUME Standing, NextToken
  PROVE  Reading /\ \E t : Sound(t) /\ Read(t)
<1>1. CASE ReadString
  BY <1>1, StringSound DEF ReadString
<1>2. CASE ReadHex
  BY <1>2, HexSound DEF ReadHex
<1>3. CASE ReadNumber
  BY <1>3, NumberSound DEF ReadNumber
<1>4. CASE ReadComment
  BY <1>4, CommentSound DEF ReadComment
<1>5. CASE ReadDirective
  BY <1>5, DirectiveSound DEF ReadDirective
<1>6. CASE ReadInterpolation
  BY <1>6, InterpolationSound DEF ReadInterpolation
<1>7. CASE ReadIdentifier
  BY <1>7, IdentifierSound DEF ReadIdentifier
<1>8. CASE ReadDataLocation
  BY <1>8, DataLocationSound DEF ReadDataLocation
<1>9. CASE ReadPunctuation
  BY <1>9, PunctuationSound DEF ReadPunctuation
<1>10. CASE ReadUnknown
  BY <1>10, UnknownSound DEF ReadUnknown
<1>11. QED
  BY <1>1, <1>2, <1>3, <1>4, <1>5, <1>6, <1>7, <1>8, <1>9, <1>10 DEF NextToken

-----------------------------------------------------------------------------
(* Tokens in step with the lines: no line number falls, one after an end   *)
(* of a line is greater, and within a line it stays, unless what stands at *)
(* the beginning of the next line goes on with the last.                   *)
TokenSet == [class : Classes, value : Seq(Alphabet), line : Nat]

Complete(t) ==
  t.class = "interpolation" => OneLine(t.value) /\ Balanced(t.value)

GoesOn(t) == t.class = LeftBrace \/ (t.class = "float" /\ t.value[1] = ".")

Follows(s, t) ==
  /\ s.line <= t.line
  /\ s.class = "newline" => s.line < t.line

InStep(ts) ==
  /\ \A p, q \in DOMAIN ts : p < q => Follows(ts[p], ts[q])
  /\ \A p \in DOMAIN ts : p - 1 \in DOMAIN ts =>
       \/ ts[p].class = "newline" \/ ts[p - 1].class = "newline"
       \/ ts[p].line = ts[p - 1].line \/ GoesOn(ts[p])

LEMMA LinesNatural ==
  ASSUME NEW ts \in Seq(TokenSet), NEW p \in DOMAIN ts
  PROVE  ts[p] \in TokenSet /\ ts[p].line \in Nat
<1>1. ts[p] \in TokenSet
  BY ElementOfSeq, LenProperties
<1>2. QED
  BY <1>1 DEF TokenSet

LEMMA EmptyInStep == InStep(<< >>) /\ << >> \in Seq(TokenSet)
  BY DEF InStep

LEMMA AppendInStep ==
  ASSUME NEW ts \in Seq(TokenSet), InStep(ts), NEW t \in TokenSet,
         \A p \in DOMAIN ts : Follows(ts[p], t),
         ts # << >> =>
           \/ t.class = "newline" \/ ts[Len(ts)].class = "newline"
           \/ t.line = ts[Len(ts)].line \/ GoesOn(t)
  PROVE  InStep(Append(ts, t))
<1> DEFINE us == Append(ts, t)
           n == Len(ts)
<1>1. n \in Nat /\ DOMAIN ts = 1 .. n /\ (ts # << >> <=> n # 0)
  BY EmptySeq
<1>2. DOMAIN us = 1 .. n + 1 /\ us[n + 1] = t /\ \A p \in 1 .. n : us[p] = ts[p]
  BY <1>1, AppendProperties
<1> HIDE DEF us, n
<1>3. ASSUME NEW p \in 1 .. n + 1, NEW q \in 1 .. n + 1, p < q
      PROVE  Follows(us[p], us[q])
  <2>1. CASE q = n + 1
    <3>1. p \in 1 .. n
      BY <1>1, <1>3, <2>1
    <3>2. QED
      BY <1>1, <1>2, <2>1, <3>1
  <2>2. CASE q # n + 1
    <3>1. p \in 1 .. n /\ q \in 1 .. n
      BY <1>1, <1>3, <2>2
    <3>2. QED
      BY <1>1, <1>2, <1>3, <3>1 DEF InStep
  <2>3. QED
    BY <2>1, <2>2
<1>4. ASSUME NEW p \in 1 .. n + 1, p - 1 \in 1 .. n + 1
      PROVE  \/ us[p].class = "newline" \/ us[p - 1].class = "newline"
             \/ us[p].line = us[p - 1].line \/ GoesOn(us[p])
  <2>1. CASE p = n + 1
    <3>1. p - 1 = n /\ n # 0 /\ n \in 1 .. n
      BY <1>1, <1>4, <2>1
    <3>2. us[p - 1] = ts[Len(ts)] /\ us[p] = t /\ ts # << >>
      BY <1>1, <1>2, <2>1, <3>1 DEF n
    <3>3. QED
      BY <3>2
  <2>2. CASE p # n + 1
    <3>1. p \in 1 .. n /\ p - 1 \in 1 .. n
      BY <1>1, <1>4, <2>2
    <3>2. QED
      BY <1>1, <1>2, <3>1 DEF InStep
  <2>3. QED
    BY <2>1, <2>2
<1>5. InStep(us)
  BY <1>2, <1>3, <1>4 DEF InStep
<1>6. QED
  BY <1>5 DEF us

(* The lexer itself, between two turns of its loop.                        *)
LexTyped ==
  /\ line \in Nat /\ tokens \in Seq(TokenSet) /\ failed \in BOOLEAN
  /\ \A p \in DOMAIN tokens : Complete(tokens[p])

Kept(ts) ==
  /\ InStep(ts)
  /\ \A p \in DOMAIN ts :
       /\ ts[p].line <= line
       /\ ts[p].class = "newline" => ts[p].line < line \/ ~Reading
  /\ ts # << >> /\ ts[Len(ts)].class # "newline" =>
       \/ ts[Len(ts)].line = line
       \/ Peek(pos) \in {LeftBrace, "."} /\ ~OneLine(text)

LexKept == ~failed /\ ~Swallows => Kept(tokens)

Lexing ==
  /\ Standing /\ LexTyped /\ LexKept
  /\ unit \in {"file", "interpolation"}
  /\ unit = "interpolation" => OneLine(text)

LEMMA ReadKeeps ==
  ASSUME Lexing, Located, Reading, NEW t, Sound(t), Read(t)
  PROVE  Lexing' /\ Located'
<1> DEFINE next == Past(t.to, Space)
           lines == Newlines(t.to, next)
           tk == Token(t.class, t.value, line)
           nl == Token("newline", << >>, line + t.lines)
<1>1. /\ text \in Seq(Alphabet) /\ Size \in Nat /\ pos \in 1 .. Size + 1
      /\ t.to \in pos .. Size + 1 /\ t.to \in 1 .. Size + 1 /\ t.lines \in Nat
      /\ line \in Nat /\ tokens \in Seq(TokenSet)
  BY DEF Lexing, Standing, LexTyped, Sound, Size
<1>2. /\ next \in t.to .. Size + 1
      /\ next <= Size => text[next] \notin Space
      /\ \A i \in t.to .. next - 1 : text[i] \in Space
  BY <1>1, PastIs
<1>3. /\ pos' = next /\ line' = line + t.lines + lines
      /\ tokens' = tokens \o (IF t.class = "empty" THEN << >> ELSE <<tk>>)
                          \o (IF Ended(t.class, lines, next) THEN <<nl>> ELSE << >>)
      /\ failed' = (failed \/ Reported(t.error))
      /\ text' = text /\ unit' = unit
  BY DEF Read
<1> HIDE DEF next
<1>4. lines \in Nat
        /\ Newlines(1, t.to) = Newlines(1, pos) + Newlines(pos, t.to)
        /\ Newlines(1, next) = Newlines(1, t.to) + Newlines(t.to, next)
  <2>1. /\ 1 \in Nat /\ pos \in Nat /\ t.to \in Nat /\ next \in Nat
        /\ 1 <= pos /\ pos <= t.to /\ t.to <= next /\ 1 <= t.to
    BY <1>1, <1>2
  <2>2. \A p, q, r \in Nat :
          p <= q /\ q <= r => /\ Newlines(p, q) \in Nat
                             /\ Newlines(p, r) = Newlines(p, q) + Newlines(q, r)
    BY NewlinesSplit
  <2>3. next <= next
    BY <2>1
  <2> HIDE DEF lines
  <2>4. Newlines(t.to, next) \in Nat
    BY <2>1, <2>2, <2>3
  <2>5. \A q, r \in Nat : 1 <= q /\ q <= r =>
          Newlines(1, r) = Newlines(1, q) + Newlines(q, r)
    BY <2>2
  <2>6. Newlines(1, t.to) = Newlines(1, pos) + Newlines(pos, t.to)
    BY <2>1, <2>5
  <2>7. Newlines(1, next) = Newlines(1, t.to) + Newlines(t.to, next)
    BY <2>1, <2>5
  <2>8. QED
    BY <2>4, <2>6, <2>7 DEF lines
<1>5. lines > 0 => ~OneLine(text)
  <2> SUFFICES ASSUME OneLine(text) PROVE lines = 0
    BY <1>4
  <2>1. \A i \in t.to .. next - 1 : i \in DOMAIN text
    BY <1>1, <1>2 DEF Size
  <2>2. QED
    BY <2>1, NewlinesNone DEF OneLine
<1>6. t.class = "newline" => lines > 0 \/ next = Size + 1
  <2> SUFFICES ASSUME t.class = "newline", next # Size + 1 PROVE lines > 0
    OBVIOUS
  <2>1. t.to <= Size /\ text[t.to] = Newline
    BY <1>1, <1>2 DEF Sound
  <2>2. t.to # next
    BY <1>1, <1>2, <2>1 DEF Space
  <2>3. t.to \in t.to .. next - 1 /\ t.to \in Nat /\ next \in Nat
    BY <1>1, <1>2, <2>2
  <2>4. QED
    BY <2>1, <2>3, NewlinesSome
<1>7. Size' = Size /\ Swallows' = Swallows /\ (Reading' => next # Size + 1)
  BY <1>1, <1>3 DEF Size, Swallows, Reading, HasNext
<1>8. Standing'
  BY <1>1, <1>2, <1>3, <1>7 DEF Standing, HasNext
<1>9. Located'
  <2> SUFFICES ASSUME unit = "file", ~Swallows
               PROVE  line + t.lines + lines = Newlines(1, next)
    BY <1>3, <1>7 DEF Located, Newlines
  <2>1. line = Newlines(1, pos) /\ t.lines = Newlines(pos, t.to)
    BY DEF Located, Sound
  <2>2. QED
    BY <1>4, <2>1
<1>10. t.class # "empty" => tk \in TokenSet /\ Complete(tk)
  BY <1>1 DEF Sound, Token, TokenSet, Complete
<1>11. nl \in TokenSet /\ Complete(nl) /\ nl.class = "newline" /\ nl.line = line + t.lines
  BY <1>1 DEF Token, TokenSet, Complete, Classes
<1>12. tk.class = t.class /\ tk.value = t.value /\ tk.line = line
  BY DEF Token
<1> DEFINE ended == Ended(t.class, lines, next)
<1>13. ended => t.class # "empty" /\ t.class # "newline" /\ lines > 0
  BY DEF Ended
<1>14. (t.class # "empty" /\ ~ended) =>
         t.class = "newline" \/ lines = 0 \/ Peek(next) \in {LeftBrace, "."}
  BY <1>4 DEF Ended
<1>15. tokens' = IF t.class = "empty" THEN tokens
                 ELSE IF ended THEN Append(Append(tokens, tk), nl)
                 ELSE Append(tokens, tk)
  <2>1. CASE t.class = "empty"
    <3>1. tokens' = tokens \o << >> \o << >>
      BY <1>3, <1>13, <2>1
    <3>2. QED
      BY <1>1, <2>1, <3>1, ConcatEmptySeq
  <2>2. CASE t.class # "empty" /\ ended
    <3>1. tokens' = tokens \o <<tk>> \o <<nl>>
      BY <1>3, <2>2
    <3>2. Append(tokens, tk) = tokens \o <<tk>> /\ Append(tokens, tk) \in Seq(TokenSet)
      BY <1>1, <1>10, <2>2, AppendIsConcat, AppendProperties
    <3>3. Append(Append(tokens, tk), nl) = Append(tokens, tk) \o <<nl>>
      BY <1>11, <3>2, AppendIsConcat
    <3>4. QED
      BY <2>2, <3>1, <3>2, <3>3
  <2>3. CASE t.class # "empty" /\ ~ended
    <3>1. tokens' = tokens \o <<tk>> \o << >>
      BY <1>3, <2>3
    <3>2. Append(tokens, tk) = tokens \o <<tk>> /\ Append(tokens, tk) \in Seq(TokenSet)
      BY <1>1, <1>10, <2>3, AppendIsConcat, AppendProperties
    <3>3. QED
      BY <2>3, <3>1, <3>2, ConcatEmptySeq
  <2>4. QED
    BY <2>1, <2>2, <2>3
<1> HIDE DEF tk, nl, ended, lines
<1>16. ASSUME t.class # "empty"
       PROVE  /\ Append(tokens, tk) \in Seq(TokenSet)
              /\ DOMAIN Append(tokens, tk) = 1 .. Len(tokens) + 1
              /\ Len(Append(tokens, tk)) = Len(tokens) + 1
              /\ Append(tokens, tk)[Len(tokens) + 1] = tk
              /\ \A p \in DOMAIN tokens : Append(tokens, tk)[p] = tokens[p]
              /\ \A p \in DOMAIN Append(tokens, tk) :
                   p \in DOMAIN tokens \/ p = Len(tokens) + 1
              /\ Append(tokens, tk) # << >>
  BY <1>1, <1>10, <1>16, AppendProperties
<1>17. ASSUME t.class # "empty"
       PROVE  LET us == Append(tokens, tk)
              IN /\ Append(us, nl) \in Seq(TokenSet)
                 /\ Len(Append(us, nl)) = Len(us) + 1
                 /\ Append(us, nl)[Len(us) + 1] = nl
                 /\ \A p \in DOMAIN us : Append(us, nl)[p] = us[p]
                 /\ \A p \in DOMAIN Append(us, nl) :
                      p \in DOMAIN us \/ p = Len(us) + 1
  BY <1>11, <1>16, <1>17, AppendProperties
<1>18. LexTyped'
  <2>1. line' \in Nat
    BY <1>1, <1>3, <1>4
  <2>2. failed' \in BOOLEAN
    BY <1>3
  <2>3. tokens' \in Seq(TokenSet)
    BY <1>1, <1>15, <1>16, <1>17
  <2>4. \A p \in DOMAIN tokens : Complete(tokens[p])
    BY DEF Lexing, LexTyped
  <2>5. ASSUME NEW p \in DOMAIN tokens'
        PROVE  Complete(tokens'[p])
    <3>1. CASE t.class = "empty"
      BY <1>15, <2>4, <3>1
    <3>2. ASSUME t.class # "empty", NEW q \in DOMAIN Append(tokens, tk)
          PROVE  Complete(Append(tokens, tk)[q])
      BY <1>10, <1>16, <2>4, <3>2
    <3>3. CASE t.class # "empty" /\ ~ended
      BY <1>15, <3>2, <3>3
    <3>4. CASE t.class # "empty" /\ ended
      BY <1>11, <1>15, <1>17, <3>2, <3>4
    <3>5. QED
      BY <3>1, <3>3, <3>4
  <2>6. QED
    BY <2>1, <2>2, <2>3, <2>5 DEF LexTyped
<1>19. LexKept'
  <2> SUFFICES ASSUME ~failed', ~Swallows PROVE Kept(tokens)'
    BY <1>7 DEF LexKept
  <2>1. ~failed /\ ~Reported(t.error) /\ Kept(tokens)
    BY <1>3 DEF Lexing, LexKept
  <2>2. t.error => OneLine(text)
    BY <2>1 DEF Reported, Lexing
  <2>3. t.lines = 0 /\ (t.class = "empty" => OneLine(text))
    BY <1>1, <2>2 DEF Sound
  <2>4. line' = line + lines /\ nl.line = line
    BY <1>1, <1>3, <1>4, <1>11, <2>3
  <2>5. /\ InStep(tokens)
        /\ \A p \in DOMAIN tokens :
             /\ tokens[p].line <= line
             /\ tokens[p].class = "newline" => tokens[p].line < line
        /\ \A p \in DOMAIN tokens : tokens[p].line \in Nat
    <3>1. \A p \in DOMAIN tokens : tokens[p].line \in Nat
      BY <1>1, LinesNatural
    <3>2. QED
      BY <2>1, <3>1 DEF Kept
  <2>6. CASE t.class = "empty"
    <3>1. lines = 0 /\ line' = line /\ tokens' = tokens
      BY <1>1, <1>4, <1>5, <1>15, <2>3, <2>4, <2>6
    <3>2. tokens # << >> /\ tokens[Len(tokens)].class # "newline" =>
            tokens[Len(tokens)].line = line
      BY <2>1, <2>3, <2>6 DEF Kept
    <3>3. QED
      BY <2>5, <3>1, <3>2 DEF Kept, InStep
  <2> DEFINE us == Append(tokens, tk)
  <2>7. ASSUME t.class # "empty" PROVE InStep(us)
    <3>1. \A p \in DOMAIN tokens : Follows(tokens[p], tk)
      BY <1>12, <2>5 DEF Follows
    <3>2. ASSUME tokens # << >>, tokens[Len(tokens)].class # "newline"
          PROVE  tk.line = tokens[Len(tokens)].line \/ GoesOn(tk)
      <4>1. tokens[Len(tokens)].line = line \/ Peek(pos) \in {LeftBrace, "."}
        BY <2>1, <3>2 DEF Kept
      <4>2. Peek(pos) = LeftBrace => t.class = LeftBrace
        BY DEF Sound
      <4>3. Peek(pos) = "." => t.class = "float" /\ t.value[1] = "."
        BY <2>7 DEF Sound
      <4>4. QED
        BY <1>12, <4>1, <4>2, <4>3 DEF GoesOn
    <3>3. QED
      BY <1>1, <1>10, <2>5, <2>7, <3>1, <3>2, AppendInStep
  <2>8. CASE t.class # "empty" /\ ~ended
    <3>1. tokens' = us
      BY <1>15, <2>8
    <3>2. InStep(us) /\ (InStep(us) => InStep(tokens)')
      BY <2>7, <2>8, <3>1 DEF InStep
    <3>3. t.class = "newline" => line < line' \/ ~Reading'
      BY <1>1, <1>4, <1>6, <1>7, <2>4
    <3>4. ASSUME NEW p \in DOMAIN us
          PROVE  /\ us[p].line <= line'
                 /\ us[p].class = "newline" => us[p].line < line' \/ ~Reading'
      <4>1. CASE p \in DOMAIN tokens
        BY <1>1, <1>4, <1>16, <2>4, <2>5, <2>8, <4>1
      <4>2. CASE p = Len(tokens) + 1
        BY <1>1, <1>4, <1>12, <1>16, <2>4, <2>8, <3>3, <4>2
      <4>3. QED
        BY <1>16, <2>8, <4>1, <4>2
    <3>5. us[Len(us)] = tk
      BY <1>16, <2>8
    <3>6. tk.class # "newline" =>
            tk.line = line' \/ (Peek(next) \in {LeftBrace, "."} /\ ~OneLine(text))
      BY <1>1, <1>4, <1>5, <1>12, <1>14, <2>4, <2>8
    <3>7. Peek(pos)' = Peek(next) /\ (OneLine(text)' <=> OneLine(text))
      BY <1>3, <1>7 DEF Peek, HasNext, OneLine
    <3> HIDE DEF us
    <3>8. QED
      BY <3>1, <3>2, <3>4, <3>5, <3>6, <3>7 DEF Kept
  <2>9. CASE t.class # "empty" /\ ended
    <3> DEFINE ws == Append(us, nl)
    <3>1. tokens' = ws
      BY <1>15, <2>9
    <3>2. lines > 0 /\ line < line'
      BY <1>1, <1>4, <1>13, <2>4, <2>9
    <3>3. ASSUME NEW p \in DOMAIN us
          PROVE  Follows(us[p], nl) /\ us[p].line < line'
      <4>1. CASE p \in DOMAIN tokens
        BY <1>1, <1>16, <2>4, <2>5, <2>9, <3>2, <4>1 DEF Follows
      <4>2. CASE p = Len(tokens) + 1
        BY <1>1, <1>12, <1>13, <1>16, <2>4, <2>9, <3>2, <4>2 DEF Follows
      <4>3. QED
        BY <1>16, <2>9, <4>1, <4>2
    <3>4. us \in Seq(TokenSet) /\ InStep(us)
      BY <1>16, <2>7, <2>9
    <3>5. /\ Len(ws) = Len(us) + 1 /\ ws[Len(us) + 1] = nl
          /\ \A p \in DOMAIN us : ws[p] = us[p]
          /\ \A p \in DOMAIN ws : p \in DOMAIN us \/ p = Len(us) + 1
      BY <1>17, <2>9
    <3> HIDE DEF us
    <3>6. InStep(ws)
      BY <1>11, <3>3, <3>4, AppendInStep
    <3> HIDE DEF ws
    <3>7. InStep(tokens)'
      BY <3>1, <3>6 DEF InStep
    <3>8. \A p \in DOMAIN ws : ws[p].line < line' /\ ws[p].line <= line'
      <4>1. \A p \in DOMAIN us : us[p].line \in Nat
        BY <3>4, LinesNatural
      <4>2. QED
        BY <1>1, <1>4, <2>4, <3>2, <3>3, <3>5, <4>1
    <3>9. ws[Len(ws)].class = "newline"
      BY <1>11, <3>5
    <3>10. QED
      BY <3>1, <3>7, <3>8, <3>9 DEF Kept
  <2>10. QED
    BY <2>6, <2>8, <2>9
<1>20. QED
  BY <1>3, <1>8, <1>9, <1>18, <1>19 DEF Lexing, OneLine

-----------------------------------------------------------------------------
(* The parser.  A statement is proper where the units it opens are: its    *)
(* place in the tokens, the line it begins, its braces and what they hold. *)
Kinds == {"directive", "label", "command", "variable", "expression"}

StmtSet == [kind : Kinds, first : Nat, last : Nat, body : Seq(TokenSet)]

Inside(ts) ==
  /\ ts \in Seq(TokenSet)
  /\ \A p \in DOMAIN ts : Complete(ts[p])
  /\ ~failed /\ ~Swallows => InStep(ts)

Held(s, c) == {p \in (s.first .. s.last) \ Words(s) : Class(p) = c}

Begins(p) == p = 1 \/ Class(p - 1) = "newline"

Proper(s) ==
  /\ s \in StmtSet /\ s.first \in 1 .. Length /\ s.last \in s.first .. Length
  /\ Begins(s.first)
  /\ \A p \in Words(s) : Class(p) # "newline"
  /\ s.last = Length \/
       /\ Class(s.last) # "newline"
       /\ Cardinality(Held(s, LeftBrace)) = Cardinality(Held(s, RightBrace))
  /\ Inside(s.body)

Statements == {stmts[i] : i \in DOMAIN stmts}

Covered(p) == Class(p) = "newline" \/ \E s \in Statements : p \in s.first .. s.last

(* The statements so far, each after the end of the one before it.         *)
InOrder ==
  /\ \A s \in Statements : Proper(s)
  /\ \A r, s \in Statements : r.first < s.first => r.last < s.first

Midway ==
  /\ at > Length \/ Begins(at)
  /\ \A s \in Statements : s.last < at
  /\ ~failed => \A p \in 1 .. at - 1 : Covered(p)

Reader ==
  /\ phase \in {"lex", "parse", "parsed"}
  /\ line \in Nat /\ failed \in BOOLEAN /\ Inside(tokens)
  /\ phase = "lex" => Lexing /\ stmts = << >>
  /\ phase # "lex" => at \in 1 .. Length + 1 /\ stmts \in Seq(StmtSet) /\ InOrder
  /\ phase = "parse" => Midway
  /\ Located /\ NothingDropped

LEMMA ClassIs ==
  ASSUME Inside(tokens)
  PROVE  /\ Length \in Nat /\ DOMAIN tokens = 1 .. Length
         /\ \A p \in 1 .. Length : /\ tokens[p] \in TokenSet
                                   /\ Class(p) = tokens[p].class
                                   /\ Class(p) # "empty"
         /\ \A p : p \notin 1 .. Length => Class(p) = "empty"
<1>1. Length \in Nat /\ DOMAIN tokens = 1 .. Length /\ tokens \in Seq(TokenSet)
  BY LenProperties DEF Inside, Length
<1>2. "empty" \notin Classes
  BY Marks DEF Classes, Punctuation
<1>3. ASSUME NEW p \in 1 .. Length
      PROVE  tokens[p] \in TokenSet /\ Class(p) = tokens[p].class /\ Class(p) # "empty"
  <2>1. tokens[p] \in TokenSet
    BY <1>1, <1>3, ElementOfSeq DEF Length
  <2>2. tokens[p].class \in Classes
    BY <2>1 DEF TokenSet
  <2>3. QED
    BY <1>2, <1>3, <2>1, <2>2 DEF Class
<1>4. QED
  BY <1>1, <1>3 DEF Class

LEMMA OperandsAre ==
  /\ \A c \in Operand \cup {"directive", "label", "ident"} :
       c \notin {"newline", "empty", LeftBrace, RightBrace}
  /\ \A c \in Ignored : c \notin {"newline", "empty", LeftBrace, RightBrace}
  /\ "newline" # "empty" /\ "newline" \notin {LeftBrace, RightBrace}
  /\ "empty" \notin {LeftBrace, RightBrace} /\ LeftBrace # RightBrace
<1>1. \A c \in Operand \cup {"directive", "label", "ident"} : c \notin {"newline", "empty"}
  BY DEF Operand
<1>2. \A c \in Operand \cup {"directive", "label", "ident"} :
        c \notin {LeftBrace, RightBrace}
  BY Marks DEF Operand
<1>3. \A c \in Ignored : c \notin {"newline", "empty"}
  BY DEF Ignored
<1>4. \A c \in Ignored : c \notin {LeftBrace, RightBrace}
  BY Marks DEF Ignored
<1>5. QED
  BY <1>1, <1>2, <1>3, <1>4, Marks

(* The newlines before a statement.                                        *)
LEMMA BeginIs ==
  ASSUME Inside(tokens), at \in 1 .. Length + 1
  PROVE  /\ first \in at .. Length + 1 /\ Class(first) # "newline"
         /\ \A i \in at .. first - 1 : Class(i) = "newline"
         /\ Class(first) # "empty" => first \in 1 .. Length
<1> DEFINE n == Length + 1
           S == {q \in at .. n : Class(q) # "newline"}
<1>1. Length \in Nat /\ Class(n) = "empty"
  BY ClassIs
<1>2. n \in S
  BY <1>1, OperandsAre
<1>3. PICK q \in S : \A i \in at .. q - 1 : i \notin S
  <2> HIDE DEF S
  <2>1. S \in SUBSET (at .. n) /\ at \in Nat /\ n \in Nat
    BY <1>1 DEF S
  <2>2. QED
    BY <1>2, <2>1, FirstPlace
<1>4. q \in at .. Length + 1 /\ Class(q) # "newline"
      /\ \A i \in at .. q - 1 : Class(i) = "newline"
  BY <1>1, <1>3
<1>5. first \in at .. Length + 1 /\ Class(first) # "newline"
      /\ \A i \in at .. first - 1 : Class(i) = "newline"
  BY <1>1, <1>4 DEF first, Begin
<1>6. QED
  BY <1>1, <1>5, ClassIs

(* The operands from p on, as many as there are or up to n.                *)
LEMMA ArgumentsIs ==
  ASSUME Inside(tokens), NEW p \in 1 .. Length + 1
  PROVE  /\ ArgumentsEnd(p) \in p .. Length + 1 /\ Class(ArgumentsEnd(p)) \notin Operand
         /\ \A i \in p .. ArgumentsEnd(p) - 1 : Class(i) \in Operand
<1> DEFINE n == Length + 1
           S == {q \in p .. n : Class(q) \notin Operand}
<1>1. Length \in Nat /\ Class(n) = "empty"
  BY ClassIs
<1>2. n \in S
  BY <1>1, OperandsAre
<1>3. PICK q \in S : \A i \in p .. q - 1 : i \notin S
  <2> HIDE DEF S
  <2>1. S \in SUBSET (p .. n) /\ p \in Nat /\ n \in Nat
    BY <1>1 DEF S
  <2>2. QED
    BY <1>2, <2>1, FirstPlace
<1>4. q \in p .. Length + 1 /\ Class(q) \notin Operand
      /\ \A i \in p .. q - 1 : Class(i) \in Operand
  BY <1>1, <1>3
<1>5. QED
  BY <1>4 DEF ArgumentsEnd

LEMMA OperandsIs ==
  ASSUME Inside(tokens), NEW p \in 1 .. Length + 1, NEW n \in Nat
  PROVE  /\ OperandsEnd(p, n) \in p .. p + n /\ OperandsEnd(p, n) \in p .. Length + 1
         /\ OperandsEnd(p, n) < p + n => Class(OperandsEnd(p, n)) \notin Operand
         /\ \A i \in p .. OperandsEnd(p, n) - 1 : Class(i) \in Operand
<1> DEFINE m == p + n
           S == {q \in p .. m : q < m => Class(q) \notin Operand}
<1>1. Length \in Nat /\ p \in Nat /\ m \in Nat
  BY ClassIs
<1>2. m \in S
  BY <1>1
<1>3. PICK q \in S : \A i \in p .. q - 1 : i \notin S
  <2> HIDE DEF S
  <2>1. S \in SUBSET (p .. m)
    BY <1>1 DEF S
  <2>2. QED
    BY <1>1, <1>2, <2>1, FirstPlace
<1>4. /\ q \in p .. p + n /\ (q < p + n => Class(q) \notin Operand)
      /\ \A i \in p .. q - 1 : Class(i) \in Operand
  BY <1>1, <1>3
<1> DEFINE e == OperandsEnd(p, n)
<1>5. /\ e \in p .. p + n /\ (e < p + n => Class(e) \notin Operand)
      /\ \A i \in p .. e - 1 : Class(i) \in Operand
  BY <1>4 DEF OperandsEnd
<1> HIDE DEF e
<1>6. e <= Length + 1
  <2>1. CASE e = p
    BY <1>1, <2>1
  <2>2. CASE e # p
    <3>1. e - 1 \in p .. e - 1
      BY <1>1, <1>5, <2>2
    <3>2. Class(e - 1) # "empty"
      BY <1>5, <3>1, OperandsAre
    <3>3. e - 1 \in 1 .. Length
      BY <3>2, ClassIs
    <3>4. QED
      BY <1>1, <1>5, <3>3
  <2>3. QED
    BY <2>1, <2>2
<1>7. QED
  BY <1>1, <1>5, <1>6 DEF e

(* What is skipped after a statement is reported, and after it a line      *)
(* begins or the tokens end.                                               *)
LEMMA EndIs ==
  ASSUME Inside(tokens), NEW p \in 1 .. Length + 1
  PROVE  /\ EndOfStmt(p).at \in p .. Length + 1 /\ EndOfStmt(p).error \in BOOLEAN
         /\ EndOfStmt(p).at > Length \/ Begins(EndOfStmt(p).at)
         /\ ~EndOfStmt(p).error =>
              \A i \in p .. EndOfStmt(p).at - 1 : Class(i) = "newline"
<1>1. Length \in Nat
  BY ClassIs
<1>2. CASE p > Length
  BY <1>1, <1>2 DEF EndOfStmt
<1>3. CASE p <= Length /\ Class(p) = "newline"
  <2>1. EndOfStmt(p) = [at |-> p + 1, error |-> FALSE]
    BY <1>1, <1>3 DEF EndOfStmt
  <2>2. QED
    BY <1>1, <1>3, <2>1 DEF Begins
<1>4. CASE p <= Length /\ Class(p) # "newline"
  <2> DEFINE n == Length + 1
             b == p + 1
             S == {q \in b .. n : q > Length \/ Class(q) = "newline"}
             Is(q) == /\ q > Length \/ Class(q) = "newline"
                      /\ \A i \in p + 1 .. q - 1 : Class(i) # "newline"
             e == CHOOSE q \in p + 1 .. Length + 1 : Is(q)
  <2>1. n \in S /\ b \in Nat /\ n \in Nat
    BY <1>1, <1>4
  <2>2. PICK q \in S : \A i \in b .. q - 1 : i \notin S
    <3> HIDE DEF S
    <3>1. S \in SUBSET (b .. n)
      BY DEF S
    <3>2. QED
      BY <2>1, <3>1, FirstPlace
  <2>3. q \in p + 1 .. Length + 1 /\ Is(q)
    BY <1>1, <2>1, <2>2
  <2>4. e \in p + 1 .. Length + 1 /\ Is(e)
    <3> HIDE DEF Is
    <3>1. QED
      BY <2>3
  <2>5. EndOfStmt(p) = [at |-> IF e > Length THEN e ELSE e + 1, error |-> TRUE]
    BY <1>1, <1>4 DEF EndOfStmt
  <2> HIDE DEF e
  <2>6. QED
    BY <1>1, <2>4, <2>5 DEF Begins
<1>5. QED
  BY <1>1, <1>2, <1>3, <1>4

(* The brace that closes the one before p, if any does.                    *)
Braced(c, p, q) == {i \in p .. q : Class(i) = c}

LEMMA ClosingIs ==
  ASSUME Inside(tokens), NEW p \in 1 .. Length + 1
  PROVE  /\ Closing(p) \in p .. Length + 1
         /\ Closing(p) <= Length =>
              /\ Class(Closing(p)) = RightBrace
              /\ Cardinality(Braced(RightBrace, p, Closing(p)))
                   = Cardinality(Braced(LeftBrace, p, Closing(p))) + 1
<1> DEFINE closes == {q \in p .. Length :
                        /\ Class(q) = RightBrace
                        /\ Cardinality(Braced(RightBrace, p, q))
                             = Cardinality(Braced(LeftBrace, p, q)) + 1}
<1>1. Length \in Nat
  BY ClassIs
<1>2. Closing(p) = IF closes = {} THEN Length + 1
                   ELSE CHOOSE q \in closes : \A r \in closes : q <= r
  BY DEF Closing, Braced
<1>3. CASE closes = {}
  BY <1>1, <1>2, <1>3
<1>4. CASE closes # {}
  <2>1. closes \in SUBSET Nat
    BY <1>1
  <2>2. Closing(p) \in closes
    <3> HIDE DEF closes
    <3>1. \E q \in closes : \A r \in closes : q <= r
      BY <1>4, <2>1, LeastNatural
    <3>2. QED
      BY <1>2, <1>4, <3>1
  <2>3. QED
    BY <1>1, <2>2
<1>5. QED
  BY <1>3, <1>4

(* What the braces of a directive hold is read later, as it is here.       *)
LEMMA InsidePart ==
  ASSUME Inside(tokens), NEW a \in 1 .. Length + 1, NEW b \in Int, b <= Length
  PROVE  Inside(SubSeq(tokens, a, b))
<1> DEFINE ts == SubSeq(tokens, a, b)
           n == IF a <= b THEN b - a + 1 ELSE 0
<1>1. Length \in Nat /\ DOMAIN tokens = 1 .. Length /\ tokens \in Seq(TokenSet)
  BY ClassIs DEF Inside
<1>2. \A i \in a .. b : tokens[i] \in TokenSet
  BY <1>1, ClassIs
<1>3. /\ ts \in Seq(TokenSet) /\ Len(ts) = n
      /\ \A i \in 1 .. b - a + 1 : ts[i] = tokens[a + i - 1]
  BY <1>1, <1>2, SubSeqProperties
<1> HIDE DEF ts
<1>4. DOMAIN ts = 1 .. n
  BY <1>3, LenProperties
<1>5. \A i \in 1 .. n : a + i - 1 \in 1 .. Length /\ i \in 1 .. b - a + 1
  BY <1>1
<1>6. \A i \in 1 .. n : Complete(ts[i])
  BY <1>1, <1>3, <1>5 DEF Inside
<1>7. ASSUME InStep(tokens) PROVE InStep(ts)
  <2>1. ASSUME NEW p \in 1 .. n, NEW q \in 1 .. n, p < q
        PROVE  Follows(ts[p], ts[q])
    <3>1. a + p - 1 < a + q - 1
      BY <1>1, <2>1
    <3>2. Follows(tokens[a + p - 1], tokens[a + q - 1])
      BY <1>1, <1>5, <1>7, <3>1 DEF InStep
    <3>3. QED
      BY <1>3, <1>5, <3>2
  <2>2. ASSUME NEW p \in 1 .. n, p - 1 \in 1 .. n
        PROVE  \/ ts[p].class = "newline" \/ ts[p - 1].class = "newline"
               \/ ts[p].line = ts[p - 1].line \/ GoesOn(ts[p])
    <3> DEFINE k == a + p - 1
    <3>1. k \in 1 .. Length /\ k - 1 \in 1 .. Length /\ k - 1 = a + (p - 1) - 1
      BY <1>1, <1>5, <2>2
    <3>2. ts[p] = tokens[k] /\ ts[p - 1] = tokens[k - 1]
      BY <1>3, <1>5, <2>2, <3>1
    <3> HIDE DEF k
    <3>3. QED
      BY <1>1, <1>7, <3>1, <3>2 DEF InStep
  <2>3. QED
    BY <1>4, <2>1, <2>2 DEF InStep
<1>8. QED
  BY <1>3, <1>4, <1>6, <1>7 DEF Inside, ts

LEMMA EmptyInside == Inside(<< >>)
  BY EmptyInStep DEF Inside

(* A statement without braces.                                             *)
LEMMA PlainProper ==
  ASSUME Inside(tokens), NEW kind \in Kinds,
         NEW f \in 1 .. Length, Begins(f), NEW l \in f .. Length,
         \A i \in f .. l : Class(i) \notin {"newline", LeftBrace}
  PROVE  Proper([kind |-> kind, first |-> f, last |-> l, body |-> << >>])
<1> DEFINE s == [kind |-> kind, first |-> f, last |-> l, body |-> << >>]
<1>1. Length \in Nat
  BY ClassIs
<1>2. s.first = f /\ s.last = l /\ s.body = << >>
  OBVIOUS
<1>3. s \in StmtSet
  BY <1>1, EmptyInStep DEF StmtSet
<1> HIDE DEF s
<1>4. Words(s) = f .. l
  BY <1>1, <1>2 DEF Words
<1>5. Held(s, LeftBrace) = {} /\ Held(s, RightBrace) = {}
  BY <1>2, <1>4 DEF Held
<1>6. l \in f .. l
  BY <1>1
<1>7. QED
  BY <1>2, <1>3, <1>4, <1>5, <1>6, EmptyInside DEF Proper, s

(* A directive with braces, which end at the one that closes the first.    *)
LEMMA BracedProper ==
  ASSUME Inside(tokens), NEW f \in 1 .. Length, Begins(f),
         NEW open \in f + 1 .. Length, Class(open) = LeftBrace,
         \A i \in f .. open - 1 : Class(i) \notin {"newline", LeftBrace},
         NEW last, last = IF Closing(open + 1) > Length THEN Closing(open + 1)
                          ELSE Closing(open + 1) + 1
  PROVE  /\ last \in open + 1 .. Length + 1
         /\ Proper([kind |-> "directive", first |-> f, last |-> last - 1,
                    body |-> SubSeq(tokens, open + 1, Closing(open + 1) - 1)])
<1> DEFINE close == Closing(open + 1)
           b == SubSeq(tokens, open + 1, close - 1)
           s == [kind |-> "directive", first |-> f, last |-> last - 1, body |-> b]
<1>1. Length \in Nat /\ open + 1 \in 1 .. Length + 1
  BY ClassIs
<1>2. /\ close \in open + 1 .. Length + 1
      /\ close <= Length =>
           /\ Class(close) = RightBrace
           /\ Cardinality(Braced(RightBrace, open + 1, close))
                = Cardinality(Braced(LeftBrace, open + 1, close)) + 1
  BY <1>1, ClosingIs
<1> HIDE DEF close
<1>3. last = IF close > Length THEN close ELSE close + 1
  BY DEF close
<1>4. last \in open + 1 .. Length + 1 /\ last - 1 \in f .. Length /\ close - 1 \in Int
      /\ close - 1 <= Length /\ last - 1 \in open .. Length
  BY <1>1, <1>2, <1>3
<1>5. Inside(b)
  BY <1>1, <1>4, InsidePart
<1>6. s.first = f /\ s.last = last - 1 /\ s.body = b
  OBVIOUS
<1>7. s \in StmtSet
  BY <1>1, <1>4, <1>5 DEF StmtSet, Kinds, Inside
<1> HIDE DEF b, s
<1>8. Words(s) = f .. open - 1
  <2>1. ASSUME NEW p \in f .. last - 1, p >= open PROVE p \notin Words(s)
    <3>1. open \in f .. p
      BY <1>1, <1>4, <2>1
    <3>2. QED
      BY <1>6, <3>1 DEF Words
  <2>2. ASSUME NEW p \in f .. open - 1 PROVE p \in Words(s)
    <3>1. p \in f .. last - 1 /\ \A i \in f .. p : i \in f .. open - 1
      BY <1>1, <1>4, <2>2
    <3>2. QED
      BY <1>6, <3>1 DEF Words
  <2>3. \A p \in f .. last - 1 : p < open => p \in f .. open - 1
    BY <1>1, <1>4
  <2>4. Words(s) \subseteq f .. last - 1
    BY <1>6 DEF Words
  <2>5. ASSUME NEW p \in Words(s) PROVE p \in f .. open - 1
    <3>1. p \in f .. last - 1
      BY <2>4
    <3>2. ~(p >= open)
      BY <2>1, <3>1
    <3>3. QED
      BY <1>1, <1>4, <2>3, <3>1, <3>2
  <2>6. QED
    BY <2>2, <2>5
<1>9. ASSUME close <= Length
      PROVE  /\ Class(s.last) # "newline"
             /\ Cardinality(Held(s, LeftBrace)) = Cardinality(Held(s, RightBrace))
  <2>1. last - 1 = close /\ Class(close) = RightBrace
    BY <1>1, <1>2, <1>3, <1>9
  <2> DEFINE L == Braced(LeftBrace, open + 1, close)
             R == Braced(RightBrace, open + 1, close)
  <2>2. IsFiniteSet(L) /\ IsFiniteSet(R)
    <3>1. IsFiniteSet((open + 1) .. close)
      BY <1>1, <1>2, FS_Interval
    <3>2. L \in SUBSET ((open + 1) .. close) /\ R \in SUBSET ((open + 1) .. close)
      BY DEF Braced
    <3>3. QED
      BY <3>1, <3>2, FS_Subset
  <2>3. (s.first .. s.last) \ Words(s) = {open} \cup ((open + 1) .. close)
    <3>1. s.first = f /\ s.last = close /\ close \in Nat /\ open \in Nat /\ f \in Nat
          /\ f < open /\ open <= close
      BY <1>1, <1>2, <1>6, <2>1
    <3>2. (f .. close) \ (f .. open - 1) = {open} \cup ((open + 1) .. close)
      BY <3>1
    <3>3. QED
      BY <1>8, <3>1, <3>2
  <2>4. Held(s, LeftBrace) = L \cup {open} /\ open \notin L
    BY <1>1, <2>3 DEF Held, Braced
  <2>5. Held(s, RightBrace) = R
    BY <1>1, <2>3, OperandsAre DEF Held, Braced
  <2> HIDE DEF L, R
  <2>6. Cardinality(L \cup {open}) = Cardinality(L) + 1
    BY <2>2, <2>4, FS_AddElement
  <2>7. Cardinality(R) = Cardinality(L) + 1
    BY <1>2, <1>9 DEF L, R
  <2>8. QED
    BY <1>6, <2>1, <2>4, <2>5, <2>6, <2>7, OperandsAre
<1>10. s.last = Length \/ close <= Length
  BY <1>1, <1>2, <1>3, <1>6
<1>11. \A p \in Words(s) : Class(p) # "newline"
  BY <1>8
<1>12. Proper(s)
  BY <1>4, <1>5, <1>6, <1>7, <1>9, <1>10, <1>11 DEF Proper
<1>13. QED
  BY <1>4, <1>12 DEF s, b, close

-----------------------------------------------------------------------------
(* Hoisting moves statements and neither makes nor loses one.              *)
LEMMA HoistSame ==
  ASSUME NEW S, NEW s \in Seq(S)
  PROVE  Hoist(s) \in Seq(S) /\ Elements(Hoist(s)) = Elements(s)
  BY HoistFromSame DEF Hoist

-----------------------------------------------------------------------------
(* What a step keeps that leaves the tokens and the text as they are.      *)
LEMMA ProperStays ==
  ASSUME tokens' = tokens, text' = text, failed => failed'
  PROVE  /\ Length' = Length /\ (Swallows' <=> Swallows)
         /\ \A p : Class(p)' = Class(p) /\ (Begins(p)' <=> Begins(p))
         /\ \A ts : Inside(ts) => Inside(ts)'
         /\ \A s : Proper(s) => Proper(s)'
<1>1. Length' = Length /\ (Swallows' <=> Swallows)
  BY DEF Length, Swallows, Size
<1>2. \A p : Class(p)' = Class(p)
  BY DEF Class, Length
<1>3. \A p : Begins(p)' <=> Begins(p)
  BY DEF Begins, Class, Length
<1>4. ASSUME NEW ts, Inside(ts) PROVE Inside(ts)'
  BY <1>1, <1>4 DEF Inside
<1>5. ASSUME NEW s, Proper(s) PROVE Proper(s)'
  <2>1. Words(s)' = Words(s)
    BY DEF Words, Class, Length
  <2>2. \A c : {p \in (s.first .. s.last) \ Words(s) : Class(p) = c}'
                 = {p \in (s.first .. s.last) \ Words(s) : Class(p) = c}
    BY <2>1 DEF Class, Length
  <2>3. \A c : Held(s, c)' = Held(s, c)
    BY <2>2 DEF Held
  <2>4. /\ Held(s, LeftBrace)' = Held(s, LeftBrace)
        /\ Held(s, RightBrace)' = Held(s, RightBrace)
    BY <2>3
  <2>5. (\A p \in Words(s) : Class(p) # "newline")'
    BY <1>5, <2>1 DEF Proper, Class, Length
  <2>6. Class(s.last)' = Class(s.last) /\ (Begins(s.first)' <=> Begins(s.first))
    BY <1>2, <1>3
  <2>7. Inside(s.body)'
    BY <1>4, <1>5 DEF Proper
  <2>8. QED
    BY <1>1, <1>5, <2>4, <2>5, <2>6, <2>7 DEF Proper
<1>6. QED
  BY <1>1, <1>2, <1>3, <1>4, <1>5

LEMMA StatementsAre == Statements = Elements(stmts)
  BY DEF Statements, Elements

(* A statement is read.                                                    *)
LEMMA ParsedKeeps ==
  ASSUME Reader, Parsing, NEW kind \in Kinds, NEW f, f = first, NEW body,
         NEW last \in f + 1 .. Length + 1, NEW error \in BOOLEAN,
         Proper([kind |-> kind, first |-> f, last |-> last - 1, body |-> body]),
         Parsed(kind, f, last, error, body)
  PROVE  Reader'
<1> DEFINE s == [kind |-> kind, first |-> f, last |-> last - 1, body |-> body]
           e == EndOfStmt(last)
<1>1. /\ phase = "parse" /\ line \in Nat /\ failed \in BOOLEAN /\ Inside(tokens)
      /\ at \in 1 .. Length + 1 /\ stmts \in Seq(StmtSet) /\ InOrder /\ Midway /\ Located
  BY DEF Reader, Parsing
<1>2. Length \in Nat
  BY <1>1, ClassIs
<1>3. f \in at .. Length + 1 /\ \A i \in at .. f - 1 : Class(i) = "newline"
  BY <1>1, BeginIs
<1>4. last \in 1 .. Length + 1 /\ last - 1 >= f /\ f >= at
  BY <1>1, <1>2, <1>3
<1>5. /\ e.at \in last .. Length + 1 /\ e.error \in BOOLEAN
      /\ e.at > Length \/ Begins(e.at)
      /\ ~e.error => \A i \in last .. e.at - 1 : Class(i) = "newline"
  BY <1>1, <1>4, EndIs
<1>6. /\ stmts' = Append(stmts, s) /\ at' = e.at
      /\ failed' = (failed \/ error \/ e.error)
      /\ text' = text /\ pos' = pos /\ line' = line /\ tokens' = tokens /\ unit' = unit
      /\ phase' = phase
  BY DEF Parsed
<1>7. Proper(s) /\ s.first = f /\ s.last = last - 1 /\ s \in StmtSet
  BY DEF Proper
<1> HIDE DEF s, e
<1>8. stmts' \in Seq(StmtSet) /\ Statements' = Statements \cup {s}
  <2>1. stmts' \in Seq(StmtSet) /\ Elements(stmts') = Elements(stmts) \cup {s}
    BY <1>1, <1>6, <1>7, ElementsAppend
  <2>2. Statements' = Elements(stmts')
    BY DEF Statements, Elements
  <2>3. QED
    BY <2>1, <2>2, StatementsAre
<1>9. /\ Length' = Length /\ (\A p : Class(p)' = Class(p) /\ (Begins(p)' <=> Begins(p)))
      /\ (\A ts : Inside(ts) => Inside(ts)') /\ (\A r : Proper(r) => Proper(r)')
  BY <1>6, ProperStays
<1>10. \A r \in Statements : Proper(r) /\ r.last < at /\ r.first < at
  <2>1. \A r \in Statements : Proper(r) /\ r.last < at
    BY <1>1 DEF InOrder, Midway
  <2>2. ASSUME NEW r \in Statements PROVE r.first < at
    <3>1. r.first \in 1 .. Length /\ r.last \in r.first .. Length /\ r.last < at
      BY <2>1 DEF Proper
    <3>2. QED
      BY <1>1, <1>2, <3>1
  <2>3. QED
    BY <2>1, <2>2
<1>11. \A r \in Statements : r.first \in Nat /\ r.last \in Nat
  BY <1>10 DEF Proper, StmtSet
<1>12. InOrder'
  <2>1. \A r \in Statements' : Proper(r)'
    BY <1>7, <1>8, <1>9, <1>10
  <2>2. ASSUME NEW q \in Statements', NEW r \in Statements', q.first < r.first
        PROVE  q.last < r.first
    <3>1. CASE q \in Statements /\ r \in Statements
      BY <1>1, <2>2, <3>1 DEF InOrder
    <3>2. CASE q \in Statements /\ r = s
      BY <1>1, <1>2, <1>3, <1>4, <1>7, <1>10, <1>11, <3>2
    <3>3. CASE q = s /\ r \in Statements
      BY <1>1, <1>2, <1>3, <1>4, <1>7, <1>10, <1>11, <2>2, <3>3
    <3>4. CASE q = s /\ r = s
      BY <1>2, <1>3, <1>7, <2>2, <3>4
    <3>5. QED
      BY <1>8, <3>1, <3>2, <3>3, <3>4
  <2>3. QED
    BY <2>1, <2>2 DEF InOrder
<1>13. Midway'
  <2>1. at' > Length' \/ Begins(at)'
    <3>1. Begins(at)' <=> Begins(e.at)
      BY <1>6 DEF Begins, Class, Length
    <3>2. QED
      BY <1>5, <1>6, <1>9, <3>1
  <2>2. \A r \in Statements' : r.last < at'
    <3>1. \A r \in Statements : r.last < e.at
      <4> DEFINE n == e.at
      <4>1. n \in Nat /\ at \in Nat /\ at <= n
        BY <1>1, <1>2, <1>3, <1>4, <1>5
      <4> HIDE DEF n
      <4>2. \A r \in Statements : r.last \in Nat /\ r.last < at
        BY <1>10, <1>11
      <4>3. \A r \in Statements : r.last < n
        BY <4>1, <4>2
      <4>4. QED
        BY <4>3 DEF n
    <3>2. s.last < e.at
      BY <1>2, <1>4, <1>5, <1>7
    <3>3. QED
      BY <1>6, <1>8, <3>1, <3>2
  <2>3. ASSUME ~failed', NEW p \in 1 .. e.at - 1
        PROVE  Class(p) = "newline" \/ \E r \in Statements' : p \in r.first .. r.last
    <3>1. ~failed /\ ~e.error
      BY <1>6, <2>3
    <3>2. CASE p < at
      <4>1. p \in 1 .. at - 1
        BY <1>1, <1>2, <1>5, <3>2
      <4>2. Covered(p)
        BY <1>1, <3>1, <4>1 DEF Midway
      <4>3. QED
        BY <1>8, <4>2 DEF Covered
    <3>3. CASE p >= at /\ p < f
      BY <1>1, <1>2, <1>3, <1>5, <3>3
    <3>4. CASE p >= f /\ p < last
      <4>1. p \in s.first .. s.last
        BY <1>2, <1>3, <1>4, <1>5, <1>7, <3>4
      <4>2. QED
        BY <1>8, <4>1
    <3>5. CASE p >= last
      BY <1>2, <1>4, <1>5, <3>1, <3>5
    <3>6. QED
      BY <1>1, <1>2, <1>3, <1>4, <1>5, <3>2, <3>3, <3>4, <3>5
  <2>4. ~failed' => \A p \in 1 .. at' - 1 : Covered(p)'
    BY <1>6, <1>9, <2>3 DEF Covered
  <2>5. QED
    BY <2>1, <2>2, <2>4 DEF Midway
<1>14. Located' /\ NothingDropped'
  BY <1>1, <1>6 DEF Located, Newlines, Swallows, Size, NothingDropped
<1>15. Inside(tokens)'
  BY <1>1, <1>6, <1>9 DEF Inside, Swallows, Size
<1>16. failed' \in BOOLEAN /\ at' \in 1 .. Length' + 1
  BY <1>1, <1>2, <1>4, <1>5, <1>6, <1>9
<1>17. QED
  BY <1>1, <1>6, <1>8, <1>12, <1>13, <1>14, <1>15, <1>16 DEF Reader

(* The unit ends.                                                          *)
LEMMA StopKeeps ==
  ASSUME Reader, Parsing, NEW p \in 1 .. Length + 1, NEW error \in BOOLEAN,
         ~failed /\ ~error =>
           (p <= Length /\ Class(p) \in Ignored) \/ \A q \in 1 .. Length : Covered(q),
         Stop(p, error)
  PROVE  Reader'
<1>1. /\ phase = "parse" /\ line \in Nat /\ failed \in BOOLEAN /\ Inside(tokens)
      /\ at \in 1 .. Length + 1 /\ stmts \in Seq(StmtSet) /\ InOrder /\ Located
  BY DEF Reader, Parsing
<1>2. /\ stmts' = Hoist(stmts) /\ at' = p /\ failed' = (failed \/ error)
      /\ text' = text /\ pos' = pos /\ line' = line /\ tokens' = tokens /\ unit' = unit
      /\ phase' = "parsed"
  BY DEF Stop
<1>3. stmts' \in Seq(StmtSet) /\ Statements' = Statements
  <2>1. stmts' \in Seq(StmtSet) /\ Elements(stmts') = Elements(stmts)
    BY <1>1, <1>2, HoistSame
  <2>2. Statements' = Elements(stmts')
    BY DEF Statements, Elements
  <2>3. QED
    BY <2>1, <2>2, StatementsAre
<1>4. /\ Length' = Length /\ (\A q : Class(q)' = Class(q))
      /\ (\A ts : Inside(ts) => Inside(ts)') /\ (\A r : Proper(r) => Proper(r)')
  BY <1>2, ProperStays
<1>5. InOrder'
  BY <1>1, <1>3, <1>4 DEF InOrder
<1>6. NothingDropped'
  <2> SUFFICES ASSUME ~failed', ~(p <= Length /\ Class(p) \in Ignored),
                      NEW q \in 1 .. Length
               PROVE  \/ Class(q) = "newline"
                      \/ \E i \in DOMAIN stmts' : q \in stmts'[i].first .. stmts'[i].last
    BY <1>2, <1>4 DEF NothingDropped, Class, Length
  <2>1. Covered(q)
    BY <1>2
  <2>2. Class(q) = "newline" \/ \E s \in Statements' : q \in s.first .. s.last
    BY <1>3, <2>1 DEF Covered
  <2>3. QED
    BY <2>2 DEF Statements
<1>7. Located'
  BY <1>1, <1>2 DEF Located, Newlines, Swallows, Size
<1>8. Inside(tokens)'
  BY <1>1, <1>2, <1>4 DEF Inside, Swallows, Size
<1>9. at' \in 1 .. Length' + 1
  BY <1>2, <1>4
<1>10. QED
  BY <1>1, <1>2, <1>3, <1>5, <1>6, <1>7, <1>8, <1>9 DEF Reader

-----------------------------------------------------------------------------
(* The handlers of parseStatement, one by one.                             *)
LEMMA Parses ==
  ASSUME Reader, Parsing
  PROVE  /\ Inside(tokens) /\ Length \in Nat /\ at \in 1 .. Length + 1
         /\ first \in 1 .. Length + 1 /\ at <= first
         /\ Class(first) # "newline" /\ (\A i \in at .. first - 1 : Class(i) = "newline")
         /\ Class(first) # "empty" => first \in 1 .. Length /\ Begins(first)
<1>1. Inside(tokens) /\ at \in 1 .. Length + 1 /\ Midway
  BY DEF Reader, Parsing
<1>2. Length \in Nat
  BY <1>1, ClassIs
<1>3. /\ first \in at .. Length + 1 /\ Class(first) # "newline"
      /\ \A i \in at .. first - 1 : Class(i) = "newline"
      /\ Class(first) # "empty" => first \in 1 .. Length
  BY <1>1, BeginIs
<1>4. ASSUME Class(first) # "empty" PROVE Begins(first)
  <2>1. CASE first = at
    BY <1>1, <1>2, <1>3, <1>4, <2>1 DEF Midway
  <2>2. CASE first # at
    <3>1. first - 1 \in at .. first - 1
      BY <1>1, <1>2, <1>3, <2>2
    <3>2. QED
      BY <1>3, <3>1 DEF Begins
  <2>3. QED
    BY <2>1, <2>2
<1>5. QED
  BY <1>1, <1>2, <1>3, <1>4

(* Where the parser stops without an error nothing before it is left out.  *)
LEMMA CoveredBefore ==
  ASSUME Reader, Parsing, ~failed
  PROVE  \A q \in 1 .. first - 1 : Covered(q)
<1>1. Length \in Nat /\ at \in 1 .. Length + 1 /\ first \in 1 .. Length + 1
      /\ \A i \in at .. first - 1 : Class(i) = "newline"
  BY Parses
<1>2. \A q \in 1 .. at - 1 : Covered(q)
  BY DEF Reader, Parsing, Midway
<1>3. ASSUME NEW q \in 1 .. first - 1 PROVE Covered(q)
  <2>1. q \in 1 .. at - 1 \/ q \in at .. first - 1
    BY <1>1
  <2>2. QED
    BY <1>1, <1>2, <2>1 DEF Covered
<1>4. QED
  BY <1>3

LEMMA EndKeeps ==
  ASSUME Reader, ParseEnd
  PROVE  Reader'
<1>1. Parsing /\ first > Length /\ Stop(first, FALSE)
  BY DEF ParseEnd
<1>2. Length \in Nat /\ first \in 1 .. Length + 1
  BY <1>1, Parses
<1>3. ~failed => \A q \in 1 .. Length : Covered(q)
  <2>1. \A q \in 1 .. Length : q \in 1 .. first - 1
    BY <1>1, <1>2
  <2>2. QED
    BY <1>1, <2>1, CoveredBefore
<1> DEFINE p == first
<1>4. p \in 1 .. Length + 1 /\ Stop(p, FALSE)
  BY <1>1, <1>2
<1> HIDE DEF p
<1>5. QED
  BY <1>1, <1>3, <1>4, StopKeeps

(* A statement of the tokens f .. l - 1, none of them a brace or the end   *)
(* of a line.                                                              *)
LEMMA PlainKeeps ==
  ASSUME Reader, Parsing, NEW kind \in Kinds, Class(first) # "empty",
         NEW last \in first + 1 .. Length + 1, NEW error \in BOOLEAN,
         \A i \in first .. last - 1 : Class(i) \notin {"newline", LeftBrace},
         Parsed(kind, first, last, error, << >>)
  PROVE  Reader'
<1>1. Inside(tokens) /\ Length \in Nat /\ first \in 1 .. Length /\ Begins(first)
  BY Parses
<1>2. PICK f \in 1 .. Length : f = first
  BY <1>1
<1>3. Begins(f) /\ last \in f + 1 .. Length + 1 /\ last - 1 \in f .. Length
  BY <1>1, <1>2
<1>4. \A i \in f .. last - 1 : Class(i) \notin {"newline", LeftBrace}
  BY <1>2
<1>5. Proper([kind |-> kind, first |-> f, last |-> last - 1, body |-> << >>])
  BY <1>1, <1>3, <1>4, PlainProper
<1>6. Parsed(kind, f, last, error, << >>)
  BY <1>2
<1>7. QED
  BY <1>2, <1>3, <1>5, <1>6, ParsedKeeps

(* The operand that is missing where a list of them ends.                  *)
LEMMA MissingIs ==
  ASSUME Inside(tokens), NEW q \in 1 .. Length + 1
  PROVE  /\ Misses(q) \in BOOLEAN /\ AfterMissing(q) \in q .. Length + 1
         /\ AfterMissing(q) <= q + 1
         /\ AfterMissing(q) # q => q <= Length
         /\ ~Misses(q) => AfterMissing(q) = q /\ q <= Length /\ Class(q) \in Ignored
<1>1. Length \in Nat
  BY ClassIs
<1>2. Misses(q) \in BOOLEAN /\ (~Misses(q) <=> Class(q) \in Ignored)
  BY DEF Misses
<1>3. Class(q) \in Ignored => q <= Length
  BY <1>1, ClassIs, OperandsAre
<1>4. QED
  BY <1>1, <1>2, <1>3 DEF AfterMissing

LEMMA LabelKeeps ==
  ASSUME Reader, ParseLabel
  PROVE  Reader'
<1>1. Parsing /\ Class(first) = "label" /\ Parsed("label", first, first + 1, FALSE, << >>)
  BY DEF ParseLabel
<1>2. Length \in Nat /\ first \in 1 .. Length
  BY <1>1, Parses
<1>3. \A i \in first .. (first + 1) - 1 : Class(i) = "label"
  BY <1>1, <1>2
<1>4. first + 1 \in first + 1 .. Length + 1
  BY <1>2
<1>5. PICK l : l = first + 1
  OBVIOUS
<1>6. QED
  BY <1>1, <1>3, <1>4, <1>5, OperandsAre, PlainKeeps DEF Kinds

LEMMA ListKeeps ==
  ASSUME Reader, ParseList
  PROVE  Reader'
<1>1. Parsing /\ Class(first) = "ident"
  BY DEF ParseList, IsWord
<1>2. Inside(tokens) /\ Length \in Nat /\ first \in 1 .. Length
  BY <1>1, Parses
<1>3. PICK p : p = first + 1
  OBVIOUS
<1>4. p \in 1 .. Length + 1 /\ p \in Nat
  BY <1>2, <1>3
<1>5. PICK end : end = ArgumentsEnd(p)
  OBVIOUS
<1>6. /\ end \in p .. Length + 1 /\ Class(end) \notin Operand
      /\ \A i \in p .. end - 1 : Class(i) \in Operand
  BY <1>2, <1>4, <1>5, ArgumentsIs
<1>7. \A i \in first .. end - 1 : Class(i) \notin {"newline", LeftBrace}
  <2>1. \A i \in first .. end - 1 : i = first \/ i \in p .. end - 1
    BY <1>2, <1>3, <1>6
  <2>2. QED
    BY <1>1, <1>6, <2>1, OperandsAre
<1>8. CASE Stops(end)
  <2>1. Parsed("command", first, end, FALSE, << >>)
    BY <1>3, <1>5, <1>8 DEF ParseList
  <2>2. end \in first + 1 .. Length + 1
    BY <1>3, <1>6
  <2>3. QED
    BY <1>1, <1>7, <2>1, <2>2, OperandsAre, PlainKeeps DEF Kinds
<1>9. CASE ~Stops(end)
  <2>1. Parsed("command", first, AfterMissing(end), Misses(end), << >>)
    BY <1>3, <1>5, <1>9 DEF ParseList
  <2>2. end \in 1 .. Length + 1
    BY <1>4, <1>6
  <2>3. PICK l : l = AfterMissing(end)
    OBVIOUS
  <2>4. /\ Misses(end) \in BOOLEAN /\ l \in end .. Length + 1 /\ l <= end + 1
        /\ l \in first + 1 .. Length + 1
    BY <1>2, <1>3, <1>6, <2>2, <2>3, MissingIs
  <2>5. Class(end) \notin {"newline", LeftBrace}
    BY <1>9 DEF Stops
  <2>6. \A i \in first .. l - 1 : Class(i) \notin {"newline", LeftBrace}
    <3>1. \A i \in first .. l - 1 : i \in first .. end - 1 \/ i = end
      BY <1>2, <1>3, <1>6, <2>4
    <3>2. QED
      BY <1>7, <2>5, <3>1
  <2>7. Parsed("command", first, l, Misses(end), << >>)
    BY <2>1, <2>3
  <2>8. PICK m \in BOOLEAN : m = Misses(end)
    BY <2>4
  <2>9. Parsed("command", first, l, m, << >>)
    BY <2>7, <2>8
  <2>10. QED
    BY <1>1, <2>4, <2>6, <2>9, OperandsAre, PlainKeeps DEF Kinds
<1>10. QED
  BY <1>8, <1>9

LEMMA CommandKeeps ==
  ASSUME Reader, NEW n \in 1 .. 2, ParseCommand(n)
  PROVE  Reader'
<1>1. Parsing /\ Class(first) = "ident"
  BY DEF ParseCommand, IsWord
<1>2. Inside(tokens) /\ Length \in Nat /\ first \in 1 .. Length
  BY <1>1, Parses
<1>3. PICK p : p = first + 1
  OBVIOUS
<1>4. p \in 1 .. Length + 1 /\ p \in Nat /\ n \in Nat
  BY <1>2, <1>3
<1>5. PICK end : end = OperandsEnd(p, n)
  OBVIOUS
<1>6. /\ end \in p .. p + n /\ end \in p .. Length + 1
      /\ end < p + n => Class(end) \notin Operand
      /\ \A i \in p .. end - 1 : Class(i) \in Operand
  BY <1>2, <1>4, <1>5, OperandsIs
<1>7. \A i \in first .. end - 1 : Class(i) \notin {"newline", LeftBrace}
  <2>1. \A i \in first .. end - 1 : i = first \/ i \in p .. end - 1
    BY <1>2, <1>3, <1>6
  <2>2. QED
    BY <1>1, <1>6, <2>1, OperandsAre
<1>8. CASE end = p + n
  <2>1. Parsed("command", first, end, FALSE, << >>)
    BY <1>3, <1>5, <1>8 DEF ParseCommand
  <2>2. end \in first + 1 .. Length + 1
    BY <1>3, <1>6
  <2>3. QED
    BY <1>1, <1>7, <2>1, <2>2, OperandsAre, PlainKeeps DEF Kinds
<1>9. CASE end # p + n
  <2>1. Stop(AfterMissing(end), Misses(end))
    BY <1>3, <1>5, <1>9 DEF ParseCommand
  <2>2. end \in 1 .. Length + 1
    BY <1>4, <1>6
  <2>3. /\ Misses(end) \in BOOLEAN /\ AfterMissing(end) \in end .. Length + 1
        /\ ~Misses(end) => /\ AfterMissing(end) = end /\ end <= Length
                           /\ Class(end) \in Ignored
    BY <1>2, <2>2, MissingIs
  <2>4. PICK m \in BOOLEAN : m = Misses(end)
    BY <2>3
  <2>5. PICK l \in 1 .. Length + 1 : l = AfterMissing(end)
    BY <1>2, <2>2, <2>3
  <2>6. Stop(l, m)
    BY <2>1, <2>4, <2>5
  <2>7. ~failed /\ ~m => l <= Length /\ Class(l) \in Ignored
    BY <2>3, <2>4, <2>5
  <2>8. QED
    BY <1>1, <2>6, <2>7, StopKeeps
<1>10. QED
  BY <1>8, <1>9

LEMMA PopKeeps ==
  ASSUME Reader, ParsePop
  PROVE  Reader'
<1>1. Parsing /\ Class(first) = "ident"
  BY DEF ParsePop, IsWord
<1>2. Inside(tokens) /\ Length \in Nat /\ first \in 1 .. Length
  BY <1>1, Parses
<1>3. PICK l : l = IF Class(first + 1) = "integer" THEN first + 2 ELSE first + 1
  OBVIOUS
<1>4. Parsed("command", first, l, FALSE, << >>)
  BY <1>3 DEF ParsePop
<1>5. Class(first + 1) = "integer" => first + 1 \in 1 .. Length
  BY <1>2, ClassIs
<1>6. l \in first + 1 .. Length + 1
  BY <1>2, <1>3, <1>5
<1>7. \A i \in first .. l - 1 :
        i = first \/ (i = first + 1 /\ Class(first + 1) = "integer")
  BY <1>2, <1>3
<1>8. \A i \in first .. l - 1 : Class(i) \notin {"newline", LeftBrace}
  BY <1>1, <1>7, OperandsAre DEF Operand
<1>9. QED
  BY <1>1, <1>4, <1>6, <1>8, OperandsAre, PlainKeeps DEF Kinds

(* A statement of one token.                                               *)
LEMMA OneKeeps ==
  ASSUME Reader, Parsing, NEW kind \in Kinds,
         Class(first) \in Operand \cup {"directive", "label", "ident"},
         Parsed(kind, first, first + 1, FALSE, << >>)
  PROVE  Reader'
<1>1. Length \in Nat /\ first \in 1 .. Length /\ Class(first) # "empty"
  BY Parses, OperandsAre
<1>2. PICK l : l = first + 1
  OBVIOUS
<1>3. l \in first + 1 .. Length + 1 /\ \A i \in first .. l - 1 : i = first
  BY <1>1, <1>2
<1>4. Class(first) \notin {"newline", LeftBrace}
  BY OperandsAre
<1>5. Parsed(kind, first, l, FALSE, << >>)
  BY <1>2
<1>6. QED
  BY <1>1, <1>3, <1>4, <1>5, PlainKeeps

LEMMA WordKeeps ==
  ASSUME Reader, ParseWord
  PROVE  Reader'
<1>1. Parsing /\ Class(first) = "ident"
  BY DEF ParseWord
<1>2. CASE unit = "interpolation"
  <2>1. Parsed("variable", first, first + 1, FALSE, << >>)
    BY <1>2 DEF ParseWord
  <2>2. QED
    BY <1>1, <2>1, OneKeeps DEF Kinds
<1>3. CASE unit # "interpolation"
  <2>1. Stop(first + 1, TRUE)
    BY <1>3 DEF ParseWord
  <2>2. Length \in Nat /\ first \in 1 .. Length
    BY <1>1, Parses, OperandsAre
  <2>3. PICK l \in 1 .. Length + 1 : l = first + 1
    BY <2>2
  <2>4. Stop(l, TRUE)
    BY <2>1, <2>3
  <2>5. QED
    BY <1>1, <2>4, StopKeeps
<1>4. QED
  BY <1>2, <1>3

LEMMA ExpressionKeeps ==
  ASSUME Reader, ParseExpression
  PROVE  Reader'
<1>1. Parsing /\ first <= Length
  BY DEF ParseExpression
<1>2. Inside(tokens) /\ Length \in Nat /\ first \in 1 .. Length + 1
  BY <1>1, Parses
<1>3. CASE Class(first) \in Operand
  <2>1. Parsed("expression", first, first + 1, FALSE, << >>)
    BY <1>3 DEF ParseExpression
  <2>2. QED
    BY <1>1, <1>3, <2>1, OneKeeps DEF Kinds
<1>4. CASE Class(first) \notin Operand
  <2>1. Stop(AfterMissing(first), Misses(first))
    BY <1>4 DEF ParseExpression
  <2>2. PICK q \in 1 .. Length + 1 : q = first
    BY <1>2
  <2>3. /\ Misses(q) \in BOOLEAN /\ AfterMissing(q) \in q .. Length + 1
        /\ ~Misses(q) => AfterMissing(q) = q /\ q <= Length /\ Class(q) \in Ignored
    BY <1>2, MissingIs
  <2>4. PICK m \in BOOLEAN : m = Misses(q)
    BY <2>3
  <2>5. PICK l \in 1 .. Length + 1 : l = AfterMissing(q)
    BY <1>2, <2>3
  <2>6. Stop(l, m)
    BY <2>1, <2>2, <2>4, <2>5
  <2>7. ~failed /\ ~m => l <= Length /\ Class(l) \in Ignored
    BY <2>3, <2>4, <2>5
  <2>8. QED
    BY <1>1, <2>6, <2>7, StopKeeps
<1>5. QED
  BY <1>3, <1>4

LEMMA DirectiveKeeps ==
  ASSUME Reader, ParseDirective
  PROVE  Reader'
<1>1. Parsing /\ Class(first) = "directive"
  BY DEF ParseDirective
<1>2. Inside(tokens) /\ Length \in Nat /\ first \in 1 .. Length /\ Begins(first)
  BY <1>1, Parses, OperandsAre
<1>3. PICK f \in 1 .. Length : f = first
  BY <1>2
<1>4. PICK p : p = f + 1
  OBVIOUS
<1>5. p \in 1 .. Length + 1 /\ p \in Nat
  BY <1>2, <1>3, <1>4
<1>6. PICK end : end = ArgumentsEnd(p)
  OBVIOUS
<1>7. /\ end \in p .. Length + 1 /\ Class(end) \notin Operand
      /\ \A i \in p .. end - 1 : Class(i) \in Operand
  BY <1>2, <1>5, <1>6, ArgumentsIs
<1>8. PICK open : open = IF Stops(end) THEN end ELSE AfterMissing(end)
  OBVIOUS
<1>9. PICK error : error = (~Stops(end) /\ Misses(end))
  OBVIOUS
<1>10. /\ open \in end .. Length + 1 /\ open <= end + 1
       /\ open # end => Class(end) \notin {"newline", LeftBrace}
  <2>1. end \in 1 .. Length + 1
    BY <1>5, <1>7
  <2>2. AfterMissing(end) \in end .. Length + 1 /\ AfterMissing(end) <= end + 1
    BY <1>2, <2>1, MissingIs
  <2>3. ~Stops(end) => Class(end) \notin {"newline", LeftBrace}
    BY DEF Stops
  <2>4. QED
    BY <1>2, <1>5, <1>7, <1>8, <2>1, <2>2, <2>3
<1>11. error \in BOOLEAN
  BY <1>9
<1>12. \A i \in f .. open - 1 : Class(i) \notin {"newline", LeftBrace}
  <2>1. \A i \in f .. open - 1 : i = f \/ i \in p .. end - 1 \/ (i = end /\ open # end)
    BY <1>2, <1>4, <1>5, <1>7, <1>10
  <2>2. QED
    BY <1>1, <1>3, <1>7, <1>10, <2>1, OperandsAre
<1>13. open \in f + 1 .. Length + 1
  BY <1>2, <1>4, <1>5, <1>7, <1>10
<1>14. CASE Class(open) = LeftBrace
  <2>1. PICK last : last = IF Closing(open + 1) > Length THEN Closing(open + 1)
                           ELSE Closing(open + 1) + 1
    OBVIOUS
  <2>2. PICK body : body = SubSeq(tokens, open + 1, Closing(open + 1) - 1)
    OBVIOUS
  <2>3. Parsed("directive", f, last, error, body)
    BY <1>3, <1>4, <1>6, <1>8, <1>9, <1>14, <2>1, <2>2 DEF ParseDirective
  <2>4. open \in f + 1 .. Length
    <3>1. open \in 1 .. Length
      BY <1>2, <1>14, ClassIs, OperandsAre
    <3>2. QED
      BY <1>2, <1>13, <3>1
  <2>5. /\ last \in open + 1 .. Length + 1
        /\ Proper([kind |-> "directive", first |-> f, last |-> last - 1, body |-> body])
    BY <1>2, <1>3, <1>12, <1>14, <2>1, <2>2, <2>4, BracedProper
  <2>6. last \in f + 1 .. Length + 1
    BY <1>2, <2>4, <2>5
  <2>7. QED
    BY <1>1, <1>3, <1>11, <2>3, <2>5, <2>6, ParsedKeeps DEF Kinds
<1>15. CASE Class(open) # LeftBrace
  <2>1. Parsed("directive", first, open, error, << >>)
    BY <1>3, <1>4, <1>6, <1>8, <1>9, <1>15 DEF ParseDirective
  <2>2. QED
    BY <1>1, <1>3, <1>11, <1>12, <1>13, <2>1, OperandsAre, PlainKeeps DEF Kinds
<1>16. QED
  BY <1>14, <1>15

LEMMA StatementKeeps ==
  ASSUME Reader, ParseStatement
  PROVE  Reader'
  BY EndKeeps, DirectiveKeeps, LabelKeeps, CommandKeeps, PopKeeps, ListKeeps, WordKeeps,
     ExpressionKeeps DEF ParseStatement

-----------------------------------------------------------------------------
(* The units: how one begins, and how the lexer hands over to the parser.  *)
LEMMA FirstIs ==
  ASSUME NEW t \in Seq(Alphabet)
  PROVE  /\ FirstOf(t) \in 1 .. Len(t) + 1
         /\ FirstOf(t) <= Len(t) => t[FirstOf(t)] \notin Space
         /\ Skipped(t) \in Nat
<1> DEFINE n == Len(t) + 1
           S == {q \in 1 .. n : q <= Len(t) => t[q] \notin Space}
           Is(q) == /\ q <= Len(t) => t[q] \notin Space
                    /\ \A i \in 1 .. q - 1 : t[i] \in Space
<1>1. Len(t) \in Nat /\ n \in S /\ n \in Nat /\ 1 \in Nat
  BY LenProperties
<1>2. PICK q \in S : \A i \in 1 .. q - 1 : i \notin S
  <2> HIDE DEF S
  <2>1. S \in SUBSET (1 .. n)
    BY DEF S
  <2>2. \A b \in Nat : \A T \in SUBSET (b .. n) :
          T # {} => \E q \in T : \A i \in b .. q - 1 : i \notin T
    BY <1>1, FirstPlace
  <2>3. QED
    BY <1>1, <2>1, <2>2
<1>3. q \in 1 .. Len(t) + 1 /\ Is(q)
  BY <1>1, <1>2
<1>4. FirstOf(t) \in 1 .. Len(t) + 1 /\ Is(FirstOf(t))
  <2>1. FirstOf(t) = CHOOSE k \in 1 .. Len(t) + 1 : Is(k)
    BY DEF FirstOf
  <2> HIDE DEF Is
  <2>2. QED
    BY <1>3, <2>1
<1>5. Skipped(t) \in Nat
  <2> DEFINE A == {i \in 1 .. FirstOf(t) - 1 : t[i] = Newline}
  <2>1. IsFiniteSet(1 .. FirstOf(t) - 1)
    BY <1>4, FS_Interval
  <2>2. IsFiniteSet(A)
    BY <2>1, FS_Subset
  <2>3. QED
    BY <2>2, FS_CardinalityType DEF Skipped
<1>6. QED
  BY <1>4, <1>5

LEMMA LexInside ==
  ASSUME Lexing
  PROVE  Inside(tokens)
  BY DEF Lexing, LexTyped, LexKept, Kept, Inside

LEMMA LexInsideNext == (Lexing => Inside(tokens))'
<1>1. Lexing => Inside(tokens)
  BY LexInside
<1>2. QED
  BY <1>1, PTL

LEMMA InitReads ==
  ASSUME Init
  PROVE  Reader
<1>1. /\ text \in Texts /\ pos = FirstOf(text) /\ line = Skipped(text)
      /\ tokens = << >> /\ failed = FALSE /\ unit = "file"
      /\ phase = "lex" /\ at = 1 /\ stmts = << >>
  BY DEF Init, LexInit
<1>2. text \in Seq(Alphabet)
  BY <1>1, TextsAssumption
<1>3. Standing /\ line \in Nat
  BY <1>1, <1>2, FirstIs DEF Standing, HasNext, Size
<1>4. Located
  BY <1>1 DEF Located, Newlines, Skipped
<1>5. Lexing
  <2>1. tokens \in Seq(TokenSet) /\ InStep(tokens) /\ DOMAIN tokens = {}
    BY <1>1, EmptyInStep
  <2>2. LexTyped
    BY <1>1, <1>3, <2>1 DEF LexTyped
  <2>3. LexKept
    BY <1>1, <2>1 DEF LexKept, Kept
  <2>4. QED
    BY <1>1, <1>3, <2>2, <2>3 DEF Lexing
<1>6. QED
  BY <1>1, <1>3, <1>4, <1>5, LexInside DEF Reader, NothingDropped

LEMMA LexKeeps ==
  ASSUME Reader, Lex
  PROVE  Reader'
<1>1. phase = "lex" /\ NextToken /\ phase' = phase /\ stmts' = stmts
  BY DEF Lex
<1>2. Lexing /\ stmts = << >> /\ Located
  BY <1>1 DEF Reader
<1>3. Reading
  BY <1>1 DEF NextToken, ReadString, ReadHex, ReadNumber, ReadComment, ReadDirective,
     ReadInterpolation, ReadIdentifier, ReadDataLocation, ReadPunctuation, ReadUnknown
<1>4. PICK t : Sound(t) /\ Read(t)
  BY <1>1, <1>2, <1>3, NextSound DEF Lexing
<1>5. Lexing' /\ Located'
  BY <1>2, <1>3, <1>4, ReadKeeps
<1>6. line' \in Nat /\ failed' \in BOOLEAN
  BY <1>5 DEF Lexing, LexTyped
<1>7. Inside(tokens)'
  BY <1>5, LexInsideNext
<1>8. QED
  BY <1>1, <1>2, <1>5, <1>6, <1>7 DEF Reader, NothingDropped

LEMMA LexedKeeps ==
  ASSUME Reader, Lexed
  PROVE  Reader'
<1>1. /\ phase = "lex" /\ phase' = "parse" /\ at' = 1 /\ stmts' = << >>
      /\ text' = text /\ pos' = pos /\ line' = line /\ tokens' = tokens
      /\ failed' = failed /\ unit' = unit
  BY DEF Lexed, lexVars
<1>2. line \in Nat /\ failed \in BOOLEAN /\ Inside(tokens) /\ Located
  BY DEF Reader
<1>3. Inside(tokens)'
  BY <1>1, <1>2 DEF Inside, Swallows, Size
<1>4. Located' /\ NothingDropped'
  BY <1>1, <1>2 DEF Located, Newlines, Swallows, Size, NothingDropped
<1>5. at' \in 1 .. Length' + 1
  <2>1. Length \in Nat /\ Length' = Length
    BY <1>1, <1>2, ClassIs DEF Length
  <2>2. QED
    BY <1>1, <2>1
<1>6. Statements' = {} /\ stmts' \in Seq(StmtSet)
  BY <1>1, EmptySeq DEF Statements
<1>7. InOrder'
  BY <1>6 DEF InOrder
<1>8. Midway'
  BY <1>1, <1>6 DEF Midway, Begins
<1>9. QED
  BY <1>1, <1>2, <1>3, <1>4, <1>5, <1>6, <1>7, <1>8 DEF Reader

LEMMA BodyKeeps ==
  ASSUME Reader, OpenBody
  PROVE  Reader'
<1>1. PICK i \in DOMAIN stmts : tokens' = stmts[i].body
  BY DEF OpenBody
<1>2. /\ phase = "parsed" /\ phase' = "parse" /\ at' = 1 /\ stmts' = << >>
      /\ text' = text /\ pos' = pos /\ line' = line /\ failed' = failed /\ unit' = "body"
  BY DEF OpenBody
<1>3. line \in Nat /\ failed \in BOOLEAN /\ InOrder
  BY <1>2 DEF Reader
<1>4. stmts[i] \in Statements
  BY DEF Statements
<1>5. PICK b : b = stmts[i].body /\ Inside(b)
  BY <1>3, <1>4 DEF InOrder, Proper
<1>6. Inside(tokens)'
  BY <1>1, <1>2, <1>5 DEF Inside, Swallows, Size
<1>7. Located' /\ NothingDropped'
  BY <1>2 DEF Located, NothingDropped
<1>8. at' \in 1 .. Length' + 1
  <2>1. Length' \in Nat
    BY <1>6, LenProperties DEF Inside, Length
  <2>2. \A n \in Nat : 1 \in 1 .. n + 1
    OBVIOUS
  <2>3. 1 \in 1 .. Length' + 1
    BY <2>1, <2>2
  <2>4. QED
    BY <1>2, <2>3
<1>9. Statements' = {} /\ stmts' \in Seq(StmtSet)
  BY <1>2, EmptySeq DEF Statements
<1>10. InOrder'
  BY <1>9 DEF InOrder
<1>11. Midway'
  BY <1>2, <1>9 DEF Midway, Begins
<1>12. QED
  BY <1>2, <1>3, <1>6, <1>7, <1>8, <1>9, <1>10, <1>11 DEF Reader

LEMMA InterpolationKeeps ==
  ASSUME Reader, OpenInterpolation
  PROVE  Reader'
<1> PICK i \in DOMAIN stmts : \E p \in Words(stmts[i]) :
      /\ tokens[p].class = "interpolation" /\ text' = tokens[p].value
      /\ pos' = FirstOf(text') /\ line' = tokens[p].line + Skipped(text')
  BY DEF OpenInterpolation
<1>1. PICK p \in Words(stmts[i]) :
        /\ tokens[p].class = "interpolation" /\ text' = tokens[p].value
        /\ pos' = FirstOf(text') /\ line' = tokens[p].line + Skipped(text')
  OBVIOUS
<1>2. /\ phase = "parsed" /\ phase' = "lex" /\ at' = 1 /\ stmts' = << >>
      /\ tokens' = << >> /\ failed' = failed /\ unit' = "interpolation"
  BY DEF OpenInterpolation
<1>3. failed \in BOOLEAN /\ InOrder /\ Inside(tokens)
  BY <1>2 DEF Reader
<1>4. stmts[i] \in Statements
  BY DEF Statements
<1>5. /\ stmts[i].first \in 1 .. Length
      /\ stmts[i].last \in stmts[i].first .. Length
      /\ p \in stmts[i].first .. stmts[i].last
  BY <1>3, <1>4 DEF InOrder, Proper, Words
<1>6. Length \in Nat /\ DOMAIN tokens = 1 .. Length /\ p \in 1 .. Length
      /\ tokens[p] \in TokenSet
  <2>1. Length \in Nat
    BY <1>3, ClassIs
  <2>2. p \in 1 .. Length
    BY <1>5, <2>1
  <2>3. QED
    BY <1>3, <2>1, <2>2, ClassIs
<1>7. OneLine(tokens[p].value)
  BY <1>1, <1>3, <1>6 DEF Inside, Complete
<1>8. PICK t : t = tokens[p].value
  OBVIOUS
<1>9. t \in Seq(Alphabet) /\ OneLine(t) /\ tokens[p].line \in Nat
  BY <1>6, <1>7, <1>8 DEF TokenSet
<1>10. text' = t /\ pos' = FirstOf(t) /\ line' = tokens[p].line + Skipped(t)
  BY <1>1, <1>8
<1>11. Standing' /\ line' \in Nat
  BY <1>9, <1>10, FirstIs DEF Standing, HasNext, Size
<1>12. OneLine(text)'
  BY <1>9, <1>10 DEF OneLine
<1>13. Lexing'
  BY <1>2, <1>3, <1>11, <1>12, EmptyInStep DEF Lexing, LexTyped, LexKept, Kept, InStep
<1>14. Inside(tokens)'
  BY <1>13, LexInsideNext
<1>15. Located' /\ NothingDropped'
  BY <1>2 DEF Located, NothingDropped
<1>16. QED
  BY <1>2, <1>3, <1>11, <1>13, <1>14, <1>15 DEF Reader

LEMMA StutterKeeps ==
  ASSUME Reader, UNCHANGED vars
  PROVE  Reader'
<1>1. /\ text' = text /\ pos' = pos /\ line' = line /\ tokens' = tokens
      /\ failed' = failed /\ unit' = unit /\ phase' = phase /\ at' = at /\ stmts' = stmts
  BY DEF vars, lexVars
<1>2. /\ Length' = Length /\ (\A p : Class(p)' = Class(p) /\ (Begins(p)' <=> Begins(p)))
      /\ (\A ts : Inside(ts) => Inside(ts)') /\ (\A r : Proper(r) => Proper(r)')
  BY <1>1, ProperStays
<1>3. Lexing => Lexing'
  BY <1>1 DEF Lexing, Standing, LexTyped, LexKept, Kept, Swallows, Size, Peek, HasNext,
     Reading, OneLine, InStep
<1>4. Statements' = Statements
  BY <1>1 DEF Statements
<1>5. InOrder => InOrder'
  BY <1>2, <1>4 DEF InOrder
<1>6. Midway => Midway'
  BY <1>1, <1>4 DEF Midway, Covered, Begins, Class, Length
<1>7. Located /\ NothingDropped => Located' /\ NothingDropped'
  BY <1>1 DEF Located, Newlines, Swallows, Size, NothingDropped, Class, Length
<1>8. Inside(tokens) => Inside(tokens)'
  BY <1>1 DEF Inside, Swallows, Size
<1>9. QED
  BY <1>1, <1>2, <1>3, <1>4, <1>5, <1>6, <1>7, <1>8 DEF Reader

LEMMA StepReads == Reader /\ [Next]_vars => Reader'
<1> SUFFICES ASSUME Reader, [Next]_vars PROVE Reader'
  OBVIOUS
<1>1. CASE Lex
  BY <1>1, LexKeeps
<1>2. CASE Lexed
  BY <1>2, LexedKeeps
<1>3. CASE ParseStatement
  BY <1>3, StatementKeeps
<1>4. CASE OpenBody
  BY <1>4, BodyKeeps
<1>5. CASE OpenInterpolation
  BY <1>5, InterpolationKeeps
<1>6. CASE UNCHANGED vars
  BY <1>6, StutterKeeps
<1>7. QED
  BY <1>1, <1>2, <1>3, <1>4, <1>5, <1>6 DEF Next

LEMMA AlwaysReader == Spec => []Reader
<1>1. Init => Reader
  BY InitReads
<1>2. Reader /\ [Next]_vars => Reader'
  BY StepReads
<1>3. QED
  BY <1>1, <1>2, PTL DEF Spec

-----------------------------------------------------------------------------
(* What the reader promises, for every set of files.  Lines: wherever the  *)
(* lexer stands in a file, the line it would name is the number of ends of *)
(* lines before it (Lexer::skipWhitespace, readStringLiteral).             *)
THEOREM LinesNamed == Spec => []Located
<1>1. Reader => Located
  BY DEF Reader
<1>2. QED
  BY <1>1, AlwaysReader, PTL

(* After an error the parser goes on at the beginning of a line: every     *)
(* statement is the first thing of its unit or follows an end of a line    *)
(* (Parser::expectEndOfStmt).                                              *)
THEOREM AlwaysResumes == Spec => []Resumes
<1>1. Reader => Resumes
  <2> SUFFICES ASSUME Reader, NEW i \in DOMAIN stmts
               PROVE  stmts[i].first = 1 \/ Class(stmts[i].first - 1) = "newline"
    BY DEF Resumes
  <2>1. CASE phase = "lex"
    BY <2>1, EmptySeq DEF Reader
  <2>2. CASE phase # "lex"
    BY <2>2 DEF Reader, InOrder, Statements, Proper, Begins
  <2>3. QED
    BY <2>1, <2>2
<1>2. QED
  BY <1>1, AlwaysReader, PTL

(* A unit parsed without an error has each of its tokens in a statement,   *)
(* unless the parser met a parenthesis or a bracket where it wanted an     *)
(* operand (Parser::parse): nothing else is left out in silence.           *)
THEOREM NothingLeftOut == Spec => []NothingDropped
<1>1. Reader => NothingDropped
  BY DEF Reader
<1>2. QED
  BY <1>1, AlwaysReader, PTL

(* A directive ends at the brace that closes its own, or nowhere           *)
(* (Parser::parseDirective), and so does what an interpolation holds       *)
(* (Lexer::readInterpolation).                                             *)
THEOREM BracesAlwaysMatch == Spec => []BracesMatch
<1>1. Reader => BracesMatch
  <2> SUFFICES ASSUME Reader PROVE BracesMatch
    OBVIOUS
  <2>1. ASSUME NEW i \in DOMAIN stmts
        PROVE  \/ stmts[i].last = Length
               \/ Cardinality(Held(stmts[i], LeftBrace))
                    = Cardinality(Held(stmts[i], RightBrace))
    <3>1. CASE phase = "lex"
      BY <3>1, EmptySeq DEF Reader
    <3>2. CASE phase # "lex"
      BY <3>2 DEF Reader, InOrder, Statements, Proper
    <3>3. QED
      BY <3>1, <3>2
  <2>2. ASSUME NEW p \in 1 .. Length, Class(p) = "interpolation"
        PROVE  Cardinality(Braces(tokens[p].value, LeftBrace))
                 = Cardinality(Braces(tokens[p].value, RightBrace))
    <3>1. Inside(tokens)
      BY DEF Reader
    <3>2. p \in DOMAIN tokens /\ tokens[p].class = "interpolation"
      BY <2>2, <3>1, ClassIs
    <3>3. QED
      BY <3>1, <3>2 DEF Inside, Complete, Balanced
  <2>3. QED
    BY <2>1, <2>2 DEF BracesMatch, Held, Braces
<1>2. QED
  BY <1>1, AlwaysReader, PTL

(* A line is a statement (Lexer::analyze, Parser::expectEndOfStmt): where  *)
(* no error was reported, the tokens of a statement outside its braces lie *)
(* on one line, except that `{` and `.` may begin the next, and the next   *)
(* statement begins on a later line.                                       *)
THEOREM StatementsAreLines == Spec => []LinesAreStatements
<1>1. Reader => LinesAreStatements
  <2> SUFFICES ASSUME Reader, phase = "parsed", ~failed, ~Swallows
               PROVE  LinesAreStatements
    BY DEF LinesAreStatements
  <2>1. Inside(tokens) /\ InOrder
    BY DEF Reader
  <2>2. InStep(tokens)
    BY <2>1 DEF Inside
  <2>3. /\ Length \in Nat /\ DOMAIN tokens = 1 .. Length
        /\ \A p \in 1 .. Length : tokens[p] \in TokenSet /\ Class(p) = tokens[p].class
    BY <2>1, ClassIs
  <2>4. \A i \in DOMAIN stmts : stmts[i] \in Statements
    BY DEF Statements
  <2>5. ASSUME NEW s \in Statements, NEW p \in Words(s), p > s.first
        PROVE  tokens[p].line = tokens[p - 1].line \/ Continues(p)
    <3>1. /\ s.first \in 1 .. Length /\ s.last \in s.first .. Length
          /\ \A q \in Words(s) : Class(q) # "newline"
      BY <2>1 DEF InOrder, Proper
    <3>2. p \in s.first .. s.last /\ \A i \in s.first .. p : Class(i) # LeftBrace
      BY DEF Words
    <3>3. p \in 1 .. Length /\ p - 1 \in 1 .. Length /\ p - 1 \in s.first .. s.last
      BY <2>3, <2>5, <3>1, <3>2
    <3>4. \A i \in s.first .. p - 1 : i \in s.first .. p
      BY <2>3, <3>1, <3>2
    <3>5. p - 1 \in Words(s)
      BY <3>2, <3>3, <3>4 DEF Words
    <3>6. Class(p) # "newline" /\ Class(p - 1) # "newline"
      BY <3>1, <3>5
    <3>7. tokens[p].line = tokens[p - 1].line \/ GoesOn(tokens[p])
      BY <2>2, <2>3, <3>3, <3>6 DEF InStep
    <3>8. QED
      BY <2>3, <3>3, <3>7 DEF GoesOn, Continues
  <2>6. ASSUME NEW r \in Statements, NEW s \in Statements, r.first < s.first
        PROVE  tokens[r.last].line < tokens[s.first].line
    <3>1. /\ r.first \in 1 .. Length /\ r.last \in r.first .. Length
          /\ r.last = Length \/ Class(r.last) # "newline"
          /\ s.first \in 1 .. Length /\ Begins(s.first) /\ r.last < s.first
      BY <2>1, <2>6 DEF InOrder, Proper
    <3> DEFINE n == s.first - 1
    <3>2. Class(n) = "newline" /\ r.last # n /\ n \in 1 .. Length /\ r.last < n
          /\ n < s.first /\ r.last \in 1 .. Length
      <4>1. s.first # 1 /\ r.last # Length
        BY <2>3, <2>6, <3>1
      <4>2. Class(n) = "newline" /\ Class(r.last) # "newline"
        BY <3>1, <4>1 DEF Begins
      <4>3. r.last # n
        BY <4>2
      <4> HIDE DEF n
      <4>4. n = s.first - 1
        BY DEF n
      <4>5. QED
        BY <2>3, <3>1, <4>1, <4>2, <4>3, <4>4
    <3> HIDE DEF n
    <3>3. Follows(tokens[r.last], tokens[n]) /\ Follows(tokens[n], tokens[s.first])
      BY <2>2, <2>3, <3>1, <3>2 DEF InStep
    <3>4. tokens[n].class = "newline"
      BY <2>3, <3>2
    <3>5. /\ tokens[r.last].line \in Nat /\ tokens[n].line \in Nat
          /\ tokens[s.first].line \in Nat
      BY <2>3, <3>1, <3>2 DEF TokenSet
    <3>6. QED
      BY <3>3, <3>4, <3>5 DEF Follows
  <2>7. QED
    BY <2>4, <2>5, <2>6 DEF LinesAreStatements
<1>2. QED
  BY <1>1, AlwaysReader, PTL
=============================================================================
