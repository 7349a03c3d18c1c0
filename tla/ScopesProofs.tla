---------------------------- MODULE ScopesProofs ----------------------------
(***************************************************************************)
(* What the expansion of directives promises for every program and every   *)
(* set of files: nothing is built that was not visited or has no value,    *)
(* and a variable that is set is seen with the value set.  And what it     *)
(* promises for programs that leave alone what they pass to macros:        *)
(* arguments mean in a macro what they meant where the macro was used.     *)
(*                                                                         *)
(* A statement is behind the visitors when no list being visited has yet   *)
(* to come to it.  While none of their units has an error, each statement  *)
(* behind them is ready to be built; when the outermost list is at its     *)
(* end, all statements are behind.                                         *)
(***************************************************************************)
EXTENDS Scopes, Induction

-----------------------------------------------------------------------------
(* The shape of the state.  The parameters are the numbers of bodies, of   *)
(* lists and of units.                                                     *)
Known(v, n) == v.kind = "body" => v.id \in 1 .. n

UnitSound(u, n) ==
  /\ u = [vars |-> u.vars, macros |-> u.macros]
  /\ IsFiniteSet(DOMAIN u.vars)
  /\ \A x \in DOMAIN u.vars : Known(u.vars[x], n)
  /\ \A x \in DOMAIN u.macros : u.macros[x] \in Seq(Statement)

UnitsSound(us, n) ==
  /\ us \in Seq(Elements(us))
  /\ \A i \in 1 .. Len(us) : UnitSound(us[i], n)

BodiesSound(bs, m) == bs \in Seq([stmts : Seq(Statement), list : 0 .. m])

Iterator == [unit : Nat, list : Nat, at : Nat]

Standing(a, n, ls) ==
  /\ a \in Seq(Iterator) /\ Len(a) \in 1 .. MaxDepth
  /\ \A i \in 1 .. Len(a) :
       /\ a[i].unit \in 1 .. n
       /\ a[i].list \in 1 .. Len(ls)
       /\ a[i].at \in 1 .. Len(ls[a[i].list]) + 1

(* What interpolations stand for is no body that was never visited.        *)
MemoSound(mm, bs) ==
  \A id \in DOMAIN mm :
    mm[id].kind = "body" => mm[id].id \in 1 .. Len(bs) /\ bs[mm[id].id].list # 0

UsedSound(us, m) == \A k \in DOMAIN us : us[k] \in 1 .. m

Phases == {"analyze", "build", "done", "failed", "crash"}

Shape ==
  /\ UnitsSound(units, Len(bodies))
  /\ lists \in Seq(Seq(Statement))
  /\ BodiesSound(bodies, Len(lists))
  /\ Standing(active, Len(units), lists)
  /\ MemoSound(memo, bodies)
  /\ UsedSound(used, Len(lists))
  /\ failed \subseteq 1 .. Len(units)
  /\ phase \in Phases

(* What the build of the i-th statement of list l asks for.                *)
Ready(l, i) ==
  /\ lists[l][i].stmt = "emit" /\ IsRef(lists[l][i].value) => <<l, i, 1>> \in DOMAIN memo
  /\ lists[l][i].stmt \in {"use", "include"} => <<l, i>> \in DOMAIN used

Behind(l, i) == \A d \in 1 .. Depth : active[d].list = l => i < active[d].at

Clean == \A d \in 1 .. Depth : active[d].unit \notin failed

Valued == \A id \in DOMAIN memo : ~ Missing(memo[id])

Progress ==
  phase = "analyze" /\ Clean =>
    /\ Valued
    /\ \A l \in 1 .. Len(lists) : \A i \in 1 .. Len(lists[l]) : Behind(l, i) => Ready(l, i)

Complete ==
  phase = "build" =>
    /\ Valued
    /\ \A l \in 1 .. Len(lists) : \A i \in 1 .. Len(lists[l]) : Ready(l, i)

Expanding == Shape /\ Progress /\ Complete

-----------------------------------------------------------------------------
(* The largest of some numbers up to n.                                    *)
LEMMA MaxIs ==
  ASSUME NEW n \in Nat, NEW S \in SUBSET (1 .. n), S # {}
  PROVE  Max(S) \in S /\ \A y \in S : Max(S) >= y
<1> DEFINE B == {n - x : x \in S}
<1>1. B \in SUBSET Nat /\ B # {}
  <2>1. \A x \in S : x \in 1 .. n /\ n - x \in Nat
    OBVIOUS
  <2>2. QED
    BY <2>1
<1>2. PICK m \in B : \A k \in B : m <= k
  <2> HIDE DEF B
  <2> QED BY <1>1, LeastNatural
<1>3. PICK x \in S : m = n - x
  BY <1>2
<1>4. \A y \in S : x >= y
  <2> TAKE y \in S
  <2>1. n - y \in B
    OBVIOUS
  <2>2. n - x <= n - y
    BY <1>2, <1>3, <2>1
  <2>3. QED
    BY <2>2
<1>5. QED
  BY <1>3, <1>4 DEF Max

(* What a function makes of a finite set is finite.                        *)
LEMMA FiniteRange ==
  ASSUME NEW f, IsFiniteSet(DOMAIN f)
  PROVE  IsFiniteSet({f[x] : x \in DOMAIN f})
<1> DEFINE D == DOMAIN f
           T == {f[x] : x \in D}
           g == [x \in D |-> f[x]]
<1>1. g \in Surjection(D, T)
  BY DEF Surjection
<1>2. QED
  BY <1>1, FS_Surjection

LEMMA FiniteElements ==
  ASSUME NEW S, NEW s \in Seq(S)
  PROVE  IsFiniteSet(Elements(s))
<1>1. Len(s) \in Nat /\ DOMAIN s = 1 .. Len(s)
  BY LenProperties
<1>2. IsFiniteSet(DOMAIN s)
  <2>1. \A n \in Nat : IsFiniteSet(1 .. n)
    BY FS_Interval
  <2>2. QED
    BY <1>1, <2>1
<1>3. QED
  BY <1>1, <1>2, FiniteRange DEF Elements

LEMMA LabelNamesFinite ==
  ASSUME NEW s \in Seq(Statement)
  PROVE  IsFiniteSet(LabelNames(s))
<1> DEFINE T == {t \in Range(s) : t.stmt = "label"}
           name == [t \in T |-> t.name]
<1>1. Range(s) = Elements(s)
  BY DEF Range, Elements
<1>2. IsFiniteSet(T)
  BY <1>1, FiniteElements, FS_Subset
<1>3. IsFiniteSet({name[x] : x \in DOMAIN name})
  <2> HIDE DEF T
  <2>1. DOMAIN name = T
    OBVIOUS
  <2> HIDE DEF name
  <2>2. QED
    BY <1>2, <2>1, FiniteRange
<1>4. LabelNames(s) = {name[x] : x \in DOMAIN name}
  BY DEF LabelNames
<1>5. QED
  BY <1>3, <1>4

(* A unit begins with the labels of its statements, on top of what its     *)
(* opener binds.                                                           *)
LEMMA LabelsAre ==
  ASSUME NEW s \in Seq(Statement), NEW g, NEW n, NEW l,
         IsFiniteSet(DOMAIN g), \A x \in DOMAIN g : Known(g[x], n)
  PROVE  /\ IsFiniteSet(DOMAIN Over(LabelsOf(l, s), g))
         /\ \A x \in DOMAIN Over(LabelsOf(l, s), g) : Known(Over(LabelsOf(l, s), g)[x], n)
<1> DEFINE f == LabelsOf(l, s)
<1>1. DOMAIN f = LabelNames(s) /\ \A x \in DOMAIN f : f[x].kind = "label"
  BY DEF LabelsOf, Label
<1> HIDE DEF f
<1>2. DOMAIN Over(f, g) = DOMAIN f \cup DOMAIN g
  BY DEF Over
<1>3. IsFiniteSet(DOMAIN Over(f, g))
  BY <1>1, <1>2, LabelNamesFinite, FS_Union
<1>4. \A x \in DOMAIN Over(f, g) : Known(Over(f, g)[x], n)
  BY <1>1 DEF Over, Known
<1>5. QED
  BY <1>3, <1>4 DEF f

LEMMA UnitIs ==
  ASSUME NEW s \in Seq(Statement), NEW g, NEW n, NEW l,
         IsFiniteSet(DOMAIN g), \A x \in DOMAIN g : Known(g[x], n)
  PROVE  UnitSound(Unit(l, s, g), n)
<1> DEFINE v == Over(LabelsOf(l, s), g)
<1>1. IsFiniteSet(DOMAIN v) /\ \A x \in DOMAIN v : Known(v[x], n)
  BY LabelsAre
<1>2. Unit(l, s, g) = [vars |-> v, macros |-> << >>]
  BY DEF Unit
<1> HIDE DEF v
<1>3. DOMAIN << >> = {}
  OBVIOUS
<1>4. QED
  BY <1>1, <1>2, <1>3 DEF UnitSound

LEMMA HoistedIs ==
  ASSUME NEW s \in Seq(Statement)
  PROVE  Hoisted(s) \in Seq(Statement)
  BY HoistFromSame DEF Hoisted

(* A binding is put on top of what a unit has.                             *)
LEMMA PutIs ==
  ASSUME NEW f, NEW x, NEW v
  PROVE  /\ DOMAIN Put(f, x, v) = DOMAIN f \cup {x}
         /\ Put(f, x, v)[x] = v
         /\ \A y \in DOMAIN f \ {x} : Put(f, x, v)[y] = f[y]
  BY DEF Put

-----------------------------------------------------------------------------
(* Scopes and what is found in them.                                       *)
LEMMA StandingIs ==
  ASSUME Shape
  PROVE  /\ Depth \in Nat /\ Depth \in 1 .. MaxDepth /\ active \in Seq(Iterator)
         /\ \A i \in 1 .. Depth :
              /\ active[i].unit \in 1 .. Len(units)
              /\ UnitSound(Scope(i), Len(bodies))
         /\ Len(bodies) \in Nat /\ Len(lists) \in Nat /\ Len(units) \in Nat
  BY LenProperties DEF Shape, Standing, UnitsSound, BodiesSound, Depth, Scope

LEMMA InnermostIs ==
  ASSUME Shape, NEW S \in SUBSET (1 .. Depth), S # {}
  PROVE  Max(S) \in S /\ \A y \in S : Max(S) >= y
  BY StandingIs, MaxIs

LEMMA LookupKnown ==
  ASSUME Shape, NEW x
  PROVE  Known(Lookup(x), Len(bodies))
<1> DEFINE holders == {i \in 1 .. Depth : x \in DOMAIN Scope(i).vars}
<1>1. Lookup(x) = IF holders = {} THEN Undeclared(x) ELSE Scope(Max(holders)).vars[x]
  BY DEF Lookup
<1>2. CASE holders = {}
  BY <1>1, <1>2 DEF Known, Undeclared
<1>3. CASE holders # {}
  <2>1. Max(holders) \in holders
    BY <1>3, InnermostIs
  <2>2. QED
    BY <1>1, <1>3, <2>1, StandingIs DEF UnitSound
<1>4. QED
  BY <1>2, <1>3

LEMMA NodesFinite ==
  ASSUME Shape
  PROVE  IsFiniteSet(Nodes) /\ Cardinality(Nodes) \in Nat
<1> DEFINE Vals(i) == {Scope(i).vars[n] : n \in DOMAIN Scope(i).vars}
           f == [i \in 1 .. Depth |-> Vals(i)]
           All == {f[i] : i \in DOMAIN f}
<1>1. \A i \in 1 .. Depth : IsFiniteSet(Vals(i))
  BY StandingIs, FiniteRange DEF UnitSound
<1> HIDE DEF Vals
<1>2. IsFiniteSet(DOMAIN f)
  <2>1. \A n \in Nat : IsFiniteSet(1 .. n)
    BY FS_Interval
  <2>2. DOMAIN f = 1 .. Depth
    OBVIOUS
  <2>3. QED
    BY <2>1, <2>2, StandingIs
<1>3. IsFiniteSet(All)
  <2> HIDE DEF f
  <2>1. QED
    BY <1>2, FiniteRange
<1>4. IsFiniteSet(UNION All)
  <2>1. \A T \in All : IsFiniteSet(T)
    BY <1>1
  <2> HIDE DEF All
  <2>2. QED
    BY <1>3, <2>1, FS_UNION
<1>5. Nodes \subseteq UNION All
  BY DEF Nodes, Vals
<1>6. QED
  <2> HIDE DEF All
  <2>1. IsFiniteSet(Nodes)
    BY <1>4, <1>5, FS_Subset
  <2>2. QED
    BY <2>1, FS_CardinalityType

(* The value met after x, which stays when it is no node.                  *)
Following(x) ==
  IF x.kind # "node" THEN x ELSE IF x.id \in DOMAIN memo THEN memo[x.id] ELSE Lookup(x.name)

LEMMA LinksAre ==
  ASSUME Shape, NEW v
  PROVE  LET l == Cardinality(Nodes) + 1
         IN /\ l \in Nat \ {0} /\ DOMAIN Links(v) = 0 .. l
            /\ Resolved(v) = Links(v)[l] /\ Links(v)[0] = v
            /\ \A k \in 0 .. l - 1 : Links(v)[k + 1] = Following(Links(v)[k])
<1> DEFINE l == Cardinality(Nodes) + 1
           After(x) == IF x.kind # "node" THEN x
                       ELSE IF x.id \in DOMAIN memo THEN memo[x.id] ELSE Lookup(x.name)
           Step(g, k) == IF k = 0 THEN v ELSE After(g[k - 1])
<1>1. l \in Nat
  BY NodesFinite
<1>2. Nat \subseteq {m \in Nat : \E g : g = [k \in 0 .. m |-> Step(g, k)]}
  <2> DEFINE M == {m \in Nat : \E g : g = [k \in 0 .. m |-> Step(g, k)]}
  <2> HIDE DEF After
  <2>1. 0 \in M
    <3> DEFINE g == [k \in 0 .. 0 |-> v]
    <3>1. g = [k \in 0 .. 0 |-> Step(g, k)]
      OBVIOUS
    <3>2. QED
      BY <3>1
  <2>2. \A m \in Nat : m \in M => m + 1 \in M
    <3> SUFFICES ASSUME NEW m \in Nat, m \in M
                 PROVE  m + 1 \in M
      OBVIOUS
    <3>1. PICK g : g = [k \in 0 .. m |-> Step(g, k)]
      OBVIOUS
    <3> DEFINE h == [k \in 0 .. m + 1 |-> IF k = m + 1 THEN After(g[m]) ELSE g[k]]
    <3>2. h[m + 1] = After(g[m]) /\ \A k \in 0 .. m : h[k] = g[k]
      OBVIOUS
    <3>3. DOMAIN h = 0 .. m + 1 /\ h = [k \in 0 .. m + 1 |-> h[k]]
      OBVIOUS
    <3>4. \A k \in 0 .. m : g[k] = Step(g, k)
      <4> HIDE DEF Step
      <4>1. QED
        BY <3>1
    <3> HIDE DEF h
    <3>5. ASSUME NEW k \in 0 .. m + 1 PROVE h[k] = Step(h, k)
      <4>1. CASE k = m + 1
        <5>1. k # 0 /\ k - 1 = m /\ h[m] = g[m]
          BY <3>2, <4>1
        <5>2. QED
          BY <3>2, <4>1, <5>1
      <4>2. CASE k = 0
        BY <3>2, <3>4, <4>2
      <4>3. CASE k # m + 1 /\ k # 0
        <5>1. k \in 0 .. m /\ k - 1 \in 0 .. m
          BY <4>3
        <5>2. h[k] = g[k] /\ h[k - 1] = g[k - 1] /\ g[k] = Step(g, k)
          BY <3>2, <3>4, <5>1
        <5>3. QED
          BY <4>3, <5>2
      <4>4. QED
        BY <4>1, <4>2, <4>3
    <3>6. h = [k \in 0 .. m + 1 |-> Step(h, k)]
      <4> HIDE DEF Step
      <4>1. QED
        BY <3>3, <3>5
    <3> HIDE DEF Step
    <3>7. QED
      BY <3>6
  <2> HIDE DEF M
  <2>3. QED
    BY <2>1, <2>2, SetInduction DEF M
<1>3. \E g : g = [k \in 0 .. l |-> Step(g, k)]
  <2> HIDE DEF Step, l
  <2>1. l \in {m \in Nat : \E g : g = [k \in 0 .. m |-> Step(g, k)]}
    BY <1>1, <1>2
  <2>2. QED
    BY <2>1
<1> DEFINE c == CHOOSE g : g = [k \in 0 .. l |-> Step(g, k)]
<1>4. c = [k \in 0 .. l |-> Step(c, k)]
  <2> HIDE DEF Step, l
  <2>1. QED
    BY <1>3
<1>5. Links(v) = c
  BY Zenon DEF Links
<1> HIDE DEF c
<1>6. \A k \in 0 .. l : c[k] = Step(c, k)
  <2> HIDE DEF Step, l
  <2>1. QED
    BY <1>4
<1>7. l # 0 /\ 0 \in 0 .. l /\ \A k \in 0 .. l - 1 : k + 1 \in 0 .. l /\ k + 1 # 0 /\ (k + 1) - 1 = k
  <2>1. Cardinality(Nodes) \in Nat
    BY NodesFinite
  <2>2. QED
    BY <2>1
<1>8. c[0] = v /\ \A k \in 0 .. l - 1 : c[k + 1] = After(c[k])
  <2> HIDE DEF l, After
  <2>1. QED
    BY <1>6, <1>7
<1>9. DOMAIN c = 0 .. l
  <2> HIDE DEF Step, l
  <2>1. QED
    BY <1>4
<1>10. \A x : After(x) = Following(x)
  BY Zenon DEF Following
<1>11. Resolved(v) = c[l]
  BY <1>5 DEF Resolved
<1> HIDE DEF l, After, Step
<1>12. /\ l \in Nat \ {0} /\ DOMAIN Links(v) = 0 .. l
       /\ Resolved(v) = Links(v)[l] /\ Links(v)[0] = v
       /\ \A k \in 0 .. l - 1 : Links(v)[k + 1] = Following(Links(v)[k])
  BY <1>1, <1>5, <1>7, <1>8, <1>9, <1>10, <1>11
<1>13. QED
  BY <1>12 DEF l

(* The values a chain of interpolations meets are known, as its last one.  *)
LEMMA ResolvedKnown ==
  ASSUME Shape, NEW v, Known(v, Len(bodies))
  PROVE  Known(Resolved(v), Len(bodies))
<1> DEFINE l == Cardinality(Nodes) + 1
           c == Links(v)
           N == {k \in Nat : k <= l => Known(c[k], Len(bodies))}
<1>1. /\ l \in Nat /\ Resolved(v) = c[l] /\ c[0] = v
      /\ \A k \in 0 .. l - 1 : c[k + 1] = Following(c[k])
  BY LinksAre
<1> HIDE DEF l, c
<1>2. \A x : Known(x, Len(bodies)) => Known(Following(x), Len(bodies))
  <2>1. \A id \in DOMAIN memo : Known(memo[id], Len(bodies))
    BY DEF Shape, MemoSound, Known
  <2>2. QED
    BY <2>1, LookupKnown DEF Following
<1>3. 0 \in N
  BY <1>1
<1>4. \A k \in Nat : k \in N => k + 1 \in N
  <2> SUFFICES ASSUME NEW k \in Nat, k \in N, k + 1 <= l
               PROVE  Known(c[k + 1], Len(bodies))
    OBVIOUS
  <2>1. k \in 0 .. l - 1 /\ k <= l
    BY <1>1
  <2>2. QED
    BY <1>1, <1>2, <2>1
<1>5. l \in N
  <2> HIDE DEF N
  <2>1. QED
    BY <1>1, <1>3, <1>4, SetInduction
<1>6. QED
  BY <1>1, <1>5

LEMMA StandsKnown ==
  ASSUME Shape, NEW e, NEW id, IsExpression(e)
  PROVE  /\ Known(Stands(e, id), Len(bodies))
         /\ Known(Resolved(Itself(e, id)), Len(bodies))
         /\ \/ Resolved(Itself(e, id)).kind = "sym"
            \/ Stands(e, id) = Resolved(Itself(e, id))
<1>1. Known(Itself(e, id), Len(bodies))
  BY DEF Itself, Known, Node, IsExpression
<1>2. Known(Resolved(Itself(e, id)), Len(bodies))
  BY <1>1, ResolvedKnown
<1>3. \A x : Known(Resolved(Lookup(x)), Len(bodies))
  BY LookupKnown, ResolvedKnown
<1>4. QED
  BY <1>2, <1>3 DEF Stands, Twice

-----------------------------------------------------------------------------
(* The parts of the shape, as lists, units and visitors are added.         *)
LEMMA SeqGrows ==
  ASSUME NEW S, NEW s \in Seq(S), NEW x \in S
  PROVE  /\ Append(s, x) \in Seq(S) /\ Len(s) \in Nat /\ Len(Append(s, x)) = Len(s) + 1
         /\ Append(s, x)[Len(s) + 1] = x
         /\ \A i \in 1 .. Len(s) : Append(s, x)[i] = s[i]
         /\ \A i \in 1 .. Len(s) + 1 : i \in 1 .. Len(s) \/ i = Len(s) + 1
  BY LenProperties, AppendProperties

LEMMA TopIs ==
  ASSUME Shape
  PROVE  /\ Top \in Iterator /\ Top = active[Depth] /\ Depth \in 1 .. Depth
         /\ Here = Top.unit /\ Here \in 1 .. Len(units) /\ Top.list \in 1 .. Len(lists)
         /\ Stmts = lists[Top.list] /\ Stmts \in Seq(Statement) /\ Len(Stmts) \in Nat
         /\ Top.at \in 1 .. Len(Stmts) + 1
         /\ Top.at <= Len(Stmts) => Stmt \in Statement /\ Stmt = lists[Top.list][Top.at]
<1>1. /\ Depth \in Nat /\ Depth \in 1 .. Depth /\ active \in Seq(Iterator)
      /\ Len(lists) \in Nat /\ Depth = Len(active)
  BY StandingIs DEF Depth
<1>2. Top \in Iterator /\ Top = active[Depth]
  BY <1>1, ElementOfSeq DEF Top
<1>3. Top.unit \in 1 .. Len(units) /\ Top.list \in 1 .. Len(lists)
  BY <1>1, <1>2 DEF Shape, Standing
<1>4. Stmts \in Seq(Statement)
  <2>1. lists \in Seq(Seq(Statement))
    BY DEF Shape
  <2>2. QED
    BY <1>3, <2>1, ElementOfSeq DEF Stmts
<1>5. Len(Stmts) \in Nat /\ Stmts \in [1 .. Len(Stmts) -> Statement]
  BY <1>4, LenProperties
<1>6. Top.at \in 1 .. Len(Stmts) + 1
  BY <1>1, <1>2 DEF Shape, Standing, Stmts
<1>7. Top.at <= Len(Stmts) => Stmt \in Statement
  BY <1>5, <1>6 DEF Stmt
<1>8. QED
  BY <1>1, <1>2, <1>3, <1>4, <1>5, <1>6, <1>7 DEF Here, Stmts, Stmt

LEMMA PassingIs ==
  ASSUME Shape, Top.at <= Len(Stmts)
  PROVE  /\ Standing(Passing, Len(units), lists) /\ Len(Passing) = Depth
         /\ \A d \in 1 .. Depth :
              /\ Passing[d].unit = active[d].unit /\ Passing[d].list = active[d].list
              /\ d # Depth => Passing[d].at = active[d].at
              /\ d = Depth => Passing[d].at = Top.at + 1
<1> DEFINE e == [active[Depth] EXCEPT !.at = @ + 1]
<1>1. /\ active \in Seq(Iterator) /\ Depth = Len(active) /\ Depth \in 1 .. Depth
      /\ Top \in Iterator /\ Top = active[Depth] /\ Top.at \in 1 .. Len(Stmts)
      /\ Len(Stmts) \in Nat /\ Stmts = lists[Top.list]
  BY StandingIs, TopIs DEF Depth
<1>2. e \in Iterator /\ e.unit = Top.unit /\ e.list = Top.list /\ e.at = Top.at + 1
  BY <1>1 DEF Iterator
<1>3. Passing = [active EXCEPT ![Depth] = e]
  BY DEF Passing
<1> HIDE DEF e
<1>4. /\ Passing \in Seq(Iterator) /\ Len(Passing) = Depth
      /\ \A d \in 1 .. Depth : Passing[d] = IF d = Depth THEN e ELSE active[d]
  BY <1>1, <1>2, <1>3, ExceptSeq
<1>5. \A d \in 1 .. Depth :
        /\ Passing[d].unit = active[d].unit /\ Passing[d].list = active[d].list
        /\ d # Depth => Passing[d].at = active[d].at
        /\ d = Depth => Passing[d].at = Top.at + 1
  BY <1>1, <1>2, <1>4
<1>6. ASSUME NEW d \in 1 .. Depth
      PROVE  /\ Passing[d].unit \in 1 .. Len(units)
             /\ Passing[d].list \in 1 .. Len(lists)
             /\ Passing[d].at \in 1 .. Len(lists[Passing[d].list]) + 1
  <2>1. /\ active[d].unit \in 1 .. Len(units) /\ active[d].list \in 1 .. Len(lists)
        /\ active[d].at \in 1 .. Len(lists[active[d].list]) + 1
    BY <1>1 DEF Shape, Standing
  <2>2. CASE d = Depth
    <3>1. Passing[d].list = Top.list /\ Passing[d].at = Top.at + 1
      BY <1>1, <1>5, <2>2
    <3>2. Len(lists[Passing[d].list]) = Len(Stmts)
      BY <1>1, <3>1
    <3>3. Passing[d].at \in 1 .. Len(lists[Passing[d].list]) + 1
      BY <1>1, <3>1, <3>2
    <3>4. QED
      BY <1>5, <2>1, <3>3
  <2>3. CASE d # Depth
    BY <1>5, <2>1, <2>3
  <2>4. QED
    BY <2>2, <2>3
<1>7. Depth \in 1 .. MaxDepth
  BY StandingIs
<1>8. QED
  BY <1>4, <1>5, <1>6, <1>7 DEF Standing

LEMMA StandingStays ==
  ASSUME NEW a, NEW n \in Nat, NEW m \in Nat, NEW ls, NEW ks, Standing(a, n, ls), n <= m,
         Len(ls) \in Nat, Len(ks) \in Nat, Len(ls) <= Len(ks),
         \A l \in 1 .. Len(ls) : ks[l] = ls[l]
  PROVE  Standing(a, m, ks)
<1>1. a \in Seq(Iterator) /\ Len(a) \in 1 .. MaxDepth
  BY DEF Standing
<1>2. ASSUME NEW i \in 1 .. Len(a)
      PROVE  /\ a[i].unit \in 1 .. m /\ a[i].list \in 1 .. Len(ks)
             /\ a[i].at \in 1 .. Len(ks[a[i].list]) + 1
  <2>1. /\ a[i].unit \in 1 .. n /\ a[i].list \in 1 .. Len(ls)
        /\ a[i].at \in 1 .. Len(ls[a[i].list]) + 1
    BY DEF Standing
  <2>2. ks[a[i].list] = ls[a[i].list]
    BY <2>1
  <2>3. a[i].at \in 1 .. Len(ks[a[i].list]) + 1
    BY <2>1, <2>2
  <2>4. QED
    BY <2>1, <2>3
<1>3. QED
  BY <1>1, <1>2 DEF Standing

(* A visitor of a list begins with its first statement.                    *)
Placed(it, n, ls) ==
  /\ it \in Iterator /\ it.unit \in 1 .. n /\ it.list \in 1 .. Len(ls)
  /\ it.at \in 1 .. Len(ls[it.list]) + 1

LEMMA BeginsPlaced ==
  ASSUME NEW n \in Nat, NEW ls \in Seq(Seq(Statement)), NEW u \in 1 .. n,
         NEW l \in 1 .. Len(ls)
  PROVE  Placed([unit |-> u, list |-> l, at |-> 1], n, ls)
<1>1. Len(ls[l]) \in Nat /\ u \in Nat /\ l \in Nat
  BY ElementOfSeq, LenProperties
<1> DEFINE it == [unit |-> u, list |-> l, at |-> 1]
<1>2. it \in Iterator /\ it.unit = u /\ it.list = l /\ it.at = 1
  BY <1>1 DEF Iterator
<1> HIDE DEF it
<1>3. Placed(it, n, ls)
  BY <1>1, <1>2 DEF Placed
<1>4. QED
  BY <1>3 DEF it

LEMMA PushStands ==
  ASSUME NEW a, NEW n, NEW ls, Standing(a, n, ls), Len(a) # MaxDepth,
         NEW it, Placed(it, n, ls)
  PROVE  /\ Standing(Append(a, it), n, ls) /\ Len(Append(a, it)) = Len(a) + 1
         /\ Len(a) \in Nat /\ Append(a, it)[Len(a) + 1] = it
         /\ \A d \in 1 .. Len(a) : Append(a, it)[d] = a[d]
<1> DEFINE b == Append(a, it)
<1>1. a \in Seq(Iterator) /\ Len(a) \in 1 .. MaxDepth /\ it \in Iterator
  BY DEF Standing, Placed
<1>2. /\ b \in Seq(Iterator) /\ Len(b) = Len(a) + 1 /\ b[Len(a) + 1] = it
      /\ \A d \in 1 .. Len(a) : b[d] = a[d]
      /\ \A d \in 1 .. Len(a) + 1 : d \in 1 .. Len(a) \/ d = Len(a) + 1
  BY <1>1, SeqGrows
<1> HIDE DEF b
<1>3. Len(b) \in 1 .. MaxDepth
  BY <1>1, <1>2, DepthAssumption
<1>4. ASSUME NEW d \in 1 .. Len(b)
      PROVE  /\ b[d].unit \in 1 .. n /\ b[d].list \in 1 .. Len(ls)
             /\ b[d].at \in 1 .. Len(ls[b[d].list]) + 1
  <2>1. CASE d = Len(a) + 1
    BY <1>2, <2>1 DEF Placed
  <2>2. CASE d \in 1 .. Len(a)
    <3>1. b[d] = a[d]
      BY <1>2, <2>2
    <3>2. QED
      BY <2>2, <3>1 DEF Standing
  <2>3. QED
    BY <1>2, <2>1, <2>2
<1>5. Standing(b, n, ls)
  BY <1>2, <1>3, <1>4 DEF Standing
<1>6. QED
  BY <1>1, <1>2, <1>5 DEF b

LEMMA KnownStays ==
  ASSUME NEW n \in Nat, NEW m \in Nat, n <= m
  PROVE  /\ \A v : Known(v, n) => Known(v, m)
         /\ \A u : UnitSound(u, n) => UnitSound(u, m)
         /\ \A us : UnitsSound(us, n) => UnitsSound(us, m)
<1>1. \A v : Known(v, n) => Known(v, m)
  BY DEF Known
<1>2. \A u : UnitSound(u, n) => UnitSound(u, m)
  BY <1>1 DEF UnitSound
<1>3. QED
  BY <1>1, <1>2 DEF UnitsSound

LEMMA UnitsGrow ==
  ASSUME NEW us, NEW n, UnitsSound(us, n), NEW u, UnitSound(u, n)
  PROVE  /\ UnitsSound(Append(us, u), n) /\ Len(us) \in Nat
         /\ Len(Append(us, u)) = Len(us) + 1
<1> DEFINE S == Elements(us) \cup {u}
<1>1. us \in Seq(S)
  BY SeqMonotonic DEF UnitsSound
<1>2. /\ Append(us, u) \in Seq(S) /\ Elements(Append(us, u)) = Elements(us) \cup {u}
  BY <1>1, ElementsAppend
<1>3. /\ Len(us) \in Nat /\ Len(Append(us, u)) = Len(us) + 1 /\ Append(us, u)[Len(us) + 1] = u
      /\ \A i \in 1 .. Len(us) : Append(us, u)[i] = us[i]
      /\ \A i \in 1 .. Len(us) + 1 : i \in 1 .. Len(us) \/ i = Len(us) + 1
  BY <1>1, SeqGrows
<1>4. \A i \in 1 .. Len(us) + 1 : UnitSound(Append(us, u)[i], n)
  BY <1>3 DEF UnitsSound
<1>5. QED
  BY <1>2, <1>3, <1>4 DEF UnitsSound

LEMMA SeqItself ==
  ASSUME NEW S, NEW s \in Seq(S)
  PROVE  s \in Seq(Elements(s))
<1>1. s \in Seq(Range(s))
  BY SeqOfRange
<1>2. Range(s) = Elements(s)
  BY DEF Range, Elements
<1>3. QED
  BY <1>1, <1>2

-----------------------------------------------------------------------------
(* What is ready stays so, and a step adds what it makes ready.            *)
Extends(ls, ks) ==
  /\ Len(ls) \in Nat /\ Len(ks) \in Nat /\ Len(ls) <= Len(ks)
  /\ \A l \in 1 .. Len(ls) : ks[l] = ls[l]

LEMMA ReadyStays ==
  ASSUME Extends(lists, lists'), DOMAIN memo \subseteq DOMAIN memo',
         DOMAIN used \subseteq DOMAIN used'
  PROVE  \A l \in 1 .. Len(lists) : \A i : Ready(l, i) => Ready(l, i)'
<1> SUFFICES ASSUME NEW l \in 1 .. Len(lists), NEW i, Ready(l, i)
             PROVE  Ready(l, i)'
  OBVIOUS
<1>1. lists'[l] = lists[l]
  BY DEF Extends
<1>2. QED
  BY <1>1 DEF Ready

LEMMA ProgressKept ==
  ASSUME Progress, phase = "analyze",
         Extends(lists, lists'), DOMAIN memo \subseteq DOMAIN memo',
         DOMAIN used \subseteq DOMAIN used',
         Clean' => Clean /\ Valued',
         Clean' => \A l \in 1 .. Len(lists') : \A i \in 1 .. Len(lists'[l]) :
                     Behind(l, i)' => Ready(l, i)' \/ (l \in 1 .. Len(lists) /\ Behind(l, i))
  PROVE  Progress'
<1> SUFFICES ASSUME phase' = "analyze", Clean'
             PROVE  /\ Valued'
                    /\ \A l \in 1 .. Len(lists') : \A i \in 1 .. Len(lists'[l]) :
                         Behind(l, i)' => Ready(l, i)'
  BY DEF Progress
<1>1. Valued'
  OBVIOUS
<1>2. \A l \in 1 .. Len(lists) : \A i \in 1 .. Len(lists[l]) : Behind(l, i) => Ready(l, i)
  BY DEF Progress
<1>3. ASSUME NEW l \in 1 .. Len(lists'), NEW i \in 1 .. Len(lists'[l]), Behind(l, i)'
      PROVE  Ready(l, i)'
  <2>1. CASE Ready(l, i)'
    BY <2>1
  <2>2. CASE l \in 1 .. Len(lists) /\ Behind(l, i)
    <3>1. i \in 1 .. Len(lists[l])
      BY <2>2 DEF Extends
    <3>2. Ready(l, i)
      BY <1>2, <2>2, <3>1
    <3>3. QED
      BY <2>2, <3>2, ReadyStays
  <2>3. QED
    BY <1>3, <2>1, <2>2
<1>4. QED
  BY <1>1, <1>3

LEMMA MemoStays ==
  ASSUME NEW mm, NEW bs, NEW cs, MemoSound(mm, bs), Len(bs) \in Nat, Len(cs) \in Nat,
         Len(bs) <= Len(cs), \A b \in 1 .. Len(bs) : bs[b].list # 0 => cs[b].list # 0
  PROVE  MemoSound(mm, cs)
  BY DEF MemoSound

LEMMA UsedStays ==
  ASSUME NEW us, NEW n \in Nat, NEW m \in Nat, UsedSound(us, n), n <= m
  PROVE  UsedSound(us, m)
  BY DEF UsedSound

LEMMA BodiesCount ==
  ASSUME NEW bs, NEW m, BodiesSound(bs, m)
  PROVE  Len(bs) \in Nat
  BY LenProperties DEF BodiesSound

LEMMA BodiesStay ==
  ASSUME NEW bs, NEW n \in Nat, NEW m \in Nat, BodiesSound(bs, n), n <= m
  PROVE  BodiesSound(bs, m)
<1>1. [stmts : Seq(Statement), list : 0 .. n] \subseteq [stmts : Seq(Statement), list : 0 .. m]
  OBVIOUS
<1>2. QED
  BY <1>1, SeqMonotonic DEF BodiesSound

(* The visitors pass over the statement they are at.                       *)
LEMMA BehindPassing ==
  ASSUME Shape, Top.at <= Len(Stmts), Depth' \in Nat, Depth <= Depth',
         \A d \in 1 .. Depth : active'[d] = Passing[d],
         NEW l, NEW i \in Int, Behind(l, i)'
  PROVE  Behind(l, i) \/ (l = Top.list /\ i = Top.at)
<1> SUFFICES ASSUME ~ (l = Top.list /\ i = Top.at), NEW d \in 1 .. Depth, active[d].list = l
             PROVE  i < active[d].at
  BY DEF Behind
<1>1. /\ Top = active[Depth] /\ Depth \in Nat /\ Top.at \in Nat
      /\ \A k \in 1 .. Depth :
           /\ Passing[k].unit = active[k].unit /\ Passing[k].list = active[k].list
           /\ k # Depth => Passing[k].at = active[k].at
           /\ k = Depth => Passing[k].at = Top.at + 1
  BY TopIs, StandingIs, PassingIs DEF Iterator
<1>2. d \in 1 .. Depth' /\ active'[d].list = l
  BY <1>1
<1>3. i < active'[d].at
  BY <1>2 DEF Behind
<1>4. CASE d # Depth
  BY <1>1, <1>3, <1>4
<1>5. CASE d = Depth
  <2>1. l = Top.list /\ i # Top.at /\ i < Top.at + 1
    BY <1>1, <1>3, <1>5
  <2>2. QED
    BY <1>1, <1>5, <2>1
<1>6. QED
  BY <1>4, <1>5

LEMMA CleanBefore ==
  ASSUME Shape, failed \subseteq failed', Depth' \in Nat, Depth <= Depth',
         \A d \in 1 .. Depth : active'[d].unit = active[d].unit, Clean'
  PROVE  Clean /\ Here \notin failed'
<1>1. Depth \in Nat /\ Here = active[Depth].unit /\ Depth \in 1 .. Depth
  BY StandingIs, TopIs
<1>2. \A d \in 1 .. Depth : d \in 1 .. Depth'
  BY <1>1
<1>3. \A d \in 1 .. Depth : active[d].unit \notin failed'
  BY <1>2 DEF Clean
<1>4. QED
  BY <1>1, <1>3 DEF Clean

(* A step that goes on to the next statement and opens nothing.            *)
LEMMA AdvanceKeeps ==
  ASSUME Shape, Progress, phase = "analyze", phase' = phase,
         Top.at <= Len(Stmts), Advance,
         UNCHANGED <<lists, memo, used>>,
         UnitsSound(units', Len(bodies')), Len(units') = Len(units),
         BodiesSound(bodies', Len(lists)), Len(bodies) <= Len(bodies'),
         \A b \in 1 .. Len(bodies) : bodies'[b] = bodies[b],
         failed \subseteq failed', failed' \subseteq 1 .. Len(units),
         Here \in failed' \/ Ready(Top.list, Top.at)
  PROVE  Expanding'
<1>1. /\ active' = Passing /\ Depth' = Depth /\ Standing(Passing, Len(units), lists)
      /\ Depth \in Nat /\ Depth <= Depth'
  BY PassingIs, StandingIs DEF Advance, Depth
<1>2. Len(bodies) \in Nat /\ Len(lists) \in Nat /\ Depth \in Nat /\ Len(bodies') \in Nat
  <2>1. Len(bodies) \in Nat /\ Len(lists) \in Nat /\ Depth \in Nat
    BY StandingIs
  <2>2. Len(bodies') \in Nat
    BY BodiesCount
  <2>3. QED
    BY <2>1, <2>2
<1>3. MemoSound(memo, bodies')
  BY <1>2, MemoStays DEF Shape
<1>4. Shape'
  BY <1>1, <1>3 DEF Shape
<1>5. Clean' => Clean /\ Here \notin failed'
  <2>1. \A d \in 1 .. Depth : Passing[d].unit = active[d].unit
    BY PassingIs
  <2>2. QED
    BY <1>1, <1>2, <2>1, CleanBefore
<1>6. Clean' => Clean /\ Valued'
  BY <1>5 DEF Progress, Valued
<1>7. Extends(lists, lists')
  BY <1>2 DEF Extends
<1>8. ASSUME Clean', NEW l \in 1 .. Len(lists'), NEW i \in 1 .. Len(lists'[l]), Behind(l, i)'
      PROVE  Ready(l, i)' \/ (l \in 1 .. Len(lists) /\ Behind(l, i))
  <2>1. Behind(l, i) \/ (l = Top.list /\ i = Top.at)
    BY <1>1, <1>2, <1>8, BehindPassing
  <2>2. ASSUME l = Top.list, i = Top.at PROVE Ready(l, i)'
    <3>1. Ready(l, i)
      BY <1>5, <1>8, <2>2
    <3>2. QED
      BY <1>7, <3>1, ReadyStays
  <2>3. QED
    BY <2>1, <2>2
<1>9. Progress'
  BY <1>6, <1>7, <1>8, ProgressKept
<1>10. Complete'
  BY DEF Complete
<1>11. QED
  BY <1>4, <1>9, <1>10 DEF Expanding

-----------------------------------------------------------------------------
(* A list is opened, in a unit of its own or in the visitor's.             *)
LEMMA StartKeeps ==
  ASSUME Shape, NEW s \in Seq(Statement), NEW n \in Nat, NEW u \in 1 .. n, NEW v,
         Standing(v, Len(units), lists), Len(units) <= n, Len(v) # MaxDepth, Start(s, u, v)
  PROVE  /\ lists' \in Seq(Seq(Statement)) /\ Len(lists') = Len(lists) + 1
         /\ Extends(lists, lists') /\ Standing(active', n, lists')
         /\ Depth' = Len(v) + 1 /\ Depth' \in Nat /\ Len(v) \in Nat
         /\ \A d \in 1 .. Len(v) : active'[d] = v[d]
         /\ active'[Depth'].unit = u
         /\ active'[Depth'].list = NewList /\ active'[Depth'].at = 1
<1> DEFINE it == [unit |-> u, list |-> NewList, at |-> 1]
<1>1. /\ lists' = Append(lists, Hoisted(s)) /\ active' = Append(v, it)
      /\ NewList = Len(lists) + 1
  BY DEF Start, NewList
<1>2. lists \in Seq(Seq(Statement)) /\ Hoisted(s) \in Seq(Statement) /\ Len(units) \in Nat
  BY HoistedIs, StandingIs DEF Shape
<1>3. /\ lists' \in Seq(Seq(Statement)) /\ Len(lists) \in Nat /\ Len(lists') = Len(lists) + 1
      /\ \A l \in 1 .. Len(lists) : lists'[l] = lists[l]
  <2> DEFINE S == Seq(Statement)
             x == Hoisted(s)
  <2>1. lists \in Seq(S) /\ x \in S /\ lists' = Append(lists, x)
    BY <1>1, <1>2
  <2> HIDE DEF S, x
  <2>2. lists' \in Seq(S)
    BY <2>1, SeqGrows
  <2>3. /\ Len(lists) \in Nat /\ Len(lists') = Len(lists) + 1
        /\ \A l \in 1 .. Len(lists) : lists'[l] = lists[l]
    BY <2>1, SeqGrows
  <2>4. QED
    BY <2>2, <2>3 DEF S
<1>4. Extends(lists, lists')
  BY <1>3 DEF Extends
<1>5. Standing(v, n, lists')
  <2> DEFINE k == Len(units)
             ks == lists'
  <2>1. /\ k \in Nat /\ k <= n /\ Standing(v, k, lists) /\ Len(lists) \in Nat
        /\ Len(ks) \in Nat /\ Len(lists) <= Len(ks)
        /\ \A l \in 1 .. Len(lists) : ks[l] = lists[l]
    BY <1>2, <1>3
  <2> HIDE DEF k, ks
  <2>2. Standing(v, n, ks)
    BY <2>1, StandingStays
  <2>3. QED
    BY <2>2 DEF ks
<1>6. Placed(it, n, lists') /\ it.unit = u /\ it.list = NewList /\ it.at = 1
  <2> DEFINE ks == lists'
             l == NewList
  <2>1. ks \in Seq(Seq(Statement)) /\ l \in 1 .. Len(ks)
    BY <1>1, <1>3
  <2> HIDE DEF ks, l
  <2>2. Placed([unit |-> u, list |-> l, at |-> 1], n, ks)
    BY <2>1, BeginsPlaced
  <2>3. QED
    BY <2>2 DEF ks, l
<1> HIDE DEF it
<1>7. /\ Standing(Append(v, it), n, lists') /\ Len(Append(v, it)) = Len(v) + 1 /\ Len(v) \in Nat
      /\ \A d \in 1 .. Len(v) : Append(v, it)[d] = v[d]
      /\ Append(v, it)[Len(v) + 1] = it
  BY <1>5, <1>6, PushStands
<1>8. QED
  BY <1>1, <1>3, <1>4, <1>6, <1>7 DEF Depth

LEMMA OpenKeeps ==
  ASSUME Shape, NEW s \in Seq(Statement), NEW n \in Nat, NEW g, NEW v,
         Len(bodies) <= n, IsFiniteSet(DOMAIN g), \A x \in DOMAIN g : Known(g[x], n),
         Standing(v, Len(units), lists), Len(v) # MaxDepth, Open(s, g, v)
  PROVE  /\ UnitsSound(units', n) /\ Len(units') = Len(units) + 1
         /\ lists' \in Seq(Seq(Statement)) /\ Len(lists') = Len(lists) + 1
         /\ Extends(lists, lists') /\ Standing(active', Len(units'), lists')
         /\ Depth' = Len(v) + 1 /\ Depth' \in Nat /\ Len(v) \in Nat
         /\ \A d \in 1 .. Len(v) : active'[d] = v[d]
         /\ active'[Depth'].unit = Len(units) + 1
         /\ active'[Depth'].list = NewList /\ active'[Depth'].at = 1
<1> DEFINE u == Unit(NewList, s, g)
<1>1. units' = Append(units, u) /\ Start(s, Len(units) + 1, v)
  BY DEF Open
<1>2. UnitSound(u, n)
  BY UnitIs
<1> HIDE DEF u
<1>3. UnitsSound(units, n) /\ Len(units) \in Nat
  BY StandingIs, KnownStays DEF Shape
<1>4. UnitsSound(units', n) /\ Len(units') = Len(units) + 1
  BY <1>1, <1>2, <1>3, UnitsGrow
<1>5. Len(units) + 1 \in Nat /\ Len(units) + 1 \in 1 .. Len(units) + 1 /\ Len(units) <= Len(units) + 1
  BY <1>3
<1>6. QED
  BY <1>1, <1>4, <1>5, StartKeeps

(* Nothing in the list just opened is behind its visitor.                  *)
LEMMA BehindOpened ==
  ASSUME Shape, NEW v, Len(v) \in Nat, Depth' = Len(v) + 1,
         \A d \in 1 .. Len(v) : active'[d] = v[d],
         Len(lists') = Len(lists) + 1,
         active'[Depth'].list = NewList, active'[Depth'].at = 1,
         NEW l \in 1 .. Len(lists'), NEW i \in Int, i >= 1, Behind(l, i)'
  PROVE  l \in 1 .. Len(lists)
<1>1. Depth' \in 1 .. Depth' /\ Len(lists) \in Nat
  BY StandingIs
<1>2. l = NewList => i < 1
  BY <1>1 DEF Behind
<1>3. QED
  BY <1>1, <1>2 DEF NewList

LEMMA IndicesPositive ==
  ASSUME NEW ls \in Seq(Seq(Statement)), NEW l \in 1 .. Len(ls), NEW i \in 1 .. Len(ls[l])
  PROVE  i \in Int /\ i >= 1
  OBVIOUS

(* A statement that opens a list, after which its visitor goes on behind   *)
(* it: a use of a macro and an include.                                    *)
LEMMA CallKeeps ==
  ASSUME Shape, Progress, phase = "analyze", phase' = phase,
         Top.at <= Len(Stmts), Depth # MaxDepth, UNCHANGED <<memo, failed>>,
         UnitsSound(units', Len(bodies')), Len(units') \in Nat, Len(units) <= Len(units'),
         BodiesSound(bodies', Len(lists')), Len(bodies) <= Len(bodies'),
         \A b \in 1 .. Len(bodies) : bodies'[b] = bodies[b],
         lists' \in Seq(Seq(Statement)), Len(lists') = Len(lists) + 1,
         Extends(lists, lists'), Standing(active', Len(units'), lists'),
         Depth' = Depth + 1, \A d \in 1 .. Depth : active'[d] = Passing[d],
         active'[Depth'].list = NewList, active'[Depth'].at = 1,
         used' = Put(used, <<Top.list, Top.at>>, NewList),
         Stmt.stmt \in {"use", "include"}
  PROVE  Expanding'
<1>1. /\ Len(bodies) \in Nat /\ Len(lists) \in Nat /\ Depth \in Nat /\ Len(bodies') \in Nat
      /\ Depth' \in Nat /\ Depth <= Depth'
  <2>1. Len(bodies) \in Nat /\ Len(lists) \in Nat /\ Depth \in Nat
    BY StandingIs
  <2>2. Len(bodies') \in Nat
    BY BodiesCount
  <2>3. QED
    BY <2>1, <2>2
<1>2. MemoSound(memo, bodies')
  BY <1>1, MemoStays DEF Shape
<1>3. UsedSound(used', Len(lists'))
  <2>1. UsedSound(used, Len(lists')) /\ NewList \in 1 .. Len(lists')
    BY <1>1, UsedStays DEF Shape, NewList
  <2>2. \A k \in DOMAIN used' : used'[k] = NewList \/ (k \in DOMAIN used /\ used'[k] = used[k])
    BY DEF Put
  <2>3. QED
    BY <2>1, <2>2 DEF UsedSound
<1>4. failed' \subseteq 1 .. Len(units')
  BY StandingIs DEF Shape
<1>5. Shape'
  BY <1>2, <1>3, <1>4 DEF Shape
<1>6. Clean' => Clean
  <2>1. \A d \in 1 .. Depth : active'[d].unit = active[d].unit
    BY PassingIs
  <2>2. QED
    BY <1>1, <2>1, CleanBefore
<1>7. Clean' => Clean /\ Valued'
  BY <1>6 DEF Progress, Valued
<1>8. DOMAIN used \subseteq DOMAIN used' /\ <<Top.list, Top.at>> \in DOMAIN used'
  BY DEF Put
<1>9. ASSUME Clean', NEW l \in 1 .. Len(lists'), NEW i \in 1 .. Len(lists'[l]), Behind(l, i)'
      PROVE  Ready(l, i)' \/ (l \in 1 .. Len(lists) /\ Behind(l, i))
  <2>1. i \in Int /\ i >= 1
    BY IndicesPositive
  <2>2. Behind(l, i) \/ (l = Top.list /\ i = Top.at)
    BY <1>1, <1>9, <2>1, BehindPassing
  <2>3. l \in 1 .. Len(lists)
    <3>1. Len(Passing) = Depth
      BY PassingIs
    <3>2. QED
      BY <1>1, <1>9, <2>1, <3>1, BehindOpened
  <2>4. ASSUME l = Top.list, i = Top.at PROVE Ready(l, i)'
    <3>1. lists'[l][i] = Stmt
      BY <2>3, <2>4, TopIs DEF Extends
    <3>2. QED
      BY <1>8, <2>4, <3>1 DEF Ready
  <2>5. QED
    BY <2>2, <2>3, <2>4
<1>10. Progress'
  BY <1>7, <1>8, <1>9, ProgressKept
<1>11. Complete'
  BY DEF Complete
<1>12. QED
  BY <1>5, <1>10, <1>11 DEF Expanding

-----------------------------------------------------------------------------
(* The actions of the analysis.                                            *)
LEMMA CrashKeeps ==
  ASSUME Expanding, Crash
  PROVE  Expanding'
<1>1. Shape'
  BY DEF Expanding, Shape, Crash, tree, Phases
<1>2. QED
  BY <1>1 DEF Expanding, Progress, Complete, Crash

(* A unit is replaced.                                                     *)
Replaced(us, h, u) == [us EXCEPT ![h] = u]

LEMMA UnitReplaced ==
  ASSUME Shape, NEW n \in Nat, Len(bodies) <= n, NEW h \in 1 .. Len(units), NEW u,
         UnitSound(u, n), units' = Replaced(units, h, u)
  PROVE  /\ UnitsSound(units', n) /\ Len(units') = Len(units)
         /\ units'[h] = u /\ \A i \in 1 .. Len(units) : i # h => units'[i] = units[i]
<1>1. Len(bodies) \in Nat /\ UnitsSound(units, n)
  BY StandingIs, KnownStays DEF Shape
<1> DEFINE S == Elements(units) \cup {u}
<1>2. units \in Seq(S)
  BY <1>1, SeqMonotonic DEF UnitsSound
<1>3. /\ units' \in Seq(S) /\ Len(units') = Len(units)
      /\ \A i \in 1 .. Len(units) : units'[i] = IF i = h THEN u ELSE units[i]
  <2> HIDE DEF S
  <2> u \in S
    BY DEF S
  <2> QED BY <1>2, ExceptSeq DEF Replaced
<1>4. UnitsSound(units', n)
  <2>1. units' \in Seq(Elements(units'))
    <3> HIDE DEF S
    <3> QED BY <1>3, SeqItself
  <2>2. ASSUME NEW i \in 1 .. Len(units) PROVE UnitSound(units'[i], n)
    <3>1. UnitSound(units[i], n)
      BY <1>1 DEF UnitsSound
    <3>2. QED
      BY <1>3, <3>1
  <2>3. QED
    BY <1>3, <2>1, <2>2 DEF UnitsSound
<1>5. QED
  BY <1>3, <1>4

LEMMA VarsSound ==
  ASSUME NEW n, NEW w, UnitSound(w, n), NEW f, IsFiniteSet(DOMAIN f),
         \A x \in DOMAIN f : Known(f[x], n), NEW u, u = [vars |-> f, macros |-> w.macros]
  PROVE  UnitSound(u, n) /\ u.vars = f
<1>1. u.vars = f /\ u.macros = w.macros /\ u = [vars |-> u.vars, macros |-> u.macros]
  OBVIOUS
<1>2. QED
  BY <1>1 DEF UnitSound

LEMMA PutSound ==
  ASSUME NEW f, NEW x, NEW v, NEW n, IsFiniteSet(DOMAIN f),
         \A y \in DOMAIN f : Known(f[y], n), Known(v, n)
  PROVE  /\ IsFiniteSet(DOMAIN Put(f, x, v))
         /\ \A y \in DOMAIN Put(f, x, v) : Known(Put(f, x, v)[y], n)
<1>1. DOMAIN Put(f, x, v) = DOMAIN f \cup {x}
  BY DEF Put
<1>2. IsFiniteSet(DOMAIN Put(f, x, v))
  BY <1>1, FS_AddElement
<1>3. QED
  BY <1>1, <1>2 DEF Put

LEMMA BindKeeps ==
  ASSUME Shape, NEW n \in Nat, Len(bodies) <= n, NEW h \in 1 .. Len(units), NEW x, NEW v,
         Known(v, n), Bind(h, x, v)
  PROVE  /\ UnitsSound(units', n) /\ Len(units') = Len(units)
         /\ units'[h].vars = Put(units[h].vars, x, v)
         /\ \A i \in 1 .. Len(units) : i # h => units'[i] = units[i]
<1> DEFINE f == Put(units[h].vars, x, v)
<1>1. Len(bodies) \in Nat /\ UnitsSound(units, n)
  BY StandingIs, KnownStays DEF Shape
<1>2. UnitSound(units[h], n)
  BY <1>1 DEF UnitsSound
<1>3. IsFiniteSet(DOMAIN f) /\ \A y \in DOMAIN f : Known(f[y], n)
  BY <1>2, PutSound DEF UnitSound
<1> HIDE DEF f
<1> DEFINE u == [vars |-> f, macros |-> units[h].macros]
           e == [units[h] EXCEPT !.vars = f]
<1>4. e = u
  BY <1>2 DEF UnitSound
<1>5. units' = [units EXCEPT ![h] = e]
  BY DEF Bind, f
<1> HIDE DEF e, u
<1>6. units' = Replaced(units, h, u)
  BY <1>4, <1>5 DEF Replaced
<1>7. UnitSound(u, n) /\ u.vars = f
  BY <1>2, <1>3, VarsSound DEF u
<1>8. /\ UnitsSound(units', n) /\ Len(units') = Len(units)
      /\ units'[h].vars = f /\ \A i \in 1 .. Len(units) : i # h => units'[i] = units[i]
  BY <1>6, <1>7, UnitReplaced
<1>9. QED
  BY <1>8 DEF f

LEMMA BodiesAre ==
  ASSUME Shape
  PROVE  /\ Len(bodies) \in Nat /\ Len(lists) \in Nat
         /\ bodies \in Seq([stmts : Seq(Statement), list : 0 .. Len(lists)])
         /\ \A b \in 1 .. Len(bodies) :
              bodies[b].stmts \in Seq(Statement) /\ bodies[b].list \in 0 .. Len(lists)
<1>1. /\ Len(bodies) \in Nat /\ Len(lists) \in Nat
      /\ bodies \in Seq([stmts : Seq(Statement), list : 0 .. Len(lists)])
  BY StandingIs DEF Shape, BodiesSound
<1>2. \A b \in 1 .. Len(bodies) : bodies[b] \in [stmts : Seq(Statement), list : 0 .. Len(lists)]
  BY <1>1, ElementOfSeq
<1>3. QED
  BY <1>1, <1>2

LEMMA BodyAdded ==
  ASSUME Shape, NEW s \in Seq(Statement), NEW b, b.stmts = s, b.list = 0,
         b = [stmts |-> b.stmts, list |-> b.list]
  PROVE  /\ BodiesSound(Append(bodies, b), Len(lists))
         /\ Len(Append(bodies, b)) = Len(bodies) + 1
         /\ \A i \in 1 .. Len(bodies) : Append(bodies, b)[i] = bodies[i]
<1>1. b \in [stmts : Seq(Statement), list : 0 .. Len(lists)]
  BY BodiesAre
<1>2. QED
  BY <1>1, BodiesAre, SeqGrows DEF BodiesSound

LEMMA SameFailed ==
  ASSUME Shape
  PROVE  failed \subseteq 1 .. Len(units) /\ Here \in 1 .. Len(units)
  BY TopIs DEF Shape

(* Only prints, uses and includes have something to be ready for.          *)
LEMMA PlainReady ==
  ASSUME Shape, Top.at <= Len(Stmts), Stmt.stmt \notin {"emit", "use", "include"}
  PROVE  Ready(Top.list, Top.at)
  BY TopIs DEF Ready

LEMMA UnchangedTreeKeeps ==
  ASSUME Expanding, phase = "analyze", phase' = phase, Top.at <= Len(Stmts), Advance,
         UNCHANGED tree, failed' = failed \/ failed' = failed \cup {Here},
         Here \in failed' \/ Ready(Top.list, Top.at)
  PROVE  Expanding'
<1>1. UnitsSound(units, Len(bodies)) /\ BodiesSound(bodies, Len(lists)) /\ Len(bodies) \in Nat
  BY StandingIs DEF Expanding, Shape
<1>2. failed' \subseteq 1 .. Len(units)
  BY SameFailed DEF Expanding
<1>3. QED
  BY <1>1, <1>2, AdvanceKeeps DEF Expanding, tree

LEMMA EmitKeeps ==
  ASSUME Expanding, Emit
  PROVE  Expanding'
<1>1. /\ phase = "analyze" /\ Top.at <= Len(Stmts) /\ Advance /\ UNCHANGED tree
      /\ phase' = phase /\ failed' = failed
  BY DEF Emit, Visited, AtStatement
<1>2. Ready(Top.list, Top.at)
  <2>1. CASE Stmt.stmt \notin {"emit", "use", "include"}
    BY <1>1, <2>1, PlainReady DEF Expanding
  <2>2. CASE Visited("emit")
    <3>1. Stmt.stmt = "emit" /\ \A j \in DOMAIN Exprs(Stmt) : ~ Unvisited(j)
      BY <2>2 DEF Visited, AtStatement
    <3>2. Exprs(Stmt) = <<Stmt.value>>
      BY <3>1 DEF Exprs
    <3>3. 1 \in DOMAIN Exprs(Stmt) /\ Exprs(Stmt)[1] = Stmt.value
      BY <3>2
    <3>4. IsRef(Stmt.value) => <<Top.list, Top.at, 1>> \in DOMAIN memo
      BY <3>1, <3>3 DEF Unvisited, Place
    <3>5. QED
      BY <1>1, <3>1, <3>4, TopIs DEF Ready, Expanding
  <2>3. QED
    BY <2>1, <2>2 DEF Emit, Visited, AtStatement
<1>3. QED
  BY <1>1, <1>2, UnchangedTreeKeeps

LEMMA NotASymbolKeeps ==
  ASSUME Expanding, phase = "analyze", Top.at <= Len(Stmts), NotASymbol
  PROVE  Expanding'
  BY UnchangedTreeKeeps DEF NotASymbol

LEMMA VarKeeps ==
  ASSUME Expanding, Var
  PROVE  Expanding'
<1>1. phase = "analyze" /\ Top.at <= Len(Stmts) /\ Stmt.stmt = "var"
  BY DEF Var, Visited, AtStatement
<1>2. CASE ValueOf(1).kind # "sym"
  BY <1>1, <1>2, NotASymbolKeeps DEF Var
<1>3. CASE ValueOf(1).kind = "sym"
  <2>1. /\ Bind(Here, ValueOf(1).name, Unset) /\ Advance
        /\ UNCHANGED <<lists, bodies, used, memo, failed, phase, out, meant>>
    BY <1>3 DEF Var
  <2>2. Known(Unset, Len(bodies))
    BY DEF Known, Unset
  <2>3. /\ Len(bodies) \in Nat /\ Here \in 1 .. Len(units) /\ failed \subseteq 1 .. Len(units)
        /\ BodiesSound(bodies, Len(lists))
    BY StandingIs, SameFailed DEF Expanding, Shape
  <2>4. UnitsSound(units', Len(bodies)) /\ Len(units') = Len(units)
    BY <2>1, <2>2, <2>3, BindKeeps DEF Expanding
  <2>5. Ready(Top.list, Top.at)
    BY <1>1, PlainReady DEF Expanding
  <2>6. QED
    BY <1>1, <2>1, <2>3, <2>4, <2>5, AdvanceKeeps DEF Expanding
<1>4. QED
  BY <1>2, <1>3

(* What an expression of the statement stands for once it was visited.     *)
LEMMA ValueKnown ==
  ASSUME Shape, phase = "analyze", Top.at <= Len(Stmts), NEW j \in DOMAIN Exprs(Stmt),
         ~ Unvisited(j)
  PROVE  Known(ValueOf(j), Len(bodies))
<1>1. IsExpression(Exprs(Stmt)[j])
  BY TopIs, StatementsAssumption
<1>2. CASE IsRef(Exprs(Stmt)[j])
  <2>1. Place(j) \in DOMAIN memo /\ ValueOf(j) = memo[Place(j)]
    BY <1>2 DEF Unvisited, ValueOf
  <2>2. QED
    BY <2>1 DEF Shape, MemoSound, Known
<1>3. CASE ~ IsRef(Exprs(Stmt)[j])
  <2>1. ValueOf(j) = Exprs(Stmt)[j]
    BY <1>3 DEF ValueOf
  <2>2. QED
    BY <1>1, <2>1 DEF IsExpression, Known
<1>4. QED
  BY <1>2, <1>3

LEMMA SetScopeIs ==
  ASSUME Shape, NEW x
  PROVE  SetScope(x) \in 1 .. Len(units)
<1> DEFINE holders == {i \in 1 .. Depth : x \in DOMAIN Scope(i).vars}
           k == IF holders = {} THEN 1 ELSE Max(holders)
<1>1. k \in 1 .. Depth
  <2>1. holders # {} => Max(holders) \in holders
    BY InnermostIs
  <2> HIDE DEF holders
  <2>2. 1 \in 1 .. Depth /\ holders \subseteq 1 .. Depth
    BY TopIs, StandingIs DEF holders
  <2>3. QED
    BY <2>1, <2>2
<1>2. SetScope(x) = active[k].unit
  BY DEF SetScope
<1>3. QED
  BY <1>1, <1>2, StandingIs

LEMMA SetKeeps ==
  ASSUME Expanding, Set
  PROVE  Expanding'
<1> USE DEF Expanding
<1>1. /\ phase = "analyze" /\ Top.at <= Len(Stmts) /\ Stmt.stmt = "set"
      /\ \A j \in DOMAIN Exprs(Stmt) : ~ Unvisited(j)
  BY DEF Set, Visited, AtStatement
<1>2. CASE ValueOf(1).kind # "sym"
  BY <1>1, <1>2, NotASymbolKeeps DEF Set
<1>3. CASE ValueOf(1).kind = "sym"
  <2> DEFINE x == ValueOf(1).name
             v == ValueOf(2)
             b == [bodies[v.id] EXCEPT !.list = 0]
             w == Clone(v)
  <2>1. /\ bodies' = IF v.kind = "body" THEN Append(bodies, b) ELSE bodies
        /\ Bind(SetScope(x), x, w) /\ Advance
        /\ UNCHANGED <<lists, used, memo, failed, phase, out, meant>>
    BY <1>3 DEF Set
  <2>2. Known(v, Len(bodies))
    <3>1. Exprs(Stmt) = <<Stmt.target, Stmt.value>>
      BY <1>1 DEF Exprs
    <3>2. 2 \in DOMAIN Exprs(Stmt)
      BY <3>1
    <3>3. QED
      BY <1>1, <3>2, ValueKnown
  <2> HIDE DEF v, x
  <2>3. /\ Len(bodies) \in Nat /\ BodiesSound(bodies', Len(lists))
        /\ Len(bodies') = Len(bodies) + (IF v.kind = "body" THEN 1 ELSE 0)
        /\ \A i \in 1 .. Len(bodies) : bodies'[i] = bodies[i]
    <3>1. CASE v.kind = "body"
      <4>1. v.id \in 1 .. Len(bodies)
        BY <2>2, <3>1 DEF Known
      <4>2. bodies[v.id] \in [stmts : Seq(Statement), list : 0 .. Len(lists)]
        BY <4>1, BodiesAre, ElementOfSeq
      <4>3. b.stmts \in Seq(Statement) /\ b.list = 0 /\ b = [stmts |-> b.stmts, list |-> b.list]
        BY <4>2
      <4> HIDE DEF b
      <4>4. QED
        BY <2>1, <3>1, <4>3, BodyAdded, BodiesAre
    <3>2. CASE v.kind # "body"
      BY <2>1, <3>2, BodiesAre DEF BodiesSound
    <3>3. QED
      BY <3>1, <3>2
  <2>4. Len(bodies') \in Nat /\ Len(bodies) <= Len(bodies')
    BY <2>3
  <2>5. Known(w, Len(bodies'))
    BY <2>2, <2>3, <2>4 DEF Known, Clone, Body, Variable, Node
  <2> HIDE DEF w
  <2>6. UnitsSound(units', Len(bodies')) /\ Len(units') = Len(units)
    BY <2>1, <2>4, <2>5, SetScopeIs, BindKeeps
  <2>7. Ready(Top.list, Top.at)
    BY <1>1, PlainReady
  <2>8. QED
    BY <1>1, <2>1, <2>3, <2>4, <2>6, <2>7, SameFailed, AdvanceKeeps
<1>4. QED
  BY <1>2, <1>3

LEMMA MacroKeeps ==
  ASSUME Expanding, Macro
  PROVE  Expanding'
<1> USE DEF Expanding
<1>1. phase = "analyze" /\ Top.at <= Len(Stmts) /\ Stmt.stmt = "macro"
  BY DEF Macro, AtStatement
<1>2. CASE MacroKnown(Stmt.name)
  BY <1>2, CrashKeeps DEF Macro
<1>3. CASE ~ MacroKnown(Stmt.name)
  <2>1. Advance /\ UNCHANGED <<lists, bodies, used, memo, phase, out, meant>>
    BY <1>3 DEF Macro
  <2>2. /\ Len(bodies) \in Nat /\ Here \in 1 .. Len(units) /\ failed \subseteq 1 .. Len(units)
        /\ BodiesSound(bodies, Len(lists)) /\ UnitsSound(units, Len(bodies))
    BY StandingIs, SameFailed DEF Shape
  <2>3. Ready(Top.list, Top.at)
    BY <1>1, PlainReady
  <2>4. CASE Stmt.body = << >>
    <3>1. failed' = failed \cup {Here} /\ units' = units
      BY <1>3, <2>4 DEF Macro
    <3>2. QED
      BY <1>1, <2>1, <2>2, <2>3, <3>1, AdvanceKeeps
  <2>5. CASE Stmt.body # << >>
    <3> DEFINE h == Here
               f == Put(units[h].macros, Stmt.name, Stmt.body)
               e == [units[h] EXCEPT !.macros = f]
               u == [vars |-> units[h].vars, macros |-> f]
    <3>1. UnitSound(units[h], Len(bodies))
      BY <2>2 DEF UnitsSound
    <3>2. Stmt.body \in Seq(Statement)
      BY <1>1, TopIs, StatementsAssumption
    <3>3. \A y \in DOMAIN f : f[y] \in Seq(Statement)
      BY <3>1, <3>2 DEF UnitSound, Put
    <3> HIDE DEF f
    <3>4. e = u
      BY <3>1 DEF UnitSound
    <3>5. units' = [units EXCEPT ![h] = e] /\ failed' = failed
      BY <1>3, <2>5 DEF Macro, f
    <3> HIDE DEF e
    <3>6. UnitSound(u, Len(bodies))
      BY <3>1, <3>3 DEF UnitSound
    <3> HIDE DEF u
    <3>7. units' = Replaced(units, h, u)
      BY <3>4, <3>5 DEF Replaced
    <3>8. UnitsSound(units', Len(bodies)) /\ Len(units') = Len(units)
      BY <2>2, <3>6, <3>7, UnitReplaced
    <3>9. QED
      BY <1>1, <2>1, <2>2, <2>3, <3>5, <3>8, AdvanceKeeps
  <2>6. QED
    BY <2>4, <2>5
<1>4. QED
  BY <1>2, <1>3

(* What a macro's scope binds.                                             *)
LEMMA BoundIs ==
  ASSUME Shape, Top.at <= Len(Stmts), Stmt.stmt = "use"
  PROVE  /\ IsFiniteSet(DOMAIN Bound)
         /\ \A x \in DOMAIN Bound : Known(Bound[x], Len(bodies) + 1)
<1> DEFINE D == DOMAIN Stmt.args
           g == [j \in D |-> ArgName[j]]
           names == {ArgName[j] : j \in D}
<1>1. IsFiniteSet(D) /\ \A j \in D : IsArgument(Stmt.args[j])
  BY TopIs, StatementsAssumption
<1>2. DOMAIN Bound = names \cup {"body"}
  BY DEF Bound
<1>3. IsFiniteSet(names)
  <2>1. IsFiniteSet({g[j] : j \in DOMAIN g})
    <3>1. IsFiniteSet(DOMAIN g)
      BY <1>1
    <3> HIDE DEF g
    <3>2. QED
      BY <3>1, FiniteRange
  <2>2. {g[j] : j \in DOMAIN g} = names
    OBVIOUS
  <2>3. QED
    BY <2>1, <2>2
<1>4. IsFiniteSet(DOMAIN Bound)
  <2> HIDE DEF names
  <2>1. QED
    BY <1>2, <1>3, FS_AddElement
<1>5. ASSUME NEW x \in DOMAIN Bound
      PROVE  Known(Bound[x], Len(bodies) + 1)
  <2>1. CASE x = "body"
    <3>1. Bound[x] = Body(Len(bodies) + 1)
      BY <1>2, <2>1 DEF Bound
    <3>2. QED
      BY <3>1, StandingIs DEF Known, Body
  <2>2. CASE x # "body"
    <3> DEFINE j == CHOOSE k \in D : ArgName[k] = x
    <3>1. j \in D
      BY <1>2, <2>2
    <3>2. Bound[x] = Argument(j)
      BY <1>2, <2>2 DEF Bound
    <3> HIDE DEF j
    <3>3. Argument(j).kind # "body"
      BY <1>1, <3>1 DEF Argument, Itself, Node, IsArgument
    <3>4. QED
      BY <3>2, <3>3 DEF Known
  <2>3. QED
    BY <2>1, <2>2
<1>6. QED
  BY <1>4, <1>5

LEMMA UseKeeps ==
  ASSUME Expanding, Use
  PROVE  Expanding'
<1> USE DEF Expanding
<1>1. phase = "analyze" /\ Top.at <= Len(Stmts) /\ Stmt.stmt = "use"
  BY DEF Use, AtStatement
<1>2. CASE Macros(Stmt.name) = {}
  <2>1. Advance /\ UNCHANGED <<phase, out, tree>> /\ failed' = failed \cup {Here}
    BY <1>2 DEF Use
  <2>2. QED
    BY <1>1, <2>1, UnchangedTreeKeeps
<1>3. CASE Macros(Stmt.name) # {} /\ Depth = MaxDepth
  BY <1>3, CrashKeeps DEF Use
<1>4. CASE Macros(Stmt.name) # {} /\ Depth # MaxDepth
  <2> DEFINE s == Scope(Max(Macros(Stmt.name))).macros[Stmt.name]
             b == [stmts |-> Stmt.body, list |-> 0]
             n == Len(bodies) + 1
  <2>1. /\ Open(s, Bound, Passing) /\ bodies' = Append(bodies, b)
        /\ used' = Put(used, <<Top.list, Top.at>>, NewList)
        /\ UNCHANGED <<memo, failed, phase>>
    BY <1>4 DEF Use
  <2>2. s \in Seq(Statement)
    <3>1. Max(Macros(Stmt.name)) \in Macros(Stmt.name)
      <4>1. Macros(Stmt.name) \subseteq 1 .. Depth
        BY DEF Macros
      <4>2. QED
        BY <1>4, <4>1, InnermostIs
    <3>2. QED
      BY <3>1, StandingIs DEF Macros, UnitSound
  <2> HIDE DEF s
  <2>3. /\ BodiesSound(bodies', Len(lists)) /\ Len(bodies') = n /\ Len(bodies) \in Nat
        /\ \A i \in 1 .. Len(bodies) : bodies'[i] = bodies[i]
    <3>1. Stmt.body \in Seq(Statement)
      BY <1>1, TopIs, StatementsAssumption
    <3>2. b.stmts = Stmt.body /\ b.list = 0 /\ b = [stmts |-> b.stmts, list |-> b.list]
      OBVIOUS
    <3> HIDE DEF b
    <3>3. QED
      BY <2>1, <3>1, <3>2, BodyAdded, StandingIs
  <2>4. n \in Nat /\ Len(bodies) <= n
    BY <2>3
  <2>5. IsFiniteSet(DOMAIN Bound) /\ \A x \in DOMAIN Bound : Known(Bound[x], n)
    BY <1>1, BoundIs
  <2>6. /\ Standing(Passing, Len(units), lists) /\ Len(Passing) = Depth
        /\ Len(Passing) # MaxDepth
    BY <1>1, <1>4, PassingIs
  <2> DEFINE g == Bound
  <2> HIDE DEF n, g
  <2>7. /\ UnitsSound(units', n) /\ Len(units') = Len(units) + 1
        /\ lists' \in Seq(Seq(Statement)) /\ Len(lists') = Len(lists) + 1
        /\ Extends(lists, lists') /\ Standing(active', Len(units'), lists')
        /\ Depth' = Len(Passing) + 1 /\ \A d \in 1 .. Len(Passing) : active'[d] = Passing[d]
        /\ active'[Depth'].list = NewList /\ active'[Depth'].at = 1
    <3>1. Open(s, g, Passing) /\ IsFiniteSet(DOMAIN g) /\ \A x \in DOMAIN g : Known(g[x], n)
      BY <2>1, <2>5 DEF g
    <3>2. QED
      BY <2>2, <2>4, <2>6, <3>1, OpenKeeps
  <2>8. BodiesSound(bodies', Len(lists'))
    BY <2>3, <2>7, StandingIs, BodiesStay DEF Extends
  <2>9. Len(units') \in Nat /\ Len(units) <= Len(units')
    BY <2>7, StandingIs
  <2>10. QED
    BY <1>1, <1>4, <2>1, <2>3, <2>4, <2>6, <2>7, <2>8, <2>9, CallKeeps
<1>5. QED
  BY <1>2, <1>3, <1>4

LEMMA IncludeKeeps ==
  ASSUME Expanding, Include
  PROVE  Expanding'
<1> USE DEF Expanding
<1>1. phase = "analyze" /\ Top.at <= Len(Stmts) /\ Stmt.stmt = "include"
  BY DEF Include, AtStatement
<1>2. CASE Stmt.path \notin DOMAIN Files
  <2>1. Advance /\ UNCHANGED <<phase, out, tree>> /\ failed' = failed \cup {Here}
    BY <1>2 DEF Include
  <2>2. QED
    BY <1>1, <2>1, UnchangedTreeKeeps
<1>3. CASE Stmt.path \in DOMAIN Files /\ Depth = MaxDepth
  BY <1>3, CrashKeeps DEF Include
<1>4. CASE Stmt.path \in DOMAIN Files /\ Depth # MaxDepth
  <2> DEFINE s == Files[Stmt.path]
             h == Here
             f == Over(LabelsOf(NewList, s), units[h].vars)
             e == [units[h] EXCEPT !.vars = f]
             u == [vars |-> f, macros |-> units[h].macros]
  <2>1. /\ Start(s, h, Passing) /\ used' = Put(used, <<Top.list, Top.at>>, NewList)
        /\ units' = [units EXCEPT ![h] = e]
        /\ UNCHANGED <<bodies, memo, failed, phase>>
    BY <1>4 DEF Include
  <2>2. s \in Seq(Statement)
    BY <1>4, StatementsAssumption
  <2>3. /\ Len(bodies) \in Nat /\ h \in 1 .. Len(units) /\ Len(units) \in Nat
        /\ UnitSound(units[h], Len(bodies)) /\ BodiesSound(bodies, Len(lists))
    BY StandingIs, SameFailed DEF Shape, UnitsSound
  <2>4. IsFiniteSet(DOMAIN f) /\ \A x \in DOMAIN f : Known(f[x], Len(bodies))
    BY <2>2, <2>3, LabelsAre DEF UnitSound
  <2> HIDE DEF f
  <2>5. e = u
    BY <2>3 DEF UnitSound
  <2> HIDE DEF e, s
  <2>6. UnitSound(u, Len(bodies))
    BY <2>3, <2>4, VarsSound
  <2> HIDE DEF u
  <2>7. units' = Replaced(units, h, u)
    BY <2>1, <2>5 DEF Replaced
  <2>8. UnitsSound(units', Len(bodies)) /\ Len(units') = Len(units)
    BY <2>3, <2>6, <2>7, UnitReplaced
  <2>9. Standing(Passing, Len(units), lists) /\ Len(Passing) = Depth
    BY <1>1, PassingIs
  <2> HIDE DEF h
  <2>10. /\ lists' \in Seq(Seq(Statement)) /\ Len(lists') = Len(lists) + 1
         /\ Extends(lists, lists') /\ Standing(active', Len(units), lists')
         /\ Depth' = Len(Passing) + 1 /\ \A d \in 1 .. Len(Passing) : active'[d] = Passing[d]
         /\ active'[Depth'].list = NewList /\ active'[Depth'].at = 1
    <3>1. Len(units) <= Len(units) /\ Len(Passing) # MaxDepth /\ Start(s, h, Passing)
      BY <1>4, <2>1, <2>3, <2>9
    <3> DEFINE n == Len(units)
    <3>2. n \in Nat /\ h \in 1 .. n /\ n = Len(units) /\ Len(units) <= n
      BY <2>3
    <3> HIDE DEF n
    <3>3. Standing(active', n, lists')
      BY <2>2, <2>9, <3>1, <3>2, StartKeeps
    <3>4. /\ lists' \in Seq(Seq(Statement)) /\ Len(lists') = Len(lists) + 1
          /\ Extends(lists, lists')
          /\ Depth' = Len(Passing) + 1 /\ \A d \in 1 .. Len(Passing) : active'[d] = Passing[d]
          /\ active'[Depth'].list = NewList /\ active'[Depth'].at = 1
      BY <2>2, <2>9, <3>1, <3>2, StartKeeps
    <3>5. QED
      BY <3>2, <3>3, <3>4
  <2>11. BodiesSound(bodies', Len(lists'))
    BY <2>1, <2>3, <2>10, StandingIs, BodiesStay DEF Extends
  <2>12. QED
    BY <1>1, <1>4, <2>1, <2>3, <2>8, <2>9, <2>10, <2>11, CallKeeps
<1>5. QED
  BY <1>2, <1>3, <1>4

(* A body is visited, in the list it is parsed to.                         *)
LEMMA BodyVisited ==
  ASSUME Shape, NEW m \in Nat, Len(lists) <= m, NEW b \in 1 .. Len(bodies), NEW l \in 1 .. m,
         bodies' = [bodies EXCEPT ![b].list = l]
  PROVE  /\ BodiesSound(bodies', m) /\ Len(bodies') = Len(bodies) /\ bodies'[b].list = l
         /\ \A i \in 1 .. Len(bodies) : bodies[i].list # 0 => bodies'[i].list # 0
<1> DEFINE S == [stmts : Seq(Statement), list : 0 .. m]
           e == [bodies[b] EXCEPT !.list = l]
<1>1. bodies \in Seq(S) /\ Len(bodies) \in Nat
  BY BodiesAre, BodiesStay DEF BodiesSound
<1>2. bodies[b] \in S
  BY <1>1, ElementOfSeq
<1>3. e \in S /\ e.list = l /\ l # 0
  BY <1>2
<1>4. bodies' = Replaced(bodies, b, e)
  BY DEF Replaced
<1> HIDE DEF e, S
<1>5. /\ bodies' \in Seq(S) /\ Len(bodies') = Len(bodies)
      /\ \A i \in 1 .. Len(bodies) : bodies'[i] = IF i = b THEN e ELSE bodies[i]
  BY <1>1, <1>3, <1>4, ExceptSeq DEF Replaced
<1>6. QED
  BY <1>3, <1>5 DEF BodiesSound, S

(* A statement is visited further, and its visitor stays.                  *)
LEMMA StayKeeps ==
  ASSUME Expanding, Shape', phase = "analyze", phase' = phase,
         Extends(lists, lists'), used' = used, DOMAIN memo \subseteq DOMAIN memo',
         failed \subseteq failed', Depth' \in Nat, Depth <= Depth',
         \A d \in 1 .. Depth : active'[d] = active[d],
         Valued /\ Here \notin failed' => Valued',
         \A l \in 1 .. Len(lists') : \A i \in 1 .. Len(lists'[l]) :
           Behind(l, i)' => l \in 1 .. Len(lists)
  PROVE  Expanding'
<1> USE DEF Expanding
<1>1. Clean' => Clean /\ Here \notin failed'
  BY CleanBefore
<1>2. Clean' => Clean /\ Valued'
  BY <1>1 DEF Progress
<1>3. ASSUME NEW l \in 1 .. Len(lists'), NEW i \in 1 .. Len(lists'[l]), Behind(l, i)'
      PROVE  l \in 1 .. Len(lists) /\ Behind(l, i)
  <2>1. \A d \in 1 .. Depth : d \in 1 .. Depth'
    BY StandingIs
  <2>2. Behind(l, i)
    BY <1>3, <2>1 DEF Behind
  <2>3. QED
    BY <1>3, <2>2
<1>4. Progress'
  BY <1>2, <1>3, ProgressKept
<1>5. Complete'
  BY DEF Complete
<1>6. QED
  BY <1>4, <1>5

LEMMA VisitKeeps ==
  ASSUME Expanding, Visit
  PROVE  Expanding'
<1> USE DEF Expanding
<1>1. phase = "analyze" /\ Top.at <= Len(Stmts)
  BY DEF Visit, AtStatement
<1>2. PICK j \in DOMAIN Exprs(Stmt) : VisitExpression(j)
  BY DEF Visit
<1> DEFINE e == Exprs(Stmt)[j]
           v == Stands(e, Place(j))
           r == Resolved(Node(Place(j), e.name))
           first == Passed(Node(Place(j), e.name))
           visited == (first \cup PassedAgain(e, Place(j))) \ {NoPlace}
<1>3. IsRef(e) /\ IsExpression(e)
  BY <1>1, <1>2, TopIs, StatementsAssumption DEF VisitExpression, Unvisited
<1>4. CASE v.kind = "node" \/ (Unopened(v) /\ Depth = MaxDepth)
  BY <1>2, <1>4, CrashKeeps DEF VisitExpression
<1>5. CASE ~ (v.kind = "node" \/ (Unopened(v) /\ Depth = MaxDepth))
  <2>1. /\ memo' = [id \in DOMAIN memo \cup visited |->
                      IF id \in DOMAIN memo THEN memo[id]
                      ELSE IF id = Place(j) \/ id \notin first THEN v ELSE r]
        /\ failed' = failed \cup (IF Missing(v) THEN {Here} ELSE {})
        /\ IF Unopened(v)
             THEN /\ Open(bodies[v.id].stmts, << >>, active)
                  /\ bodies' = [bodies EXCEPT ![v.id].list = NewList]
             ELSE UNCHANGED <<units, lists, active, bodies>>
        /\ UNCHANGED <<used, phase, out, meant>>
    BY <1>2, <1>5 DEF VisitExpression
  <2>2. Known(v, Len(bodies)) /\ (r.kind = "sym" \/ r = v)
    <3>1. Itself(e, Place(j)) = Node(Place(j), e.name)
      BY <1>3 DEF Itself
    <3>2. QED
      BY <1>3, <3>1, StandsKnown
  <2> HIDE DEF v, r, first, visited, e
  <2>3. /\ DOMAIN memo \subseteq DOMAIN memo'
        /\ \A id \in DOMAIN memo' :
             \/ id \in DOMAIN memo /\ memo'[id] = memo[id]
             \/ memo'[id] = v \/ memo'[id].kind = "sym"
    BY <2>1, <2>2
  <2>4. Valued /\ Here \notin failed' => Valued'
    <3>1. SUFFICES ASSUME Valued, Here \notin failed', NEW id \in DOMAIN memo'
                   PROVE  ~ Missing(memo'[id])
      BY DEF Valued, Missing
    <3>2. ~ Missing(v)
      BY <2>1, <3>1
    <3>3. QED
      BY <2>3, <3>1, <3>2 DEF Valued, Missing
  <2>5. /\ failed \subseteq failed' /\ failed' \subseteq 1 .. Len(units)
        /\ Len(bodies) \in Nat /\ Len(lists) \in Nat /\ Len(units) \in Nat
        /\ Depth \in Nat /\ Len(active) = Depth
    BY <2>1, SameFailed, StandingIs DEF Depth
  <2>6. CASE ~ Unopened(v)
    <3>1. UNCHANGED <<units, lists, active, bodies, used, phase>>
      BY <2>1, <2>6
    <3>2. v.kind = "body" => v.id \in 1 .. Len(bodies) /\ bodies[v.id].list # 0
      BY <2>2, <2>6 DEF Known, Unopened
    <3>3. MemoSound(memo', bodies)
      BY <2>3, <3>2 DEF Shape, MemoSound
    <3>4. Shape'
      BY <2>5, <3>1, <3>3 DEF Shape
    <3>5. Extends(lists, lists') /\ Depth' = Depth
      BY <2>5, <3>1 DEF Extends, Depth
    <3>6. QED
      BY <1>1, <2>3, <2>4, <2>5, <3>1, <3>4, <3>5, StayKeeps
  <2>7. CASE Unopened(v)
    <3> DEFINE s == bodies[v.id].stmts
               g == << >>
               n == Len(bodies)
    <3>1. /\ Open(s, g, active) /\ bodies' = [bodies EXCEPT ![v.id].list = NewList]
          /\ Depth # MaxDepth /\ UNCHANGED <<used, phase>>
      BY <1>5, <2>1, <2>7
    <3>2. v.id \in 1 .. Len(bodies) /\ v.kind = "body"
      BY <2>2, <2>7 DEF Known, Unopened
    <3>3. s \in Seq(Statement)
      BY <3>2, BodiesAre
    <3>4. IsFiniteSet(DOMAIN g) /\ \A x \in DOMAIN g : Known(g[x], n)
      <4>1. DOMAIN g = {}
        OBVIOUS
      <4>2. QED
        BY <4>1, FS_EmptySet
    <3>5. n \in Nat /\ n = Len(bodies) /\ Len(bodies) <= n
      BY <2>5
    <3>6. Standing(active, Len(units), lists) /\ Len(active) # MaxDepth
      BY <2>5, <3>1 DEF Shape
    <3> HIDE DEF s, g, n
    <3>7. /\ UnitsSound(units', n) /\ Len(units') = Len(units) + 1
          /\ lists' \in Seq(Seq(Statement)) /\ Len(lists') = Len(lists) + 1
          /\ Extends(lists, lists') /\ Standing(active', Len(units'), lists')
          /\ Depth' = Len(active) + 1 /\ Depth' \in Nat
          /\ \A d \in 1 .. Len(active) : active'[d] = active[d]
          /\ active'[Depth'].list = NewList /\ active'[Depth'].at = 1
      BY <3>1, <3>3, <3>4, <3>5, <3>6, OpenKeeps
    <3>8. /\ BodiesSound(bodies', Len(lists')) /\ Len(bodies') = Len(bodies)
          /\ bodies'[v.id].list = NewList
          /\ \A i \in 1 .. Len(bodies) : bodies[i].list # 0 => bodies'[i].list # 0
      <4>1. /\ Len(lists') \in Nat /\ Len(lists) <= Len(lists') /\ NewList \in 1 .. Len(lists')
        BY <2>5, <3>7 DEF NewList
      <4>2. QED
        BY <3>1, <3>2, <4>1, BodyVisited
    <3>9. MemoSound(memo', bodies')
      <4>1. NewList # 0
        BY <2>5 DEF NewList
      <4>2. QED
        BY <2>3, <3>2, <3>8, <4>1 DEF Shape, MemoSound
    <3>10. UsedSound(used', Len(lists'))
      <4>1. Len(lists') \in Nat /\ Len(lists) <= Len(lists')
        BY <2>5, <3>7
      <4>2. UsedSound(used, Len(lists'))
        BY <2>5, <4>1, UsedStays DEF Shape
      <4>3. QED
        BY <3>1, <4>2
    <3>11. failed' \subseteq 1 .. Len(units')
      BY <2>5, <3>7
    <3>12. Shape'
      BY <3>1, <3>5, <3>7, <3>8, <3>9, <3>10, <3>11 DEF Shape
    <3>13. ASSUME NEW l \in 1 .. Len(lists'), NEW i \in 1 .. Len(lists'[l]), Behind(l, i)'
           PROVE  l \in 1 .. Len(lists)
      <4>1. i \in Int /\ i >= 1
        BY <3>7, IndicesPositive
      <4>2. QED
        BY <2>5, <3>7, <3>13, <4>1, BehindOpened
    <3>14. QED
      BY <1>1, <2>3, <2>4, <2>5, <3>1, <3>7, <3>12, <3>13, StayKeeps
  <2>8. QED
    BY <2>6, <2>7
<1>6. QED
  BY <1>4, <1>5

(* A list is left, and its visitor with it.                                *)
LEMMA PopIs ==
  ASSUME Shape, Depth > 1, active' = SubSeq(active, 1, Depth - 1)
  PROVE  /\ Standing(active', Len(units), lists) /\ Depth' = Depth - 1
         /\ \A d \in 1 .. Depth - 1 : active'[d] = active[d]
<1>1. /\ active \in Seq(Iterator) /\ Depth = Len(active) /\ Depth \in 1 .. MaxDepth
      /\ Depth \in Nat /\ Depth - 1 \in Nat
  BY StandingIs DEF Depth
<1>2. /\ active' \in Seq(Iterator) /\ Len(active') = Depth - 1
      /\ \A d \in 1 .. Depth - 1 : active'[d] = active[d]
  <2> DEFINE k == Depth - 1
  <2>1. k \in Nat /\ k \in 1 - 1 .. Len(active) /\ 1 \in 1 .. Len(active) + 1
    BY <1>1
  <2> HIDE DEF k
  <2>2. /\ SubSeq(active, 1, k) \in Seq(Iterator) /\ Len(SubSeq(active, 1, k)) = k
        /\ \A d \in 1 .. k : SubSeq(active, 1, k)[d] = active[d]
    BY <1>1, <2>1
  <2>3. QED
    BY <2>2 DEF k
<1>3. Len(active') \in 1 .. MaxDepth
  BY <1>1, <1>2, DepthAssumption
<1>4. \A d \in 1 .. Len(active') : d \in 1 .. Depth /\ active'[d] = active[d]
  BY <1>1, <1>2
<1>5. Standing(active', Len(units), lists)
  BY <1>2, <1>3, <1>4 DEF Standing, Shape, Depth
<1>6. QED
  BY <1>2, <1>5 DEF Depth

LEMMA ReturnKeeps ==
  ASSUME Expanding, Return
  PROVE  Expanding'
<1> USE DEF Expanding
<1>1. /\ phase = "analyze" /\ Top.at > Len(Stmts) /\ Depth > 1 /\ failed' = Errors
      /\ active' = SubSeq(active, 1, Depth - 1) /\ phase' = phase /\ UNCHANGED tree
  BY DEF Return, AtEnd
<1>2. /\ Standing(active', Len(units), lists) /\ Depth' = Depth - 1
      /\ \A d \in 1 .. Depth - 1 : active'[d] = active[d]
  BY <1>1, PopIs
<1>3. Depth \in Nat /\ Depth - 1 \in 1 .. Depth /\ Len(lists) \in Nat
  BY <1>1, StandingIs
<1>4. failed \subseteq failed' /\ failed' \subseteq 1 .. Len(units)
  BY <1>1, <1>3, SameFailed, StandingIs DEF Errors
<1>5. Shape'
  BY <1>1, <1>2, <1>4 DEF Shape, tree
<1>6. ASSUME Clean' PROVE Clean
  <2>1. \A d \in 1 .. Depth - 1 : active[d].unit \notin failed'
    BY <1>2, <1>6 DEF Clean
  <2>2. Here \notin failed
    <3>1. Depth - 1 \in 1 .. Depth - 1
      BY <1>1, <1>3
    <3>2. QED
      BY <1>1, <2>1, <3>1 DEF Errors
  <2>3. \A d \in 1 .. Depth : d \in 1 .. Depth - 1 \/ d = Depth
    BY <1>3
  <2>4. QED
    BY <1>4, <2>1, <2>2, <2>3, TopIs DEF Clean
<1>7. Clean' => Clean /\ Valued'
  BY <1>1, <1>6 DEF Progress, Valued, tree
<1>8. ASSUME NEW l \in 1 .. Len(lists'), NEW i \in 1 .. Len(lists'[l]), Behind(l, i)'
      PROVE  l \in 1 .. Len(lists) /\ Behind(l, i)
  <2>1. lists' = lists
    BY <1>1 DEF tree
  <2>2. ASSUME NEW d \in 1 .. Depth, active[d].list = l PROVE i < active[d].at
    <3>1. CASE d = Depth
      <4>1. i <= Len(Stmts) /\ Len(Stmts) \in Nat /\ active[d].at = Top.at /\ i \in Int
        BY <2>1, <2>2, <3>1, TopIs
      <4>2. Top.at \in Nat
        BY TopIs DEF Iterator
      <4>3. QED
        BY <1>1, <4>1, <4>2
    <3>2. CASE d # Depth
      <4>1. d \in 1 .. Depth'
        BY <1>2, <1>3, <3>2
      <4>2. active'[d] = active[d]
        BY <1>2, <4>1
      <4>3. QED
        BY <1>8, <2>2, <4>1, <4>2 DEF Behind
    <3>3. QED
      BY <3>1, <3>2
  <2>3. QED
    BY <2>1, <2>2 DEF Behind
<1>9. Extends(lists, lists') /\ DOMAIN memo \subseteq DOMAIN memo' /\ DOMAIN used \subseteq DOMAIN used'
  BY <1>1, <1>3 DEF Extends, tree
<1>10. Progress'
  BY <1>1, <1>7, <1>8, <1>9, ProgressKept
<1>11. Complete'
  BY <1>1 DEF Complete
<1>12. QED
  BY <1>5, <1>10, <1>11

LEMMA AnalyzedKeeps ==
  ASSUME Expanding, Analyzed
  PROVE  Expanding'
<1> USE DEF Expanding
<1>1. /\ phase = "analyze" /\ Top.at > Len(Stmts) /\ Depth = 1 /\ failed' = failed
      /\ phase' = (IF HasFatalErrors THEN "failed" ELSE "build") /\ UNCHANGED tree
      /\ active' = <<[Top EXCEPT !.at = 1]>>
  BY DEF Analyzed, AtEnd
<1> DEFINE it == [unit |-> Top.unit, list |-> Top.list, at |-> 1]
<1>2. /\ it \in Iterator /\ it = [Top EXCEPT !.at = 1] /\ it.unit \in 1 .. Len(units)
      /\ it.list \in 1 .. Len(lists) /\ it.at \in 1 .. Len(lists[it.list]) + 1
  BY TopIs DEF Iterator
<1> HIDE DEF it
<1>3. Standing(<<it>>, Len(units), lists)
  <2>1. <<it>> \in Seq(Iterator) /\ Len(<<it>>) = 1 /\ <<it>>[1] = it
    BY <1>2
  <2>2. 1 \in 1 .. MaxDepth /\ \A i \in 1 .. 1 : i = 1
    BY DepthAssumption
  <2>3. QED
    BY <1>2, <2>1, <2>2 DEF Standing
<1>4. active' = <<it>>
  BY <1>1, <1>2
<1>5. Shape'
  BY <1>1, <1>3, <1>4 DEF Shape, tree, Phases
<1>6. Progress'
  BY <1>1 DEF Progress
<1>7. ASSUME phase' = "build" PROVE Complete'
  <2>1. Clean
    <3>1. Here \notin failed
      BY <1>1, <1>7 DEF HasFatalErrors
    <3>2. \A d \in 1 .. Depth : d = Depth
      BY <1>1
    <3>3. QED
      BY <3>1, <3>2, TopIs DEF Clean
  <2>2. ASSUME NEW l \in 1 .. Len(lists), NEW i \in 1 .. Len(lists[l]) PROVE Behind(l, i)
    <3>1. \A d \in 1 .. Depth : active[d] = Top
      BY <1>1, TopIs
    <3>2. Top.list = l => i <= Len(Stmts) /\ i \in Int /\ Len(Stmts) \in Nat /\ Top.at \in Nat
      BY TopIs DEF Iterator
    <3>3. QED
      BY <1>1, <3>1, <3>2 DEF Behind
  <2>3. Valued /\ \A l \in 1 .. Len(lists) : \A i \in 1 .. Len(lists[l]) : Ready(l, i)
    BY <1>1, <2>1, <2>2 DEF Progress
  <2>4. lists' = lists /\ memo' = memo /\ used' = used
    BY <1>1 DEF tree
  <2>5. QED
    BY <2>3, <2>4 DEF Complete, Valued, Ready
<1>8. Complete'
  BY <1>7 DEF Complete
<1>9. QED
  BY <1>5, <1>6, <1>8


-----------------------------------------------------------------------------
(* The actions of the build.                                               *)
LEMMA BuildKeeps ==
  ASSUME Expanding, phase = "build", phase' \in {"build", "done"}, failed' = failed,
         UNCHANGED tree, Standing(active', Len(units), lists)
  PROVE  Expanding'
<1> USE DEF Expanding
<1>1. Shape'
  BY DEF Shape, tree, Phases
<1>2. Progress'
  BY DEF Progress
<1>3. lists' = lists /\ memo' = memo /\ used' = used
  BY DEF tree
<1>4. Complete'
  BY <1>3 DEF Complete, Valued, Ready
<1>5. QED
  BY <1>1, <1>2, <1>4

LEMMA BuildStepKeeps ==
  ASSUME Expanding, phase = "build", phase' = phase, failed' = failed, UNCHANGED tree,
         Top.at <= Len(Stmts), Advance
  PROVE  Expanding'
  BY PassingIs, BuildKeeps DEF Expanding, Advance

LEMMA BuildListKeeps ==
  ASSUME Expanding, phase = "build", Top.at <= Len(Stmts), NEW l \in 1 .. Len(lists),
         BuildList(l)
  PROVE  Expanding'
<1>1. CASE Building(l) \/ Depth = MaxDepth
  BY <1>1, CrashKeeps DEF BuildList
<1>2. CASE ~ (Building(l) \/ Depth = MaxDepth)
  <2>1. /\ active' = Append(Passing, [unit |-> Here, list |-> l, at |-> 1])
        /\ failed' = failed /\ phase' = phase /\ UNCHANGED tree
    BY <1>2 DEF BuildList
  <2>2. /\ Standing(Passing, Len(units), lists) /\ Len(Passing) # MaxDepth
        /\ Here \in 1 .. Len(units) /\ Len(units) \in Nat /\ lists \in Seq(Seq(Statement))
    BY <1>2, TopIs, PassingIs, StandingIs DEF Expanding, Shape
  <2> DEFINE n == Len(units)
             u == Here
             it == [unit |-> u, list |-> l, at |-> 1]
  <2>3. n \in Nat /\ u \in 1 .. n /\ Standing(Passing, n, lists)
    BY <2>2
  <2> HIDE DEF n, u
  <2>4. Standing(Append(Passing, it), n, lists)
    <3>1. Placed(it, n, lists)
      BY <2>2, <2>3, BeginsPlaced
    <3> HIDE DEF it
    <3>2. QED
      BY <2>2, <2>3, <3>1, PushStands
  <2>5. Standing(active', Len(units), lists)
    BY <2>1, <2>4 DEF n, u
  <2>6. QED
    BY <2>1, <2>5, BuildKeeps
<1>3. QED
  BY <1>1, <1>2

(* What is printed was visited, has a value, and is no body that was not.  *)
LEMMA BuiltIs ==
  ASSUME Expanding, AtStatement("build", {"emit"})
  PROVE  /\ IsRef(Stmt.value) => Place(1) \in DOMAIN memo
         /\ ~ Missing(Built)
         /\ Built.kind = "body" => Built.id \in 1 .. Len(bodies) /\ bodies[Built.id].list # 0
<1> USE DEF Expanding
<1>1. phase = "build" /\ Top.at <= Len(Stmts) /\ Stmt.stmt = "emit"
  BY DEF AtStatement
<1>2. Ready(Top.list, Top.at) /\ Valued
  BY <1>1, TopIs DEF Complete, Iterator
<1>3. IsRef(Stmt.value) => Place(1) \in DOMAIN memo
  BY <1>1, <1>2, TopIs DEF Ready, Place
<1>4. IsExpression(Stmt.value)
  <2>1. Exprs(Stmt) = <<Stmt.value>>
    BY <1>1 DEF Exprs
  <2>2. 1 \in DOMAIN Exprs(Stmt) /\ Exprs(Stmt)[1] = Stmt.value
    BY <2>1
  <2>3. QED
    BY <1>1, <2>2, TopIs, StatementsAssumption
<1>5. CASE IsRef(Stmt.value)
  <2>1. Built = memo[Place(1)]
    BY <1>5 DEF Built
  <2>2. QED
    BY <1>2, <1>3, <1>5, <2>1 DEF Valued, Shape, MemoSound
<1>6. CASE ~ IsRef(Stmt.value)
  <2>1. Built = Stmt.value
    BY <1>6 DEF Built
  <2>2. Built.kind # "body" /\ ~ Missing(Built)
    BY <1>4, <2>1 DEF IsExpression, Missing
  <2>3. QED
    BY <1>3, <2>2
<1>7. QED
  BY <1>5, <1>6

LEMMA UsedIs ==
  ASSUME Expanding, AtStatement("build", {"use", "include"})
  PROVE  /\ <<Top.list, Top.at>> \in DOMAIN used
         /\ used[<<Top.list, Top.at>>] \in 1 .. Len(lists)
<1> USE DEF Expanding
<1>1. phase = "build" /\ Top.at <= Len(Stmts) /\ Stmt.stmt \in {"use", "include"}
  BY DEF AtStatement
<1>2. Ready(Top.list, Top.at)
  BY <1>1, TopIs DEF Complete, Iterator
<1>3. QED
  BY <1>1, <1>2, TopIs DEF Ready, Shape, UsedSound

LEMMA BuildEmitKeeps ==
  ASSUME Expanding, BuildEmit
  PROVE  Expanding'
<1>1. AtStatement("build", {"emit"}) /\ phase = "build" /\ Top.at <= Len(Stmts)
  BY DEF BuildEmit, AtStatement
<1>2. CASE Built.kind = "body"
  <2> DEFINE l == bodies[Built.id].list
  <2>1. l \in 1 .. Len(lists)
    <3>1. Built.id \in 1 .. Len(bodies) /\ l # 0
      BY <1>1, <1>2, BuiltIs
    <3>2. l \in 0 .. Len(lists) /\ Len(lists) \in Nat
      BY <3>1, BodiesAre DEF Expanding
    <3>3. QED
      BY <3>1, <3>2
  <2>2. BuildList(l)
    BY <1>2 DEF BuildEmit
  <2> HIDE DEF l
  <2>3. QED
    BY <1>1, <2>1, <2>2, BuildListKeeps
<1>3. CASE Built.kind # "body"
  BY <1>1, <1>3, BuildStepKeeps DEF BuildEmit
<1>4. QED
  BY <1>2, <1>3

LEMMA BuildUseKeeps ==
  ASSUME Expanding, BuildUse
  PROVE  Expanding'
<1>1. AtStatement("build", {"use", "include"}) /\ phase = "build" /\ Top.at <= Len(Stmts)
  BY DEF BuildUse, AtStatement
<1>2. BuildList(used[<<Top.list, Top.at>>])
  BY DEF BuildUse
<1>3. QED
  BY <1>1, <1>2, UsedIs, BuildListKeeps

LEMMA BuildReturnKeeps ==
  ASSUME Expanding, BuildReturn
  PROVE  Expanding'
<1>1. phase = "build" /\ failed' = failed /\ UNCHANGED tree
  BY DEF BuildReturn, AtEnd
<1>2. Standing(active, Len(units), lists) /\ Depth \in Nat /\ Depth >= 1
  BY StandingIs DEF Expanding, Shape
<1>3. CASE Depth = 1
  BY <1>1, <1>2, <1>3, BuildKeeps DEF BuildReturn
<1>4. CASE Depth # 1
  <2>1. active' = SubSeq(active, 1, Depth - 1) /\ phase' = phase /\ Depth > 1
    BY <1>2, <1>4 DEF BuildReturn
  <2>2. QED
    BY <1>1, <2>1, PopIs, BuildKeeps DEF Expanding
<1>5. QED
  BY <1>3, <1>4

-----------------------------------------------------------------------------
(* The invariant.                                                          *)
LEMMA InitExpands ==
  ASSUME Init
  PROVE  Expanding
<1>1. PICK p \in Programs : units = <<Unit(1, p, Builtin)>> /\ lists = <<Hoisted(p)>>
  BY DEF Init
<1>2. /\ active = <<[unit |-> 1, list |-> 1, at |-> 1]>>
      /\ bodies = << >> /\ used = << >> /\ memo = << >> /\ failed = {} /\ phase = "analyze"
  BY DEF Init
<1>3. p \in Seq(Statement)
  BY StatementsAssumption
<1> DEFINE u == Unit(1, p, Builtin)
<1>4. UnitSound(u, 0)
  <2>1. IsFiniteSet(DOMAIN Builtin)
    BY BuiltinsAssumption DEF Builtin
  <2>2. \A x \in DOMAIN Builtin : Known(Builtin[x], 0)
    BY DEF Builtin, Known
  <2>3. QED
    BY <1>3, <2>1, <2>2, UnitIs
<1> HIDE DEF u
<1>5. UnitsSound(units, Len(bodies)) /\ Len(units) = 1
  <2>1. units \in Seq({u}) /\ Len(units) = 1 /\ units[1] = u
    BY <1>1 DEF u
  <2>2. units \in Seq(Elements(units))
    <3> DEFINE S == {u}
    <3>1. units \in Seq(S)
      BY <2>1
    <3> HIDE DEF S
    <3>2. QED
      BY <3>1, SeqItself
  <2>3. QED
    BY <1>2, <1>4, <2>1, <2>2 DEF UnitsSound
<1>6. lists \in Seq(Seq(Statement)) /\ Len(lists) = 1 /\ Len(lists[1]) \in Nat
  BY <1>1, <1>3, HoistedIs, LenProperties
<1>7. BodiesSound(bodies, Len(lists))
  BY <1>2 DEF BodiesSound
<1>8. Standing(active, Len(units), lists)
  <2> DEFINE it == [unit |-> 1, list |-> 1, at |-> 1]
  <2>1. it \in Iterator /\ it.unit = 1 /\ it.list = 1 /\ it.at = 1
    BY DEF Iterator
  <2> HIDE DEF it
  <2>2. active = <<it>>
    BY <1>2 DEF it
  <2>3. active \in Seq(Iterator) /\ Len(active) = 1 /\ active[1] = it
    BY <2>1, <2>2
  <2>4. 1 \in 1 .. MaxDepth /\ \A i \in 1 .. 1 : i = 1
    BY DepthAssumption
  <2>5. QED
    BY <1>5, <1>6, <2>1, <2>3, <2>4 DEF Standing
<1>9. MemoSound(memo, bodies) /\ UsedSound(used, Len(lists)) /\ Valued
  <2>1. DOMAIN memo = {} /\ DOMAIN used = {}
    BY <1>2
  <2>2. QED
    BY <2>1 DEF MemoSound, UsedSound, Valued
<1>10. Shape
  BY <1>2, <1>5, <1>6, <1>7, <1>8, <1>9 DEF Shape, Phases
<1>11. ASSUME NEW l \in 1 .. Len(lists), NEW i \in 1 .. Len(lists[l]) PROVE ~ Behind(l, i)
  <2>1. 1 \in 1 .. Depth /\ active[1].list = 1 /\ active[1].at = 1
    BY <1>2 DEF Depth
  <2>2. l = 1 /\ i >= 1 /\ i \in Int
    BY <1>6
  <2>3. QED
    BY <2>1, <2>2 DEF Behind
<1>12. QED
  BY <1>2, <1>9, <1>10, <1>11 DEF Expanding, Progress, Complete

LEMMA StepExpands == Expanding /\ [Next]_vars => Expanding'
<1> SUFFICES ASSUME Expanding, [Next]_vars
             PROVE  Expanding'
  OBVIOUS
<1>1. CASE UNCHANGED vars
  BY <1>1 DEF vars, Expanding, Shape, Progress, Complete, Valued, Ready, Behind, Clean, Depth
<1>2. CASE Visit
  BY <1>2, VisitKeeps
<1>3. CASE Var
  BY <1>3, VarKeeps
<1>4. CASE Set
  BY <1>4, SetKeeps
<1>5. CASE Macro
  BY <1>5, MacroKeeps
<1>6. CASE Use
  BY <1>6, UseKeeps
<1>7. CASE Include
  BY <1>7, IncludeKeeps
<1>8. CASE Emit
  BY <1>8, EmitKeeps
<1>9. CASE Return
  BY <1>9, ReturnKeeps
<1>10. CASE Analyzed
  BY <1>10, AnalyzedKeeps
<1>11. CASE BuildEmit
  BY <1>11, BuildEmitKeeps
<1>12. CASE BuildUse
  BY <1>12, BuildUseKeeps
<1>13. CASE BuildLabel \/ BuildNothing
  BY <1>13, BuildStepKeeps DEF BuildLabel, BuildNothing, AtStatement
<1>14. CASE BuildReturn
  BY <1>14, BuildReturnKeeps
<1>15. QED
  BY <1>1, <1>2, <1>3, <1>4, <1>5, <1>6, <1>7, <1>8, <1>9, <1>10, <1>11, <1>12, <1>13, <1>14
     DEF Next

LEMMA AlwaysExpanding == Spec => []Expanding
  BY InitExpands, StepExpands, PTL DEF Spec


-----------------------------------------------------------------------------
(* For every program and every set of files, the parser and the visitors   *)
(* keep to the lists there are: whoever visits or builds is within its     *)
(* list, in a unit that exists, and every body's list was made.            *)
THEOREM TypeCorrect == Spec => []TypeOK
<1>1. Expanding => TypeOK
  <2> SUFFICES ASSUME Expanding
               PROVE  TypeOK
    OBVIOUS
  <2> USE DEF Expanding
  <2>1. DOMAIN units = 1 .. Len(units) /\ DOMAIN bodies = 1 .. Len(bodies)
    BY BodiesAre, LenProperties DEF Shape, UnitsSound
  <2>2. /\ Depth \in 1 .. MaxDepth
        /\ \A i \in 1 .. Depth :
             /\ active[i].unit \in DOMAIN units
             /\ active[i].at \in 1 .. Len(lists[active[i].list]) + 1
    BY <2>1 DEF Shape, Standing, Depth
  <2>3. \A b \in DOMAIN bodies : bodies[b].list \in 0 .. Len(lists)
    BY <2>1, BodiesAre
  <2>4. phase \in Phases /\ failed \subseteq DOMAIN units
    BY <2>1 DEF Shape
  <2>5. QED
    BY <2>2, <2>3, <2>4 DEF TypeOK, Phases
<1>2. QED
  BY <1>1, AlwaysExpanding, PTL

(* Whatever is built was visited and has a value: the assertions of        *)
(* AstVariable, AstCodeBody, AstUserDefinedDirective and                   *)
(* AstIncludeDirective hold in every compilation, because the error of any *)
(* unit reaches the one that decides whether to build, whatever the units  *)
(* in between do.                                                          *)
THEOREM BuiltIsReady == Spec => []BuildReady
<1>1. Expanding => BuildReady
  BY BuiltIs, UsedIs DEF BuildReady
<1>2. QED
  BY <1>1, AlwaysExpanding, PTL

(* What a variable is set to.                                              *)
LEMMA SetIs ==
  ASSUME Shape, Set, NEW n, ValueOf(1) = [kind |-> "sym", name |-> n]
  PROVE  Lookup(n)' = Clone(ValueOf(2))
<1> DEFINE v == ValueOf(2)
           w == Clone(v)
           u == SetScope(n)
           holders == {i \in 1 .. Depth : n \in DOMAIN Scope(i).vars}
           After(i) == units'[active'[i].unit]
           later == {i \in 1 .. Depth' : n \in DOMAIN After(i).vars}
           k == IF holders = {} THEN 1 ELSE Max(holders)
<1>1. ValueOf(1).kind = "sym" /\ ValueOf(1).name = n
  OBVIOUS
<1>2. /\ Bind(u, n, w) /\ Advance /\ Top.at <= Len(Stmts)
  BY <1>1 DEF Set, Visited, AtStatement
<1>3. /\ Depth' = Depth /\ Depth \in Nat /\ Depth \in 1 .. Depth
      /\ \A d \in 1 .. Depth : active'[d].unit = active[d].unit
  BY <1>2, PassingIs, StandingIs, TopIs DEF Advance, Depth
<1>4. k \in 1 .. Depth /\ u = active[k].unit
  <2>1. holders # {} => Max(holders) \in holders
    BY InnermostIs
  <2>2. u = active[k].unit
    BY DEF SetScope
  <2>3. holders \subseteq 1 .. Depth
    OBVIOUS
  <2> HIDE DEF holders
  <2>4. 1 \in 1 .. Depth
    BY <1>3
  <2>5. k \in 1 .. Depth
    BY <2>1, <2>3, <2>4
  <2>6. QED
    BY <2>2, <2>5
<1>5. u \in 1 .. Len(units)
  BY SetScopeIs
<1>6. /\ units'[u].vars = Put(units[u].vars, n, w)
      /\ \A i \in 1 .. Len(units) : i # u => units'[i] = units[i]
  <2>1. units' = [units EXCEPT ![u].vars = Put(@, n, w)]
    BY <1>2 DEF Bind
  <2> HIDE DEF u, w
  <2> DEFINE S == Elements(units)
  <2>2. units \in Seq(S)
    BY DEF Shape, UnitsSound
  <2>3. UnitSound(units[u], Len(bodies))
    BY <1>5 DEF Shape, UnitsSound
  <2> DEFINE f == Put(units[u].vars, n, w)
             e == [units[u] EXCEPT !.vars = f]
  <2>4. DOMAIN units = 1 .. Len(units)
    BY <2>2, LenProperties
  <2>5. units' = [units EXCEPT ![u] = e]
    BY <2>1
  <2> HIDE DEF f
  <2>6. e.vars = f
    BY <2>3 DEF UnitSound
  <2> HIDE DEF e
  <2>7. QED
    BY <1>5, <2>4, <2>5, <2>6 DEF f
<1> HIDE DEF u, w
<1>7. /\ \A i \in 1 .. Depth : active[i].unit = u =>
           n \in DOMAIN After(i).vars /\ After(i).vars[n] = w
      /\ \A i \in 1 .. Depth : active[i].unit # u => After(i) = Scope(i)
  <2>1. \A i \in 1 .. Depth : active[i].unit \in 1 .. Len(units)
    BY StandingIs
  <2>2. \A i \in 1 .. Depth : After(i) = units'[active[i].unit]
    BY <1>3
  <2>3. n \in DOMAIN Put(units[u].vars, n, w) /\ Put(units[u].vars, n, w)[n] = w
    <3> DEFINE f == units[u].vars
    <3> HIDE DEF f
    <3>1. n \in DOMAIN Put(f, n, w) /\ Put(f, n, w)[n] = w
      BY DEF Put
    <3>2. QED
      BY <3>1 DEF f
  <2>4. QED
    BY <1>6, <2>1, <2>2, <2>3 DEF Scope
<1>8. later \subseteq 1 .. Depth /\ k \in later
  BY <1>3, <1>4, <1>7
<1>9. Max(later) \in later /\ Max(later) >= k
  <2> HIDE DEF later, k
  <2>1. later # {}
    BY <1>8
  <2>2. QED
    BY <1>3, <1>8, <2>1, MaxIs
<1>10. active[Max(later)].unit = u
  <2> DEFINE m == Max(later)
  <2>1. m \in 1 .. Depth /\ m >= k /\ n \in DOMAIN After(m).vars
    BY <1>3, <1>9
  <2> HIDE DEF m
  <2>2. SUFFICES ASSUME active[m].unit # u
                 PROVE  FALSE
    BY DEF m
  <2>3. m \in holders
    BY <1>7, <2>1, <2>2
  <2>4. holders # {} /\ Max(holders) >= m
    BY <2>3, InnermostIs
  <2>5. k >= m /\ k \in 1 .. Depth
    BY <1>4, <2>4
  <2>6. k = m
    <3> HIDE DEF k
    <3>1. QED
      BY <2>1, <2>5
  <2>7. QED
    BY <1>4, <2>2, <2>6
<1>11. Lookup(n)' = IF later = {} THEN Undeclared(n) ELSE After(Max(later)).vars[n]
  BY DEF Lookup, Scope
<1>12. After(Max(later)).vars[n] = w
  <2> DEFINE m == Max(later)
  <2>1. m \in 1 .. Depth /\ active[m].unit = u
    BY <1>8, <1>9, <1>10
  <2> HIDE DEF m
  <2>2. After(m).vars[n] = w
    BY <1>7, <2>1
  <2>3. QED
    BY <2>2 DEF m
<1>13. QED
  BY <1>8, <1>11, <1>12 DEF w

(* In every program, @set binds where a lookup from the same scope finds   *)
(* it: AstSetDirective::visit looks through the same scopes, from the      *)
(* innermost, as BoundVariables::get does, and so the innermost scope that *)
(* has the name afterwards is the one it has bound it in.                  *)
THEOREM SetIsSeen == Spec => SetSeen
<1> DEFINE Seen ==
      \A n \in UNION {DOMAIN units[u].vars : u \in DOMAIN units}' :
        Set /\ ValueOf(1) = [kind |-> "sym", name |-> n] =>
          Lookup(n)' = Clone(ValueOf(2))
<1>1. ASSUME Expanding, [Next]_vars PROVE [Seen]_vars
  BY <1>1, SetIs DEF Expanding
<1>2. SetSeen <=> [][Seen]_vars
  BY DEF SetSeen
<1>3. QED
  BY <1>1, AlwaysExpanding, PTL DEF Spec, SetSeen

-----------------------------------------------------------------------------
(* Programs that leave alone what their macros are passed.  The variables  *)
(* passed are those that an argument interpolates.  Only the outermost     *)
(* list declares or sets them, nothing else has their names, and their     *)
(* names are no values, as which they could be declared or set elsewhere.  *)
Named ==
  UNION {{s.args[j].name : j \in {k \in DOMAIN s.args : IsRef(s.args[k])}} :
           s \in {t \in Statement : t.stmt = "use"}}

Clear(v) == v.kind = "sym" => v.name \notin Named

Inward ==
  {s \in Statement :
     /\ s.stmt \in {"var", "set"} => Clear(s.target)
     /\ s.stmt = "label" => s.name \notin Named}

Hygienic ==
  /\ \A s \in Statement :
       /\ s.stmt = "set" => Clear(s.value)
       /\ s.stmt = "use" =>
            \A j \in DOMAIN s.args : Clear(s.args[j]) /\ ArgName[j] \notin Named
       /\ s.stmt \in {"macro", "use"} => s.body \in Seq(Inward)
  /\ "body" \notin Named
  /\ \A f \in DOMAIN Files : Files[f] \in Seq(Inward)

(* What a variable passed to a macro has, wherever it is looked up.        *)
Global(n) == IF n \in DOMAIN units[1].vars THEN units[1].vars[n] ELSE Undeclared(n)

Plain(v) == v.kind # "node" /\ Clear(v)

Exists(id) ==
  /\ id = <<id[1], id[2], id[3]>>
  /\ id[1] \in 1 .. Len(lists) /\ id[2] \in 1 .. Len(lists[id[1]])

At(id) == lists[id[1]][id[2]]

PassedAt(id) ==
  /\ Exists(id) /\ At(id).stmt = "use"
  /\ id[3] \in DOMAIN At(id).args /\ IsRef(At(id).args[id[3]])

(* An argument, before it is visited and then.                             *)
Held(v) ==
  /\ v = Node(v.id, v.name) /\ PassedAt(v.id) /\ v.name = At(v.id).args[v.id[3]].name
  /\ v.id \in DOMAIN meant
  /\ v.id \notin DOMAIN memo => meant[v.id] = Global(v.name)

Remembered ==
  /\ \A id \in DOMAIN memo :
       /\ Plain(memo[id])
       /\ PassedAt(id) \/ (Exists(id) /\ At(id).stmt # "use")
  /\ \A id \in DOMAIN meant : Exists(id) /\ At(id).stmt = "use"

Inside ==
  /\ \A b \in 1 .. Len(bodies) : bodies[b].stmts \in Seq(Inward)
  /\ \A l \in 2 .. Len(lists) : lists[l] \in Seq(Inward)
  /\ \A u \in 1 .. Len(units) : \A x \in DOMAIN units[u].macros :
       units[u].macros[x] \in Seq(Inward)

Outside ==
  /\ active[1].unit = 1 /\ active[1].list = 1
  /\ \A d \in 2 .. Depth : active[d].list # 1
  /\ \A x \in DOMAIN units[1].vars : Plain(units[1].vars[x])

Unnamed ==
  \A u \in 2 .. Len(units) : \A x \in DOMAIN units[u].vars :
    x \notin Named /\ Clear(units[u].vars[x])

Holding == \A v \in Nodes : Held(v)

Steady == Remembered /\ Inside /\ Outside /\ Unnamed /\ Holding

(* Once there is an error, @set may have bound a variable that is not      *)
(* declared, which is looked up anew wherever it is visited.               *)
Kept == failed = {} => ArgumentsMeant /\ (phase = "analyze" => Steady)

(* The hypothesis is met and the invariant holds: a variable that is passed*)
(* is the outermost unit's wherever an interpolation of it is visited, so  *)
(* that arguments keep their meaning.                                      *)
PassedUnchanged == Hygienic /\ Kept

-----------------------------------------------------------------------------
(* The chain of a value ends at the first that is no node.                 *)
LEMMA LinksEnd ==
  ASSUME Shape, NEW v, NEW k \in 0 .. Cardinality(Nodes) + 1, Links(v)[k].kind # "node"
  PROVE  /\ Resolved(v) = Links(v)[k]
         /\ \A m \in k .. Cardinality(Nodes) + 1 : Links(v)[m] = Links(v)[k]
<1> DEFINE l == Cardinality(Nodes) + 1
           c == Links(v)
           w == c[k]
           M == {m \in Nat : k + m <= l => c[k + m] = w}
<1>1. /\ l \in Nat /\ k \in 0 .. l /\ Resolved(v) = c[l]
      /\ \A m \in 0 .. l - 1 : c[m + 1] = Following(c[m])
  BY LinksAre
<1> HIDE DEF l, c
<1>2. 0 \in M
  BY <1>1
<1>3. \A m \in Nat : m \in M => m + 1 \in M
  <2> SUFFICES ASSUME NEW m \in Nat, m \in M, k + (m + 1) <= l
               PROVE  c[k + (m + 1)] = w
    OBVIOUS
  <2>1. k + m \in 0 .. l - 1 /\ c[k + m] = w /\ (k + m) + 1 = k + (m + 1)
    BY <1>1
  <2>2. c[k + (m + 1)] = Following(w)
    BY <1>1, <2>1
  <2>3. w.kind # "node"
    BY DEF c
  <2>4. QED
    BY <2>2, <2>3 DEF Following
<1>4. \A m \in Nat : m \in M
  <2> HIDE DEF M
  <2>1. QED
    BY <1>2, <1>3, SetInduction
<1>5. ASSUME NEW m \in k .. l PROVE c[m] = w
  <2>1. m - k \in Nat /\ k + (m - k) = m /\ m <= l
    BY <1>1
  <2>2. m - k \in M
    BY <1>4, <2>1
  <2>3. QED
    BY <2>1, <2>2
<1>6. c[l] = w
  BY <1>1, <1>5
<1>7. QED
  BY <1>1, <1>5, <1>6 DEF l, c

LEMMA PlainStays ==
  ASSUME Shape, NEW v, v.kind # "node"
  PROVE  Resolved(v) = v /\ Passed(v) = {}
<1>1. /\ 0 \in 0 .. Cardinality(Nodes) + 1 /\ Links(v)[0] = v
      /\ DOMAIN Links(v) = 0 .. Cardinality(Nodes) + 1
  BY LinksAre
<1>2. /\ Resolved(v) = Links(v)[0]
      /\ \A m \in 0 .. Cardinality(Nodes) + 1 : Links(v)[m] = Links(v)[0]
  BY <1>1, LinksEnd
<1> DEFINE c == Links(v)
<1>3. {k \in DOMAIN c : c[k].kind = "node"} = {}
  BY <1>1, <1>2
<1>4. Passed(v) = {c[k].id : k \in {k \in DOMAIN c : c[k].kind = "node"}}
  BY DEF Passed
<1> HIDE DEF c
<1>5. Passed(v) = {}
  BY <1>3, <1>4
<1>6. QED
  BY <1>1, <1>2, <1>5

(* A node whose variable has a value.                                      *)
LEMMA OneLink ==
  ASSUME Shape, NEW v, v.kind = "node", Following(v).kind # "node"
  PROVE  Resolved(v) = Following(v) /\ Passed(v) = {v.id}
<1> DEFINE l == Cardinality(Nodes) + 1
           c == Links(v)
<1>1. /\ l \in Nat \ {0} /\ DOMAIN c = 0 .. l /\ c[0] = v
      /\ \A k \in 0 .. l - 1 : c[k + 1] = Following(c[k])
  BY LinksAre
<1>2. 1 \in 0 .. l /\ 0 \in 0 .. l - 1 /\ 0 + 1 = 1
  BY <1>1
<1>3. c[1] = Following(v)
  BY <1>1, <1>2
<1>4. Resolved(v) = c[1] /\ \A m \in 1 .. l : c[m] = c[1]
  BY <1>2, <1>3, LinksEnd
<1> HIDE DEF l, c
<1>5. \A m \in DOMAIN c : m = 0 \/ m \in 1 .. l
  BY <1>1
<1>6. {k \in DOMAIN c : c[k].kind = "node"} = {0}
  BY <1>1, <1>2, <1>3, <1>4, <1>5
<1>7. Passed(v) = {v.id}
  <2>1. Passed(v) = {c[k].id : k \in {k \in DOMAIN c : c[k].kind = "node"}}
    BY DEF Passed, c
  <2>2. QED
    BY <1>1, <1>6, <2>1
<1>8. QED
  BY <1>3, <1>4, <1>7

(* A node whose variable is an argument.                                   *)
LEMMA TwoLinks ==
  ASSUME Shape, NEW v, v.kind = "node", Following(v) \in Nodes,
         Following(Following(v)).kind # "node"
  PROVE  /\ Resolved(v) = Following(Following(v))
         /\ Passed(v) = {v.id, Following(v).id}
<1> DEFINE l == Cardinality(Nodes) + 1
           c == Links(v)
           w == Following(v)
<1>1. /\ l \in Nat /\ DOMAIN c = 0 .. l /\ c[0] = v
      /\ \A k \in 0 .. l - 1 : c[k + 1] = Following(c[k])
  BY LinksAre
<1>2. l >= 2
  <2>1. Cardinality(Nodes) # 0
    BY NodesFinite, FS_EmptySet
  <2>2. QED
    BY <2>1, NodesFinite
<1>3. w.kind = "node"
  BY DEF Nodes
<1> HIDE DEF l, w
<1>4. {0, 1, 2} \subseteq 0 .. l /\ {0, 1} \subseteq 0 .. l - 1 /\ 0 + 1 = 1 /\ 1 + 1 = 2
  BY <1>1, <1>2
<1>5. c[1] = w /\ c[2] = Following(w)
  <2>1. c[1] = Following(c[0])
    BY <1>1, <1>4
  <2>2. c[2] = Following(c[1])
    BY <1>1, <1>4
  <2>3. QED
    BY <1>1, <2>1, <2>2 DEF w
<1>6. Resolved(v) = c[2] /\ \A m \in 2 .. l : c[m] = c[2]
  <2>1. 2 \in 0 .. Cardinality(Nodes) + 1 /\ Links(v)[2].kind # "node"
    BY <1>4, <1>5 DEF l, w
  <2>2. QED
    BY <2>1, LinksEnd DEF l
<1> HIDE DEF c
<1>7. \A m \in DOMAIN c : m \in {0, 1} \/ m \in 2 .. l
  BY <1>1
<1>8. c[2].kind # "node"
  BY <1>5 DEF w
<1>9. {k \in DOMAIN c : c[k].kind = "node"} = {0, 1}
  BY <1>1, <1>3, <1>4, <1>5, <1>6, <1>7, <1>8
<1>10. Passed(v) = {v.id, w.id}
  <2>1. Passed(v) = {c[k].id : k \in {k \in DOMAIN c : c[k].kind = "node"}}
    BY DEF Passed, c
  <2>2. QED
    BY <1>1, <1>5, <1>9, <2>1
<1>11. QED
  BY <1>5, <1>6, <1>10 DEF w

-----------------------------------------------------------------------------
(* What lookups and interpolations find.                                   *)
LEMMA LookupIs ==
  ASSUME Shape, NEW x
  PROVE  \/ /\ Lookup(x) = Undeclared(x) /\ \A d \in 1 .. Depth : x \notin DOMAIN Scope(d).vars
         \/ \E d \in 1 .. Depth :
              x \in DOMAIN Scope(d).vars /\ Lookup(x) = Scope(d).vars[x]
<1> DEFINE holders == {i \in 1 .. Depth : x \in DOMAIN Scope(i).vars}
<1>1. Lookup(x) = IF holders = {} THEN Undeclared(x) ELSE Scope(Max(holders)).vars[x]
  BY DEF Lookup
<1>2. holders # {} => Max(holders) \in holders
  BY InnermostIs
<1>3. QED
  BY <1>1, <1>2

LEMMA UnitsAre ==
  ASSUME Shape
  PROVE  /\ \A d \in 1 .. Depth : active[d].unit = 1 \/ active[d].unit \in 2 .. Len(units)
         /\ \A d \in 1 .. Depth : active[d].unit \in 1 .. Len(units)
         /\ 1 \in 1 .. Depth /\ 1 \in 1 .. Len(units)
         /\ \A d \in 1 .. Depth : d = 1 \/ d \in 2 .. Depth
<1>1. Depth \in Nat /\ Depth \in 1 .. MaxDepth /\ Len(units) \in Nat
  BY StandingIs
<1>2. \A d \in 1 .. Depth : active[d].unit \in 1 .. Len(units)
  BY StandingIs
<1>3. QED
  BY <1>1, <1>2

LEMMA ScopesClear ==
  ASSUME Shape, Steady, NEW d \in 1 .. Depth, NEW x \in DOMAIN Scope(d).vars
  PROVE  /\ Clear(Scope(d).vars[x])
         /\ Scope(d).vars[x].kind = "node" => Held(Scope(d).vars[x]) /\ Scope(d).vars[x] \in Nodes
<1>1. CASE active[d].unit = 1
  BY <1>1 DEF Steady, Outside, Scope, Plain, Holding, Nodes
<1>2. CASE active[d].unit \in 2 .. Len(units)
  BY <1>2 DEF Steady, Unnamed, Scope, Holding, Nodes
<1>3. QED
  BY <1>1, <1>2, UnitsAre

LEMMA MissingPlain == Plain(Unset) /\ \A x : Plain(Undeclared(x))
  BY DEF Plain, Clear, Unset, Undeclared

LEMMA LookupClear ==
  ASSUME Shape, Steady, NEW x
  PROVE  /\ Clear(Lookup(x))
         /\ Lookup(x).kind = "node" => Held(Lookup(x)) /\ Lookup(x) \in Nodes
  BY LookupIs, ScopesClear, MissingPlain DEF Plain

(* A variable that is passed is the outermost unit's.                      *)
LEMMA GlobalFound ==
  ASSUME Shape, Steady, NEW x \in Named
  PROVE  Lookup(x) = Global(x) /\ Plain(Global(x))
<1>1. Plain(Global(x))
  BY MissingPlain DEF Steady, Outside, Global
<1>2. ASSUME NEW d \in 1 .. Depth, x \in DOMAIN Scope(d).vars
      PROVE  Scope(d) = units[1]
  BY <1>2, UnitsAre DEF Steady, Unnamed, Scope
<1>3. Scope(1) = units[1]
  BY DEF Steady, Outside, Scope
<1>4. QED
  BY <1>1, <1>2, <1>3, LookupIs, UnitsAre DEF Global

LEMMA PassedNamed ==
  ASSUME Shape, NEW id, PassedAt(id)
  PROVE  At(id) \in Statement /\ At(id).args[id[3]].name \in Named
<1>1. At(id) \in Statement
  <2>1. id[1] \in 1 .. Len(lists) /\ id[2] \in 1 .. Len(lists[id[1]])
    BY DEF PassedAt, Exists
  <2>2. lists[id[1]] \in Seq(Statement)
    BY <2>1, ElementOfSeq DEF Shape
  <2>3. QED
    BY <2>1, <2>2, ElementOfSeq DEF At
<1>2. QED
  BY <1>1 DEF PassedAt, Named

(* An argument has the value it was given, or the one it was meant to have.*)
LEMMA HeldFollows ==
  ASSUME Shape, Steady, NEW v, Held(v)
  PROVE  /\ v.kind = "node" /\ Plain(Following(v)) /\ v.id \in DOMAIN meant
         /\ v.id \notin DOMAIN memo => Following(v) = meant[v.id]
<1>1. v.kind = "node"
  BY DEF Held, Node
<1>2. v.name \in Named
  BY PassedNamed DEF Held
<1>3. CASE v.id \in DOMAIN memo
  BY <1>1, <1>3 DEF Following, Steady, Remembered, Held
<1>4. CASE v.id \notin DOMAIN memo
  BY <1>1, <1>2, <1>4, GlobalFound DEF Following, Held
<1>5. QED
  BY <1>1, <1>3, <1>4 DEF Held

(* What a symbol's variable stands for, and the argument it may pass.      *)
LEMMA ResolvedMeans ==
  ASSUME Shape, Steady, NEW x
  PROVE  /\ Plain(Resolved(Lookup(x)))
         /\ \A p \in Passed(Lookup(x)) \ DOMAIN memo :
              PassedAt(p) /\ p \in DOMAIN meant /\ Resolved(Lookup(x)) = meant[p]
<1> DEFINE w == Lookup(x)
<1>1. CASE w.kind # "node"
  BY <1>1, LookupClear, PlainStays DEF Plain
<1>2. CASE w.kind = "node"
  <2>1. Held(w) /\ Plain(Following(w))
    BY <1>2, LookupClear, HeldFollows
  <2>2. w.id \in DOMAIN meant /\ (w.id \notin DOMAIN memo => Following(w) = meant[w.id])
    BY <2>1, HeldFollows
  <2>3. PassedAt(w.id)
    BY <2>1 DEF Held
  <2> HIDE DEF w
  <2>4. Resolved(w) = Following(w) /\ Passed(w) = {w.id}
    BY <1>2, <2>1, OneLink DEF Plain
  <2>5. /\ Plain(Resolved(w))
        /\ \A p \in Passed(w) \ DOMAIN memo :
             PassedAt(p) /\ p \in DOMAIN meant /\ Resolved(w) = meant[p]
    BY <2>1, <2>2, <2>3, <2>4
  <2>6. QED
    BY <2>5 DEF w
<1>3. QED
  BY <1>1, <1>2

(* An expression that is visited, and the argument it may pass.            *)
LEMMA VisitedMeans ==
  ASSUME Shape, Steady, NEW id, id \notin DOMAIN memo, NEW x
  PROVE  /\ Plain(Resolved(Node(id, x)))
         /\ \A p \in Passed(Node(id, x)) \ DOMAIN memo :
              p = id \/ (PassedAt(p) /\ p \in DOMAIN meant /\ Resolved(Node(id, x)) = meant[p])
<1> DEFINE v == Node(id, x)
           w == Lookup(x)
<1>1. v.kind = "node" /\ v.id = id /\ Following(v) = w
  BY DEF Node, Following
<1> HIDE DEF v
<1>2. CASE w.kind # "node"
  <2>1. Resolved(v) = w /\ Passed(v) = {id}
    BY <1>1, <1>2, OneLink
  <2>2. QED
    BY <1>2, <2>1, LookupClear DEF Plain, v
<1>3. CASE w.kind = "node"
  <2>1. Held(w) /\ w \in Nodes
    BY <1>3, LookupClear
  <2>2. /\ Plain(Following(w)) /\ w.id \in DOMAIN meant
        /\ w.id \notin DOMAIN memo => Following(w) = meant[w.id]
    BY <2>1, HeldFollows
  <2>3. PassedAt(w.id)
    BY <2>1 DEF Held
  <2> HIDE DEF w
  <2>4. Resolved(v) = Following(w) /\ Passed(v) = {id, w.id}
    BY <1>1, <2>1, <2>2, TwoLinks DEF Plain
  <2>5. QED
    BY <2>2, <2>3, <2>4 DEF v
<1>4. QED
  BY <1>2, <1>3

-----------------------------------------------------------------------------
(* Places and arguments stay what they are.                                *)
LEMMA PlacesStay ==
  ASSUME Extends(lists, lists'), NEW id
  PROVE  /\ Exists(id) => Exists(id)' /\ At(id)' = At(id)
         /\ PassedAt(id) => PassedAt(id)'
<1>1. ASSUME Exists(id) PROVE Exists(id)' /\ At(id)' = At(id)
  <2>1. id[1] \in 1 .. Len(lists) /\ id[1] \in 1 .. Len(lists')
    BY <1>1 DEF Exists, Extends
  <2>2. lists'[id[1]] = lists[id[1]]
    BY <2>1 DEF Extends
  <2>3. QED
    BY <1>1, <2>1, <2>2 DEF Exists, At
<1>2. QED
  BY <1>1 DEF PassedAt

LEMMA HeldStays ==
  ASSUME Shape, Extends(lists, lists'), NEW v, Held(v), v.id \in DOMAIN meant',
         v.id \notin DOMAIN memo' => v.id \notin DOMAIN memo /\ meant'[v.id] = meant[v.id],
         \A x \in Named : Global(x)' = Global(x)
  PROVE  Held(v)'
<1>1. v = Node(v.id, v.name) /\ PassedAt(v.id) /\ v.name = At(v.id).args[v.id[3]].name
  BY DEF Held
<1>2. PassedAt(v.id)' /\ At(v.id)' = At(v.id)
  BY <1>1, PlacesStay DEF PassedAt
<1>3. v.name \in Named
  BY <1>1, PassedNamed
<1>4. v.id \notin DOMAIN memo' => meant'[v.id] = Global(v.name)'
  BY <1>3 DEF Held
<1> DEFINE g == Global(v.name)'
<1>5. v.id \notin DOMAIN memo' => meant'[v.id] = g
  BY <1>4
<1>6. QED
  BY <1>1, <1>2, <1>4 DEF Held

(* The statements of a list that is not the outermost.                     *)
LEMMA InnerStatement ==
  ASSUME Shape, Steady, Top.at <= Len(Stmts), Depth > 1
  PROVE  Stmt \in Inward
<1>1. Depth \in 2 .. Depth /\ Top = active[Depth]
  BY TopIs, StandingIs
<1>2. Top.list # 1
  BY <1>1 DEF Steady, Outside
<1>3. Top.list \in 2 .. Len(lists)
  BY <1>2, TopIs
<1>4. Stmts \in Seq(Inward) /\ Top.at \in 1 .. Len(Stmts)
  BY <1>3, TopIs DEF Steady, Inside
<1>5. QED
  BY <1>4, ElementOfSeq DEF Stmt

(* What is declared or set, and to what.                                   *)
LEMMA ValueIs ==
  ASSUME Hygienic, Shape, Steady, Top.at <= Len(Stmts), Stmt.stmt \in {"var", "set"},
         \A j \in DOMAIN Exprs(Stmt) : ~ Unvisited(j)
  PROVE  /\ Depth > 1 => Clear(ValueOf(1))
         /\ Stmt.stmt = "set" => Plain(ValueOf(2))
<1>1. \A j \in DOMAIN Exprs(Stmt) : IsRef(Exprs(Stmt)[j]) => Plain(ValueOf(j))
  BY DEF Unvisited, ValueOf, Steady, Remembered
<1>2. Stmt \in Statement
  BY TopIs
<1>3. 1 \in DOMAIN Exprs(Stmt) /\ Exprs(Stmt)[1] = Stmt.target
  BY DEF Exprs
<1>4. ASSUME Depth > 1 PROVE Clear(ValueOf(1))
  <2>1. Clear(Stmt.target)
    BY <1>4, InnerStatement DEF Inward
  <2>2. QED
    BY <1>1, <1>3, <2>1 DEF ValueOf, Plain
<1>5. ASSUME Stmt.stmt = "set" PROVE Plain(ValueOf(2))
  <2>1. 2 \in DOMAIN Exprs(Stmt) /\ Exprs(Stmt)[2] = Stmt.value
    BY <1>5 DEF Exprs
  <2>2. Clear(Stmt.value) /\ IsExpression(Stmt.value)
    BY <1>2, <1>5, <2>1, StatementsAssumption DEF Hygienic
  <2>3. CASE IsRef(Stmt.value)
    BY <1>1, <2>1, <2>3
  <2>4. CASE ~ IsRef(Stmt.value)
    <3>1. ValueOf(2) = Stmt.value
      BY <2>1, <2>4 DEF ValueOf
    <3>2. QED
      BY <2>2, <3>1 DEF Plain, IsExpression
  <2>5. QED
    BY <2>3, <2>4
<1>6. QED
  BY <1>4, <1>5

-----------------------------------------------------------------------------
(* The visitors go on, and nothing else is changed.                        *)
LEMMA SameExtends ==
  ASSUME Shape, lists' = lists
  PROVE  Extends(lists, lists')
  BY StandingIs DEF Extends

LEMMA SteadyMoves ==
  ASSUME Shape, Steady, UNCHANGED tree, Depth' \in 1 .. Depth,
         \A d \in 1 .. Depth' : active'[d].unit = active[d].unit /\ active'[d].list = active[d].list
  PROVE  Steady'
<1>1. UNCHANGED <<units, lists, bodies, memo, meant>>
  BY DEF tree
<1>2. Depth \in Nat /\ 1 \in 1 .. Depth' /\ \A d \in 1 .. Depth' : d \in 1 .. Depth
  BY StandingIs
<1>3. \A d \in 1 .. Depth' : Scope(d)' = Scope(d)
  BY <1>1 DEF Scope
<1>4. \A v : Held(v) => Held(v)'
  BY <1>1 DEF Held, PassedAt, Exists, At, Global
<1>5. Remembered'
  BY <1>1 DEF Steady, Remembered, PassedAt, Exists, At
<1>6. Inside' /\ Unnamed'
  BY <1>1 DEF Steady, Inside, Unnamed
<1>7. Outside'
  <2>1. active'[1].unit = 1 /\ active'[1].list = 1
    BY <1>2 DEF Steady, Outside
  <2>2. \A d \in 2 .. Depth' : active'[d].list # 1
    <3>1. \A d \in 2 .. Depth' : d \in 1 .. Depth' /\ d \in 2 .. Depth
      BY <1>2
    <3>2. QED
      BY <3>1 DEF Steady, Outside
  <2>3. QED
    BY <1>1, <2>1, <2>2 DEF Steady, Outside
<1>8. Holding'
  <2>1. Nodes' \subseteq Nodes
    BY <1>2, <1>3 DEF Nodes
  <2>2. QED
    BY <1>4, <2>1 DEF Steady, Holding
<1>9. QED
  BY <1>5, <1>6, <1>7, <1>8 DEF Steady

LEMMA AdvanceSteady ==
  ASSUME Shape, Steady, Top.at <= Len(Stmts), Advance, UNCHANGED tree
  PROVE  Steady'
<1>1. /\ active' = Passing /\ Len(Passing) = Depth /\ Depth \in 1 .. Depth
      /\ \A d \in 1 .. Depth :
           Passing[d].unit = active[d].unit /\ Passing[d].list = active[d].list
  BY PassingIs, TopIs DEF Advance
<1>2. Depth' = Depth
  BY <1>1 DEF Depth
<1>3. QED
  BY <1>1, <1>2, SteadyMoves

LEMMA NodeIs ==
  ASSUME NEW k \in 1 .. Depth, NEW v, v.kind = "node",
         \E x \in DOMAIN Scope(k).vars : v = Scope(k).vars[x]
  PROVE  v \in Nodes
<1> DEFINE Vals(i) == {Scope(i).vars[n] : n \in DOMAIN Scope(i).vars}
<1>1. v \in Vals(k)
  OBVIOUS
<1>2. Nodes = {w \in UNION {Vals(i) : i \in 1 .. Depth} : w.kind = "node"}
  BY DEF Nodes
<1> HIDE DEF Vals
<1>3. Vals(k) \in {Vals(i) : i \in 1 .. Depth}
  OBVIOUS
<1>4. QED
  BY <1>1, <1>2, <1>3

(* What is bound in a scope that is being visited, or defined there.       *)
LEMMA ReplacedSteady ==
  ASSUME Shape, Steady, NEW h \in 1 .. Len(units), Len(units') = Len(units),
         \A i \in 1 .. Len(units) : i # h => units'[i] = units[i],
         UNCHANGED <<memo, meant>>, Extends(lists, lists'),
         \A l \in 2 .. Len(lists') : lists'[l] \in Seq(Inward),
         \A b \in 1 .. Len(bodies') : bodies'[b].stmts \in Seq(Inward),
         \A x \in DOMAIN units'[h].macros : units'[h].macros[x] \in Seq(Inward),
         DOMAIN units[h].vars \subseteq DOMAIN units'[h].vars,
         \A x \in DOMAIN units'[h].vars :
           \/ x \in DOMAIN units[h].vars /\ units'[h].vars[x] = units[h].vars[x]
           \/ Plain(units'[h].vars[x]) /\ (x \notin Named \/ (Depth' = 1 /\ h = 1)),
         Depth' \in Nat, Depth <= Depth',
         \A d \in 1 .. Depth : active'[d].unit = active[d].unit /\ active'[d].list = active[d].list,
         \A d \in Depth + 1 .. Depth' :
           active'[d].list # 1 /\ \E k \in 1 .. Depth : active'[d].unit = active[k].unit
  PROVE  Steady'
<1>1. Depth \in Nat /\ 1 \in 1 .. Depth /\ \A d \in 1 .. Depth' : d \in 1 .. Depth \/ d \in Depth + 1 .. Depth'
  BY StandingIs
<1>2. \A d \in 1 .. Depth : active[d].unit \in 1 .. Len(units)
  BY StandingIs
<1>3. Remembered'
  BY PlacesStay DEF Steady, Remembered
<1>4. Inside'
  <2>1. \A u \in 1 .. Len(units) : \A x \in DOMAIN units'[u].macros :
          units'[u].macros[x] \in Seq(Inward)
    BY DEF Steady, Inside
  <2>2. QED
    BY <2>1 DEF Inside
<1>5. Outside'
  <2>1. active'[1].unit = 1 /\ active'[1].list = 1
    BY <1>1 DEF Steady, Outside
  <2>2. ASSUME NEW d \in 2 .. Depth' PROVE active'[d].list # 1
    <3>1. d \in 2 .. Depth \/ d \in Depth + 1 .. Depth'
      BY <1>1
    <3>2. \A k \in 2 .. Depth : k \in 1 .. Depth
      BY <1>1
    <3>3. QED
      BY <3>1, <3>2 DEF Steady, Outside
  <2>3. \A x \in DOMAIN units'[1].vars : Plain(units'[1].vars[x])
    <3>1. 1 \in 1 .. Len(units)
      BY UnitsAre
    <3>2. QED
      BY <3>1 DEF Steady, Outside
  <2>4. QED
    BY <2>1, <2>2, <2>3 DEF Outside
<1>6. Unnamed'
  <2>1. ASSUME NEW u \in 2 .. Len(units), NEW x \in DOMAIN units'[u].vars
        PROVE  x \notin Named /\ Clear(units'[u].vars[x])
    <3>1. u \in 1 .. Len(units) /\ u # 1
      BY StandingIs
    <3>2. QED
      BY <2>1, <3>1 DEF Steady, Unnamed, Plain
  <2>2. QED
    BY <2>1 DEF Unnamed
<1>7. Nodes' \subseteq Nodes
  <2>1. ASSUME NEW v \in Nodes' PROVE v \in Nodes
    <3>0. /\ v.kind = "node"
          /\ \E d \in 1 .. Depth' : \E x \in DOMAIN Scope(d)'.vars : v = Scope(d)'.vars[x]
      BY DEF Nodes
    <3>1. PICK d \in 1 .. Depth' : \E x \in DOMAIN Scope(d)'.vars : v = Scope(d)'.vars[x]
      BY <3>0
    <3>2. PICK k \in 1 .. Depth : active'[d].unit = active[k].unit
      BY <1>1
    <3>3. Scope(d)' = units'[active[k].unit]
      BY <3>2 DEF Scope
    <3>4. ~ Plain(v)
      BY <3>0 DEF Plain
    <3>5. \E x \in DOMAIN Scope(k).vars : v = Scope(k).vars[x]
      BY <1>2, <3>1, <3>3, <3>4 DEF Scope
    <3>6. QED
      BY <3>0, <3>5, NodeIs
  <2>2. QED
    BY <2>1
<1>8. Holding'
  <2>1. CASE Depth' = 1 /\ h = 1
    <3>1. ASSUME NEW v \in Nodes' PROVE FALSE
      <4>0. /\ v.kind = "node"
            /\ \E d \in 1 .. Depth' : \E x \in DOMAIN Scope(d)'.vars : v = Scope(d)'.vars[x]
        BY DEF Nodes
      <4>1. PICK d \in 1 .. Depth' : \E x \in DOMAIN Scope(d)'.vars : v = Scope(d)'.vars[x]
        BY <4>0
      <4>2. d = 1 /\ Scope(d)' = units'[1]
        BY <1>5, <2>1 DEF Scope, Outside
      <4>3. Plain(v)
        BY <1>5, <4>1, <4>2 DEF Outside
      <4>4. QED
        BY <4>0, <4>3 DEF Plain
    <3>2. QED
      BY <3>1 DEF Holding
  <2>2. CASE ~ (Depth' = 1 /\ h = 1)
    <3>1. \A x \in Named : Global(x)' = Global(x)
      <4>1. 1 \in 1 .. Len(units)
        BY UnitsAre
      <4>2. ASSUME NEW x \in Named
            PROVE  /\ x \in DOMAIN units'[1].vars <=> x \in DOMAIN units[1].vars
                   /\ x \in DOMAIN units[1].vars => units'[1].vars[x] = units[1].vars[x]
        BY <2>2, <4>1
      <4>3. QED
        BY <4>2 DEF Global
    <3>2. \A v : Held(v) => v.id \in DOMAIN meant
      BY DEF Held
    <3>3. \A v : Held(v) => Held(v)'
      BY <3>1, <3>2, HeldStays
    <3>4. QED
      BY <1>7, <3>3 DEF Steady, Holding
  <2>3. QED
    BY <2>1, <2>2
<1>9. QED
  BY <1>3, <1>4, <1>5, <1>6, <1>8 DEF Steady

-----------------------------------------------------------------------------
(* A scope within that of the visitor.                                     *)
LEMMA OpenedSteady ==
  ASSUME Shape, Steady, Remembered', Len(units') = Len(units) + 1,
         \A i \in 1 .. Len(units) : units'[i] = units[i],
         \A l \in 2 .. Len(lists') : lists'[l] \in Seq(Inward),
         \A b \in 1 .. Len(bodies') : bodies'[b].stmts \in Seq(Inward),
         NEW u, units'[Len(units) + 1] = u, DOMAIN u.macros = {},
         \A x \in DOMAIN u.vars :
           /\ x \notin Named /\ Clear(u.vars[x])
           /\ u.vars[x].kind = "node" => Held(u.vars[x])',
         \A v \in Nodes : Held(v)',
         Depth' = Depth + 1, active'[Depth'].unit = Len(units) + 1, active'[Depth'].list # 1,
         \A d \in 1 .. Depth : active'[d].unit = active[d].unit /\ active'[d].list = active[d].list
  PROVE  Steady'
<1>1. /\ Depth \in Nat /\ 1 \in 1 .. Depth /\ Len(units) \in Nat
      /\ \A d \in 1 .. Depth' : d \in 1 .. Depth \/ d = Depth'
      /\ \A d \in 1 .. Len(units') : d \in 1 .. Len(units) \/ d = Len(units) + 1
  BY StandingIs
<1>2. \A d \in 1 .. Depth : active[d].unit \in 1 .. Len(units)
  BY StandingIs
<1>3. Inside'
  <2>1. \A i \in 1 .. Len(units') : \A x \in DOMAIN units'[i].macros :
          units'[i].macros[x] \in Seq(Inward)
    BY <1>1 DEF Steady, Inside
  <2>2. QED
    BY <2>1 DEF Inside
<1>4. Outside'
  <2>1. active'[1].unit = 1 /\ active'[1].list = 1
    BY <1>1 DEF Steady, Outside
  <2>2. ASSUME NEW d \in 2 .. Depth' PROVE active'[d].list # 1
    <3>1. d \in 2 .. Depth \/ d = Depth'
      BY <1>1
    <3>2. \A k \in 2 .. Depth : k \in 1 .. Depth
      BY <1>1
    <3>3. QED
      BY <3>1, <3>2 DEF Steady, Outside
  <2>3. \A x \in DOMAIN units'[1].vars : Plain(units'[1].vars[x])
    <3>1. 1 \in 1 .. Len(units)
      BY UnitsAre
    <3>2. QED
      BY <3>1 DEF Steady, Outside
  <2>4. QED
    BY <2>1, <2>2, <2>3 DEF Outside
<1>5. Unnamed'
  <2>1. ASSUME NEW i \in 2 .. Len(units'), NEW x \in DOMAIN units'[i].vars
        PROVE  x \notin Named /\ Clear(units'[i].vars[x])
    <3>1. i \in 2 .. Len(units) \/ i = Len(units) + 1
      BY <1>1
    <3>2. \A k \in 2 .. Len(units) : k \in 1 .. Len(units)
      BY <1>1
    <3>3. QED
      BY <2>1, <3>1, <3>2 DEF Steady, Unnamed
  <2>2. QED
    BY <2>1 DEF Unnamed
<1>6. Holding'
  <2>1. ASSUME NEW v \in Nodes' PROVE Held(v)'
    <3>1. /\ v.kind = "node"
          /\ \E d \in 1 .. Depth' : \E x \in DOMAIN Scope(d)'.vars : v = Scope(d)'.vars[x]
      BY DEF Nodes
    <3>2. PICK d \in 1 .. Depth' : \E x \in DOMAIN Scope(d)'.vars : v = Scope(d)'.vars[x]
      BY <3>1
    <3>3. CASE d \in 1 .. Depth
      <4>1. Scope(d)' = Scope(d)
        BY <1>2, <3>3 DEF Scope
      <4>2. v \in Nodes
        BY <3>1, <3>2, <3>3, <4>1, NodeIs
      <4>3. QED
        BY <4>2
    <3>4. CASE d = Depth'
      <4>1. Scope(d)' = u
        BY <3>4 DEF Scope
      <4>2. QED
        BY <3>1, <3>2, <4>1
    <3>5. QED
      BY <1>1, <3>3, <3>4
  <2>2. QED
    BY <2>1 DEF Holding
<1>7. QED
  BY <1>3, <1>4, <1>5, <1>6 DEF Steady

(* A visit that opens nothing.                                             *)
LEMMA SeenSteady ==
  ASSUME Shape, Steady, Remembered', UNCHANGED <<units, lists, active, bodies>>,
         \A v \in Nodes : Held(v)'
  PROVE  Steady'
<1>1. Inside' /\ Unnamed' /\ Outside'
  BY DEF Steady, Inside, Unnamed, Outside, Depth
<1>2. Nodes' = Nodes
  BY DEF Nodes, Scope, Depth
<1>3. QED
  BY <1>1, <1>2 DEF Steady, Holding

-----------------------------------------------------------------------------
(* The unit that is replaced.                                              *)
LEMMA ExceptIs ==
  ASSUME Shape, NEW h \in 1 .. Len(units), NEW u, units' = Replaced(units, h, u)
  PROVE  /\ Len(units') = Len(units) /\ units'[h] = u
         /\ \A i \in 1 .. Len(units) : i # h => units'[i] = units[i]
<1> DEFINE S == Elements(units) \cup {u}
<1>1. units \in Seq(S)
  BY SeqMonotonic DEF Shape, UnitsSound
<1>2. u \in S
  OBVIOUS
<1> HIDE DEF S
<1>3. QED
  BY <1>1, <1>2, ExceptSeq DEF Replaced

LEMMA UnitParts ==
  ASSUME Shape, NEW h \in 1 .. Len(units), NEW f
  PROVE  /\ [units[h] EXCEPT !.vars = f] = [vars |-> f, macros |-> units[h].macros]
         /\ [units[h] EXCEPT !.macros = f] = [vars |-> units[h].vars, macros |-> f]
<1>1. units[h] = [vars |-> units[h].vars, macros |-> units[h].macros]
  BY DEF Shape, UnitsSound, UnitSound
<1> HIDE DEF Shape
<1>2. QED
  BY <1>1

LEMMA BindIs ==
  ASSUME Shape, NEW h \in 1 .. Len(units), NEW x, NEW v, Bind(h, x, v)
  PROVE  /\ Len(units') = Len(units)
         /\ units'[h].vars = Put(units[h].vars, x, v) /\ units'[h].macros = units[h].macros
         /\ \A i \in 1 .. Len(units) : i # h => units'[i] = units[i]
<1> DEFINE f == Put(units[h].vars, x, v)
           e == [units[h] EXCEPT !.vars = f]
<1>1. units' = [units EXCEPT ![h] = e]
  BY DEF Bind
<1> HIDE DEF f
<1>2. e.vars = f /\ e.macros = units[h].macros
  BY UnitParts
<1> HIDE DEF e
<1>3. units' = Replaced(units, h, e)
  BY <1>1 DEF Replaced
<1>4. QED
  BY <1>2, <1>3, ExceptIs DEF f

(* A plain value is bound, and the visitor goes on.                        *)
LEMMA BindSteady ==
  ASSUME Shape, Steady, Top.at <= Len(Stmts), Advance, UNCHANGED <<lists, memo, meant>>,
         NEW h \in 1 .. Len(units), NEW x, NEW v, Bind(h, x, v), Plain(v),
         x \notin Named \/ (Depth = 1 /\ h = 1),
         \A b \in 1 .. Len(bodies') : bodies'[b].stmts \in Seq(Inward)
  PROVE  Steady'
<1>1. /\ active' = Passing /\ Len(Passing) = Depth /\ Depth \in Nat
      /\ \A d \in 1 .. Depth :
           Passing[d].unit = active[d].unit /\ Passing[d].list = active[d].list
  BY PassingIs, StandingIs DEF Advance
<1>2. Depth' = Depth
  BY <1>1 DEF Depth
<1>3. /\ Len(units') = Len(units)
      /\ units'[h].vars = Put(units[h].vars, x, v) /\ units'[h].macros = units[h].macros
      /\ \A i \in 1 .. Len(units) : i # h => units'[i] = units[i]
  BY BindIs
<1> DEFINE f == units[h].vars
           g == units'[h].vars
<1>4. DOMAIN f \subseteq DOMAIN g
  <2>1. g = Put(f, x, v)
    BY <1>3
  <2> HIDE DEF f, g
  <2>2. QED
    BY <2>1 DEF Put
<1>5. \A y \in DOMAIN g :
        \/ y \in DOMAIN f /\ g[y] = f[y]
        \/ Plain(g[y]) /\ (y \notin Named \/ (Depth' = 1 /\ h = 1))
  <2>1. g = Put(f, x, v)
    BY <1>3
  <2> HIDE DEF f, g
  <2>2. /\ \A y \in DOMAIN g : y = x \/ y \in DOMAIN f \ {x}
        /\ g[x] = v /\ \A y \in DOMAIN f \ {x} : g[y] = f[y]
    BY <2>1 DEF Put
  <2>3. QED
    BY <1>2, <2>2
<1>6. \A y \in DOMAIN units'[h].macros : units'[h].macros[y] \in Seq(Inward)
  BY <1>3 DEF Steady, Inside
<1>7. Extends(lists, lists') /\ \A l \in 2 .. Len(lists') : lists'[l] \in Seq(Inward)
  BY SameExtends DEF Steady, Inside
<1>8. \A d \in 1 .. Depth : active'[d].unit = active[d].unit /\ active'[d].list = active[d].list
  BY <1>1
<1>9. Depth' \in Nat /\ Depth <= Depth' /\ \A d \in Depth + 1 .. Depth' : FALSE
  BY <1>1, <1>2
<1>10. QED
  BY <1>3, <1>4, <1>5, <1>6, <1>7, <1>8, <1>9, ReplacedSteady

LEMMA VarSteady ==
  ASSUME Hygienic, Shape, Steady, Var
  PROVE  Steady'
<1>1. /\ phase = "analyze" /\ Top.at <= Len(Stmts) /\ Stmt.stmt = "var"
      /\ \A j \in DOMAIN Exprs(Stmt) : ~ Unvisited(j)
  BY DEF Var, Visited, AtStatement
<1>2. CASE ValueOf(1).kind # "sym"
  BY <1>1, <1>2, AdvanceSteady DEF Var, NotASymbol
<1>3. CASE ValueOf(1).kind = "sym"
  <2> DEFINE x == ValueOf(1).name
  <2>1. /\ Bind(Here, x, Unset) /\ Advance
        /\ UNCHANGED <<lists, bodies, used, memo, failed, phase, out, meant>>
    BY <1>3 DEF Var
  <2>2. x \notin Named \/ (Depth = 1 /\ Here = 1)
    <3>1. Depth > 1 => Clear(ValueOf(1))
      BY <1>1, ValueIs
    <3>2. Depth = 1 => Here = 1
      BY TopIs DEF Steady, Outside
    <3>3. Depth = 1 \/ Depth > 1
      BY StandingIs
    <3>4. QED
      BY <1>3, <3>1, <3>2, <3>3 DEF Clear
  <2>3. Here \in 1 .. Len(units) /\ \A b \in 1 .. Len(bodies') : bodies'[b].stmts \in Seq(Inward)
    BY <2>1, TopIs DEF Steady, Inside
  <2> HIDE DEF x
  <2>4. QED
    BY <1>1, <2>1, <2>2, <2>3, MissingPlain, BindSteady
<1>4. QED
  BY <1>2, <1>3

LEMMA SetSteady ==
  ASSUME Hygienic, Shape, Steady, Valued, Set
  PROVE  Steady'
<1>1. /\ phase = "analyze" /\ Top.at <= Len(Stmts) /\ Stmt.stmt = "set"
      /\ \A j \in DOMAIN Exprs(Stmt) : ~ Unvisited(j)
  BY DEF Set, Visited, AtStatement
<1>2. CASE ValueOf(1).kind # "sym"
  BY <1>1, <1>2, AdvanceSteady DEF Set, NotASymbol
<1>3. CASE ValueOf(1).kind = "sym"
  <2> DEFINE x == ValueOf(1).name
             v == ValueOf(2)
             b == [bodies[v.id] EXCEPT !.list = 0]
             w == Clone(v)
             h == SetScope(x)
  <2>1. /\ bodies' = IF v.kind = "body" THEN Append(bodies, b) ELSE bodies
        /\ Bind(h, x, w) /\ Advance
        /\ UNCHANGED <<lists, used, memo, failed, phase, out, meant>>
    BY <1>3 DEF Set
  <2>2. Known(v, Len(bodies)) /\ Plain(v) /\ ~ Missing(v)
    <3>1. 2 \in DOMAIN Exprs(Stmt)
      BY <1>1 DEF Exprs
    <3>2. ~ Missing(v)
      <4>1. CASE IsRef(Exprs(Stmt)[2])
        BY <1>1, <3>1, <4>1 DEF Unvisited, ValueOf, Valued
      <4>2. CASE ~ IsRef(Exprs(Stmt)[2])
        <5>1. IsExpression(Exprs(Stmt)[2]) /\ v = Exprs(Stmt)[2]
          BY <1>1, <3>1, <4>2, TopIs, StatementsAssumption DEF ValueOf
        <5>2. QED
          BY <5>1 DEF IsExpression, Missing
      <4>3. QED
        BY <4>1, <4>2
    <3>3. QED
      BY <1>1, <3>1, <3>2, ValueKnown, ValueIs
  <2>3. h \in 1 .. Len(units) /\ (Depth = 1 => h = 1)
    <3>1. Depth = 1 => h = active[1].unit
      <4>1. ASSUME Depth = 1, NEW S \in SUBSET (1 .. Depth), S # {} PROVE Max(S) = 1
        <5>1. Max(S) \in S
          BY <4>1, InnermostIs
        <5> DEFINE m == Max(S)
        <5>2. m \in 1 .. Depth
          BY <5>1
        <5> HIDE DEF m
        <5>3. m = 1
          BY <4>1, <5>2
        <5>4. QED
          BY <5>3 DEF m
      <4>2. QED
        BY <4>1 DEF SetScope
    <3>2. QED
      BY <3>1, SetScopeIs DEF Steady, Outside
  <2>4. x \notin Named \/ (Depth = 1 /\ h = 1)
    <3>1. Depth > 1 => Clear(ValueOf(1))
      BY <1>1, ValueIs
    <3>2. Depth = 1 \/ Depth > 1
      BY StandingIs
    <3>3. QED
      BY <1>3, <2>3, <3>1, <3>2 DEF Clear
  <2> HIDE DEF x, v, h
  <2>5. Plain(w)
    BY <2>2 DEF Plain, Clear, Clone, Body, Missing
  <2> HIDE DEF w
  <2>6. \A i \in 1 .. Len(bodies') : bodies'[i].stmts \in Seq(Inward)
    <3>1. CASE v.kind = "body"
      <4>1. v.id \in 1 .. Len(bodies)
        BY <2>2, <3>1 DEF Known
      <4>2. bodies[v.id] \in [stmts : Seq(Statement), list : 0 .. Len(lists)]
        BY <4>1, BodiesAre, ElementOfSeq
      <4>3. /\ b.stmts = bodies[v.id].stmts /\ b.stmts \in Seq(Statement) /\ b.list = 0
            /\ b = [stmts |-> b.stmts, list |-> b.list]
        BY <4>2
      <4>4. b.stmts \in Seq(Inward)
        BY <4>1, <4>3 DEF Steady, Inside
      <4> HIDE DEF b
      <4>5. /\ Len(bodies') = Len(bodies) + 1 /\ bodies'[Len(bodies) + 1] = b
            /\ \A i \in 1 .. Len(bodies) : bodies'[i] = bodies[i]
            /\ \A i \in 1 .. Len(bodies) + 1 : i \in 1 .. Len(bodies) \/ i = Len(bodies) + 1
        BY <2>1, <3>1, <4>3, BodiesAre, SeqGrows
      <4>6. QED
        BY <4>4, <4>5 DEF Steady, Inside
    <3>2. CASE v.kind # "body"
      BY <2>1, <3>2 DEF Steady, Inside
    <3>3. QED
      BY <3>1, <3>2
  <2>7. QED
    BY <1>1, <2>1, <2>3, <2>4, <2>5, <2>6, BindSteady
<1>4. QED
  BY <1>2, <1>3

LEMMA MacroSteady ==
  ASSUME Hygienic, Shape, Steady, Macro, phase' = "analyze"
  PROVE  Steady'
<1>1. phase = "analyze" /\ Top.at <= Len(Stmts) /\ Stmt.stmt = "macro"
  BY DEF Macro, AtStatement
<1>2. ~ MacroKnown(Stmt.name)
  BY DEF Macro, Crash
<1>3. Advance /\ UNCHANGED <<lists, bodies, used, memo, phase, out, meant>>
  BY <1>2 DEF Macro
<1>4. CASE Stmt.body = << >>
  <2>1. UNCHANGED tree
    BY <1>2, <1>3, <1>4 DEF Macro, tree
  <2>2. QED
    BY <1>1, <1>3, <2>1, AdvanceSteady
<1>5. CASE Stmt.body # << >>
  <2> DEFINE h == Here
             f == Put(units[h].macros, Stmt.name, Stmt.body)
             e == [units[h] EXCEPT !.macros = f]
  <2>1. h \in 1 .. Len(units) /\ Stmt \in Statement
    BY <1>1, TopIs
  <2>2. Stmt.body \in Seq(Inward)
    BY <1>1, <2>1 DEF Hygienic
  <2>3. \A y \in DOMAIN f : f[y] \in Seq(Inward)
    <3>1. \A y \in DOMAIN f :
            \/ f[y] = Stmt.body
            \/ y \in DOMAIN units[h].macros /\ f[y] = units[h].macros[y]
      BY DEF Put
    <3>2. QED
      BY <2>1, <2>2, <3>1 DEF Steady, Inside
  <2>4. units' = [units EXCEPT ![h] = e]
    BY <1>2, <1>5 DEF Macro
  <2> HIDE DEF f
  <2>5. e.vars = units[h].vars /\ e.macros = f
    BY <2>1, UnitParts
  <2> HIDE DEF e
  <2>6. units' = Replaced(units, h, e)
    BY <2>4 DEF Replaced
  <2>7. /\ Len(units') = Len(units) /\ units'[h] = e
        /\ \A i \in 1 .. Len(units) : i # h => units'[i] = units[i]
    BY <2>1, <2>6, ExceptIs
  <2> HIDE DEF h
  <2>8. /\ DOMAIN units[h].vars \subseteq DOMAIN units'[h].vars
        /\ \A x \in DOMAIN units'[h].vars :
             x \in DOMAIN units[h].vars /\ units'[h].vars[x] = units[h].vars[x]
        /\ \A x \in DOMAIN units'[h].macros : units'[h].macros[x] \in Seq(Inward)
    BY <2>3, <2>5, <2>7
  <2>9. Extends(lists, lists') /\ \A l \in 2 .. Len(lists') : lists'[l] \in Seq(Inward)
    BY <1>3, SameExtends DEF Steady, Inside
  <2>10. \A b \in 1 .. Len(bodies') : bodies'[b].stmts \in Seq(Inward)
    BY <1>3 DEF Steady, Inside
  <2>11. /\ active' = Passing /\ Len(Passing) = Depth /\ Depth \in Nat
         /\ \A d \in 1 .. Depth :
              Passing[d].unit = active[d].unit /\ Passing[d].list = active[d].list
    BY <1>1, <1>3, PassingIs, StandingIs DEF Advance
  <2>12. Depth' = Depth
    BY <2>11 DEF Depth
  <2>13. \A d \in 1 .. Depth :
           active'[d].unit = active[d].unit /\ active'[d].list = active[d].list
    BY <2>11
  <2>14. Depth' \in Nat /\ Depth <= Depth' /\ \A d \in Depth + 1 .. Depth' : FALSE
    BY <2>11, <2>12
  <2>15. QED
    BY <1>3, <2>1, <2>7, <2>8, <2>9, <2>10, <2>13, <2>14, ReplacedSteady
<1>6. QED
  BY <1>4, <1>5

-----------------------------------------------------------------------------
(* A list is opened.                                                       *)
LEMMA StartInward ==
  ASSUME Shape, Steady, NEW s \in Seq(Inward), lists' = Append(lists, Hoisted(s))
  PROVE  /\ \A l \in 2 .. Len(lists') : lists'[l] \in Seq(Inward)
         /\ NewList # 1 /\ Len(lists') = Len(lists) + 1
<1>1. Hoisted(s) \in Seq(Inward)
  BY HoistFromSame DEF Hoisted
<1>2. Seq(Inward) \subseteq Seq(Statement)
  BY SeqMonotonic DEF Inward
<1>3. lists \in Seq(Seq(Statement)) /\ Hoisted(s) \in Seq(Statement)
  BY <1>1, <1>2 DEF Shape
<1> DEFINE S == Seq(Statement)
           x == Hoisted(s)
<1>4. lists \in Seq(S) /\ x \in S /\ lists' = Append(lists, x)
  BY <1>3
<1> HIDE DEF S, x
<1>5. /\ Len(lists) \in Nat /\ Len(lists') = Len(lists) + 1 /\ lists'[Len(lists) + 1] = x
      /\ \A l \in 1 .. Len(lists) : lists'[l] = lists[l]
  BY <1>4, SeqGrows
<1>6. 1 \in 1 .. Len(lists)
  <2>1. Top.list \in 1 .. Len(lists)
    BY TopIs
  <2>2. QED
    BY <1>5, <2>1
<1>7. ASSUME NEW l \in 2 .. Len(lists') PROVE lists'[l] \in Seq(Inward)
  <2>1. l \in 2 .. Len(lists) \/ l = Len(lists) + 1
    BY <1>5
  <2>2. \A k \in 2 .. Len(lists) : k \in 1 .. Len(lists)
    BY <1>5
  <2>3. QED
    BY <1>1, <1>5, <2>1, <2>2 DEF Steady, Inside, x
<1>8. QED
  BY <1>5, <1>6, <1>7 DEF NewList

LEMMA LabelsClear ==
  ASSUME NEW s \in Seq(Inward), NEW l, NEW x \in DOMAIN LabelsOf(l, s)
  PROVE  x \notin Named /\ Plain(LabelsOf(l, s)[x])
<1>1. x \in LabelNames(s) /\ LabelsOf(l, s)[x].kind = "label"
  BY DEF LabelsOf, Label
<1>2. PICK i \in DOMAIN s : s[i].stmt = "label" /\ x = s[i].name
  BY <1>1 DEF LabelNames, Range
<1>3. s[i] \in Inward
  BY ElementOfSeq, LenProperties
<1>4. QED
  BY <1>1, <1>2, <1>3 DEF Inward, Plain, Clear

LEMMA IncludeSteady ==
  ASSUME Hygienic, Shape, Steady, Include, phase' = "analyze"
  PROVE  Steady'
<1>1. phase = "analyze" /\ Top.at <= Len(Stmts) /\ Stmt.stmt = "include"
  BY DEF Include, AtStatement
<1>2. CASE Stmt.path \notin DOMAIN Files
  BY <1>1, <1>2, AdvanceSteady DEF Include
<1>3. CASE Stmt.path \in DOMAIN Files
  <2> DEFINE s == Files[Stmt.path]
             h == Here
             g == units[h].vars
             f == Over(LabelsOf(NewList, s), g)
             e == [units[h] EXCEPT !.vars = f]
  <2>1. Depth # MaxDepth
    BY <1>3 DEF Include, Crash
  <2>2. /\ Start(s, h, Passing) /\ units' = [units EXCEPT ![h] = e]
        /\ UNCHANGED <<bodies, memo, meant>>
    BY <1>3, <2>1 DEF Include
  <2>3. s \in Seq(Inward) /\ s \in Seq(Statement)
    BY <1>3, StatementsAssumption DEF Hygienic
  <2>4. h \in 1 .. Len(units) /\ h = active[Depth].unit /\ Depth \in 1 .. Depth /\ Depth \in Nat
    BY TopIs, StandingIs
  <2>5. /\ DOMAIN g \subseteq DOMAIN f
        /\ \A x \in DOMAIN f :
             (x \in DOMAIN g /\ f[x] = g[x]) \/ (Plain(f[x]) /\ x \notin Named)
    <3> DEFINE b == LabelsOf(NewList, s)
    <3>1. \A x \in DOMAIN b : x \notin Named /\ Plain(b[x])
      BY <2>3, LabelsClear
    <3> HIDE DEF b, g
    <3>2. DOMAIN f = DOMAIN b \cup DOMAIN g
          /\ \A x \in DOMAIN f : f[x] = IF x \in DOMAIN b THEN b[x] ELSE g[x]
      BY DEF Over, b
    <3>3. QED
      BY <3>1, <3>2
  <2> HIDE DEF f
  <2>6. e.vars = f /\ e.macros = units[h].macros
    BY <2>4, UnitParts
  <2> HIDE DEF e, s
  <2>7. units' = Replaced(units, h, e)
    BY <2>2 DEF Replaced
  <2>8. /\ Len(units') = Len(units) /\ units'[h] = e
        /\ \A i \in 1 .. Len(units) : i # h => units'[i] = units[i]
    BY <2>4, <2>7, ExceptIs
  <2> HIDE DEF h
  <2>9. /\ DOMAIN units[h].vars \subseteq DOMAIN units'[h].vars
        /\ \A x \in DOMAIN units'[h].vars :
             \/ x \in DOMAIN units[h].vars /\ units'[h].vars[x] = units[h].vars[x]
             \/ Plain(units'[h].vars[x]) /\ x \notin Named
    BY <2>5, <2>6, <2>8
  <2>10. \A x \in DOMAIN units'[h].macros : units'[h].macros[x] \in Seq(Inward)
    BY <2>4, <2>6, <2>8 DEF Steady, Inside
  <2>11. /\ Standing(Passing, Len(units), lists) /\ Len(Passing) = Depth
         /\ \A d \in 1 .. Depth :
              Passing[d].unit = active[d].unit /\ Passing[d].list = active[d].list
    BY <1>1, PassingIs
  <2>12. /\ Extends(lists, lists') /\ Depth' = Depth + 1
         /\ \A d \in 1 .. Depth : active'[d] = Passing[d]
         /\ active'[Depth'].unit = h /\ active'[Depth'].list = NewList
    <3> DEFINE n == Len(units)
    <3>1. n \in Nat /\ h \in 1 .. n /\ n = Len(units) /\ Len(units) <= n /\ Len(Passing) # MaxDepth
      BY <2>1, <2>4, <2>11, StandingIs
    <3> HIDE DEF n
    <3>2. /\ Extends(lists, lists') /\ Depth' = Len(Passing) + 1
          /\ \A d \in 1 .. Len(Passing) : active'[d] = Passing[d]
          /\ active'[Depth'].unit = h /\ active'[Depth'].list = NewList
      BY <2>2, <2>3, <2>11, <3>1, StartKeeps
    <3>3. QED
      BY <2>11, <3>2
  <2>13. (\A l \in 2 .. Len(lists') : lists'[l] \in Seq(Inward)) /\ NewList # 1
    BY <2>2, <2>3, StartInward DEF Start
  <2>14. \A b \in 1 .. Len(bodies') : bodies'[b].stmts \in Seq(Inward)
    BY <2>2 DEF Steady, Inside
  <2>15. \A d \in 1 .. Depth :
           active'[d].unit = active[d].unit /\ active'[d].list = active[d].list
    BY <2>11, <2>12
  <2>16. /\ Depth' \in Nat /\ Depth <= Depth'
         /\ \A d \in Depth + 1 .. Depth' :
              active'[d].list # 1 /\ \E k \in 1 .. Depth : active'[d].unit = active[k].unit
    <3>1. \A d \in Depth + 1 .. Depth' : d = Depth'
      BY <2>4, <2>12
    <3>2. QED
      BY <2>4, <2>12, <2>13, <3>1
  <2>17. QED
    BY <2>2, <2>4, <2>8, <2>9, <2>10, <2>12, <2>13, <2>14, <2>15, <2>16, ReplacedSteady
<1>4. QED
  BY <1>2, <1>3

-----------------------------------------------------------------------------
(* The use of a macro.                                                     *)
LEMMA PlaceIs ==
  ASSUME Shape, Top.at <= Len(Stmts), NEW j
  PROVE  /\ Exists(Place(j)) /\ At(Place(j)) = Stmt /\ Place(j)[3] = j
         /\ Place(j) = <<Place(j)[1], Place(j)[2], Place(j)[3]>>
<1>1. Place(j) = <<Top.list, Top.at, j>>
  BY DEF Place
<1>2. /\ Top.list \in 1 .. Len(lists) /\ Top.at \in 1 .. Len(lists[Top.list])
      /\ Stmt = lists[Top.list][Top.at]
  BY TopIs DEF Iterator
<1>3. QED
  BY <1>1, <1>2 DEF Exists, At

(* What an argument means where the macro is used.                         *)
LEMMA ArgumentMeans ==
  ASSUME Shape, Steady, Top.at <= Len(Stmts), Stmt.stmt = "use",
         NEW j \in DOMAIN Stmt.args, IsRef(Stmt.args[j])
  PROVE  /\ PassedAt(Place(j)) /\ Stmt.args[j].name \in Named
         /\ Argument(j) = Node(Place(j), Stmt.args[j].name)
         /\ Place(j) \in DOMAIN memo => Resolved(Argument(j)) = memo[Place(j)]
         /\ Place(j) \notin DOMAIN memo => Resolved(Argument(j)) = Global(Stmt.args[j].name)
<1> DEFINE id == Place(j)
           n == Stmt.args[j].name
           v == Node(id, n)
<1>1. PassedAt(id) /\ n \in Named
  BY PlaceIs, PassedNamed DEF PassedAt
<1>2. Argument(j) = v /\ v.kind = "node" /\ v.id = id /\ v.name = n
  BY DEF Argument, Itself, Node
<1>3. Following(v) = IF id \in DOMAIN memo THEN memo[id] ELSE Global(n)
  BY <1>1, <1>2, GlobalFound DEF Following
<1>4. Following(v).kind # "node"
  BY <1>1, <1>3, GlobalFound DEF Steady, Remembered, Plain
<1> HIDE DEF id, n, v
<1>5. Resolved(v) = Following(v)
  BY <1>2, <1>4, OneLink
<1>6. QED
  BY <1>1, <1>2, <1>3, <1>5 DEF id, n, v

LEMMA UseMeans ==
  ASSUME Shape, Steady, ArgumentsMeant, Top.at <= Len(Stmts), Stmt.stmt = "use",
         Extends(lists, lists'), memo' = memo, units'[1] = units[1],
         meant' = Over([id \in {Place(j) : j \in DOMAIN Stmt.args} |->
                          Resolved(Argument(id[3]))], meant)
  PROVE  /\ Remembered' /\ ArgumentsMeant' /\ \A v \in Nodes : Held(v)'
         /\ \A w : \A j \in DOMAIN Stmt.args :
              IsRef(Stmt.args[j]) /\ w = Argument(j) => Held(w)'
<1> DEFINE D == DOMAIN Stmt.args
           P == {Place(j) : j \in D}
           f == [id \in P |-> Resolved(Argument(id[3]))]
<1>1. /\ DOMAIN f = P
      /\ \A j \in D : Place(j) \in P /\ f[Place(j)] = Resolved(Argument(j))
  <2>1. \A j \in D : Place(j)[3] = j
    BY PlaceIs
  <2>2. QED
    BY <2>1
<1>2. /\ DOMAIN meant' = P \cup DOMAIN meant
      /\ \A j \in D : meant'[Place(j)] = Resolved(Argument(j))
      /\ \A id \in DOMAIN meant : id \notin P => meant'[id] = meant[id]
  <2>1. meant' = Over(f, meant)
    OBVIOUS
  <2> HIDE DEF f, P
  <2>2. QED
    BY <1>1, <2>1 DEF Over
<1>3. \A id \in P : \E j \in D : id = Place(j)
  OBVIOUS
<1> HIDE DEF P, f
<1>4. Remembered'
  <2>1. \A id \in DOMAIN memo : PassedAt(id)' \/ (Exists(id) /\ At(id).stmt # "use")'
    BY PlacesStay DEF Steady, Remembered
  <2>2. \A id \in DOMAIN meant : (Exists(id) /\ At(id).stmt = "use")'
    BY PlacesStay DEF Steady, Remembered
  <2>3. \A id \in P : (Exists(id) /\ At(id).stmt = "use")'
    BY <1>3, PlaceIs, PlacesStay
  <2>4. QED
    BY <1>2, <2>1, <2>2, <2>3 DEF Steady, Remembered
<1>5. ArgumentsMeant'
  <2>1. ASSUME NEW j \in D, Place(j) \in DOMAIN memo PROVE memo[Place(j)] = meant'[Place(j)]
    <3>1. IsRef(Stmt.args[j])
      <4>1. PassedAt(Place(j))
        BY <2>1, PlaceIs DEF Steady, Remembered
      <4>2. QED
        BY <4>1, PlaceIs DEF PassedAt
    <3>2. QED
      BY <1>2, <2>1, <3>1, ArgumentMeans
  <2>2. QED
    BY <1>2, <1>3, <2>1 DEF ArgumentsMeant
<1>6. \A x : Global(x)' = Global(x)
  BY DEF Global
<1>7. ASSUME NEW v \in Nodes PROVE Held(v)'
  <2>1. Held(v)
    BY DEF Steady, Holding
  <2>2. v.id \in DOMAIN meant'
    BY <1>2, <2>1 DEF Held
  <2>3. ASSUME v.id \notin DOMAIN memo PROVE meant'[v.id] = meant[v.id]
    <3>1. CASE v.id \in P
      <4>1. PICK j \in D : v.id = Place(j)
        BY <1>3, <3>1
      <4>2. /\ PassedAt(v.id) /\ v.name = At(v.id).args[v.id[3]].name
            /\ meant[v.id] = Global(v.name)
        BY <2>1, <2>3 DEF Held
      <4>3. IsRef(Stmt.args[j]) /\ v.name = Stmt.args[j].name
        BY <4>1, <4>2, PlaceIs DEF PassedAt
      <4>4. Resolved(Argument(j)) = Global(Stmt.args[j].name)
        BY <2>3, <4>1, <4>3, ArgumentMeans
      <4>5. QED
        BY <1>2, <4>1, <4>2, <4>3, <4>4
    <3>2. CASE v.id \notin P
      BY <1>2, <2>1, <3>2 DEF Held
    <3>3. QED
      BY <3>1, <3>2
  <2>4. QED
    BY <1>6, <2>1, <2>2, <2>3, HeldStays
<1>8. ASSUME NEW v, NEW j \in D, IsRef(Stmt.args[j]), v = Argument(j)
      PROVE  Held(v)'
  <2> DEFINE n == Stmt.args[j].name
  <2>1. /\ PassedAt(Place(j)) /\ v = Node(Place(j), n)
        /\ Place(j) \notin DOMAIN memo => Resolved(v) = Global(n)
    BY <1>8, ArgumentMeans
  <2>2. v.id = Place(j) /\ v.name = n /\ v = Node(v.id, v.name)
    BY <2>1 DEF Node
  <2>3. PassedAt(v.id)' /\ v.name = At(v.id)'.args[v.id[3]].name
    <3>1. /\ Exists(Place(j)) /\ At(Place(j)) = Stmt /\ Place(j)[3] = j
      BY PlaceIs
    <3>2. At(v.id)' = At(v.id) /\ PassedAt(v.id)'
      BY <2>1, <2>2, <3>1, PlacesStay
    <3>3. v.name = At(v.id).args[v.id[3]].name
      BY <2>2, <3>1
    <3>4. QED
      BY <3>2, <3>3
  <2>4. v.id \in DOMAIN meant' /\ (v.id \notin DOMAIN memo => meant'[v.id] = Global(v.name))
    <3>1. Place(j) \in DOMAIN meant'
      BY <1>2 DEF P
    <3>2. meant'[Place(j)] = Resolved(v)
      BY <1>2, <1>8
    <3>3. QED
      BY <2>1, <2>2, <3>1, <3>2
  <2>5. Global(v.name)' = Global(v.name)
    BY <1>6
  <2>6. QED
    BY <2>2, <2>3, <2>4, <2>5 DEF Held
<1>9. QED
  BY <1>4, <1>5, <1>7, <1>8

LEMMA OpenedIs ==
  ASSUME Shape, Steady, NEW s \in Seq(Inward), NEW g, NEW v, Open(s, g, v)
  PROVE  /\ units'[Len(units) + 1] = Unit(NewList, s, g)
         /\ \A i \in 1 .. Len(units) : units'[i] = units[i]
         /\ (\A l \in 2 .. Len(lists') : lists'[l] \in Seq(Inward)) /\ NewList # 1
<1> DEFINE u == Unit(NewList, s, g)
           S == Elements(units) \cup {u}
<1>1. units' = Append(units, u) /\ lists' = Append(lists, Hoisted(s))
  BY DEF Open, Start
<1>2. units \in Seq(S) /\ u \in S
  BY SeqMonotonic DEF Shape, UnitsSound
<1> HIDE DEF S, u
<1>3. units'[Len(units) + 1] = u /\ \A i \in 1 .. Len(units) : units'[i] = units[i]
  BY <1>1, <1>2, SeqGrows
<1>4. QED
  BY <1>1, <1>3, StartInward DEF u

(* The unit of a macro or of a body.                                       *)
LEMMA UnitClear ==
  ASSUME NEW s \in Seq(Inward), NEW l, NEW g, NEW u, u = Unit(l, s, g),
         \A x \in DOMAIN g : x \notin Named /\ Clear(g[x])
  PROVE  /\ DOMAIN u.macros = {}
         /\ \A x \in DOMAIN u.vars :
              /\ x \notin Named /\ Clear(u.vars[x])
              /\ u.vars[x].kind = "node" => x \in DOMAIN g /\ u.vars[x] = g[x]
<1> DEFINE b == LabelsOf(l, s)
           f == Over(b, g)
<1>1. u.macros = << >> /\ u.vars = f
  BY DEF Unit
<1>2. \A x \in DOMAIN b : x \notin Named /\ Plain(b[x])
  BY LabelsClear
<1> HIDE DEF b
<1>3. DOMAIN f = DOMAIN b \cup DOMAIN g
      /\ \A x \in DOMAIN f : f[x] = IF x \in DOMAIN b THEN b[x] ELSE g[x]
  BY DEF Over
<1> HIDE DEF f
<1>4. DOMAIN << >> = {}
  OBVIOUS
<1>5. QED
  BY <1>1, <1>2, <1>3, <1>4 DEF Plain

LEMMA BoundClear ==
  ASSUME Hygienic, Shape, Steady, Top.at <= Len(Stmts), Stmt.stmt = "use",
         NEW x \in DOMAIN Bound
  PROVE  /\ x \notin Named /\ Clear(Bound[x])
         /\ Bound[x].kind = "node" =>
              \E j \in DOMAIN Stmt.args : IsRef(Stmt.args[j]) /\ Bound[x] = Argument(j)
<1>1. /\ Stmt \in Statement
      /\ \A j \in DOMAIN Stmt.args : IsArgument(Stmt.args[j])
      /\ \A j \in DOMAIN Stmt.args : Clear(Stmt.args[j]) /\ ArgName[j] \notin Named
      /\ "body" \notin Named
  BY TopIs, StatementsAssumption DEF Hygienic
<1>2. CASE x = "body"
  <2>1. Bound[x] = Body(Len(bodies) + 1)
    BY <1>2 DEF Bound
  <2>2. QED
    BY <1>1, <1>2, <2>1 DEF Body, Clear
<1>3. CASE x # "body"
  <2> DEFINE k == CHOOSE j \in DOMAIN Stmt.args : ArgName[j] = x
  <2>1. \E j \in DOMAIN Stmt.args : ArgName[j] = x
    BY <1>3 DEF Bound
  <2>2. k \in DOMAIN Stmt.args /\ ArgName[k] = x
    BY <2>1
  <2>3. Bound[x] = Argument(k)
    BY <1>3 DEF Bound
  <2> HIDE DEF k
  <2>4. CASE IsRef(Stmt.args[k])
    BY <1>1, <2>2, <2>3, <2>4 DEF Argument, Itself, Node, Clear
  <2>5. CASE ~ IsRef(Stmt.args[k])
    BY <1>1, <2>2, <2>3, <2>5 DEF Argument, Itself, IsArgument, IsRef
  <2>6. QED
    BY <2>4, <2>5
<1>4. QED
  BY <1>2, <1>3

LEMMA UseSteady ==
  ASSUME Hygienic, Shape, Steady, ArgumentsMeant, Use, phase' = "analyze"
  PROVE  Steady' /\ ArgumentsMeant'
<1>1. phase = "analyze" /\ Top.at <= Len(Stmts) /\ Stmt.stmt = "use"
  BY DEF Use, AtStatement
<1>2. CASE Macros(Stmt.name) = {}
  <2>1. Advance /\ UNCHANGED tree
    BY <1>2 DEF Use
  <2>2. ArgumentsMeant'
    BY <2>1 DEF tree, ArgumentsMeant
  <2>3. QED
    BY <1>1, <2>1, <2>2, AdvanceSteady
<1>3. CASE Macros(Stmt.name) # {}
  <2> DEFINE s == Scope(Max(Macros(Stmt.name))).macros[Stmt.name]
             b == [stmts |-> Stmt.body, list |-> 0]
             n == Len(bodies) + 1
  <2> PICK g : g = Bound
    OBVIOUS
  <2> PICK u : u = Unit(NewList, s, g)
    OBVIOUS
  <2>1. Depth # MaxDepth
    BY <1>3 DEF Use, Crash
  <2>2. /\ Open(s, Bound, Passing) /\ bodies' = Append(bodies, b)
        /\ meant' = Over([id \in {Place(j) : j \in DOMAIN Stmt.args} |->
                            Resolved(Argument(id[3]))], meant)
        /\ UNCHANGED <<memo, failed, phase>>
    BY <1>3, <2>1 DEF Use
  <2>3. s \in Seq(Inward) /\ s \in Seq(Statement)
    <3>1. Max(Macros(Stmt.name)) \in Macros(Stmt.name)
      <4>1. Macros(Stmt.name) \subseteq 1 .. Depth
        BY DEF Macros
      <4>2. QED
        BY <1>3, <4>1, InnermostIs
    <3>2. s \in Seq(Inward)
      BY <3>1, UnitsAre DEF Macros, Steady, Inside, Scope
    <3>3. s \in Seq(Statement)
      BY <3>1, StandingIs DEF Macros, UnitSound
    <3>4. QED
      BY <3>2, <3>3
  <2> HIDE DEF s
  <2>4. Open(s, g, Passing) /\ IsFiniteSet(DOMAIN g) /\ \A x \in DOMAIN g : Known(g[x], n)
    BY <1>1, <2>2, BoundIs
  <2>5. /\ \A x \in DOMAIN g : x \notin Named /\ Clear(g[x])
        /\ \A x \in DOMAIN g : g[x].kind = "node" =>
             \E j \in DOMAIN Stmt.args : IsRef(Stmt.args[j]) /\ g[x] = Argument(j)
    BY <1>1, BoundClear
  <2>6. \A i \in 1 .. Len(bodies') : bodies'[i].stmts \in Seq(Inward)
    <3>1. Stmt.body \in Seq(Inward) /\ Stmt.body \in Seq(Statement)
      BY <1>1, TopIs, StatementsAssumption DEF Hygienic
    <3>2. b.stmts = Stmt.body /\ b \in [stmts : Seq(Statement), list : 0 .. Len(lists)]
      BY <3>1, BodiesAre
    <3> HIDE DEF b
    <3>3. /\ Len(bodies') = Len(bodies) + 1 /\ bodies'[Len(bodies) + 1] = b
          /\ \A i \in 1 .. Len(bodies) : bodies'[i] = bodies[i]
          /\ \A i \in 1 .. Len(bodies) + 1 : i \in 1 .. Len(bodies) \/ i = Len(bodies) + 1
      BY <2>2, <3>2, BodiesAre, SeqGrows
    <3>4. QED
      BY <3>1, <3>2, <3>3 DEF Steady, Inside
  <2>7. /\ Standing(Passing, Len(units), lists) /\ Len(Passing) = Depth /\ Len(Passing) # MaxDepth
        /\ \A d \in 1 .. Depth :
             Passing[d].unit = active[d].unit /\ Passing[d].list = active[d].list
    BY <1>1, <2>1, PassingIs
  <2>8. n \in Nat /\ Len(bodies) <= n
    BY StandingIs
  <2> HIDE DEF n
  <2>9. /\ Len(units') = Len(units) + 1 /\ Extends(lists, lists')
        /\ Depth' = Depth + 1 /\ \A d \in 1 .. Depth : active'[d] = Passing[d]
        /\ active'[Depth'].unit = Len(units) + 1 /\ active'[Depth'].list = NewList
    <3>1. /\ Len(units') = Len(units) + 1 /\ Extends(lists, lists')
          /\ Depth' = Len(Passing) + 1
          /\ \A d \in 1 .. Len(Passing) : active'[d] = Passing[d]
          /\ active'[Depth'].unit = Len(units) + 1 /\ active'[Depth'].list = NewList
      BY <2>3, <2>4, <2>7, <2>8, OpenKeeps
    <3>2. QED
      BY <2>7, <3>1
  <2>10. /\ units'[Len(units) + 1] = u /\ \A i \in 1 .. Len(units) : units'[i] = units[i]
         /\ (\A l \in 2 .. Len(lists') : lists'[l] \in Seq(Inward)) /\ NewList # 1
    BY <2>3, <2>4, OpenedIs
  <2>11. units'[1] = units[1]
    BY <2>10, UnitsAre
  <2>12. /\ Remembered' /\ ArgumentsMeant' /\ \A v \in Nodes : Held(v)'
         /\ \A w : \A j \in DOMAIN Stmt.args :
              IsRef(Stmt.args[j]) /\ w = Argument(j) => Held(w)'
    BY <1>1, <2>2, <2>9, <2>11, UseMeans
  <2>13. \A x \in DOMAIN g : g[x].kind = "node" => Held(g[x])'
    <3> SUFFICES ASSUME NEW x \in DOMAIN g, g[x].kind = "node" PROVE Held(g[x])'
      OBVIOUS
    <3>1. PICK j \in DOMAIN Stmt.args : IsRef(Stmt.args[j]) /\ g[x] = Argument(j)
      BY <2>5
    <3>2. QED
      BY <2>12, <3>1
  <2>14. /\ DOMAIN u.macros = {}
         /\ \A x \in DOMAIN u.vars :
              /\ x \notin Named /\ Clear(u.vars[x])
              /\ u.vars[x].kind = "node" => Held(u.vars[x])'
    <3>1. /\ DOMAIN u.macros = {}
          /\ \A x \in DOMAIN u.vars :
               /\ x \notin Named /\ Clear(u.vars[x])
               /\ u.vars[x].kind = "node" => x \in DOMAIN g /\ u.vars[x] = g[x]
      BY <2>3, <2>5, UnitClear
    <3>2. QED
      BY <2>13, <3>1
  <2>15. \A d \in 1 .. Depth :
           active'[d].unit = active[d].unit /\ active'[d].list = active[d].list
    BY <2>7, <2>9
  <2>16. Steady'
    BY <2>6, <2>9, <2>10, <2>12, <2>14, <2>15, OpenedSteady
  <2>17. QED
    BY <2>12, <2>16
<1>4. QED
  BY <1>2, <1>3

-----------------------------------------------------------------------------
(* The visit of an expression.                                             *)
LEMMA StatementsKept ==
  ASSUME Shape, NEW b \in 1 .. Len(bodies), NEW l, bodies' = [bodies EXCEPT ![b].list = l]
  PROVE  /\ Len(bodies') = Len(bodies)
         /\ \A i \in 1 .. Len(bodies) : bodies'[i].stmts = bodies[i].stmts
<1> DEFINE e == [bodies[b] EXCEPT !.list = l]
           S == Elements(bodies) \cup {e}
<1>1. bodies[b] \in [stmts : Seq(Statement), list : 0 .. Len(lists)]
  BY BodiesAre, ElementOfSeq
<1>2. e.stmts = bodies[b].stmts
  BY <1>1
<1>3. bodies' = Replaced(bodies, b, e)
  BY DEF Replaced
<1>4. bodies \in Seq(S) /\ e \in S
  <2>1. bodies \in Seq(Elements(bodies))
    BY BodiesAre, SeqItself
  <2>2. QED
    BY <2>1, SeqMonotonic
<1> HIDE DEF e, S
<1>5. /\ Len(bodies') = Len(bodies)
      /\ \A i \in 1 .. Len(bodies) : bodies'[i] = IF i = b THEN e ELSE bodies[i]
  BY <1>3, <1>4, ExceptSeq DEF Replaced
<1>6. QED
  BY <1>2, <1>5

LEMMA VisitSteady ==
  ASSUME Hygienic, Shape, Steady, ArgumentsMeant, Visit, phase' = "analyze"
  PROVE  Steady' /\ ArgumentsMeant'
<1>1. /\ phase = "analyze" /\ Top.at <= Len(Stmts)
      /\ Stmt.stmt \in {"var", "set", "emit", "debug"}
  BY DEF Visit, AtStatement
<1>2. PICK j \in DOMAIN Exprs(Stmt) : VisitExpression(j)
  BY DEF Visit
<1> DEFINE e == Exprs(Stmt)[j]
           p == Place(j)
           v == Stands(e, p)
           r == Resolved(Node(p, e.name))
           first == Passed(Node(p, e.name))
           again == PassedAgain(e, p)
           visited == (first \cup again) \ {NoPlace}
<1>3. /\ IsRef(e) /\ IsExpression(e) /\ p \notin DOMAIN memo
      /\ Known(v, Len(bodies))
  <2>1. IsRef(e) /\ IsExpression(e) /\ p \notin DOMAIN memo
    BY <1>1, <1>2, TopIs, StatementsAssumption DEF VisitExpression, Unvisited
  <2>2. Itself(e, p) = Node(p, e.name)
    BY <2>1 DEF Itself
  <2>3. QED
    BY <2>1, <2>2, StandsKnown
<1>4. ~ (v.kind = "node" \/ (Unopened(v) /\ Depth = MaxDepth))
  <2>1. ~ Crash
    BY DEF Crash
  <2>2. QED
    BY <1>2, <2>1 DEF VisitExpression
<1>5. /\ memo' = [id \in DOMAIN memo \cup visited |->
                    IF id \in DOMAIN memo THEN memo[id]
                    ELSE IF id = p \/ id \notin first THEN v ELSE r]
      /\ IF Unopened(v)
           THEN /\ Open(bodies[v.id].stmts, << >>, active)
                /\ bodies' = [bodies EXCEPT ![v.id].list = NewList]
           ELSE UNCHANGED <<units, lists, active, bodies>>
      /\ meant' = meant
  BY <1>2, <1>4 DEF VisitExpression
<1>6. /\ Plain(r) /\ Plain(v)
      /\ \A q \in first \ DOMAIN memo :
           q = p \/ (PassedAt(q) /\ q \in DOMAIN meant /\ r = meant[q])
      /\ \A q \in again \ DOMAIN memo : PassedAt(q) /\ q \in DOMAIN meant /\ v = meant[q]
  <2>1. /\ Plain(r)
        /\ \A q \in first \ DOMAIN memo :
             q = p \/ (PassedAt(q) /\ q \in DOMAIN meant /\ r = meant[q])
    BY <1>3, VisitedMeans
  <2>2. Resolved(Itself(e, p)) = r
    BY <1>3 DEF Itself
  <2>3. CASE Twice(e, r)
    <3> DEFINE w == Lookup(r.name)
    <3>1. v = Resolved(w) /\ again = Passed(w)
      BY <2>2, <2>3 DEF Stands, PassedAgain
    <3>2. QED
      BY <2>1, <3>1, ResolvedMeans
  <2>4. CASE ~ Twice(e, r)
    <3>1. v = r /\ again = {}
      BY <2>2, <2>4 DEF Stands, PassedAgain
    <3>2. QED
      BY <2>1, <3>1
  <2>5. QED
    BY <2>3, <2>4
<1>7. Exists(p) /\ At(p).stmt # "use" /\ p \notin DOMAIN meant
  <2>1. Exists(p) /\ At(p).stmt # "use"
    BY <1>1, PlaceIs
  <2>2. QED
    BY <2>1 DEF Steady, Remembered
<1> HIDE DEF v, r, first, again, p, e
<1>8. /\ DOMAIN memo' = DOMAIN memo \cup visited
      /\ \A id \in DOMAIN memo : memo'[id] = memo[id]
      /\ \A id \in visited \ DOMAIN memo :
           memo'[id] = IF id = p \/ id \notin first THEN v ELSE r
  BY <1>5
<1>9. ArgumentsMeant'
  <2>1. ASSUME NEW id \in visited \ DOMAIN memo, id \in DOMAIN meant
        PROVE  memo'[id] = meant[id]
    BY <1>6, <1>7, <1>8, <2>1
  <2>2. \A id \in DOMAIN memo' \cap DOMAIN meant' : memo'[id] = meant'[id]
    BY <1>5, <1>8, <2>1 DEF ArgumentsMeant
  <2>3. QED
    BY <2>2 DEF ArgumentsMeant
<1>10. ASSUME Extends(lists, lists'), units'[1] = units[1]
       PROVE  Remembered' /\ \A w \in Nodes : Held(w)'
  <2>1. \A id \in DOMAIN memo' : Plain(memo'[id])
    BY <1>6, <1>8 DEF Steady, Remembered
  <2>2. \A id \in DOMAIN memo' : PassedAt(id) \/ (Exists(id) /\ At(id).stmt # "use")
    BY <1>6, <1>7, <1>8 DEF Steady, Remembered
  <2>3. \A id \in DOMAIN memo' : PassedAt(id)' \/ (Exists(id) /\ At(id).stmt # "use")'
    BY <1>10, <2>2, PlacesStay
  <2>4. \A id \in DOMAIN meant' : (Exists(id) /\ At(id).stmt = "use")'
    BY <1>5, <1>10, PlacesStay DEF Steady, Remembered
  <2>5. Remembered'
    BY <2>1, <2>3, <2>4 DEF Remembered
  <2>6. \A x : Global(x)' = Global(x)
    BY <1>10 DEF Global
  <2>7. ASSUME NEW w \in Nodes PROVE Held(w)'
    <3>1. Held(w) /\ w.id \in DOMAIN meant'
      BY <1>5 DEF Steady, Holding, Held
    <3>2. w.id \notin DOMAIN memo' => w.id \notin DOMAIN memo /\ meant'[w.id] = meant[w.id]
      BY <1>5, <1>8
    <3>3. QED
      BY <1>10, <2>6, <3>1, <3>2, HeldStays
  <2>8. QED
    BY <2>5, <2>7
<1>11. CASE ~ Unopened(v)
  <2>1. UNCHANGED <<units, lists, active, bodies>>
    BY <1>5, <1>11
  <2>2. Extends(lists, lists') /\ units'[1] = units[1]
    BY <2>1, SameExtends
  <2>3. QED
    BY <1>9, <1>10, <2>1, <2>2, SeenSteady
<1>12. CASE Unopened(v)
  <2> DEFINE s == bodies[v.id].stmts
             g == << >>
             n == Len(bodies)
             m == Len(lists) + 1
  <2>1. /\ Open(s, g, active) /\ bodies' = [bodies EXCEPT ![v.id].list = NewList]
        /\ Depth # MaxDepth
    BY <1>4, <1>5, <1>12
  <2>2. v.id \in 1 .. Len(bodies)
    BY <1>3, <1>12 DEF Known, Unopened
  <2>3. s \in Seq(Inward) /\ s \in Seq(Statement)
    BY <2>2, BodiesAre DEF Steady, Inside
  <2>4. IsFiniteSet(DOMAIN g) /\ DOMAIN g = {}
    <3>1. DOMAIN g = {}
      OBVIOUS
    <3>2. QED
      BY <3>1, FS_EmptySet
  <2>5. /\ n \in Nat /\ n = Len(bodies) /\ Len(bodies) <= n /\ Depth = Len(active)
        /\ Standing(active, Len(units), lists) /\ Len(active) # MaxDepth
    BY <2>1, StandingIs DEF Depth, Shape
  <2> HIDE DEF s, g, n
  <2> PICK u : u = Unit(NewList, s, g)
    OBVIOUS
  <2>6. /\ Len(units') = Len(units) + 1 /\ Extends(lists, lists')
        /\ Depth' = Depth + 1 /\ \A d \in 1 .. Depth : active'[d] = active[d]
        /\ active'[Depth'].unit = Len(units) + 1 /\ active'[Depth'].list = NewList
    BY <2>1, <2>3, <2>4, <2>5, OpenKeeps
  <2>7. /\ units'[Len(units) + 1] = u /\ \A i \in 1 .. Len(units) : units'[i] = units[i]
        /\ (\A l \in 2 .. Len(lists') : lists'[l] \in Seq(Inward)) /\ NewList # 1
    BY <2>1, <2>3, OpenedIs
  <2>8. units'[1] = units[1]
    BY <2>7, UnitsAre
  <2>9. Remembered' /\ \A w \in Nodes : Held(w)'
    BY <1>10, <2>6, <2>8
  <2>10. /\ DOMAIN u.macros = {}
         /\ \A x \in DOMAIN u.vars :
              /\ x \notin Named /\ Clear(u.vars[x])
              /\ u.vars[x].kind = "node" => Held(u.vars[x])'
    <3>1. /\ DOMAIN u.macros = {}
          /\ \A x \in DOMAIN u.vars :
               /\ x \notin Named /\ Clear(u.vars[x])
               /\ u.vars[x].kind = "node" => x \in DOMAIN g /\ u.vars[x] = g[x]
      BY <2>3, <2>4, UnitClear
    <3>2. QED
      BY <2>4, <3>1
  <2>11. \A i \in 1 .. Len(bodies') : bodies'[i].stmts \in Seq(Inward)
    <3>1. /\ m \in Nat /\ Len(lists) <= m /\ NewList \in 1 .. m
      BY StandingIs DEF NewList
    <3>2. Len(bodies') = Len(bodies) /\ \A i \in 1 .. Len(bodies) : bodies'[i].stmts = bodies[i].stmts
      BY <2>1, <2>2, StatementsKept
    <3>3. QED
      BY <3>2 DEF Steady, Inside
  <2>12. \A d \in 1 .. Depth :
           active'[d].unit = active[d].unit /\ active'[d].list = active[d].list
    BY <2>6
  <2>13. Steady'
    BY <2>6, <2>7, <2>9, <2>10, <2>11, <2>12, OpenedSteady
  <2>14. QED
    BY <1>9, <2>13
<1>13. QED
  BY <1>11, <1>12

-----------------------------------------------------------------------------
(* The rest of the analysis.                                               *)
LEMMA ReturnSteady ==
  ASSUME Shape, Steady, Return
  PROVE  Steady'
<1>1. Depth > 1 /\ active' = SubSeq(active, 1, Depth - 1) /\ UNCHANGED tree
  BY DEF Return
<1>2. Depth' = Depth - 1 /\ \A d \in 1 .. Depth - 1 : active'[d] = active[d]
  BY <1>1, PopIs
<1>3. Depth' \in 1 .. Depth
  BY <1>1, <1>2, StandingIs
<1>4. \A d \in 1 .. Depth' : active'[d].unit = active[d].unit /\ active'[d].list = active[d].list
  BY <1>2
<1>5. QED
  BY <1>1, <1>3, <1>4, SteadyMoves

LEMMA InitKept ==
  ASSUME Init
  PROVE  Kept
<1>1. PICK p \in Programs : units = <<Unit(1, p, Builtin)>> /\ lists = <<Hoisted(p)>>
  BY DEF Init
<1>2. /\ active = <<[unit |-> 1, list |-> 1, at |-> 1]>>
      /\ bodies = << >> /\ memo = << >> /\ phase = "analyze" /\ meant = << >>
  BY DEF Init
<1> DEFINE b == LabelsOf(1, p)
           f == Over(b, Builtin)
           u == Unit(1, p, Builtin)
<1>3. u.vars = f /\ u.macros = << >> /\ units[1] = u /\ Len(units) = 1 /\ Len(lists) = 1
  BY <1>1 DEF Unit
<1>4. \A x \in DOMAIN f : Plain(f[x])
  <2>1. \A x \in DOMAIN b : Plain(b[x])
    BY DEF LabelsOf, Label, Plain, Clear
  <2>2. \A x \in DOMAIN Builtin : Plain(Builtin[x])
    BY DEF Builtin, Plain, Clear
  <2> HIDE DEF b
  <2>3. DOMAIN f = DOMAIN b \cup DOMAIN Builtin
        /\ \A x \in DOMAIN f : f[x] = IF x \in DOMAIN b THEN b[x] ELSE Builtin[x]
    BY DEF Over
  <2>4. QED
    BY <2>1, <2>2, <2>3
<1> HIDE DEF f, u
<1>5. Depth = 1 /\ active[1].unit = 1 /\ active[1].list = 1
  BY <1>2 DEF Depth
<1>6. DOMAIN memo = {} /\ DOMAIN meant = {} /\ Len(bodies) = 0 /\ DOMAIN << >> = {}
  BY <1>2
<1>7. Remembered /\ ArgumentsMeant
  BY <1>6 DEF Remembered, ArgumentsMeant
<1>8. Inside
  <2>1. \A k \in 2 .. 1 : FALSE
    OBVIOUS
  <2>2. \A k \in 1 .. 0 : FALSE
    OBVIOUS
  <2>3. \A k \in 1 .. 1 : k = 1
    OBVIOUS
  <2>4. \A k \in 1 .. Len(units) : DOMAIN units[k].macros = {}
    BY <1>3, <1>6, <2>3
  <2>5. QED
    BY <1>3, <1>6, <2>1, <2>2, <2>4 DEF Inside
<1>9. Outside /\ Unnamed
  <2>1. \A k \in 2 .. 1 : FALSE
    OBVIOUS
  <2>2. QED
    BY <1>3, <1>4, <1>5, <2>1 DEF Outside, Unnamed
<1>10. Holding
  <2>1. ASSUME NEW v \in Nodes PROVE FALSE
    <3>1. /\ v.kind = "node"
          /\ \E d \in 1 .. Depth : \E x \in DOMAIN Scope(d).vars : v = Scope(d).vars[x]
      BY DEF Nodes
    <3>2. PICK d \in 1 .. Depth : \E x \in DOMAIN Scope(d).vars : v = Scope(d).vars[x]
      BY <3>1
    <3>3. d = 1 /\ Scope(d) = u
      BY <1>3, <1>5 DEF Scope
    <3>4. Plain(v)
      BY <1>3, <1>4, <3>2, <3>3
    <3>5. QED
      BY <3>1, <3>4 DEF Plain
  <2>2. QED
    BY <2>1 DEF Holding
<1>11. QED
  BY <1>7, <1>8, <1>9, <1>10 DEF Kept, Steady

(* A step that is no visit leaves what was meant, and visited.             *)
LEMMA SameMeaning ==
  ASSUME ArgumentsMeant, UNCHANGED <<memo, meant>>
  PROVE  ArgumentsMeant'
  BY DEF ArgumentsMeant

LEMMA FailedStays ==
  ASSUME [Next]_vars
  PROVE  failed \subseteq failed'
<1>1. CASE UNCHANGED vars
  BY <1>1 DEF vars
<1>2. CASE Visit
  <2>1. PICK j \in DOMAIN Exprs(Stmt) : VisitExpression(j)
    BY <1>2 DEF Visit
  <2>2. QED
    BY <2>1 DEF VisitExpression, Crash
<1>3. CASE Var \/ Set
  BY <1>3 DEF Var, Set, NotASymbol
<1>4. CASE Macro \/ Use \/ Include
  BY <1>4 DEF Macro, Use, Include, Crash
<1>5. CASE Emit \/ Return \/ Analyzed
  BY <1>5 DEF Emit, Return, Errors, Analyzed
<1>6. CASE BuildEmit \/ BuildUse \/ BuildLabel \/ BuildNothing \/ BuildReturn
  BY <1>6 DEF BuildEmit, BuildUse, BuildLabel, BuildNothing, BuildReturn, BuildList, Crash
<1>7. QED
  BY <1>1, <1>2, <1>3, <1>4, <1>5, <1>6 DEF Next

LEMMA StepKept ==
  ASSUME Hygienic, Expanding, Kept, [Next]_vars
  PROVE  Kept'
<1> SUFFICES ASSUME failed' = {}
             PROVE  ArgumentsMeant' /\ (phase' = "analyze" => Steady')
  BY DEF Kept
<1>0. /\ Shape /\ ArgumentsMeant /\ (phase = "analyze" => Steady)
      /\ phase = "analyze" => Valued
  <2>1. failed = {}
    BY FailedStays
  <2>2. QED
    BY <2>1 DEF Kept, Expanding, Progress, Clean
<1>1. CASE UNCHANGED vars
  <2>1. ArgumentsMeant'
    BY <1>0, <1>1, SameMeaning DEF vars
  <2>2. phase = "analyze" => Steady'
    <3>1. Depth \in 1 .. Depth /\ Depth' = Depth
      BY <1>0, <1>1, TopIs DEF vars, Depth
    <3>2. UNCHANGED tree /\ active' = active /\ phase' = phase
      BY <1>1 DEF vars, tree
    <3>3. QED
      BY <1>0, <3>1, <3>2, SteadyMoves
  <2>3. QED
    BY <1>1, <2>1, <2>2 DEF vars
<1>2. CASE Visit \/ Use
  <2>1. phase = "analyze" /\ Steady
    BY <1>0, <1>2 DEF Visit, Use, AtStatement
  <2>2. CASE phase' = "analyze"
    BY <1>0, <1>2, <2>1, <2>2, VisitSteady, UseSteady
  <2>3. CASE phase' # "analyze"
    <3>1. Crash
      <4>1. CASE Visit
        <5>1. PICK j \in DOMAIN Exprs(Stmt) : VisitExpression(j)
          BY <4>1 DEF Visit
        <5>2. QED
          BY <2>1, <2>3, <5>1 DEF VisitExpression
      <4>2. CASE Use
        BY <2>1, <2>3, <4>2 DEF Use
      <4>3. QED
        BY <1>2, <4>1, <4>2
    <3>2. QED
      BY <1>0, <2>3, <3>1, SameMeaning DEF Crash, tree
  <2>4. QED
    BY <2>2, <2>3
<1>3. CASE Var \/ Set \/ Macro \/ Include \/ Emit \/ Return
  <2>1. phase = "analyze" /\ Steady
    BY <1>0, <1>3 DEF Var, Set, Macro, Include, Emit, Return, Visited, AtStatement, AtEnd
  <2>2. UNCHANGED <<memo, meant>>
    <3>1. CASE Var \/ Set
      BY <3>1 DEF Var, Set, NotASymbol, tree
    <3>2. CASE Macro \/ Include
      BY <3>2 DEF Macro, Include, Crash, tree
    <3>3. CASE Emit \/ Return
      BY <3>3 DEF Emit, Return, tree
    <3>4. QED
      BY <1>3, <3>1, <3>2, <3>3
  <2>3. ASSUME phase' = "analyze" PROVE Steady'
    <3>1. CASE Emit
      <4>1. Top.at <= Len(Stmts) /\ Advance /\ UNCHANGED tree
        BY <3>1 DEF Emit, Visited, AtStatement
      <4>2. QED
        BY <1>0, <2>1, <4>1, AdvanceSteady
    <3>2. QED
      BY <1>0, <1>3, <2>1, <2>3, <3>1, VarSteady, SetSteady, MacroSteady, IncludeSteady,
         ReturnSteady
  <2>4. QED
    BY <1>0, <2>2, <2>3, SameMeaning
<1>4. CASE Analyzed \/ BuildEmit \/ BuildUse \/ BuildLabel \/ BuildNothing \/ BuildReturn
  <2>1. UNCHANGED tree
    BY <1>4 DEF Analyzed, BuildEmit, BuildUse, BuildLabel, BuildNothing, BuildReturn,
                BuildList, Crash
  <2>2. phase' # "analyze"
    <3>1. CASE Analyzed
      BY <3>1 DEF Analyzed
    <3>2. CASE BuildEmit \/ BuildUse \/ BuildLabel \/ BuildNothing \/ BuildReturn
      <4>1. phase = "build"
        BY <3>2 DEF BuildEmit, BuildUse, BuildLabel, BuildNothing, BuildReturn, AtStatement, AtEnd
      <4>2. phase' \in {phase, "crash", "done"}
        BY <3>2 DEF BuildEmit, BuildUse, BuildLabel, BuildNothing, BuildReturn, BuildList, Crash
      <4>3. QED
        BY <4>1, <4>2
    <3>3. QED
      BY <1>4, <3>1, <3>2
  <2>3. QED
    BY <1>0, <2>1, <2>2, SameMeaning DEF tree
<1>5. QED
  BY <1>1, <1>2, <1>3, <1>4 DEF Next

(* A variable that is passed to a macro is the outermost unit's wherever   *)
(* it is visited (AstInterpolation::visit), and unchanged while an argument*)
(* refers to it, in programs that declare and set what they pass in their  *)
(* outermost list only, as long as they have no error.                     *)
THEOREM PassedNotTouched ==
  ASSUME Hygienic
  PROVE  Spec => []PassedUnchanged
<1>1. Kept => PassedUnchanged
  BY DEF PassedUnchanged
<1>2. Init => Kept
  BY InitKept
<1>3. Kept /\ Expanding /\ [Next]_vars => Kept'
  BY StepKept
<1>4. QED
  BY <1>1, <1>2, <1>3, AlwaysExpanding, PTL DEF Spec

(* What an argument of a macro means is settled where the macro is used:   *)
(* in such programs it has, wherever it is visited first, the value it had *)
(* at the use, although interpolations are visited late and in the scope   *)
(* of whoever visits.  The arguments are those of Scopes: #{#{name}}, which*)
(* is looked up a second time by whoever visits it, is none of them.       *)
THEOREM ArgumentsAsPassed ==
  ASSUME Hygienic
  PROVE  Spec => [](failed = {} => ArgumentsMeant)
<1>1. PassedUnchanged => (failed = {} => ArgumentsMeant)
  BY DEF PassedUnchanged, Kept
<1>2. QED
  BY <1>1, PassedNotTouched, PTL
=============================================================================
