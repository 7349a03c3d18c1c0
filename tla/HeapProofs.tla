----------------------------- MODULE HeapProofs -----------------------------
(***************************************************************************)
(* The heap's list is well linked, complete and collected correctly for    *)
(* any number of nodes and any stack.  The nodes of a list have ranks, in  *)
(* the order they were allocated: the `prev` of a node is the one with the *)
(* next lower rank.  A step that adds or removes a node keeps the other    *)
(* ranks, so that no node but its neighbours needs a look.                 *)
(***************************************************************************)
EXTENDS Heap, Induction

(* p links the nodes of L downwards by rank, from the highest, h.          *)
Ordered(L, h, p, rank) ==
  /\ \A n, m \in L : rank[n] = rank[m] => n = m
  /\ \A n, m \in L : p[n] = m <=> /\ rank[m] < rank[n]
                                  /\ \A k \in L : rank[k] < rank[n] => rank[k] <= rank[m]
  /\ \A n \in L : p[n] \in L \/ (p[n] = Nil /\ \A k \in L : rank[n] <= rank[k])
  /\ (h \in L /\ \A k \in L : rank[k] <= rank[h]) \/ (h = Nil /\ L = {})

(* x is the mirror image of the links p of a list with head h.             *)
Mirrored(L, h, p, x) ==
  /\ \A n \in L : x[n] \in L \cup {Nil}
  /\ \A n \in L : x[n] = Nil <=> n = h
  /\ \A n, m \in L : p[n] = m <=> x[m] = n

(* The sweep has come to l: what is younger was kept, what is not has its  *)
(* mark exactly if it is to be kept.                                       *)
SweptTo(L, l, mk, rs, rank) ==
  /\ l = Nil => L = rs /\ mk = {}
  /\ l # Nil => /\ l \in L
                /\ \A n \in L : rank[n] > rank[l] => n \in rs /\ n \notin mk
                /\ \A n \in L : rank[n] <= rank[l] => (n \in mk <=> n \in rs)

TypeOK ==
  /\ head \in Node \cup {Nil} /\ last \in Node \cup {Nil}
  /\ size \in Nat
  /\ prev \in [Node -> Node \cup {Nil}] /\ next \in [Node -> Node \cup {Nil}]
  /\ live \subseteq Node /\ marked \subseteq live /\ roots \subseteq Node
  /\ stack \in Seq(Node \cup {Plain})
  /\ phase \in {"run", "halted", "mark", "sweep", "destroy"}

(* What the program may do with its stack, and what marking does with it.  *)
Held ==
  /\ phase \in {"run", "mark"} => OnStack \subseteq live
  /\ phase \in {"run", "destroy"} => marked = {}
  /\ phase = "mark" => roots = marked \cup OnStack
  /\ phase = "sweep" => roots \subseteq live

Listed ==
  \E rank \in [live -> Nat] :
    /\ Ordered(live, head, prev, rank)
    /\ phase # "destroy" => Mirrored(live, head, prev, next)
    /\ phase = "sweep" => SweptTo(live, last, marked, roots, rank)

Counted == size = Cardinality(live)

IInv == TypeOK /\ Held /\ Listed /\ Counted

-----------------------------------------------------------------------------
(* A fresh node becomes the youngest.                                      *)
LEMMA AddNewest ==
  ASSUME NEW L \in SUBSET Node, NEW h, NEW p \in [Node -> Node \cup {Nil}],
         NEW rank \in [L -> Nat], Ordered(L, h, p, rank), NEW n \in Node \ L
  PROVE  \E r \in [L \cup {n} -> Nat] :
           Ordered(L \cup {n}, n, [p EXCEPT ![n] = h], r)
<1> DEFINE top == IF h = Nil THEN 0 ELSE rank[h] + 1
           r == [m \in L \cup {n} |-> IF m = n THEN top ELSE rank[m]]
           q == [p EXCEPT ![n] = h]
<1>1. top \in Nat /\ \A m \in L : rank[m] < top
  BY NodeAssumption DEF Ordered
<1>2. /\ r \in [L \cup {n} -> Nat] /\ r[n] = top
      /\ \A m \in L : r[m] = rank[m] /\ m # n
  BY <1>1
<1>3. q[n] = h /\ \A m \in L : q[m] = p[m]
  OBVIOUS
<1> HIDE DEF r, q, top
<1>4. \A a, b \in L \cup {n} : r[a] = r[b] => a = b
  BY <1>1, <1>2 DEF Ordered
<1>5. ASSUME NEW a \in L \cup {n}, NEW b \in L \cup {n}
      PROVE  q[a] = b <=> /\ r[b] < r[a]
                          /\ \A k \in L \cup {n} : r[k] < r[a] => r[k] <= r[b]
  <2>1. CASE a \in L /\ b \in L
    BY <2>1, <1>1, <1>2, <1>3 DEF Ordered
  <2>2. CASE a \in L /\ b = n
    BY <2>2, <1>1, <1>2, <1>3, NodeAssumption DEF Ordered
  <2>3. CASE a = n /\ b \in L
    <3>1. h \in L /\ \A k \in L : rank[k] <= rank[h]
      BY <2>3 DEF Ordered
    <3>2. q[a] = b => /\ r[b] < r[a]
                      /\ \A k \in L \cup {n} : r[k] < r[a] => r[k] <= r[b]
      BY <2>3, <3>1, <1>1, <1>2, <1>3
    <3>3. ASSUME \A k \in L \cup {n} : r[k] < r[a] => r[k] <= r[b]
          PROVE  b = h
      <4>1. rank[h] <= rank[b] /\ rank[b] <= rank[h]
        BY <2>3, <3>1, <3>3, <1>1, <1>2
      <4>2. rank[b] \in Nat /\ rank[h] \in Nat
        BY <2>3, <3>1
      <4>3. QED
        BY <4>1, <4>2, <2>3, <3>1 DEF Ordered
    <3>4. QED
      BY <3>2, <3>3, <2>3, <1>3
  <2>4. CASE a = n /\ b = n
    BY <2>4, <1>1, <1>2, <1>3, NodeAssumption DEF Ordered
  <2>5. QED
    BY <2>1, <2>2, <2>3, <2>4
<1>6. ASSUME NEW a \in L \cup {n}
      PROVE  q[a] \in L \cup {n}
               \/ (q[a] = Nil /\ \A k \in L \cup {n} : r[a] <= r[k])
  <2>1. CASE a = n
    BY <2>1, <1>1, <1>2, <1>3 DEF Ordered
  <2>2. CASE a \in L
    BY <2>2, <1>1, <1>2, <1>3 DEF Ordered
  <2>3. QED
    BY <2>1, <2>2
<1>7. \A k \in L \cup {n} : r[k] <= r[n]
  BY <1>1, <1>2
<1>8. Ordered(L \cup {n}, n, q, r)
  BY <1>4, <1>5, <1>6, <1>7 DEF Ordered
<1>9. QED
  BY <1>2, <1>8 DEF q

(* A node is taken out and its neighbours are linked to one another.       *)
LEMMA TakeOut ==
  ASSUME NEW L \in SUBSET Node, NEW h, NEW p \in [Node -> Node \cup {Nil}],
         NEW x \in [Node -> Node \cup {Nil}], NEW rank \in [L -> Nat],
         Ordered(L, h, p, rank), Mirrored(L, h, p, x), NEW n \in L
  PROVE  LET g == IF x[n] = Nil THEN p[n] ELSE h
             q == Linked(p, x[n], p[n])
             y == Linked(x, p[n], x[n])
             r == [m \in L \ {n} |-> rank[m]]
         IN  Ordered(L \ {n}, g, q, r) /\ Mirrored(L \ {n}, g, q, y)
<1> DEFINE g == IF x[n] = Nil THEN p[n] ELSE h
           q == Linked(p, x[n], p[n])
           y == Linked(x, p[n], x[n])
           r == [m \in L \ {n} |-> rank[m]]
<1>1. \A m \in L \ {n} : r[m] = rank[m]
  OBVIOUS
<1>2. \A m \in L \ {n} : q[m] = IF m = x[n] THEN p[n] ELSE p[m]
  BY NodeAssumption DEF Linked
<1>3. \A m \in L \ {n} : y[m] = IF m = p[n] THEN x[n] ELSE x[m]
  BY NodeAssumption DEF Linked
<1>4. \A m \in L \ {n} : p[m] = n <=> m = x[n]
  BY DEF Mirrored
<1>5. \A m \in L \ {n} : x[m] = n <=> m = p[n]
  BY DEF Mirrored
<1>6. \A m \in L : rank[m] \in Nat
  OBVIOUS
<1> HIDE DEF g, q, y, r
<1>7. \A a, b \in L \ {n} : r[a] = r[b] => a = b
  BY <1>1 DEF Ordered
<1>8. ASSUME NEW a \in L \ {n}, NEW b \in L \ {n}
      PROVE  q[a] = b <=> /\ r[b] < r[a]
                          /\ \A k \in L \ {n} : r[k] < r[a] => r[k] <= r[b]
  <2>1. CASE a = x[n]
    <3>1. p[a] = n /\ rank[n] < rank[a] /\ \A k \in L : rank[k] < rank[a] => rank[k] <= rank[n]
      BY <2>1, <1>4 DEF Ordered
    <3>2. \A k \in L \ {n} : rank[k] < rank[a] <=> rank[k] < rank[n]
      BY <3>1, <1>6 DEF Ordered
    <3>3. p[n] = b <=> /\ rank[b] < rank[n]
                       /\ \A k \in L : rank[k] < rank[n] => rank[k] <= rank[b]
      BY DEF Ordered
    <3>4. QED
      BY <2>1, <3>2, <3>3, <1>1, <1>2, <1>6
  <2>2. CASE a # x[n]
    <3>1. p[a] # n /\ q[a] = p[a]
      BY <2>2, <1>2, <1>4
    <3>2. p[a] = b <=> /\ rank[b] < rank[a]
                       /\ \A k \in L : rank[k] < rank[a] => rank[k] <= rank[b]
      BY DEF Ordered
    <3>3. ASSUME rank[b] < rank[a], \A k \in L \ {n} : rank[k] < rank[a] => rank[k] <= rank[b],
                 rank[n] < rank[a], rank[n] > rank[b]
          PROVE  FALSE
      <4>1. \A k \in L : rank[k] < rank[a] => rank[k] <= rank[n]
        BY <3>3, <1>6
      <4>2. p[a] = n
        BY <4>1, <3>3 DEF Ordered
      <4>3. QED
        BY <4>2, <3>1
    <3>4. QED
      BY <3>1, <3>2, <3>3, <1>1, <1>6
  <2>3. QED
    BY <2>1, <2>2
<1>9. ASSUME NEW a \in L \ {n}
      PROVE  q[a] \in L \ {n} \/ (q[a] = Nil /\ \A k \in L \ {n} : r[a] <= r[k])
  <2>1. CASE a = x[n]
    <3>1. p[a] = n /\ rank[n] < rank[a] /\ \A k \in L : rank[k] < rank[a] => rank[k] <= rank[n]
      BY <2>1, <1>4 DEF Ordered
    <3>2. CASE p[n] \in L
      BY <3>2, <2>1, <1>2, <1>6 DEF Ordered
    <3>3. CASE p[n] \notin L
      <4>1. p[n] = Nil /\ \A k \in L : rank[n] <= rank[k]
        BY <3>3 DEF Ordered
      <4>2. \A k \in L \ {n} : rank[a] <= rank[k]
        BY <4>1, <3>1, <1>6 DEF Ordered
      <4>3. QED
        BY <4>1, <4>2, <2>1, <1>1, <1>2
    <3>4. QED
      BY <3>2, <3>3
  <2>2. CASE a # x[n]
    BY <2>2, <1>1, <1>2, <1>4 DEF Ordered
  <2>3. QED
    BY <2>1, <2>2
<1>10. (g \in L \ {n} /\ \A k \in L \ {n} : r[k] <= r[g]) \/ (g = Nil /\ L \ {n} = {})
  <2>1. h \in L /\ \A k \in L : rank[k] <= rank[h]
    BY DEF Ordered
  <2>2. CASE x[n] # Nil
    BY <2>2, <2>1, <1>1 DEF g, Mirrored
  <2>3. CASE x[n] = Nil
    <3>1. n = h
      BY <2>3 DEF Mirrored
    <3>2. \A k \in L \ {n} : rank[k] < rank[n]
      BY <3>1, <2>1, <1>6 DEF Ordered
    <3>3. CASE p[n] \in L
      <4>1. rank[p[n]] < rank[n] /\ \A k \in L : rank[k] < rank[n] => rank[k] <= rank[p[n]]
        BY <3>3 DEF Ordered
      <4>2. QED
        BY <4>1, <3>2, <3>3, <2>3, <1>1, <1>6 DEF g
    <3>4. CASE p[n] \notin L
      <4>1. p[n] = Nil /\ \A k \in L : rank[n] <= rank[k]
        BY <3>4 DEF Ordered
      <4>2. L \ {n} = {}
        BY <4>1, <3>2, <1>6
      <4>3. QED
        BY <4>1, <4>2, <2>3 DEF g
    <3>5. QED
      BY <3>3, <3>4
  <2>4. QED
    BY <2>2, <2>3
<1>11. Ordered(L \ {n}, g, q, r)
  BY <1>7, <1>8, <1>9, <1>10 DEF Ordered
<1>12. \A m \in L \ {n} : y[m] \in (L \ {n}) \cup {Nil}
  <2>1. x[n] # n
    BY <1>6 DEF Mirrored, Ordered
  <2>2. QED
    BY <2>1, <1>3, <1>5 DEF Mirrored
<1>13. \A m \in L \ {n} : y[m] = Nil <=> m = g
  BY <1>3, <1>5, NodeAssumption DEF g, Mirrored
<1>14. ASSUME NEW a \in L \ {n}, NEW b \in L \ {n}
       PROVE  q[a] = b <=> y[b] = a
  <2>1. (a = x[n] <=> p[a] = n) /\ (b = p[n] <=> x[b] = n) /\ (p[a] = b <=> x[b] = a)
    BY <1>4, <1>5 DEF Mirrored
  <2>2. QED
    BY <2>1, <1>2, <1>3
<1>15. QED
  BY <1>11, <1>12, <1>13, <1>14 DEF g, q, y, r, Mirrored

(* Between a node and the next older one there is none.                    *)
LEMMA NextOlder ==
  ASSUME NEW L, NEW h, NEW p, NEW rank \in [L -> Nat], Ordered(L, h, p, rank),
         NEW l \in L, Nil \notin L
  PROVE  /\ p[l] = Nil => \A k \in L \ {l} : rank[k] > rank[l]
         /\ p[l] # Nil => /\ p[l] \in L \ {l} /\ rank[p[l]] < rank[l]
                          /\ \A k \in L \ {l} : rank[k] > rank[p[l]] <=> rank[k] > rank[l]
<1>1. \A k \in L : rank[k] \in Nat /\ (rank[k] = rank[l] => k = l)
  BY DEF Ordered
<1>2. CASE p[l] = Nil
  <2>1. \A k \in L : rank[l] <= rank[k]
    BY <1>2 DEF Ordered
  <2>2. QED
    BY <2>1, <1>1, <1>2
<1>3. CASE p[l] # Nil
  <2>1. /\ p[l] \in L /\ rank[p[l]] < rank[l]
        /\ \A k \in L : rank[k] < rank[l] => rank[k] <= rank[p[l]]
    BY <1>3 DEF Ordered
  <2>2. QED
    BY <2>1, <1>1
<1>4. QED
  BY <1>2, <1>3

(* The head is taken off: the list begins with the next older node.        *)
LEMMA TakeOffHead ==
  ASSUME NEW L \in SUBSET Node, NEW h \in L, NEW p, NEW rank \in [L -> Nat],
         Ordered(L, h, p, rank)
  PROVE  Ordered(L \ {h}, p[h], p, [m \in L \ {h} |-> rank[m]])
<1> DEFINE r == [m \in L \ {h} |-> rank[m]]
<1>1. \A m \in L \ {h} : r[m] = rank[m]
  OBVIOUS
<1>2. \A m \in L \ {h} : rank[m] < rank[h] /\ rank[m] \in Nat /\ rank[h] \in Nat
  BY NodeAssumption DEF Ordered
<1> HIDE DEF r
<1>3. \A a, b \in L \ {h} : r[a] = r[b] => a = b
  BY <1>1 DEF Ordered
<1>4. \A a, b \in L \ {h} :
        p[a] = b <=> /\ r[b] < r[a]
                     /\ \A k \in L \ {h} : r[k] < r[a] => r[k] <= r[b]
  BY <1>1, <1>2 DEF Ordered
<1>5. \A a \in L \ {h} : p[a] \in L \ {h} \/ (p[a] = Nil /\ \A k \in L \ {h} : r[a] <= r[k])
  BY <1>1, <1>2 DEF Ordered
<1>6. (p[h] \in L \ {h} /\ \A k \in L \ {h} : r[k] <= r[p[h]]) \/ (p[h] = Nil /\ L \ {h} = {})
  <2>1. CASE p[h] \in L
    BY <2>1, <1>1, <1>2 DEF Ordered
  <2>2. CASE p[h] \notin L
    BY <2>2, <1>2 DEF Ordered
  <2>3. QED
    BY <2>1, <2>2
<1>7. QED
  BY <1>3, <1>4, <1>5, <1>6 DEF r, Ordered

-----------------------------------------------------------------------------
(* The list shares no node with Nil, and is finite.                        *)
LEMMA LiveFinite ==
  ASSUME TypeOK
  PROVE  /\ Nil \notin live /\ IsFiniteSet(live) /\ Cardinality(live) \in Nat
         /\ \A n : /\ n \notin live => Cardinality(live \cup {n}) = Cardinality(live) + 1
                  /\ n \in live => Cardinality(live \ {n}) = Cardinality(live) - 1
<1>1. Nil \notin live /\ IsFiniteSet(live)
  BY NodeAssumption, FS_Subset DEF TypeOK
<1>2. QED
  BY <1>1, FS_CardinalityType, FS_AddElement, FS_RemoveElement

(* Popping takes nothing else off, pushing puts nothing else on.           *)
LEMMA Popped ==
  ASSUME TypeOK, stack # << >>, stack' = SubSeq(stack, 1, Len(stack) - 1)
  PROVE  /\ stack' \in Seq(Node \cup {Plain})
         /\ OnStack' \subseteq OnStack
         /\ OnStack = OnStack' \cup ({stack[Len(stack)]} \cap Node)
<1> DEFINE l == Len(stack)
<1>1. l \in Nat \ {0} /\ DOMAIN stack = 1 .. l /\ \A i \in 1 .. l : stack[i] \in Node \cup {Plain}
  BY DEF TypeOK
<1>2. /\ stack' \in Seq(Node \cup {Plain}) /\ Len(stack') = l - 1
      /\ \A i \in 1 .. (l - 1) : stack'[i] = stack[i]
  BY <1>1 DEF TypeOK
<1>3. DOMAIN stack' = 1 .. (l - 1)
  BY <1>2
<1>4. OnStack' \subseteq OnStack
  BY <1>1, <1>2, <1>3 DEF OnStack
<1>5. ASSUME NEW n \in OnStack, n # stack[l]
      PROVE  n \in OnStack'
  <2>1. PICK i \in 1 .. l : n = stack[i] /\ n \in Node
    BY <1>1 DEF OnStack
  <2>2. i \in 1 .. (l - 1)
    BY <2>1, <1>1, <1>5
  <2>3. QED
    BY <2>1, <2>2, <1>2, <1>3 DEF OnStack
<1>6. {stack[l]} \cap Node \subseteq OnStack /\ OnStack \subseteq Node
  BY <1>1 DEF OnStack
<1>7. OnStack = OnStack' \cup ({stack[l]} \cap Node)
  BY <1>4, <1>5, <1>6
<1>8. QED
  BY <1>2, <1>4, <1>7

LEMMA Pushed ==
  ASSUME TypeOK, NEW v \in Node \cup {Plain}, stack' = Append(stack, v)
  PROVE  /\ stack' \in Seq(Node \cup {Plain})
         /\ OnStack' \subseteq OnStack \cup {v}
  BY DEF TypeOK, OnStack

LEMMA InitIInv == Init => IInv
<1> SUFFICES ASSUME Init PROVE IInv
  OBVIOUS
<1> USE DEF Init
<1>1. TypeOK
  BY DEF TypeOK
<1>2. Held
  BY DEF Held, OnStack
<1>3. Counted
  BY FS_EmptySet DEF Counted
<1>4. Listed
  <2> DEFINE r == [n \in {} |-> 0]
  <2>1. r \in [live -> Nat]
    OBVIOUS
  <2>2. Ordered(live, head, prev, r) /\ Mirrored(live, head, prev, next)
    BY DEF Ordered, Mirrored
  <2>3. QED
    BY <2>1, <2>2 DEF Listed
<1>5. QED
  BY <1>1, <1>2, <1>3, <1>4 DEF IInv

(* createObject keeps the list in order and counts the node.               *)
LEMMA AllocKeeps ==
  ASSUME IInv, NEW n \in Node, Alloc(n)
  PROVE  IInv'
<1>1. /\ phase = "run" /\ phase' = "run" /\ n \notin live /\ stack' = stack
      /\ marked' = marked \ {n} /\ last' = last /\ roots' = roots
      /\ head' = n /\ prev' = [prev EXCEPT ![n] = head]
      /\ next' = Linked([next EXCEPT ![n] = Nil], head, n)
      /\ live' = live \cup {n} /\ size' = size + 1
  BY DEF Alloc, NewNode
<1>2. PICK rank \in [live -> Nat] :
        Ordered(live, head, prev, rank) /\ Mirrored(live, head, prev, next)
  BY <1>1 DEF IInv, Listed
<1>3. live \in SUBSET Node /\ n \in Node \ live /\ prev \in [Node -> Node \cup {Nil}]
  BY <1>1 DEF IInv, TypeOK
<1>4. PICK r \in [live \cup {n} -> Nat] :
        Ordered(live \cup {n}, n, [prev EXCEPT ![n] = head], r)
  BY <1>2, <1>3, AddNewest
<1>5. Mirrored(live \cup {n}, n, prev', next')
  <2>1. Nil \notin live /\ Nil # n
    BY <1>3, LiveFinite, NodeAssumption DEF IInv
  <2>2. head \in live \/ (head = Nil /\ live = {})
    BY <1>2 DEF Ordered
  <2>3. prev'[n] = head /\ \A m \in live : prev'[m] = prev[m] /\ m # n
    BY <1>1, <1>3
  <2>4. next'[n] = Nil /\ \A m \in live : next'[m] = IF m = head THEN n ELSE next[m]
    BY <1>1, <1>3, <2>1, <2>2 DEF Linked, TypeOK, IInv
  <2>5. \A m \in live : prev[m] # n /\ next[m] # n
    BY <1>2, <1>3, <2>1 DEF Ordered, Mirrored
  <2>6. \A m \in live \cup {n} : next'[m] \in live \cup {n, Nil} /\ (next'[m] = Nil <=> m = n)
    BY <1>2, <2>1, <2>4 DEF Mirrored
  <2>7. \A a, b \in live \cup {n} : prev'[a] = b <=> next'[b] = a
    BY <1>2, <2>1, <2>2, <2>3, <2>4, <2>5 DEF Mirrored
  <2>8. QED
    BY <2>6, <2>7 DEF Mirrored
<1>6. Listed'
  BY <1>1, <1>4, <1>5 DEF Listed
<1>7. TypeOK'
  BY <1>1, <1>3 DEF IInv, TypeOK, Linked
<1>8. Held'
  BY <1>1 DEF IInv, Held, OnStack
<1>9. Counted'
  <2>1. Cardinality(live \cup {n}) = Cardinality(live) + 1
    <3>1. IsFiniteSet(live)
      BY LiveFinite DEF IInv
    <3>2. QED
      BY <1>3, <3>1, FS_AddElement
  <2>2. QED
    BY <1>1, <2>1 DEF IInv, Counted
<1>10. QED
  BY <1>6, <1>7, <1>8, <1>9 DEF IInv

(* Push, Pop, Halt, Exit and Mark leave the list as it is.                 *)
LEMMA RunKeeps ==
  ASSUME IInv, (\E v \in live \cup {Plain} : Push(v)) \/ Pop \/ Halt \/ Exit \/ Mark
  PROVE  IInv'
<1> USE DEF IInv, links
<1>1. CASE \E v \in live \cup {Plain} : Push(v)
  <2>1. PICK v \in live \cup {Plain} : Push(v)
    BY <1>1
  <2>2. TypeOK' /\ Held'
    BY <2>1, Pushed, NodeAssumption DEF TypeOK, Held, Push, OnStack
  <2>3. Listed' /\ Counted'
    BY <2>1 DEF Listed, Counted, Push
  <2>4. QED
    BY <2>2, <2>3
<1>2. CASE Pop
  <2>1. TypeOK' /\ Held'
    BY <1>2, Popped DEF TypeOK, Held, Pop
  <2>2. Listed' /\ Counted'
    BY <1>2 DEF Listed, Counted, Pop
  <2>3. QED
    BY <2>1, <2>2
<1>3. CASE Exit
  <2>1. TypeOK' /\ Held'
    BY <1>3 DEF TypeOK, Held, Exit, OnStack
  <2>2. Listed' /\ Counted'
    BY <1>3 DEF Listed, Counted, Exit
  <2>3. QED
    BY <2>1, <2>2
<1>4. CASE Mark
  <2>1. TypeOK' /\ Held'
    BY <1>4, Popped DEF TypeOK, Held, Mark
  <2>2. Listed' /\ Counted'
    BY <1>4 DEF Listed, Counted, Mark
  <2>3. QED
    BY <2>1, <2>2
<1>5. CASE Halt
  <2>1. TypeOK' /\ Held'
    BY <1>5 DEF TypeOK, Held, Halt
  <2>2. Listed' /\ Counted'
    BY <1>5 DEF Listed, Counted, Halt
  <2>3. QED
    BY <2>1, <2>2
<1>6. QED
  BY <1>1, <1>2, <1>3, <1>4, <1>5

(* The sweep begins at the youngest node, with everything ahead of it.     *)
LEMMA MarkDoneKeeps ==
  ASSUME IInv, MarkDone
  PROVE  IInv'
<1> USE DEF IInv, MarkDone, links
<1>1. roots = marked /\ marked \subseteq live
  <2>1. OnStack = {}
    BY DEF OnStack
  <2>2. QED
    BY <2>1 DEF Held, TypeOK
<1>2. TypeOK' /\ Held' /\ Counted'
  BY <1>1 DEF TypeOK, Held, Counted
<1>3. PICK rank \in [live -> Nat] :
        Ordered(live, head, prev, rank) /\ Mirrored(live, head, prev, next)
  BY DEF Listed
<1>4. SweptTo(live, head, marked, roots, rank)
  BY <1>1, <1>3, LiveFinite DEF Ordered, SweptTo
<1>5. Listed'
  BY <1>3, <1>4 DEF Listed
<1>6. QED
  BY <1>2, <1>5

(* A step of the sweep to the next older node.                             *)
LEMMA SweepKeepKeeps ==
  ASSUME IInv, SweepKeep
  PROVE  IInv'
<1> USE DEF IInv, SweepKeep, links
<1>1. PICK rank \in [live -> Nat] :
        /\ Ordered(live, head, prev, rank) /\ Mirrored(live, head, prev, next)
        /\ SweptTo(live, last, marked, roots, rank)
  BY DEF Listed
<1>2. last \in live /\ last # Nil
  BY LiveFinite DEF TypeOK
<1>3. TypeOK' /\ Held' /\ Counted'
  BY <1>2 DEF TypeOK, Held, Counted
<1>4. last \in roots /\ \A n \in live : rank[n] \in Nat
  BY <1>1, <1>2 DEF SweptTo
<1>5. SweptTo(live, prev[last], marked \ {last}, roots, rank)
  <2>1. CASE prev[last] = Nil
    <3>1. \A k \in live \ {last} : rank[k] > rank[last]
      BY <2>1, <1>1, <1>2, NextOlder, LiveFinite
    <3>2. \A k \in live : k \in roots /\ k \notin marked \ {last}
      BY <3>1, <1>1, <1>2, <1>4 DEF SweptTo
    <3>3. QED
      BY <2>1, <3>2, <1>3 DEF SweptTo, Held, TypeOK
  <2>2. CASE prev[last] # Nil
    <3>1. /\ prev[last] \in live \ {last} /\ rank[prev[last]] < rank[last]
          /\ \A k \in live \ {last} : rank[k] > rank[prev[last]] <=> rank[k] > rank[last]
      BY <2>2, <1>1, <1>2, NextOlder, LiveFinite
    <3>2. QED
      BY <2>2, <3>1, <1>1, <1>2, <1>4 DEF SweptTo
  <2>3. QED
    BY <2>1, <2>2
<1>6. Listed'
  BY <1>1, <1>5 DEF Listed
<1>7. QED
  BY <1>3, <1>6

(* A node that is not to be kept is taken out of the list and freed.       *)
LEMMA SweepDeleteKeeps ==
  ASSUME IInv, SweepDelete
  PROVE  IInv'
<1> USE DEF IInv
<1>1. PICK rank \in [live -> Nat] :
        /\ Ordered(live, head, prev, rank) /\ Mirrored(live, head, prev, next)
        /\ SweptTo(live, last, marked, roots, rank)
  BY DEF Listed, SweepDelete, Delete
<1>2. last \in live /\ last # Nil /\ last \notin marked /\ last \notin roots
  BY <1>1 DEF SweptTo, SweepDelete, Delete
<1>3. \A n \in live : rank[n] \in Nat
  OBVIOUS
<1> DEFINE r == [m \in live \ {last} |-> rank[m]]
<1>4. Ordered(live', head', prev', r) /\ Mirrored(live', head', prev', next')
  <2>1. /\ live \in SUBSET Node
        /\ prev \in [Node -> Node \cup {Nil}] /\ next \in [Node -> Node \cup {Nil}]
    BY DEF TypeOK
  <2>2. /\ live' = live \ {last}
        /\ head' = IF next[last] = Nil THEN prev[last] ELSE head
        /\ prev' = Linked(prev, next[last], prev[last])
        /\ next' = Linked(next, prev[last], next[last])
    BY DEF SweepDelete, Delete
  <2>3. LET g == IF next[last] = Nil THEN prev[last] ELSE head
            p == Linked(prev, next[last], prev[last])
            x == Linked(next, prev[last], next[last])
        IN  Ordered(live \ {last}, g, p, r) /\ Mirrored(live \ {last}, g, p, x)
    BY <1>1, <1>2, <2>1, TakeOut
  <2> HIDE DEF r
  <2>4. QED
    BY <2>2, <2>3
<1>5. \A n \in live \ {last} : r[n] = rank[n]
  OBVIOUS
<1>6. r \in [live' -> Nat]
  BY <1>3 DEF SweepDelete, Delete
<1> HIDE DEF r
<1>7. SweptTo(live \ {last}, prev[last], marked, roots, r)
  <2>1. CASE prev[last] = Nil
    <3>1. \A k \in live \ {last} : rank[k] > rank[last]
      BY <2>1, <1>1, <1>2, NextOlder, LiveFinite
    <3>2. \A k \in live \ {last} : k \in roots /\ k \notin marked
      BY <3>1, <1>1, <1>2 DEF SweptTo
    <3>3. QED
      BY <2>1, <3>2, <1>2 DEF SweptTo, Held, TypeOK, SweepDelete, Delete
  <2>2. CASE prev[last] # Nil
    <3>1. /\ prev[last] \in live \ {last} /\ rank[prev[last]] < rank[last]
          /\ \A k \in live \ {last} : rank[k] > rank[prev[last]] <=> rank[k] > rank[last]
      BY <2>2, <1>1, <1>2, NextOlder, LiveFinite
    <3>2. /\ \A k \in live : rank[k] > rank[last] => k \in roots /\ k \notin marked
          /\ \A k \in live : rank[k] <= rank[last] => (k \in marked <=> k \in roots)
      BY <1>1, <1>2 DEF SweptTo
    <3>3. /\ r[prev[last]] = rank[prev[last]]
          /\ \A k \in live \ {last} :
               /\ r[k] > r[prev[last]] <=> rank[k] > rank[last]
               /\ r[k] <= r[prev[last]] <=> rank[k] <= rank[last]
      BY <3>1, <1>2, <1>3, <1>5
    <3>4. QED
      BY <2>2, <3>1, <3>2, <3>3 DEF SweptTo
  <2>3. QED
    BY <2>1, <2>2
<1>8. Listed'
  BY <1>4, <1>6, <1>7 DEF Listed, SweepDelete, Delete
<1>9. TypeOK'
  <2>1. size' \in Nat
    BY <1>2, LiveFinite, FS_RemoveElement, FS_CardinalityType DEF Counted, SweepDelete, Delete
  <2>2. QED
    BY <1>2, <2>1 DEF TypeOK, Linked, SweepDelete, Delete
<1>10. Held'
  BY <1>2 DEF Held, TypeOK, SweepDelete, Delete
<1>11. Counted'
  BY <1>2, LiveFinite DEF Counted, SweepDelete, Delete
<1>12. QED
  BY <1>8, <1>9, <1>10, <1>11

(* The sweep has ended, and heap_destroy frees from the head.              *)
LEMMA EndKeeps ==
  ASSUME IInv, SweepDone \/ Destroy
  PROVE  IInv'
<1> USE DEF IInv
<1>1. CASE SweepDone
  <2> USE <1>1 DEF SweepDone, links
  <2>1. PICK rank \in [live -> Nat] :
          Ordered(live, head, prev, rank) /\ SweptTo(live, last, marked, roots, rank)
    BY DEF Listed
  <2>2. TypeOK' /\ Held' /\ Counted'
    BY <2>1 DEF TypeOK, Held, Counted, SweptTo
  <2>3. Listed'
    BY <2>1 DEF Listed
  <2>4. QED
    BY <2>2, <2>3
<1>2. CASE Destroy
  <2> USE <1>2 DEF Destroy
  <2>1. PICK rank \in [live -> Nat] : Ordered(live, head, prev, rank)
    BY DEF Listed
  <2>2. head \in live /\ live \in SUBSET Node
    BY <2>1 DEF Ordered, TypeOK
  <2>3. Ordered(live', head', prev', [m \in live \ {head} |-> rank[m]])
    BY <2>1, <2>2, TakeOffHead
  <2>4. [m \in live \ {head} |-> rank[m]] \in [live' -> Nat]
    OBVIOUS
  <2>5. Listed'
    BY <2>3, <2>4 DEF Listed
  <2>6. Counted' /\ size' \in Nat
    BY <2>2, LiveFinite, FS_RemoveElement, FS_CardinalityType DEF Counted
  <2>7. TypeOK' /\ Held'
    BY <2>2, <2>6 DEF TypeOK, Held
  <2>8. QED
    BY <2>5, <2>6, <2>7
<1>3. QED
  BY <1>1, <1>2

(* Every step keeps the inductive invariant.                               *)
LEMMA NextKeeps == IInv /\ [Next]_vars => IInv'
<1> SUFFICES ASSUME IInv, [Next]_vars
             PROVE  IInv'
  OBVIOUS
<1>1. CASE UNCHANGED vars
  BY <1>1 DEF IInv, TypeOK, Held, Listed, Counted, OnStack, vars
<1>2. CASE Next
  BY <1>1, <1>2, AllocKeeps, RunKeeps, MarkDoneKeeps, SweepKeepKeeps,
     SweepDeleteKeeps, EndKeeps DEF Next, Shutdown
<1>3. QED
  BY <1>1, <1>2

LEMMA Inductive == Spec => []IInv
  BY InitIInv, NextKeeps, PTL DEF Spec

-----------------------------------------------------------------------------
(* The list is the same list in both directions and leads to no freed      *)
(* node, whatever createObject, the sweep and heap_destroy did.            *)
THEOREM ListWellLinked == Spec => []WellLinked
<1>1. IInv => WellLinked
  <2> SUFFICES ASSUME IInv PROVE WellLinked
    OBVIOUS
  <2>1. PICK rank \in [live -> Nat] :
          /\ Ordered(live, head, prev, rank)
          /\ phase # "destroy" => Mirrored(live, head, prev, next)
    BY DEF IInv, Listed
  <2>2. QED
    BY <2>1 DEF WellLinked, Ordered, Mirrored
<1>2. QED
  BY <1>1, Inductive, PTL

(* The sweep keeps what the stack held when the interpreter returned, frees*)
(* the rest, and leaves no mark behind.                                    *)
THEOREM CollectedExactly == Spec => []Collected
<1>1. IInv => Collected
  BY DEF IInv, Listed, Held, SweptTo, Collected
<1>2. QED
  BY <1>1, Inductive, PTL

(* What the recursion of Reached computes, step by step.                   *)
LEMMA ReachedSteps ==
  /\ Reached[0] = {head} \ {Nil}
  /\ \A i \in 1 .. Cardinality(Node) : Reached[i] = Older(Reached[i - 1])
<1> DEFINE N == Cardinality(Node)
           W(f, k) == f = [i \in 0 .. k |-> IF i = 0 THEN {head} \ {Nil} ELSE Older(f[i - 1])]
           S == {k \in Nat : \E f : W(f, k)}
<1>1. N \in Nat
  BY NodeAssumption, FS_CardinalityType
<1>2. 0 \in S
  <2>1. W([i \in 0 .. 0 |-> {head} \ {Nil}], 0)
    OBVIOUS
  <2>2. QED
    BY <2>1
<1>3. ASSUME NEW k \in Nat, k \in S
      PROVE  k + 1 \in S
  <2>1. PICK f : W(f, k)
    BY <1>3
  <2> DEFINE g == [i \in 0 .. k + 1 |-> IF i = 0 THEN {head} \ {Nil} ELSE Older(f[i - 1])]
  <2>2. \A i \in 0 .. k : f[i] = IF i = 0 THEN {head} \ {Nil} ELSE Older(f[i - 1])
    BY <2>1
  <2>3. \A i \in 0 .. k + 1 : g[i] = IF i = 0 THEN {head} \ {Nil} ELSE Older(f[i - 1])
    OBVIOUS
  <2>4. g = [i \in 0 .. k + 1 |-> g[i]]
    OBVIOUS
  <2> HIDE DEF g
  <2>5. \A i \in 0 .. k + 1 : i \in 0 .. k \/ i = k + 1
    OBVIOUS
  <2>6. \A i \in 0 .. k : g[i] = f[i]
    BY <2>2, <2>3
  <2>7. \A i \in 0 .. k + 1 : g[i] = IF i = 0 THEN {head} \ {Nil} ELSE Older(g[i - 1])
    BY <2>3, <2>6
  <2>8. W(g, k + 1)
    BY <2>4, <2>7
  <2>9. QED
    BY <2>8
<1>4. \E f : W(f, N)
  <2>1. Nat \subseteq S
    <3> HIDE DEF S
    <3> QED BY <1>2, <1>3, SetInduction
  <2>2. QED
    BY <2>1, <1>1
<1>5. W(Reached, N)
  BY <1>4 DEF Reached
<1>6. \A i \in 0 .. N : Reached[i] = IF i = 0 THEN {head} \ {Nil} ELSE Older(Reached[i - 1])
  BY <1>5
<1> HIDE DEF W
<1>7. 0 \in 0 .. N /\ \A i \in 1 .. N : i \in 0 .. N /\ i # 0
  BY <1>1
<1>8. QED
  BY <1>6, <1>7

(* A list that has not been read to its end yields another node at each    *)
(* step: of the nodes not reached, the youngest is the `prev` of one that  *)
(* was.                                                                    *)
LEMMA OlderGrows ==
  ASSUME IInv, NEW N \in SUBSET live, N # live, head \in N \/ head = Nil
  PROVE  /\ Older(N) \in SUBSET live
         /\ Cardinality(Older(N)) >= Cardinality(N) + 1
<1>1. PICK rank \in [live -> Nat] : Ordered(live, head, prev, rank)
  BY DEF IInv, Listed
<1>2. head \in live /\ \A k \in live : rank[k] <= rank[head]
  BY <1>1 DEF Ordered
<1>3. Older(N) \in SUBSET live
  BY <1>1 DEF Ordered, Older
<1>4. PICK n \in live \ N : \A k \in live \ N : rank[k] <= rank[n]
  <2> DEFINE B == {rank[head] - rank[k] : k \in live \ N}
  <2>1. B \in SUBSET Nat /\ B # {}
    BY <1>2
  <2>2. PICK m \in B : \A k \in B : m <= k
    <3> HIDE DEF B
    <3> QED BY <2>1, LeastNatural
  <2>3. PICK n \in live \ N : m = rank[head] - rank[n]
    BY <2>2
  <2>4. \A k \in live \ N : rank[head] - rank[n] <= rank[head] - rank[k]
    BY <2>2, <2>3
  <2>5. QED
    BY <2>4, <1>2
<1>5. PICK m \in live : rank[n] < rank[m]
                       /\ \A k \in live : rank[n] < rank[k] => rank[m] <= rank[k]
  <2> DEFINE B == {rank[k] : k \in {j \in live : rank[n] < rank[j]}}
  <2>1. rank[n] < rank[head]
    BY <1>2, <1>4, LiveFinite, <1>1 DEF Ordered, IInv
  <2>2. B \in SUBSET Nat /\ B # {}
    BY <1>2, <2>1
  <2>3. PICK b \in B : \A k \in B : b <= k
    <3> HIDE DEF B
    <3> QED BY <2>2, LeastNatural
  <2>4. QED
    BY <2>3
<1>6. prev[m] = n /\ m \in N
  <2>1. \A k \in live : rank[k] < rank[m] => rank[k] <= rank[n]
    BY <1>4, <1>5
  <2>2. m \in N
    BY <1>4, <1>5
  <2>3. QED
    BY <1>1, <1>5, <2>1, <2>2 DEF Ordered
<1>7. n \in Older(N) \ N
  BY <1>4, <1>6, LiveFinite DEF Older, IInv
<1>8. /\ IsFiniteSet(Older(N)) /\ Cardinality(Older(N)) \in Nat
      /\ IsFiniteSet(N) /\ Cardinality(N) \in Nat
  BY <1>3, LiveFinite, FS_Subset, FS_CardinalityType DEF IInv
<1>9. Cardinality(N \cup {n}) = Cardinality(N) + 1 /\ N \cup {n} \in SUBSET Older(N)
  BY <1>4, <1>7, <1>8, FS_AddElement DEF Older
<1>10. Cardinality(N \cup {n}) <= Cardinality(Older(N))
  BY <1>8, <1>9, FS_Subset
<1>11. QED
  BY <1>3, <1>8, <1>9, <1>10

(* Every allocated node is on the list and is counted: no sweep and no     *)
(* heap_destroy leaves one behind.                                         *)
THEOREM NothingLost == Spec => []AllReached
<1> DEFINE N == Cardinality(Node)
           S == {i \in Nat : i <= N =>
                   /\ Reached[i] \in SUBSET live /\ (head \in Reached[i] \/ head = Nil)
                   /\ Reached[i] = live \/ Cardinality(Reached[i]) >= i + 1}
<1>1. ASSUME IInv
      PROVE  AllReached
  <2>1. N \in Nat /\ Cardinality(live) <= N
    BY <1>1, NodeAssumption, FS_CardinalityType, FS_Subset DEF IInv, TypeOK
  <2>2. (head \in live \/ (head = Nil /\ live = {})) /\ \A n \in live : prev[n] \in live \cup {Nil}
    BY <1>1 DEF IInv, Listed, Ordered
  <2>3. 0 \in S
    <3>1. Reached[0] = {head} \ {Nil}
      BY ReachedSteps
    <3>2. head \in live => Reached[0] = {head}
      BY <1>1, <3>1, LiveFinite DEF IInv
    <3>3. Cardinality({head}) = 1
      BY FS_Singleton
    <3>4. QED
      BY <2>2, <3>1, <3>2, <3>3
  <2>4. ASSUME NEW i \in Nat, i \in S
        PROVE  i + 1 \in S
    <3> SUFFICES ASSUME i + 1 <= N
                 PROVE  /\ Reached[i + 1] \in SUBSET live
                        /\ head \in Reached[i + 1] \/ head = Nil
                        /\ Reached[i + 1] = live \/ Cardinality(Reached[i + 1]) >= (i + 1) + 1
      OBVIOUS
    <3>1. Reached[i + 1] = Older(Reached[i])
      BY <2>1, ReachedSteps
    <3>2. /\ Reached[i] \in SUBSET live /\ (head \in Reached[i] \/ head = Nil)
          /\ Reached[i] = live \/ Cardinality(Reached[i]) >= i + 1
      BY <2>1, <2>4
    <3>3. CASE Reached[i] = live
      BY <3>1, <3>2, <3>3, <2>2 DEF Older
    <3>4. CASE Reached[i] # live
      <4>1. /\ Older(Reached[i]) \in SUBSET live
            /\ Cardinality(Older(Reached[i])) >= Cardinality(Reached[i]) + 1
        BY <1>1, <3>2, <3>4, OlderGrows
      <4>2. /\ Cardinality(Reached[i]) \in Nat
            /\ Cardinality(Older(Reached[i])) \in Nat
        BY <1>1, <3>2, <4>1, LiveFinite, FS_Subset, FS_CardinalityType DEF IInv
      <4>3. head \in Older(Reached[i]) \/ head = Nil
        BY <3>2 DEF Older
      <4>4. QED
        BY <3>1, <3>2, <3>4, <4>1, <4>2, <4>3
    <3>5. QED
      BY <3>3, <3>4
  <2>5. N \in S
    <3> HIDE DEF S
    <3> QED BY <2>1, <2>3, <2>4, SetInduction
  <2>6. Reached[N] \in SUBSET live /\ (Reached[N] = live \/ Cardinality(Reached[N]) >= N + 1)
    BY <2>1, <2>5
  <2>7. Cardinality(Reached[N]) \in Nat /\ Cardinality(Reached[N]) <= Cardinality(live)
        /\ Cardinality(live) \in Nat
    BY <1>1, <2>6, LiveFinite, FS_Subset, FS_CardinalityType DEF IInv
  <2>8. Reached[N] = live
    BY <2>1, <2>6, <2>7
  <2>9. QED
    BY <1>1, <2>8 DEF AllReached, IInv, Counted
<1>2. QED
  BY <1>1, Inductive, PTL

=============================================================================
